--------------------------- MODULE MCTradovateOAuth ---------------------------
(***************************************************************************)
(* An instance of TradovateOAuth for TLC: one desktop has up to two        *)
(* logins, a second one knows their states and session ids.                *)
(***************************************************************************)
EXTENDS TradovateOAuth

OwnerAndStranger == {"owner", "stranger"}
Owner            == {"owner"}
=============================================================================
