-------------------------- MODULE MCSeatsAndLeases --------------------------
(***************************************************************************)
(* LicenseCheck with one of three concerns in each behaviour: two machines *)
(* that are checked at the same time; the seats of three machines while    *)
(* coverage lasts; or the leases of one machine with both clients while    *)
(* coverage ends and changes.                                              *)
(***************************************************************************)
EXTENDS MCLicenseCheck

VARIABLE concern

ConcernInit ==
  /\ Init
  /\ \/ concern = "race" /\ coverage \in [Products -> SeatEnds] /\ coverage["orb"] = 0
     \/ concern = "seats" /\ coverage = [p \in Products |-> NULL]
     \/ concern = "leases"

MachinesOf(k) == {worker'[k].machine} \ {NULL}

Concerned ==
  /\ concern # "leases" => \A k \in Workers : worker'[k].client # "nt8"
  /\ concern # "race"   => Cardinality({k \in Workers : worker'[k] # Idle}) <= 1
  /\ \/ /\ concern = "race"
        /\ now' <= 1
        /\ coverage'["duo"] \in SeatEnds /\ coverage'["orb"] = 0
        /\ Cardinality(Rows' \cup UNION {MachinesOf(k) : k \in Workers}) <= 2
     \/ concern = "seats" /\ coverage' = coverage /\ now' <= Grace
     \/ /\ concern = "leases" /\ edited' = edited
        /\ \A k \in Workers : MachinesOf(k) # {} => Rows \subseteq MachinesOf(k)

ConcernNext == Next /\ Concerned /\ concern' = concern

AnyMachineAndWorker == AnyMachine \cup Permutations(Workers)

ConcernSpec == ConcernInit /\ [][ConcernNext]_<<vars, concern>>
=============================================================================
