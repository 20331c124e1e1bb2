CONSTANTS
  NULL = NULL
  Ids = {i1, i2, i3, i4}
  Keys = {k1, k2, k3, k4}
  Persons = {"ann", "bob", "cid"}
  Emails = {"ann@old", "ann@new", "bob@mail", "cid@mail"}
  Users = {"user_a", "user_b", "user_c"}
  Members = {"mem_1", "mem_2", "mem_3", "mem_4"}
  Memberships = {"mem_1", "mem_2", "mem_3", "mem_4"}
  Calls <- MCCalls
  Workers = {w1, w2}
  MaxCalls = 4
SPECIFICATION Spec
SYMMETRY Symmetry
INVARIANTS OneCustomerPerPerson CoverageIsFound
CHECK_DEADLOCK FALSE
