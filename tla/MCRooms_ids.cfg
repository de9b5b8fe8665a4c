SPECIFICATION Spec
CONSTANTS
  Users = {u1}
  Guests = {g1}
  Requests = {q1, q2, q3}
  MaxStops = 2
  PoolSize = 2
  Kinds <- Public
  Redis = TRUE
  HostDeletes = TRUE
  DecksFit = FALSE
  None = None
SYMMETRY Alike
INVARIANTS
  IdsConserved
  LiveRoomIsKept
  ExitSafe
CHECK_DEADLOCK FALSE
