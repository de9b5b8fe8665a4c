SPECIFICATION Spec
CONSTANTS
  Users = {u1, u2}
  Guests = {}
  Requests = {q1, q2, q3}
  MaxStops = 2
  PoolSize = 2
  Kinds <- AllKinds
  Redis = FALSE
  HostDeletes = FALSE
  DecksFit = TRUE
  None = None
INVARIANTS
  OneRoomPerUser
CHECK_DEADLOCK FALSE
