SPECIFICATION FairSpec
CONSTANTS
  Users = {u1, u2}
  Guests = {}
  Requests = {q1, q2, q3}
  MaxStops = 1
  PoolSize = 1
  Kinds <- Public
  Redis = TRUE
  HostDeletes = TRUE
  DecksFit = FALSE
  None = None
INVARIANTS
  SavedOnce
  RunningNotStopped
PROPERTIES
  NoStartAfterStop
  RoomsRemoved
  ShutdownEnds
CHECK_DEADLOCK FALSE
