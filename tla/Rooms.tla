------------------------------- MODULE Rooms -------------------------------
(***************************************************************************)
(* The rooms of the match server: RoomsService and Room of                 *)
(* packages/server/src/rooms/rooms.service.ts.                             *)
(*                                                                         *)
(* A request of a player is a handler that is suspended at its awaits (the *)
(* database, redis, the verification of a deck); what is between two       *)
(* awaits is one action, and req[q] holds what the handler of request q    *)
(* carries over them.  The room that request q creates is room[q]; the     *)
(* service knows it only by rooms, a map from ids, and ids are taken from  *)
(* the front of pool and put back at its end.  The match of a room is here *)
(* only running or over: GameFlow is about what happens in between.        *)
(*                                                                         *)
(* Two fields of a room are history, read by no action: stops counts the   *)
(* calls of its stop(), shared says that its id was not, or not any more,  *)
(* the one at the front of the pool when it got it.                        *)
(***************************************************************************)
EXTENDS Naturals, FiniteSets, Sequences, Functions

CONSTANTS
  Users, Guests,   \* players: users have an account, a guest one request
  Requests,        \* bound: the create and join requests that are made
  PoolSize,        \* bound: ids in roomIdPool (10000 in the code)
  Kinds,           \* the [private, allowGuest] of the rooms created
  Redis,           \* REDIS_URL is set: createRoom and onStop wait for redis
  HostDeletes,     \* hosts call deleteRoom
  MaxStops,        \* bound: rooms stopped that often are not deleted again
  DecksFit,        \* createInitialState never fails on verified decks
  None

ASSUME RoomsConstants ==
  /\ IsFiniteSet(Requests) /\ Users \intersect Guests = {}
  /\ PoolSize \in Nat \ {0} /\ MaxStops \in Nat
  /\ Kinds \subseteq [private : BOOLEAN, allowGuest : BOOLEAN]
  /\ Redis \in BOOLEAN /\ HostDeletes \in BOOLEAN /\ DecksFit \in BOOLEAN
  /\ None \notin Users \union Guests \union Requests

Players == Users \union Guests
Ids     == 1..PoolSize

VARIABLES
  pool,       \* RoomsService.roomIdPool
  rooms,      \* RoomsService.rooms: id -> the request that made the room, None
  req,        \* the handlers in flight
  room,       \* the Room objects
  removing,   \* per room: runs of its stop handler that have not removed it yet
  shutdown,   \* shutdownResolvers # null
  exited      \* the process is gone

vars == <<pool, rooms, req, room, removing, shutdown, exited>>

NoRoom == [id |-> 0, host |-> None, participant |-> None,
           kind |-> [private |-> FALSE, allowGuest |-> FALSE],
           game |-> "none", stopped |-> FALSE, timer |-> FALSE, saved |-> 0,
           failed |-> FALSE, stops |-> 0, shared |-> FALSE]
Unused == [at |-> "idle", who |-> None, target |-> None, id |-> 0,
           kind |-> NoRoom.kind]

Init ==
  /\ pool = [i \in Ids |-> i]
  /\ rooms = [i \in Ids |-> None]
  /\ req = [q \in Requests |-> Unused]
  /\ room = [q \in Requests |-> NoRoom]
  /\ removing = [q \in Requests |-> 0]
  /\ shutdown = FALSE /\ exited = FALSE

Opened(r)     == room[r].id # 0
Status(r)     == CASE room[r].game = "none" -> "Waiting"
                   [] room[r].game # "none" /\ room[r].stopped -> "Finished"
                   [] OTHER -> "Playing"
PlayersOf(r)  == {room[r].host, room[r].participant} \ {None}
Live          == {r \in Range(rooms) \ {None} : Status(r) # "Finished"}
CurrentRoom(p) == {r \in Live : p \in PlayersOf(r)}

\* getAllRooms(true): what the check of joinRoom() looks at.
Listed == {r \in Live : ~room[r].kind.private /\ room[r].kind.allowGuest}

\* A guest gets a fresh id with each request, so he makes one.
Fresh(p) == p \in Guests => \A q \in Requests : req[q].who # p

Goto(q, l) == req' = [req EXCEPT ![q].at = l]

-----------------------------------------------------------------------------
(***************************************************************************)
(* Removing rooms.                                                         *)
(***************************************************************************)

\* Broken: the id is lost.
RemovedLosesId(r) ==
  /\ rooms' = [rooms EXCEPT ![room[r].id] = None]
  /\ exited' = (shutdown /\ \A i \in Ids : rooms'[i] = None)
  /\ UNCHANGED pool

\* Broken: the first room that is removed lets the process go.
RemovedExits(r) ==
  /\ rooms' = [rooms EXCEPT ![room[r].id] = None]
  /\ pool' = Append(pool, room[r].id)
  /\ exited' = shutdown

\* Broken: nobody wakes the process up.
RemovedSilently(r) ==
  /\ rooms' = [rooms EXCEPT ![room[r].id] = None]
  /\ pool' = Append(pool, room[r].id)
  /\ UNCHANGED exited

\* The last segment of the stop handler of room r: whatever room has the id
\* of r is deleted and the id returned.  The process waits for the last one.
Removed(r) ==
  /\ rooms' = [rooms EXCEPT ![room[r].id] = None]
  /\ pool' = Append(pool, room[r].id)
  /\ exited' = (shutdown /\ \A i \in Ids : rooms'[i] = None)

\* Room.stop() of r, which leaves `left' in room[r]: it runs the handlers.  A
\* room nobody played in is removed at once if there is no redis to wait for.
StopWith(r, left) ==
  /\ room' = [room EXCEPT ![r] =
       [left EXCEPT !.stopped = TRUE, !.stops = @ + 1,
                    !.saved = IF left.game # "none" /\ PlayersOf(r) \subseteq Users
                              THEN @ + 1 ELSE @]]
  /\ IF left.game = "none" /\ ~Redis
     THEN Removed(r) /\ UNCHANGED removing
     ELSE /\ removing' = [removing EXCEPT ![r] = @ + 1]
          /\ UNCHANGED <<rooms, pool, exited>>

\* The stop handler after redis and, for a room that was played in, after the
\* time a finished room is kept.
Remove(r) ==
  /\ ~exited /\ removing[r] > 0
  /\ removing' = [removing EXCEPT ![r] = @ - 1]
  /\ Removed(r)
  /\ UNCHANGED <<req, room, shutdown>>

\* redis.get() or redis.hdel() of the stop handler rejects.  Nobody waits for
\* the handler: the room stays in the map, and nobody tries again.
RemoveFails(r) ==
  /\ ~exited /\ removing[r] > 0 /\ Redis
  /\ removing' = [removing EXCEPT ![r] = @ - 1]
  /\ room' = [room EXCEPT ![r].failed = TRUE]
  /\ UNCHANGED <<pool, rooms, req, shutdown, exited>>

\* Broken: the timer does not look at the status.
IdleTimerAnyway(r) ==
  /\ ~exited /\ room[r].timer
  /\ StopWith(r, [room[r] EXCEPT !.timer = FALSE])
  /\ UNCHANGED <<req, shutdown>>

\* Broken: the timer spares the room that waits.
IdleTimerSpares(r) ==
  /\ ~exited /\ room[r].timer
  /\ room' = [room EXCEPT ![r].timer = FALSE]
  /\ UNCHANGED <<rooms, pool, removing, exited, req, shutdown>>

\* The timer that createRoom() sets, five minutes later.
IdleTimer(r) ==
  /\ ~exited /\ room[r].timer
  /\ LET left == [room[r] EXCEPT !.timer = FALSE] IN
       IF Status(r) = "Waiting"
       THEN StopWith(r, left)
       ELSE /\ room' = [room EXCEPT ![r] = left]
            /\ UNCHANGED <<rooms, pool, removing, exited>>
  /\ UNCHANGED <<req, shutdown>>

\* Broken: the host may delete a room whose match is running.
DeleteRoomAnyway(p, i) ==
  /\ ~exited /\ HostDeletes
  /\ rooms[i] # None => room[rooms[i]].stops < MaxStops
  /\ rooms[i] # None /\ room[rooms[i]].host = p
  /\ StopWith(rooms[i], room[rooms[i]])
  /\ UNCHANGED <<req, shutdown>>

DeleteRoom(p, i) ==
  /\ ~exited /\ HostDeletes
  /\ rooms[i] # None => room[rooms[i]].stops < MaxStops
  /\ rooms[i] # None /\ Status(rooms[i]) = "Waiting" /\ room[rooms[i]].host = p
  /\ StopWith(rooms[i], room[rooms[i]])
  /\ UNCHANGED <<req, shutdown>>

\* The match of r is over: the finally of Room.start() stops the room.
GameEnds(r) ==
  /\ ~exited /\ room[r].game = "running"
  /\ StopWith(r, [room[r] EXCEPT !.game = "over"])
  /\ UNCHANGED <<req, shutdown>>

-----------------------------------------------------------------------------
(***************************************************************************)
(* Creating a room.                                                        *)
(***************************************************************************)

\* createRoomFromUser() and createRoomFromGuest() up to createRoom().
CreateAsked(q, p, k) ==
  /\ ~exited /\ req[q].at = "idle" /\ Fresh(p)
  /\ p \in Users => CurrentRoom(p) = {}
  /\ req' = [req EXCEPT ![q] = [Unused EXCEPT !.at = "asked", !.who = p, !.kind = k]]
  /\ UNCHANGED <<pool, rooms, room, removing, shutdown, exited>>

\* The maintenance check; deploying is a key that others set in redis.
CreateAdmitted(q) ==
  /\ ~exited /\ req[q].at = "asked"
  /\ \/ ~shutdown /\ Goto(q, "admitted")
     \/ (shutdown \/ Redis) /\ Goto(q, "done")
  /\ UNCHANGED <<pool, rooms, room, removing, shutdown, exited>>

\* Broken: the id stays in the pool.
OpenUnshifted(q, id) ==
  /\ rooms' = [rooms EXCEPT ![id] = q]
  /\ room' = [room EXCEPT ![q] = [NoRoom EXCEPT !.id = id, !.host = req[q].who,
                                                !.kind = req[q].kind, !.timer = TRUE,
                                                !.shared = pool = <<>> \/ Head(pool) # id]]
  /\ Goto(q, "done")
  /\ UNCHANGED <<pool, removing, shutdown, exited>>

\* rooms.set(), roomIdPool.shift() and the rest of createRoom().
Open(q, id) ==
  /\ rooms' = [rooms EXCEPT ![id] = q]
  /\ pool' = IF pool = <<>> THEN pool ELSE Tail(pool)
  /\ room' = [room EXCEPT ![q] = [NoRoom EXCEPT !.id = id, !.host = req[q].who,
                                                !.kind = req[q].kind, !.timer = TRUE,
                                                !.shared = pool = <<>> \/ Head(pool) # id]]
  /\ Goto(q, "done")
  /\ UNCHANGED <<removing, shutdown, exited>>

\* After verifyDeck(): the id is read; without redis the room opens at once.
CreateReserved(q) ==
  /\ ~exited /\ req[q].at = "admitted"
  /\ IF pool # <<>>
     THEN IF Redis
          THEN /\ req' = [req EXCEPT ![q].at = "reserved", ![q].id = Head(pool)]
               /\ UNCHANGED <<pool, rooms, room, removing, shutdown, exited>>
          ELSE Open(q, Head(pool))
     ELSE Goto(q, "done") /\ UNCHANGED <<pool, rooms, room, removing, shutdown, exited>>

\* After hset() and hexpire().
CreateOpened(q) ==
  /\ ~exited /\ req[q].at = "reserved"
  /\ Open(q, req[q].id)

-----------------------------------------------------------------------------
(***************************************************************************)
(* Joining a room.                                                         *)
(***************************************************************************)

\* The checks of joinRoom(), up to verifyDeck().
JoinAsked(q, p, i) ==
  /\ ~exited /\ req[q].at = "idle" /\ Fresh(p)
  /\ rooms[i] # None /\ Status(rooms[i]) = "Waiting"
  /\ p \in Guests => room[rooms[i]].kind.allowGuest
  /\ \A r \in Listed : p \notin PlayersOf(r)
  /\ req' = [req EXCEPT ![q] = [Unused EXCEPT !.at = "joining", !.who = p,
                                              !.target = rooms[i]]]
  /\ UNCHANGED <<pool, rooms, room, removing, shutdown, exited>>

\* Broken: start() does not look whether the room was stopped.
JoinEnteredAnyway(q) ==
  LET r == req[q].target
  IN /\ ~exited /\ req[q].at = "joining" /\ room[r].participant = None
     /\ room' = [room EXCEPT ![r].participant = req[q].who, ![r].game = "running"]
     /\ Goto(q, "done")
     /\ UNCHANGED <<rooms, pool, removing, exited, shutdown>>

\* setParticipant(), and Room.start() unless the room has been stopped.
JoinEntered(q) ==
  LET r    == req[q].target
      left == [room[r] EXCEPT !.participant = req[q].who]
  IN /\ ~exited /\ req[q].at = "joining" /\ room[r].participant = None
     /\ \/ /\ room[r].stopped
           /\ room' = [room EXCEPT ![r] = left]
           /\ UNCHANGED <<rooms, pool, removing, exited>>
        \/ /\ ~room[r].stopped
           /\ room' = [room EXCEPT ![r] = [left EXCEPT !.game = "running"]]
           /\ UNCHANGED <<rooms, pool, removing, exited>>
        \/ ~room[r].stopped /\ ~DecksFit /\ StopWith(r, left)
     /\ Goto(q, "done")
     /\ UNCHANGED shutdown

\* Any failure of a handler that has no effect: an answer of the database, a
\* deck that does not verify, redis failing, "participant already set".
Fails(q) ==
  /\ ~exited /\ req[q].at \notin {"idle", "done"}
  /\ Goto(q, "done")
  /\ UNCHANGED <<pool, rooms, room, removing, shutdown, exited>>

-----------------------------------------------------------------------------
\* SIGTERM and the like.
Signal ==
  /\ ~exited /\ ~shutdown
  /\ IF \A i \in Ids : rooms[i] = None
     THEN exited' = TRUE /\ UNCHANGED shutdown
     ELSE shutdown' = TRUE /\ UNCHANGED exited
  /\ UNCHANGED <<pool, rooms, req, room, removing>>

Handler(q) == CreateAdmitted(q) \/ CreateReserved(q) \/ CreateOpened(q)
              \/ JoinEntered(q) \/ Fails(q)

Next ==
  \/ \E q \in Requests :
       \/ Handler(q) \/ Remove(q) \/ RemoveFails(q) \/ IdleTimer(q) \/ GameEnds(q)
       \/ \E p \in Players : \/ \E k \in Kinds : CreateAsked(q, p, k)
                             \/ \E i \in Ids : JoinAsked(q, p, i)
  \/ \E p \in Players, i \in Ids : DeleteRoom(p, i)
  \/ Signal

Spec == Init /\ [][Next]_vars

\* Timers fire, redis and the database answer or fail, matches end (GameFlow).
Fairness == \A q \in Requests : /\ WF_vars(Handler(q)) /\ WF_vars(Remove(q))
                                /\ WF_vars(IdleTimer(q)) /\ WF_vars(GameEnds(q))

FairSpec == Spec /\ Fairness

-----------------------------------------------------------------------------
(***************************************************************************)
(* Properties.                                                             *)
(***************************************************************************)

RoomType ==
  [id : 0..PoolSize, host : Players \union {None}, participant : Players \union {None},
   kind : [private : BOOLEAN, allowGuest : BOOLEAN], game : {"none", "running", "over"},
   stopped : BOOLEAN, timer : BOOLEAN, saved : Nat,
   failed : BOOLEAN, stops : Nat, shared : BOOLEAN]

\* The type of the state.
TypeOK ==
  /\ pool \in Seq(Ids) /\ rooms \in [Ids -> Requests \union {None}]
  /\ room \in [Requests -> RoomType] /\ removing \in [Requests -> Nat]
  /\ shutdown \in BOOLEAN /\ exited \in BOOLEAN
  /\ \A q \in Requests :
       /\ req[q].at \in {"idle", "asked", "admitted", "reserved", "joining", "done"}
       /\ req[q].who \in Players \union {None} /\ req[q].id \in 0..PoolSize
       /\ req[q].at = "joining" => req[q].target \in Requests

\* A room that was stopped before its second player arrived does not start its
\* match, however the join and the stop are ordered.
NoStartAfterStop ==
  [][\A r \in Requests :
       room[r].stopped /\ room[r].game = "none" => room'[r].game = "none"]_vars

\* A match of two users that is over is in the database once, no matter which
\* of timers, deletions and endings stopped its room.
SavedOnce ==
  \A r \in Requests : room[r].saved =
    IF room[r].game = "over" /\ PlayersOf(r) \subseteq Users THEN 1 ELSE 0

\* Nobody stops a room while its match is running.
RunningNotStopped == \A r \in Requests : room[r].game = "running" => ~room[r].stopped

\* No room has been stopped twice, by its idle timer or its host after a stop,
\* and no id was taken by another room between the reading of it and the taking.
Orderly == \A r \in Requests : room[r].stops <= 1 /\ ~room[r].shared

\* The ids in use and in the pool are all different, and none is lost: with
\* redis, deletions and failures, until one of the two ways to confuse them,
\* a second stop of a room or an id taken twice, has happened.
IdsConserved ==
  Orderly =>
    /\ \A i, j \in 1..Len(pool) : i # j => pool[i] # pool[j]
    /\ Range(pool) = {i \in Ids : rooms[i] = None}

\* A room whose match is running, or that waits for a player, is in the map:
\* nothing but a second stop or an id taken twice removes it from there.
LiveRoomIsKept ==
  Orderly =>
    \A r \in Requests : Opened(r) /\ ~room[r].stopped => rooms[room[r].id] = r

\* A room leaves the map only after it was itself stopped.
OnlyStoppedRemoved ==
  [][\A i \in Ids : rooms[i] # None /\ rooms'[i] # rooms[i] =>
       room'[rooms[i]].stopped]_vars

\* The process waits for the matches that are running, unless a second stop or
\* an id taken twice has put their rooms out of the map.
ExitSafe == Orderly => (exited => \A r \in Requests : room[r].game # "running")

\* A user is in one room at a time: the check of createRoom() and joinRoom().
OneRoomPerUser ==
  \A p \in Users : Cardinality(CurrentRoom(p)) <= 1

\* Every room is removed some day, and the id goes back, unless redis failed
\* while it was being removed.
RoomsRemoved ==
  \A r \in Requests :
    Opened(r) ~> (exited \/ room[r].failed \/ \A i \in Ids : rooms[i] # r)

\* A shutdown that was asked for comes to its end, unless a room that could not
\* be removed stays in the map for ever.
ShutdownEnds ==
  shutdown ~> (exited \/ [](\E i \in Ids : rooms[i] # None /\ room[rooms[i]].failed))
=============================================================================
