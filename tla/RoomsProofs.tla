----------------------------- MODULE RoomsProofs -----------------------------
(***************************************************************************)
(* Theorems of Rooms, for any number of rooms, requests and players.       *)
(*                                                                         *)
(* Everything is proved with redis, deletions and failing decks.  What     *)
(* relates the rooms to their ids holds until a room is stopped twice or   *)
(* an id is taken twice; a server without redis, whose rooms are neither   *)
(* deleted nor fail to start, is shown never to come to that.              *)
(***************************************************************************)
EXTENDS Rooms, TLAPS

-----------------------------------------------------------------------------
(***************************************************************************)
(* A single room.                                                          *)
(***************************************************************************)

RequestType ==
  [at : {"idle", "asked", "admitted", "reserved", "joining", "done"},
   who : Players \union {None}, target : Requests \union {None}, id : 0..PoolSize,
   kind : [private : BOOLEAN, allowGuest : BOOLEAN]]

\* TypeOK, and what a handler carries over its awaits.
Typed ==
  /\ pool \in Seq(Ids) /\ rooms \in [Ids -> Requests \union {None}]
  /\ room \in [Requests -> RoomType] /\ removing \in [Requests -> Nat]
  /\ shutdown \in BOOLEAN /\ exited \in BOOLEAN
  /\ req \in [Requests -> RequestType]
  /\ \A q \in Requests :
       /\ req[q].at = "joining" => req[q].target \in Requests /\ req[q].who \in Players
       /\ req[q].at = "reserved" => req[q].id \in Ids

\* A room that anything refers to has been opened.
Placed ==
  /\ \A i \in Ids : rooms[i] # None => room[rooms[i]].id # 0
  /\ \A r \in Requests : removing[r] > 0 => room[r].id # 0
  /\ \A q \in Requests : req[q].at = "joining" => room[req[q].target].id # 0

\* A room n in itself: its match is stopped by its end only, has two players,
\* and is stored once when it is over; it is stopped once stop() was called.
Sound(n) ==
  /\ n.game = "running" => ~n.stopped
  /\ n.game # "none" => n.participant # None /\ n.id # 0
  /\ n.timer => n.id # 0
  /\ n.stopped <=> n.stops > 0
  /\ n.id = 0 => n.stops = 0 /\ ~n.shared
  /\ n.saved = IF n.game = "over" /\ {n.host, n.participant} \ {None} \subseteq Users
               THEN 1 ELSE 0

PerRoom == \A r \in Requests : Sound(room[r])

RoomInv == Typed /\ Placed /\ PerRoom

\* A step writes one room at most: a sound one, opened if the old one was, and
\* with no match if it was stopped before it had one.
RoomWritten ==
  \/ room' = room
  \/ \E x \in Requests, n \in RoomType :
       /\ room' = [room EXCEPT ![x] = n] /\ Sound(n)
       /\ room[x].id # 0 => n.id # 0
       /\ room[x].stopped /\ room[x].game = "none" => n.game = "none"

\* What stop() makes of the room r that was left to it.
StoppedAs(n, r, left) ==
  /\ n.id = left.id /\ n.host = left.host /\ n.participant = left.participant
  /\ n.game = left.game /\ n.timer = left.timer /\ n.shared = left.shared
  /\ n.stopped /\ n.stops = left.stops + 1
  /\ n.saved = IF left.game # "none" /\ PlayersOf(r) \subseteq Users
               THEN left.saved + 1 ELSE left.saved

LEMMA StopsRoom ==
  ASSUME NEW r \in Requests, NEW left \in RoomType, StopWith(r, left)
  PROVE  \E n \in RoomType : room' = [room EXCEPT ![r] = n] /\ StoppedAs(n, r, left)
  <1>1. left.stops \in Nat /\ left.saved \in Nat
    BY DEF RoomType
  <1>2. PICK k : k = left.stops + 1
    OBVIOUS
  <1>3. PICK m : m = IF left.game # "none" /\ PlayersOf(r) \subseteq Users
                     THEN left.saved + 1 ELSE left.saved
    OBVIOUS
  <1>4. k \in Nat /\ m \in Nat
    BY <1>1, <1>2, <1>3
  <1>5. PICK n : n = [left EXCEPT !.stopped = TRUE, !.stops = k, !.saved = m]
    OBVIOUS
  <1>6. n \in RoomType
    BY <1>4, <1>5 DEF RoomType
  <1>7. /\ n.id = left.id /\ n.host = left.host /\ n.participant = left.participant
        /\ n.game = left.game /\ n.timer = left.timer /\ n.shared = left.shared
        /\ n.stopped /\ n.stops = k /\ n.saved = m
    BY <1>5 DEF RoomType
  <1>8. StoppedAs(n, r, left)
    BY <1>2, <1>3, <1>7 DEF StoppedAs
  <1>9. n = [left EXCEPT !.stopped = TRUE, !.stops = left.stops + 1,
                         !.saved = IF left.game # "none" /\ PlayersOf(r) \subseteq Users
                                   THEN left.saved + 1 ELSE left.saved]
    BY <1>2, <1>3, <1>5, Zenon
  <1>10. room' = [room EXCEPT ![r] = n]
    BY <1>9 DEF StopWith, RoomType
  <1>11. QED BY <1>6, <1>8, <1>10

\* What is left to stop(): the room r itself, with its timer used up, its match
\* over or its second player set.
IsLeft(left, r) ==
  /\ left \in RoomType /\ left.id = room[r].id /\ left.stopped = room[r].stopped
  /\ left.stops = room[r].stops /\ left.shared = room[r].shared
  /\ left.timer => room[r].timer
  /\ left.saved = room[r].saved /\ left.game \in {"none", "over"}
  /\ left.game = "none" => room[r].game = "none"
  /\ left.game = "over" =>
       /\ room[r].game = "running" /\ left.host = room[r].host
       /\ left.participant = room[r].participant

\* Stopping a room keeps it sound.
LEMMA StopWithWrites ==
  ASSUME RoomInv, NEW r \in Requests, room[r].id # 0, NEW left, IsLeft(left, r),
         StopWith(r, left)
  PROVE  RoomWritten
  <1>1. room[r] \in RoomType /\ Sound(room[r])
    BY DEF RoomInv, Typed, PerRoom
  <1>2. left \in RoomType
    BY DEF IsLeft
  <1>3. PICK n \in RoomType : room' = [room EXCEPT ![r] = n] /\ StoppedAs(n, r, left)
    BY <1>2, StopsRoom
  <1>4. room[r].stops \in Nat
    BY <1>1 DEF RoomType
  <1>5. /\ n.id # 0 /\ n.stopped /\ n.stops > 0 /\ n.game = left.game
        /\ n.host = left.host /\ n.participant = left.participant
    BY <1>3, <1>4 DEF StoppedAs, IsLeft
  <1>6. CASE left.game = "none"
    <2>1. room[r].saved = 0 /\ n.saved = 0 /\ room[r].game = "none"
      BY <1>1, <1>3, <1>6 DEF Sound, StoppedAs, IsLeft
    <2>2. Sound(n)
      BY <1>5, <1>6, <2>1 DEF Sound
    <2>3. QED BY <1>3, <1>5, <1>6, <2>2 DEF RoomWritten
  <1>7. CASE left.game = "over"
    <2>1. /\ room[r].saved = 0 /\ room[r].participant # None /\ ~room[r].stopped
          /\ n.participant = room[r].participant /\ n.host = room[r].host
      BY <1>1, <1>3, <1>7 DEF Sound, StoppedAs, IsLeft
    <2>2. n.saved = IF {n.host, n.participant} \ {None} \subseteq Users THEN 1 ELSE 0
      BY <1>3, <1>7, <2>1 DEF StoppedAs, IsLeft, PlayersOf
    <2>3. Sound(n)
      BY <1>5, <1>7, <2>1, <2>2 DEF Sound
    <2>4. QED BY <1>3, <1>5, <2>1, <2>3 DEF RoomWritten
  <1>8. QED BY <1>6, <1>7 DEF IsLeft

\* The idle timer stops a room that waits, or is only used up.
LEMMA IdleTimerLeaves ==
  ASSUME RoomInv, NEW r \in Requests, IdleTimer(r)
  PROVE  /\ room[r].id # 0 /\ UNCHANGED <<req, shutdown>>
         /\ \E left : /\ left \in RoomType /\ left = [room[r] EXCEPT !.timer = FALSE]
                      /\ \/ IsLeft(left, r) /\ StopWith(r, left)
                         \/ /\ room' = [room EXCEPT ![r] = left]
                            /\ UNCHANGED <<rooms, pool, removing, exited>>
  <1>1. room[r] \in RoomType /\ Sound(room[r])
    BY DEF RoomInv, Typed, PerRoom
  <1>2. PICK left : left = [room[r] EXCEPT !.timer = FALSE]
    OBVIOUS
  <1>3. left \in RoomType
    BY <1>1, <1>2 DEF RoomType
  <1>4. CASE Status(r) = "Waiting"
    <2>1. room[r].game = "none"
      BY <1>1, <1>4 DEF Status, RoomType
    <2>2. IsLeft(left, r)
      BY <1>1, <1>2, <1>3, <2>1 DEF IsLeft, RoomType
    <2>3. StopWith(r, left)
      BY <1>2, <1>4, Zenon DEF IdleTimer
    <2>4. QED BY <1>1, <1>2, <1>3, <2>2, <2>3 DEF IdleTimer, Sound
  <1>5. CASE Status(r) # "Waiting"
    <2>1. room' = [room EXCEPT ![r] = left] /\ UNCHANGED <<rooms, pool, removing, exited>>
      BY <1>2, <1>5, Zenon DEF IdleTimer
    <2>2. QED BY <1>1, <1>2, <1>3, <2>1 DEF IdleTimer, Sound
  <1>6. QED BY <1>4, <1>5

LEMMA GameEndsLeaves ==
  ASSUME RoomInv, NEW r \in Requests, GameEnds(r)
  PROVE  /\ room[r].id # 0 /\ UNCHANGED <<req, shutdown>>
         /\ \E left : IsLeft(left, r) /\ StopWith(r, left)
  <1>1. room[r] \in RoomType /\ Sound(room[r]) /\ room[r].game = "running"
    BY DEF RoomInv, Typed, PerRoom, GameEnds
  <1>2. PICK left : left = [room[r] EXCEPT !.game = "over"]
    OBVIOUS
  <1>3. left \in RoomType
    BY <1>1, <1>2 DEF RoomType
  <1>4. IsLeft(left, r)
    BY <1>1, <1>2, <1>3 DEF IsLeft, RoomType
  <1>5. StopWith(r, left)
    BY <1>2, Zenon DEF GameEnds
  <1>6. QED BY <1>1, <1>4, <1>5 DEF GameEnds, Sound

LEMMA DeleteRoomLeaves ==
  ASSUME RoomInv, NEW p \in Players, NEW i \in Ids, DeleteRoom(p, i)
  PROVE  \E r \in Requests : /\ room[r].id # 0 /\ UNCHANGED <<req, shutdown>>
                             /\ \E left : IsLeft(left, r) /\ StopWith(r, left)
  <1>1. PICK r \in Requests : r = rooms[i] /\ rooms[i] # None
    BY DEF RoomInv, Typed, DeleteRoom
  <1>2. room[r] \in RoomType /\ room[r].id # 0 /\ Status(r) = "Waiting"
    BY <1>1 DEF RoomInv, Typed, Placed, DeleteRoom
  <1>3. PICK left : left = room[r]
    OBVIOUS
  <1>4. room[r].game = "none"
    BY <1>2 DEF Status, RoomType
  <1>5. IsLeft(left, r)
    BY <1>2, <1>3, <1>4 DEF IsLeft
  <1>6. StopWith(r, left) /\ UNCHANGED <<req, shutdown>>
    BY <1>1, <1>3, Zenon DEF DeleteRoom
  <1>7. QED BY <1>2, <1>5, <1>6

\* Stopping a room, by its timer, its host or the end of its match.
LEMMA StopWrites ==
  ASSUME RoomInv,
         \/ \E r \in Requests : IdleTimer(r) \/ GameEnds(r)
         \/ \E p \in Players, i \in Ids : DeleteRoom(p, i)
  PROVE  RoomWritten
  <1>1. ASSUME NEW r \in Requests, IdleTimer(r)
        PROVE  RoomWritten
    <2>1. room[r] \in RoomType /\ Sound(room[r]) /\ room[r].id # 0
      BY <1>1, IdleTimerLeaves DEF RoomInv, Typed, PerRoom
    <2>2. PICK left \in RoomType :
            /\ left = [room[r] EXCEPT !.timer = FALSE]
            /\ \/ IsLeft(left, r) /\ StopWith(r, left)
               \/ room' = [room EXCEPT ![r] = left]
      BY <1>1, IdleTimerLeaves
    <2>3. CASE room' = [room EXCEPT ![r] = left]
      <3>1. Sound(left) /\ left.id = room[r].id /\ left.game = room[r].game
        BY <2>1, <2>2 DEF RoomType, Sound
      <3>2. QED BY <2>2, <2>3, <3>1 DEF RoomWritten
    <2>4. QED BY <2>1, <2>2, <2>3, StopWithWrites
  <1>2. ASSUME NEW r \in Requests, GameEnds(r)
        PROVE  RoomWritten
    BY <1>2, GameEndsLeaves, StopWithWrites
  <1>3. ASSUME NEW p \in Players, NEW i \in Ids, DeleteRoom(p, i)
        PROVE  RoomWritten
    BY <1>3, DeleteRoomLeaves, StopWithWrites
  <1>4. QED BY <1>1, <1>2, <1>3

\* Opening a room.
LEMMA OpenWrites ==
  ASSUME RoomInv, NEW q \in Requests, NEW id \in Ids, Open(q, id)
  PROVE  RoomWritten
  <1>1. PICK n : n = [NoRoom EXCEPT !.id = id, !.host = req[q].who,
                                    !.kind = req[q].kind, !.timer = TRUE,
                                    !.shared = pool = <<>> \/ Head(pool) # id]
    OBVIOUS
  <1>2. room' = [room EXCEPT ![q] = n]
    BY <1>1 DEF Open
  <1>3. id \in 0..PoolSize /\ id # 0
    BY RoomsConstants DEF Ids
  <1>4. req[q].who \in Players \union {None}
        /\ req[q].kind \in [private : BOOLEAN, allowGuest : BOOLEAN]
    BY DEF RoomInv, Typed, RequestType
  <1>5. n \in RoomType
    BY <1>1, <1>3, <1>4 DEF NoRoom, RoomType
  <1>6. n.id = id /\ n.game = "none" /\ ~n.stopped /\ n.saved = 0 /\ n.stops = 0
    BY <1>1 DEF NoRoom
  <1>7. Sound(n)
    BY <1>3, <1>6 DEF Sound
  <1>8. QED BY <1>2, <1>3, <1>5, <1>6, <1>7 DEF RoomWritten

\* The second player enters: the match starts, or nothing comes of it, or the
\* room is stopped.
LEMMA JoinLeaves ==
  ASSUME RoomInv, NEW q \in Requests, JoinEntered(q)
  PROVE  \E r \in Requests :
           /\ r = req[q].target /\ room[r].id # 0 /\ Goto(q, "done") /\ UNCHANGED shutdown
           /\ req[q].who \in Players
           /\ \E left : /\ IsLeft(left, r) /\ left.participant = req[q].who
                        /\ \/ /\ \/ room' = [room EXCEPT ![r] = left]
                                 \/ /\ room' = [room EXCEPT ![r] = [left EXCEPT !.game = "running"]]
                                    /\ ~room[r].stopped
                              /\ UNCHANGED <<rooms, pool, removing, exited>>
                           \/ StopWith(r, left) /\ ~DecksFit
  <1>1. PICK r \in Requests : r = req[q].target
    BY DEF RoomInv, Typed, JoinEntered
  <1>2. /\ room[r] \in RoomType /\ Sound(room[r]) /\ room[r].id # 0
        /\ req[q].who \in Players /\ room[r].participant = None
    BY <1>1 DEF RoomInv, Typed, Placed, PerRoom, JoinEntered
  <1>3. room[r].game = "none"
    BY <1>2 DEF Sound
  <1>4. PICK left : left = [room[r] EXCEPT !.participant = req[q].who]
    OBVIOUS
  <1>5. left \in RoomType
    BY <1>2, <1>4 DEF RoomType
  <1>6. IsLeft(left, r) /\ left.participant = req[q].who
    BY <1>2, <1>3, <1>4, <1>5 DEF IsLeft, RoomType
  <1>7. /\ Goto(q, "done") /\ UNCHANGED shutdown
        /\ \/ /\ \/ room' = [room EXCEPT ![r] = left]
                 \/ /\ room' = [room EXCEPT ![r] = [left EXCEPT !.game = "running"]]
                    /\ ~room[r].stopped
              /\ UNCHANGED <<rooms, pool, removing, exited>>
           \/ StopWith(r, left) /\ ~DecksFit
    BY <1>1, <1>4, Zenon DEF JoinEntered
  <1>8. QED BY <1>1, <1>2, <1>6, <1>7

LEMMA JoinWrites ==
  ASSUME RoomInv, NEW q \in Requests, JoinEntered(q)
  PROVE  RoomWritten
  <1>1. PICK r \in Requests :
          /\ r = req[q].target /\ room[r].id # 0 /\ Goto(q, "done") /\ UNCHANGED shutdown
          /\ req[q].who \in Players
          /\ \E left : /\ IsLeft(left, r) /\ left.participant = req[q].who
                       /\ \/ /\ \/ room' = [room EXCEPT ![r] = left]
                                \/ /\ room' = [room EXCEPT ![r] = [left EXCEPT !.game = "running"]]
                                   /\ ~room[r].stopped
                             /\ UNCHANGED <<rooms, pool, removing, exited>>
                          \/ StopWith(r, left) /\ ~DecksFit
    BY JoinLeaves
  <1>2. PICK left : /\ IsLeft(left, r) /\ left.participant = req[q].who
                    /\ \/ room' = [room EXCEPT ![r] = left]
                       \/ /\ room' = [room EXCEPT ![r] = [left EXCEPT !.game = "running"]]
                          /\ ~room[r].stopped
                       \/ StopWith(r, left)
    BY <1>1
  <1>3. /\ room[r] \in RoomType /\ Sound(room[r]) /\ room[r].participant = None
        /\ left \in RoomType /\ req[q].who # None
    BY <1>1, <1>2, RoomsConstants DEF RoomInv, Typed, PerRoom, JoinEntered, IsLeft, Players
  <1>4. room[r].game = "none" /\ room[r].saved = 0 /\ left.game = "none"
    BY <1>2, <1>3 DEF Sound, IsLeft
  <1>5. /\ left.id = room[r].id /\ left.stopped = room[r].stopped /\ left.saved = 0
        /\ left.stops = room[r].stops
    BY <1>2, <1>4 DEF IsLeft
  <1>6. CASE room' = [room EXCEPT ![r] = left]
    <2>1. Sound(left)
      BY <1>1, <1>3, <1>4, <1>5 DEF Sound
    <2>2. QED BY <1>1, <1>3, <1>4, <1>5, <1>6, <2>1 DEF RoomWritten
  <1>7. CASE ~room[r].stopped /\ room' = [room EXCEPT ![r] = [left EXCEPT !.game = "running"]]
    <2>1. PICK n : n = [left EXCEPT !.game = "running"]
      OBVIOUS
    <2>2. n \in RoomType
      BY <1>3, <2>1 DEF RoomType
    <2>3. /\ n.game = "running" /\ n.id = left.id /\ n.participant = left.participant
          /\ n.stopped = left.stopped /\ n.saved = 0 /\ n.stops = left.stops
      BY <1>3, <1>5, <2>1 DEF RoomType
    <2>4. Sound(n)
      BY <1>1, <1>2, <1>3, <1>5, <1>7, <2>3 DEF Sound
    <2>5. QED BY <1>1, <1>5, <1>7, <2>1, <2>2, <2>3, <2>4 DEF RoomWritten
  <1>8. QED BY <1>1, <1>2, <1>6, <1>7, StopWithWrites

\* Every step writes rooms as RoomWritten says.
LEMMA StepWrites ==
  ASSUME RoomInv, Next
  PROVE  RoomWritten
  <1>1. CASE \/ \E r \in Requests : IdleTimer(r) \/ GameEnds(r)
             \/ \E p \in Players, i \in Ids : DeleteRoom(p, i)
    BY <1>1, StopWrites
  <1>2. ASSUME NEW q \in Requests, CreateReserved(q) \/ CreateOpened(q)
        PROVE  RoomWritten
    <2>1. room' = room \/ \E id \in Ids : Open(q, id)
      <3>1. pool # <<>> => Head(pool) \in Ids
        BY DEF RoomInv, Typed
      <3>2. req[q].at = "reserved" => req[q].id \in Ids
        BY DEF RoomInv, Typed
      <3>3. QED BY <1>2, <3>1, <3>2 DEF CreateReserved, CreateOpened
    <2>2. QED BY <2>1, OpenWrites DEF RoomWritten
  <1>3. ASSUME NEW q \in Requests, JoinEntered(q)
        PROVE  RoomWritten
    BY <1>3, JoinWrites
  <1>4. CASE \/ Signal
             \/ \E q \in Requests :
                  \/ Remove(q) \/ CreateAdmitted(q) \/ Fails(q)
                  \/ \E p \in Players : \/ \E k \in Kinds : CreateAsked(q, p, k)
                                        \/ \E i \in Ids : JoinAsked(q, p, i)
    BY <1>4 DEF Signal, Remove, CreateAdmitted, Fails, CreateAsked, JoinAsked, RoomWritten
  <1>5. ASSUME NEW r \in Requests, RemoveFails(r)
        PROVE  RoomWritten
    <2>1. room[r] \in RoomType /\ Sound(room[r])
      BY DEF RoomInv, Typed, PerRoom
    <2>2. PICK n : n = [room[r] EXCEPT !.failed = TRUE]
      OBVIOUS
    <2>3. room' = [room EXCEPT ![r] = n]
      BY <1>5, <2>2 DEF RemoveFails
    <2>4. n \in RoomType
      BY <2>1, <2>2 DEF RoomType
    <2>5. Sound(n) /\ n.id = room[r].id /\ n.game = room[r].game
      BY <2>1, <2>2 DEF RoomType, Sound
    <2>6. QED BY <2>3, <2>4, <2>5 DEF RoomWritten
  <1>6. QED BY <1>1, <1>2, <1>3, <1>4, <1>5 DEF Next, Handler

\* So every room stays sound and typed, and an id once given is kept.
LEMMA RoomsStaySound ==
  ASSUME RoomInv, RoomWritten
  PROVE  /\ PerRoom' /\ room' \in [Requests -> RoomType]
         /\ \A r \in Requests : room[r].id # 0 => room'[r].id # 0
         /\ \A r \in Requests :
              room[r].stopped /\ room[r].game = "none" => room'[r].game = "none"
  <1>1. room \in [Requests -> RoomType] /\ PerRoom
    BY DEF RoomInv, Typed
  <1>2. CASE room' = room
    <2>1. PerRoom'
      BY <1>1, <1>2 DEF PerRoom
    <2>2. QED BY <1>1, <1>2, <2>1
  <1>3. ASSUME NEW x \in Requests, NEW n \in RoomType,
               room' = [room EXCEPT ![x] = n], Sound(n),
               room[x].id # 0 => n.id # 0,
               room[x].stopped /\ room[x].game = "none" => n.game = "none"
        PROVE  /\ PerRoom' /\ room' \in [Requests -> RoomType]
               /\ \A r \in Requests : room[r].id # 0 => room'[r].id # 0
               /\ \A r \in Requests :
                    room[r].stopped /\ room[r].game = "none" => room'[r].game = "none"
    <2>1. \A r \in Requests : room'[r] = IF r = x THEN n ELSE room[r]
      BY <1>1, <1>3
    <2>2. \A r \in Requests : Sound(room'[r])
      BY <1>1, <1>3, <2>1 DEF PerRoom
    <2>3. PerRoom'
      BY <2>2 DEF PerRoom
    <2>4. room' \in [Requests -> RoomType]
      BY <1>1, <1>3
    <2>5. QED BY <1>3, <2>1, <2>3, <2>4
  <1>4. QED BY <1>2, <1>3 DEF RoomWritten

-----------------------------------------------------------------------------
(***************************************************************************)
(* What a step does to the pool, the map, the stop handlers and requests.  *)
(***************************************************************************)

\* The map gains opened rooms only, and only opened rooms are being removed.
ServiceWritten ==
  /\ pool' \in Seq(Ids) /\ rooms' \in [Ids -> Requests \union {None}]
  /\ removing' \in [Requests -> Nat] /\ exited' \in BOOLEAN /\ shutdown' \in BOOLEAN
  /\ \A i \in Ids : rooms'[i] # None => rooms'[i] = rooms[i] \/ room'[rooms'[i]].id # 0
  /\ \A r \in Requests : removing'[r] > 0 => removing[r] > 0 \/ room[r].id # 0

LEMMA RemovedService ==
  ASSUME RoomInv, NEW r \in Requests, room[r].id # 0, Removed(r)
  PROVE  /\ pool' \in Seq(Ids) /\ rooms' \in [Ids -> Requests \union {None}]
         /\ exited' \in BOOLEAN
         /\ \A i \in Ids : rooms'[i] # None => rooms'[i] = rooms[i]
  <1>1. room[r].id \in Ids /\ rooms \in [Ids -> Requests \union {None}] /\ pool \in Seq(Ids)
    BY RoomsConstants DEF RoomInv, Typed, RoomType, Ids
  <1>2. shutdown \in BOOLEAN
    BY DEF RoomInv, Typed
  <1>3. exited' \in BOOLEAN
    BY <1>2 DEF Removed
  <1>4. pool' \in Seq(Ids)
    BY <1>1 DEF Removed
  <1>5. QED BY <1>1, <1>3, <1>4 DEF Removed

LEMMA StopService ==
  ASSUME RoomInv, NEW r \in Requests, NEW left, room[r].id # 0, StopWith(r, left),
         UNCHANGED shutdown
  PROVE  ServiceWritten
  <1>1. /\ pool \in Seq(Ids) /\ rooms \in [Ids -> Requests \union {None}]
        /\ removing \in [Requests -> Nat] /\ exited \in BOOLEAN /\ shutdown \in BOOLEAN
    BY DEF RoomInv, Typed
  <1>2. CASE Removed(r) /\ UNCHANGED removing
    BY <1>1, <1>2, RemovedService DEF ServiceWritten
  <1>3. CASE /\ removing' = [removing EXCEPT ![r] = @ + 1]
             /\ UNCHANGED <<rooms, pool, exited>>
    <2>1. removing' \in [Requests -> Nat]
      BY <1>1, <1>3
    <2>2. \A x \in Requests : removing'[x] > 0 => removing[x] > 0 \/ room[x].id # 0
      BY <1>1, <1>3
    <2>3. QED BY <1>1, <1>3, <2>1, <2>2 DEF ServiceWritten
  <1>4. QED BY <1>2, <1>3 DEF StopWith

LEMMA OpenService ==
  ASSUME RoomInv, NEW q \in Requests, NEW id \in Ids, Open(q, id)
  PROVE  ServiceWritten
  <1>1. /\ pool \in Seq(Ids) /\ rooms \in [Ids -> Requests \union {None}]
        /\ removing \in [Requests -> Nat] /\ exited \in BOOLEAN /\ shutdown \in BOOLEAN
        /\ room \in [Requests -> RoomType]
    BY DEF RoomInv, Typed
  <1>2. pool' \in Seq(Ids)
    BY <1>1 DEF Open
  <1>3. PICK n : n = [NoRoom EXCEPT !.id = id, !.host = req[q].who,
                                    !.kind = req[q].kind, !.timer = TRUE,
                                    !.shared = pool = <<>> \/ Head(pool) # id]
    OBVIOUS
  <1>4. n.id = id /\ id # 0
    BY <1>3, RoomsConstants DEF NoRoom, Ids
  <1>5. room'[q].id # 0
    BY <1>1, <1>3, <1>4 DEF Open
  <1>6. \A i \in Ids : rooms'[i] # None => rooms'[i] = rooms[i] \/ rooms'[i] = q
    BY <1>1 DEF Open
  <1>7. QED BY <1>1, <1>2, <1>5, <1>6 DEF Open, ServiceWritten

LEMMA StepService ==
  ASSUME RoomInv, Next
  PROVE  ServiceWritten
  <1>1. /\ pool \in Seq(Ids) /\ rooms \in [Ids -> Requests \union {None}]
        /\ removing \in [Requests -> Nat] /\ exited \in BOOLEAN /\ shutdown \in BOOLEAN
    BY DEF RoomInv, Typed
  <1>2. CASE UNCHANGED <<pool, rooms, removing, shutdown, exited>>
    BY <1>1, <1>2 DEF ServiceWritten
  <1>3. ASSUME NEW q \in Requests, CreateReserved(q) \/ CreateOpened(q)
        PROVE  ServiceWritten
    <2>1. UNCHANGED <<pool, rooms, removing, shutdown, exited>> \/ \E id \in Ids : Open(q, id)
      <3>1. pool # <<>> => Head(pool) \in Ids
        BY DEF RoomInv, Typed
      <3>2. req[q].at = "reserved" => req[q].id \in Ids
        BY DEF RoomInv, Typed
      <3>3. QED BY <1>3, <3>1, <3>2 DEF CreateReserved, CreateOpened
    <2>2. QED BY <1>2, <2>1, OpenService
  <1>4. ASSUME NEW r \in Requests, Remove(r)
        PROVE  ServiceWritten
    <2>1. room[r].id # 0
      BY <1>4 DEF Remove, RoomInv, Placed
    <2>2. removing' \in [Requests -> Nat]
          /\ \A x \in Requests : removing'[x] > 0 => removing[x] > 0
      BY <1>1, <1>4 DEF Remove
    <2>3. Removed(r) /\ shutdown' = shutdown
      BY <1>4 DEF Remove
    <2>4. QED BY <1>1, <2>1, <2>2, <2>3, RemovedService DEF ServiceWritten
  <1>12. ASSUME NEW r \in Requests, RemoveFails(r)
        PROVE  ServiceWritten
    <2>1. removing' \in [Requests -> Nat]
          /\ \A x \in Requests : removing'[x] > 0 => removing[x] > 0
      BY <1>1, <1>12 DEF RemoveFails
    <2>2. QED BY <1>1, <1>12, <2>1 DEF RemoveFails, ServiceWritten
  <1>5. ASSUME NEW r \in Requests, IdleTimer(r)
        PROVE  ServiceWritten
    <2>1. room[r].id # 0
      BY <1>5 DEF IdleTimer, RoomInv, PerRoom, Sound
    <2>2. QED BY <1>2, <1>5, <2>1, StopService DEF IdleTimer
  <1>6. ASSUME NEW r \in Requests, GameEnds(r)
        PROVE  ServiceWritten
    <2>1. room[r].id # 0
      BY <1>6 DEF GameEnds, RoomInv, PerRoom, Sound
    <2>2. QED BY <1>6, <2>1, StopService DEF GameEnds
  <1>7. ASSUME NEW p \in Players, NEW i \in Ids, DeleteRoom(p, i)
        PROVE  ServiceWritten
    <2>1. PICK r \in Requests : r = rooms[i]
      BY <1>1, <1>7 DEF DeleteRoom
    <2>2. room[r].id # 0 /\ rooms[i] # None
      BY <1>7, <2>1 DEF DeleteRoom, RoomInv, Placed
    <2>3. StopWith(r, room[r]) /\ shutdown' = shutdown
      BY <1>7, <2>1 DEF DeleteRoom
    <2>4. PICK left : left = room[r]
      OBVIOUS
    <2>5. QED BY <2>2, <2>3, <2>4, StopService
  <1>8. ASSUME NEW q \in Requests, JoinEntered(q)
        PROVE  ServiceWritten
    <2>1. PICK r \in Requests : r = req[q].target
      BY <1>8 DEF RoomInv, Typed, JoinEntered
    <2>2. room[r].id # 0
      BY <1>8, <2>1 DEF RoomInv, Placed, JoinEntered
    <2>3. PICK left : left = [room[r] EXCEPT !.participant = req[q].who]
      OBVIOUS
    <2>4. \/ UNCHANGED <<pool, rooms, removing, shutdown, exited>>
          \/ StopWith(r, left) /\ UNCHANGED shutdown
      BY <1>8, <2>1, <2>3 DEF JoinEntered
    <2>5. QED BY <1>2, <2>2, <2>4, StopService
  <1>9. CASE Signal
    BY <1>1, <1>9 DEF Signal, ServiceWritten
  <1>10. CASE \E q \in Requests :
                \/ CreateAdmitted(q) \/ Fails(q)
                \/ \E p \in Players : \/ \E k \in Kinds : CreateAsked(q, p, k)
                                      \/ \E i \in Ids : JoinAsked(q, p, i)
    BY <1>2, <1>10 DEF CreateAdmitted, Fails, CreateAsked, JoinAsked
  <1>11. QED BY <1>3, <1>4, <1>5, <1>6, <1>7, <1>8, <1>9, <1>10, <1>12 DEF Next, Handler

\* Requests go on in place: each one's new state is typed, and a join looks at a
\* room that is open.
LEMMA StepRequests ==
  ASSUME RoomInv, Next
  PROVE  /\ req' \in [Requests -> RequestType]
         /\ \A q \in Requests :
              /\ req'[q].at = "joining" =>
                   /\ req'[q].target \in Requests /\ req'[q].who \in Players
                   /\ room[req'[q].target].id # 0
              /\ req'[q].at = "reserved" => req'[q].id \in Ids
  <1> DEFINE Fine(m) == /\ m \in RequestType
                        /\ m.at = "joining" => /\ m.target \in Requests /\ m.who \in Players
                                               /\ room[m.target].id # 0
                        /\ m.at = "reserved" => m.id \in Ids
  <1>1. req \in [Requests -> RequestType] /\ \A q \in Requests : Fine(req[q])
    BY DEF RoomInv, Typed, Placed
  <1>2. ASSUME req' = req \/ \E q \in Requests : \E m : req' = [req EXCEPT ![q] = m] /\ Fine(m)
        PROVE  req' \in [Requests -> RequestType] /\ \A q \in Requests : Fine(req'[q])
    <2>1. CASE req' = req
      BY <1>1, <2>1
    <2>2. ASSUME NEW q \in Requests, NEW m, req' = [req EXCEPT ![q] = m], Fine(m)
          PROVE  req' \in [Requests -> RequestType] /\ \A x \in Requests : Fine(req'[x])
      <3>1. m \in RequestType
        BY <2>2
      <3>2. \A x \in Requests : req'[x] = IF x = q THEN m ELSE req[x]
        BY <1>1, <2>2
      <3>3. \A x \in Requests : Fine(req'[x])
        BY <1>1, <2>2, <3>2
      <3>4. QED BY <1>1, <2>2, <3>1, <3>3
    <2>3. QED BY <1>2, <2>1, <2>2
  <1>3. ASSUME NEW q \in Requests, Goto(q, "done") \/ Goto(q, "admitted")
        PROVE  \E m : req' = [req EXCEPT ![q] = m] /\ Fine(m)
    <2>1. PICK l \in {"done", "admitted"} : req' = [req EXCEPT ![q].at = l]
      BY <1>3 DEF Goto
    <2>2. PICK m : m = [req[q] EXCEPT !.at = l]
      OBVIOUS
    <2>3. req[q] \in RequestType
      BY <1>1
    <2>4. m \in RequestType /\ m.at = l
      BY <2>2, <2>3 DEF RequestType
    <2>5. Fine(m)
      BY <2>4
    <2>6. req' = [req EXCEPT ![q] = m]
      BY <2>1, <2>2
    <2>7. QED BY <2>5, <2>6
  <1>4. ASSUME NEW q \in Requests, NEW p \in Players, NEW k \in Kinds, CreateAsked(q, p, k)
        PROVE  \E m : req' = [req EXCEPT ![q] = m] /\ Fine(m)
    <2>1. PICK m : m = [Unused EXCEPT !.at = "asked", !.who = p, !.kind = k]
      OBVIOUS
    <2>2. k \in [private : BOOLEAN, allowGuest : BOOLEAN]
      BY RoomsConstants
    <2>3. m = [at |-> "asked", who |-> p, target |-> None, id |-> 0, kind |-> k]
      BY <2>1 DEF Unused
    <2>4. m \in RequestType /\ m.at = "asked"
      BY <2>2, <2>3, RoomsConstants DEF RequestType
    <2>5. QED BY <1>4, <2>1, <2>4 DEF CreateAsked
  <1>5. ASSUME NEW q \in Requests, NEW p \in Players, NEW i \in Ids, JoinAsked(q, p, i)
        PROVE  \E m : req' = [req EXCEPT ![q] = m] /\ Fine(m)
    <2>1. PICK r \in Requests : r = rooms[i]
      BY <1>5 DEF JoinAsked, RoomInv, Typed
    <2>2. room[r].id # 0
      BY <1>5, <2>1 DEF JoinAsked, RoomInv, Placed
    <2>3. PICK m : m = [Unused EXCEPT !.at = "joining", !.who = p, !.target = r]
      OBVIOUS
    <2>4. m = [at |-> "joining", who |-> p, target |-> r, id |-> 0,
               kind |-> [private |-> FALSE, allowGuest |-> FALSE]]
      BY <2>3 DEF Unused, NoRoom
    <2>5. m \in RequestType /\ m.at = "joining" /\ m.target = r /\ m.who = p
      BY <2>4, RoomsConstants DEF RequestType
    <2>6. req' = [req EXCEPT ![q] = m]
      BY <1>5, <2>1, <2>3 DEF JoinAsked
    <2>7. QED BY <2>2, <2>5, <2>6
  <1>6. ASSUME NEW q \in Requests, CreateReserved(q)
        PROVE  req' = req \/ \E m : req' = [req EXCEPT ![q] = m] /\ Fine(m)
    <2>1. CASE Goto(q, "done")
      BY <2>1, <1>3
    <2>2. CASE pool # <<>> /\ req' = [req EXCEPT ![q].at = "reserved", ![q].id = Head(pool)]
      <3>1. PICK i \in Ids : i = Head(pool)
        BY <2>2 DEF RoomInv, Typed
      <3>2. PICK m : m = [req[q] EXCEPT !.at = "reserved", !.id = i]
        OBVIOUS
      <3>3. req[q] \in RequestType /\ i \in 0..PoolSize
        BY <1>1, RoomsConstants DEF Ids
      <3>4. m \in RequestType /\ m.at = "reserved" /\ m.id = i
        BY <3>2, <3>3 DEF RequestType
      <3>5. req' = [req EXCEPT ![q] = m]
        BY <1>1, <2>2, <3>1, <3>2
      <3>6. QED BY <3>4, <3>5
    <2>3. QED BY <1>6, <2>1, <2>2 DEF CreateReserved, Open
  <1>7. ASSUME NEW q \in Requests,
               CreateAdmitted(q) \/ CreateOpened(q) \/ JoinEntered(q) \/ Fails(q)
        PROVE  \E m : req' = [req EXCEPT ![q] = m] /\ Fine(m)
    BY <1>3, <1>7 DEF CreateAdmitted, CreateOpened, Open, JoinEntered, Fails
  <1>8. CASE UNCHANGED req
    BY <1>2, <1>8
  <1>9. ASSUME NEW q \in Requests,
               Remove(q) \/ RemoveFails(q) \/ IdleTimer(q) \/ GameEnds(q)
        PROVE  UNCHANGED req
    BY <1>9 DEF Remove, RemoveFails, IdleTimer, GameEnds
  <1>10. CASE Signal \/ \E p \in Players, i \in Ids : DeleteRoom(p, i)
    BY <1>8, <1>10 DEF Signal, DeleteRoom
  <1>11. req' \in [Requests -> RequestType] /\ \A q \in Requests : Fine(req'[q])
    BY <1>2, <1>4, <1>5, <1>6, <1>7, <1>8, <1>9, <1>10 DEF Next, Handler
  <1>12. QED BY <1>11

-----------------------------------------------------------------------------
(***************************************************************************)
(* The promises of a single room.                                          *)
(***************************************************************************)

LEMMA RoomInit == Init => RoomInv
  <1> SUFFICES ASSUME Init PROVE RoomInv
    OBVIOUS
  <1>1. Unused \in RequestType /\ Unused.at = "idle"
    <2>1. Unused = [at |-> "idle", who |-> None, target |-> None, id |-> 0,
                    kind |-> [private |-> FALSE, allowGuest |-> FALSE]]
      BY DEF Unused, NoRoom
    <2>2. QED BY <2>1, RoomsConstants DEF RequestType
  <1>2. /\ NoRoom \in RoomType /\ NoRoom.id = 0 /\ NoRoom.game = "none" /\ ~NoRoom.timer
        /\ ~NoRoom.stopped /\ NoRoom.saved = 0 /\ NoRoom.stops = 0 /\ ~NoRoom.shared
    BY RoomsConstants DEF NoRoom, RoomType
  <1>3. pool \in Seq(Ids)
    BY RoomsConstants DEF Init, Ids
  <1>4. Typed
    BY <1>1, <1>2, <1>3 DEF Init, Typed
  <1>5. Placed
    BY <1>1 DEF Init, Placed
  <1>6. Sound(NoRoom)
    BY <1>2 DEF Sound
  <1>7. PerRoom
    BY <1>6 DEF Init, PerRoom
  <1>8. QED BY <1>4, <1>5, <1>7 DEF RoomInv

LEMMA RoomStep == RoomInv /\ [Next]_vars => RoomInv'
  <1> SUFFICES ASSUME RoomInv, [Next]_vars PROVE RoomInv'
    OBVIOUS
  <1>1. CASE UNCHANGED vars
    BY <1>1 DEF vars, RoomInv, Typed, Placed, PerRoom
  <1>2. CASE Next
    <2>1. /\ PerRoom' /\ room' \in [Requests -> RoomType]
          /\ \A r \in Requests : room[r].id # 0 => room'[r].id # 0
      BY <1>2, StepWrites, RoomsStaySound
    <2>2. ServiceWritten
      BY <1>2, StepService
    <2>3. /\ req' \in [Requests -> RequestType]
          /\ \A q \in Requests :
               /\ req'[q].at = "joining" =>
                    /\ req'[q].target \in Requests /\ req'[q].who \in Players
                    /\ room[req'[q].target].id # 0
               /\ req'[q].at = "reserved" => req'[q].id \in Ids
      BY <1>2, StepRequests
    <2>4. Typed'
      BY <2>1, <2>2, <2>3 DEF Typed, ServiceWritten
    <2>5. \A i \in Ids : rooms'[i] # None => room'[rooms'[i]].id # 0
      <3>1. SUFFICES ASSUME NEW i \in Ids, rooms'[i] # None
                     PROVE  room'[rooms'[i]].id # 0
        OBVIOUS
      <3>2. PICK r \in Requests : r = rooms'[i]
        BY <2>2, <3>1 DEF ServiceWritten
      <3>3. r = rooms[i] \/ room'[r].id # 0
        BY <2>2, <3>1, <3>2 DEF ServiceWritten
      <3>4. r = rooms[i] => room[r].id # 0
        BY <3>1, <3>2 DEF RoomInv, Placed
      <3>5. QED BY <2>1, <3>2, <3>3, <3>4
    <2>6. \A r \in Requests : removing'[r] > 0 => room'[r].id # 0
      BY <2>1, <2>2 DEF ServiceWritten, RoomInv, Placed
    <2>7. Placed'
      BY <2>1, <2>3, <2>5, <2>6 DEF Placed
    <2>8. QED BY <2>1, <2>4, <2>7 DEF RoomInv
  <1>3. QED BY <1>1, <1>2

\* With everything switched on, rooms stay typed and each of them sound.
THEOREM RoomInvariant == Spec => []RoomInv
  BY RoomInit, RoomStep, PTL DEF Spec

\* The state has its type.
THEOREM TypeCorrect == Spec => []TypeOK
  <1>1. RoomInv => TypeOK
    BY DEF RoomInv, Typed, TypeOK, RequestType
  <1>2. QED BY <1>1, RoomInvariant, PTL

\* A match of two users is stored once when it is over, by whatever its room
\* was stopped.
THEOREM SavedCorrect == Spec => []SavedOnce
  <1>1. RoomInv => SavedOnce
    BY DEF RoomInv, PerRoom, Sound, SavedOnce, PlayersOf
  <1>2. QED BY <1>1, RoomInvariant, PTL

\* No timer, host or failing deck stops a room whose match is running.
THEOREM RunningCorrect == Spec => []RunningNotStopped
  <1>1. RoomInv => RunningNotStopped
    BY DEF RoomInv, PerRoom, Sound, RunningNotStopped
  <1>2. QED BY <1>1, RoomInvariant, PTL

\* A room stopped before its second player came never starts.
THEOREM StartCorrect == Spec => NoStartAfterStop
  <1> DEFINE Kept == \A r \in Requests :
                       room[r].stopped /\ room[r].game = "none" => room'[r].game = "none"
  <1>1. RoomInv /\ [Next]_vars => [Kept]_vars
    <2>1. RoomInv /\ Next => Kept
      BY StepWrites, RoomsStaySound
    <2>2. QED BY <2>1
  <1>2. Spec => [][Kept]_vars
    BY <1>1, RoomInvariant, PTL DEF Spec
  <1>3. QED BY <1>2 DEF NoStartAfterStop

-----------------------------------------------------------------------------
(***************************************************************************)
(* Rooms and their ids, as long as no room is stopped and no id taken      *)
(* twice.                                                                  *)
(***************************************************************************)

Distinct(s) == \A i, j \in 1..Len(s) : i # j => s[i] # s[j]
Holds(s, x) == \E i \in 1..Len(s) : s[i] = x

\* The id at the front is taken.
LEMMA TailHolds ==
  ASSUME NEW S, NEW s \in Seq(S), s # <<>>, Distinct(s)
  PROVE  Distinct(Tail(s)) /\ \A x : Holds(Tail(s), x) <=> Holds(s, x) /\ x # Head(s)
  <1>1. /\ Len(s) \in Nat /\ Len(s) # 0 /\ Len(Tail(s)) = Len(s) - 1 /\ Head(s) = s[1]
        /\ \A i \in 1..Len(Tail(s)) : Tail(s)[i] = s[i + 1]
    OBVIOUS
  <1>2. Distinct(Tail(s))
    <2>1. SUFFICES ASSUME NEW i \in 1..Len(Tail(s)), NEW j \in 1..Len(Tail(s)), i # j
                   PROVE  Tail(s)[i] # Tail(s)[j]
      BY DEF Distinct
    <2>2. i + 1 \in 1..Len(s) /\ j + 1 \in 1..Len(s) /\ i + 1 # j + 1
      BY <1>1, <2>1
    <2>3. QED BY <1>1, <2>2 DEF Distinct
  <1>3. ASSUME NEW x, Holds(Tail(s), x)
        PROVE  Holds(s, x) /\ x # Head(s)
    <2>1. PICK i \in 1..Len(Tail(s)) : Tail(s)[i] = x
      BY <1>3 DEF Holds
    <2>2. i + 1 \in 1..Len(s) /\ 1 \in 1..Len(s) /\ i + 1 # 1 /\ s[i + 1] = x
      BY <1>1, <2>1
    <2>3. QED BY <1>1, <2>2 DEF Distinct, Holds
  <1>4. ASSUME NEW x, Holds(s, x), x # Head(s)
        PROVE  Holds(Tail(s), x)
    <2>1. PICK i \in 1..Len(s) : s[i] = x
      BY <1>4 DEF Holds
    <2>2. i # 1
      BY <1>1, <1>4, <2>1
    <2>3. i - 1 \in 1..Len(Tail(s)) /\ (i - 1) + 1 = i
      BY <1>1, <2>2
    <2>4. Tail(s)[i - 1] = x
      BY <1>1, <2>1, <2>3
    <2>5. QED BY <2>3, <2>4 DEF Holds
  <1>5. QED BY <1>2, <1>3, <1>4

\* An id that is not in the pool is put back.
LEMMA AppendHolds ==
  ASSUME NEW S, NEW s \in Seq(S), NEW y \in S, Distinct(s), ~Holds(s, y)
  PROVE  Distinct(Append(s, y)) /\ \A x : Holds(Append(s, y), x) <=> Holds(s, x) \/ x = y
  <1>1. /\ Len(s) \in Nat /\ Len(Append(s, y)) = Len(s) + 1
        /\ Append(s, y)[Len(s) + 1] = y
        /\ \A i \in 1..Len(s) : Append(s, y)[i] = s[i]
    OBVIOUS
  <1>2. \A i \in 1..(Len(s) + 1) : i \in 1..Len(s) \/ i = Len(s) + 1
    BY <1>1
  <1>3. \A i \in 1..Len(s) : s[i] # y
    BY DEF Holds
  <1>4. Distinct(Append(s, y))
    BY <1>1, <1>2, <1>3 DEF Distinct
  <1>5. \A i \in 1..Len(s) : i \in 1..(Len(s) + 1)
    BY <1>1
  <1>6. Len(s) + 1 \in 1..(Len(s) + 1)
    BY <1>1
  <1>7. QED BY <1>1, <1>2, <1>4, <1>5, <1>6 DEF Holds

\* An id is in the pool or names a room that has it; a room that is not
\* stopped is under its id, and its stop handler does not run; a room that is
\* removed is still there, and its stop handler runs once; the process leaves
\* an empty map.
Matched ==
  /\ Distinct(pool)
  /\ \A i \in Ids : Holds(pool, i) <=> rooms[i] = None
  /\ \A i \in Ids : rooms[i] # None => room[rooms[i]].id = i
  /\ \A r \in Requests :
       room[r].id # 0 /\ ~room[r].stopped => rooms[room[r].id] = r /\ removing[r] = 0
  /\ \A r \in Requests :
       removing[r] > 0 => removing[r] = 1 /\ rooms[room[r].id] = r /\ room[r].stopped
  /\ exited => \A i \in Ids : rooms[i] = None

\* A request opens one room.
OpensOnce == \A q \in Requests : room[q].id # 0 => req[q].at = "done"

IdInv == OpensOnce /\ (Orderly => Matched)

\* What is out of order remains so.
LEMMA OrderlyBefore ==
  ASSUME RoomInv, NEW x \in Requests, NEW n \in RoomType, room' = [room EXCEPT ![x] = n],
         room[x].stops <= n.stops, room[x].shared => n.shared, Orderly'
  PROVE  Orderly /\ n.stops <= 1 /\ ~n.shared
  <1>1. \A r \in Requests : room[r] \in RoomType /\ room[r].stops \in Nat
    BY DEF RoomInv, Typed, RoomType
  <1>2. \A r \in Requests : room'[r] = IF r = x THEN n ELSE room[r]
    BY DEF RoomInv, Typed
  <1>3. n.stops <= 1 /\ ~n.shared
    BY <1>2 DEF Orderly
  <1>4. n.stops \in Nat
    BY DEF RoomType
  <1>5. room[x].stops <= 1 /\ ~room[x].shared
    BY <1>1, <1>3, <1>4
  <1>6. QED BY <1>2, <1>3, <1>5 DEF Orderly

\* A room that is in the map leaves it, and its id goes back.
LEMMA RemovedIds ==
  ASSUME RoomInv, Matched, NEW r \in Requests, room[r].id # 0, rooms[room[r].id] = r,
         Removed(r)
  PROVE  /\ Distinct(pool)'
         /\ \A i \in Ids : Holds(pool', i) <=> rooms'[i] = None
         /\ \A i \in Ids : rooms'[i] = IF i = room[r].id THEN None ELSE rooms[i]
         /\ exited' => \A i \in Ids : rooms'[i] = None
  <1>1. PICK k \in Ids : k = room[r].id
    BY RoomsConstants DEF RoomInv, Typed, RoomType, Ids
  <1>2. pool \in Seq(Ids) /\ rooms \in [Ids -> Requests \union {None}] /\ r # None
    BY RoomsConstants DEF RoomInv, Typed
  <1>3. \A i \in Ids : rooms'[i] = IF i = k THEN None ELSE rooms[i]
    BY <1>1, <1>2 DEF Removed
  <1>4. ~Holds(pool, k)
    BY <1>1, <1>2 DEF Matched
  <1>5. pool' = Append(pool, k)
    BY <1>1 DEF Removed
  <1>6. Distinct(pool) /\ \A i \in Ids : Holds(pool, i) <=> rooms[i] = None
    BY DEF Matched
  <1>7. Distinct(Append(pool, k)) /\ \A x : Holds(Append(pool, k), x) <=> Holds(pool, x) \/ x = k
    BY <1>2, <1>4, <1>6, AppendHolds
  <1>8. QED BY <1>1, <1>3, <1>5, <1>6, <1>7 DEF Removed

\* The rooms that are left in the map when r, stopped and not to be removed any
\* more, leaves it.
LEMMA LeavesIds ==
  ASSUME RoomInv, Matched, NEW r \in Requests, room[r].id # 0, rooms[room[r].id] = r,
         Removed(r), removing' \in [Requests -> Nat], removing'[r] = 0,
         \A x \in Requests : x # r => removing'[x] = removing[x] /\ room'[x] = room[x],
         room'[r].id = room[r].id, room'[r].stopped
  PROVE  Matched'
  <1>1. /\ Distinct(pool)' /\ \A i \in Ids : Holds(pool', i) <=> rooms'[i] = None
        /\ \A i \in Ids : rooms'[i] = IF i = room[r].id THEN None ELSE rooms[i]
        /\ exited' => \A i \in Ids : rooms'[i] = None
    BY RemovedIds
  <1>2. \A x \in Requests : room'[x].id = room[x].id /\ (room[x].id # 0 => room[x].id \in Ids)
    BY RoomsConstants DEF RoomInv, Typed, RoomType, Ids
  <1>3. \A x \in Requests : x # r /\ room[x].id # 0 /\ rooms[room[x].id] = x =>
          rooms'[room[x].id] = x
    BY <1>1, <1>2
  <1>4. \A i \in Ids : rooms'[i] # None => room'[rooms'[i]].id = i
    <2>1. \A i \in Ids : rooms[i] # None => rooms[i] \in Requests
      BY DEF RoomInv, Typed
    <2>2. QED BY <1>1, <1>2, <2>1 DEF Matched
  <1>5. \A x \in Requests :
          room'[x].id # 0 /\ ~room'[x].stopped => rooms'[room'[x].id] = x /\ removing'[x] = 0
    BY <1>2, <1>3 DEF Matched
  <1>6. \A x \in Requests :
          removing'[x] > 0 => removing'[x] = 1 /\ rooms'[room'[x].id] = x /\ room'[x].stopped
    <2>1. ASSUME NEW x \in Requests, removing'[x] > 0
          PROVE  x # r /\ removing[x] > 0 /\ room[x].id # 0
      <3>1. x # r
        BY <2>1
      <3>2. QED BY <2>1, <3>1 DEF RoomInv, Placed
    <2>2. QED BY <1>2, <1>3, <2>1 DEF Matched
  <1>7. QED BY <1>1, <1>4, <1>5, <1>6 DEF Matched

LEMMA RemoveIds ==
  ASSUME RoomInv, IdInv, NEW r \in Requests, Remove(r)
  PROVE  IdInv'
  <1>1. OpensOnce' /\ (Orderly' => Orderly)
    BY DEF Remove, IdInv, OpensOnce, Orderly
  <1>2. ASSUME Orderly' PROVE Matched'
    <2>1. Matched
      BY <1>1, <1>2 DEF IdInv
    <2>2. /\ removing[r] = 1 /\ rooms[room[r].id] = r /\ room[r].stopped /\ room[r].id # 0
          /\ Removed(r) /\ room' = room
      BY <2>1 DEF Remove, Matched, RoomInv, Placed
    <2>3. /\ removing' \in [Requests -> Nat]
          /\ \A x \in Requests : removing'[x] = IF x = r THEN 0 ELSE removing[x]
      BY <2>2 DEF Remove, RoomInv, Typed
    <2>4. QED BY <2>1, <2>2, <2>3, LeavesIds
  <1>3. QED BY <1>1, <1>2 DEF IdInv

LEMMA RemoveFailsIds ==
  ASSUME RoomInv, IdInv, NEW r \in Requests, RemoveFails(r)
  PROVE  IdInv'
  <1>1. /\ room \in [Requests -> RoomType] /\ removing \in [Requests -> Nat]
        /\ rooms' = rooms /\ pool' = pool /\ exited' = exited /\ req' = req
    BY DEF RemoveFails, RoomInv, Typed
  <1>2. \A x \in Requests :
          /\ room'[x].id = room[x].id /\ room'[x].stopped = room[x].stopped
          /\ room'[x].stops = room[x].stops /\ room'[x].shared = room[x].shared
    BY <1>1 DEF RemoveFails, RoomType
  <1>3. \A x \in Requests : removing'[x] = IF x = r THEN removing[x] - 1 ELSE removing[x]
    BY <1>1 DEF RemoveFails
  <1>4. OpensOnce' /\ (Orderly' => Orderly)
    BY <1>1, <1>2 DEF IdInv, OpensOnce, Orderly
  <1>5. ASSUME Orderly' PROVE Matched'
    <2>1. Matched /\ removing[r] = 1 /\ room[r].stopped
      BY <1>4, <1>5 DEF IdInv, RemoveFails, Matched
    <2>2. \A i \in Ids : rooms[i] # None => rooms[i] \in Requests
      BY DEF RoomInv, Typed
    <2>3. \A i \in Ids : rooms'[i] # None => room'[rooms'[i]].id = i
      BY <1>1, <1>2, <2>1, <2>2 DEF Matched
    <2>4. \A x \in Requests :
            room'[x].id # 0 /\ ~room'[x].stopped => rooms'[room'[x].id] = x /\ removing'[x] = 0
      BY <1>1, <1>2, <1>3, <2>1 DEF Matched
    <2>5. \A x \in Requests :
            removing'[x] > 0 => removing'[x] = 1 /\ rooms'[room'[x].id] = x /\ room'[x].stopped
      BY <1>1, <1>2, <1>3, <2>1 DEF Matched
    <2>6. QED BY <1>1, <2>1, <2>3, <2>4, <2>5 DEF Matched
  <1>6. QED BY <1>4, <1>5 DEF IdInv

\* A step that leaves the map alone and every room its id and its stops.
LEMMA KeptIds ==
  ASSUME RoomInv, IdInv, UNCHANGED <<pool, rooms, removing>>,
         exited' => exited \/ \A i \in Ids : rooms[i] = None,
         \A x \in Requests :
           /\ room'[x].id = room[x].id /\ room'[x].stopped = room[x].stopped
           /\ room'[x].stops = room[x].stops /\ room'[x].shared = room[x].shared
           /\ room[x].id # 0 => req'[x].at \in {req[x].at, "done"}
  PROVE  IdInv'
  <1>1. \A i \in Ids : rooms[i] # None => rooms[i] \in Requests
    BY DEF RoomInv, Typed
  <1>2. OpensOnce'
    BY DEF IdInv, OpensOnce
  <1>3. Orderly' => Orderly
    BY DEF Orderly
  <1>4. Matched => Matched'
    BY <1>1 DEF Matched
  <1>5. QED BY <1>2, <1>3, <1>4 DEF IdInv

\* The first stop of a room.
LEMMA StopIds ==
  ASSUME RoomInv, IdInv, NEW r \in Requests, room[r].id # 0, NEW left, IsLeft(left, r),
         StopWith(r, left),
         \A x \in Requests : room[x].id # 0 => req'[x].at \in {req[x].at, "done"}
  PROVE  IdInv'
  <1>1. room \in [Requests -> RoomType] /\ removing \in [Requests -> Nat] /\ Sound(room[r])
    BY DEF RoomInv, Typed, PerRoom
  <1>2. PICK n \in RoomType : room' = [room EXCEPT ![r] = n] /\ StoppedAs(n, r, left)
    BY StopsRoom DEF IsLeft
  <1>3. /\ n.id = room[r].id /\ n.stopped /\ n.stops = room[r].stops + 1
        /\ n.shared = room[r].shared
    BY <1>2 DEF StoppedAs, IsLeft
  <1>4. \A x \in Requests : room'[x] = IF x = r THEN n ELSE room[x]
    BY <1>1, <1>2
  <1>5. OpensOnce'
    BY <1>3, <1>4 DEF IdInv, OpensOnce
  <1>6. room[r].stops \in Nat
    BY <1>1 DEF RoomType
  <1>7. ASSUME Orderly' PROVE Matched'
    <2>1. Orderly /\ n.stops <= 1
      <3>1. room[r].stops <= n.stops /\ (room[r].shared => n.shared)
        BY <1>3, <1>6
      <3>2. room' = [room EXCEPT ![r] = n]
        BY <1>2
      <3>3. QED BY <1>7, <3>1, <3>2, OrderlyBefore
    <2>2. Matched /\ ~room[r].stopped
      <3>1. room[r].stops = 0
        BY <1>3, <1>6, <2>1
      <3>2. QED BY <1>1, <2>1, <3>1 DEF IdInv, Sound
    <2>3. rooms[room[r].id] = r /\ removing[r] = 0
      BY <2>2 DEF Matched
    <2>4. CASE Removed(r) /\ UNCHANGED removing
      <3>1. \A x \in Requests : x # r => removing'[x] = removing[x] /\ room'[x] = room[x]
        BY <1>4, <2>4
      <3>2. room'[r].id = room[r].id /\ room'[r].stopped /\ removing'[r] = 0
        BY <1>3, <1>4, <2>3, <2>4
      <3>3. QED BY <1>1, <2>2, <2>3, <2>4, <3>1, <3>2, LeavesIds
    <2>5. CASE /\ removing' = [removing EXCEPT ![r] = @ + 1]
               /\ UNCHANGED <<rooms, pool, exited>>
      <3>1. \A x \in Requests : removing'[x] = IF x = r THEN 1 ELSE removing[x]
        BY <1>1, <2>3, <2>5
      <3>2. \A i \in Ids : rooms[i] # None => rooms[i] \in Requests
        BY DEF RoomInv, Typed
      <3>3. \A i \in Ids : rooms'[i] # None => room'[rooms'[i]].id = i
        BY <1>3, <1>4, <2>2, <2>5, <3>2 DEF Matched
      <3>4. \A x \in Requests :
              room'[x].id # 0 /\ ~room'[x].stopped => rooms'[room'[x].id] = x /\ removing'[x] = 0
        BY <1>3, <1>4, <2>2, <2>5, <3>1 DEF Matched
      <3>5. \A x \in Requests :
              removing'[x] > 0 => removing'[x] = 1 /\ rooms'[room'[x].id] = x /\ room'[x].stopped
        BY <1>3, <1>4, <2>2, <2>3, <2>5, <3>1 DEF Matched
      <3>6. QED BY <2>2, <2>5, <3>3, <3>4, <3>5 DEF Matched
    <2>6. QED BY <2>4, <2>5 DEF StopWith
  <1>8. QED BY <1>5, <1>7 DEF IdInv

\* A room is opened: with the id at the front of the pool, or it shares one.
LEMMA OpenIds ==
  ASSUME RoomInv, IdInv, NEW q \in Requests, NEW id \in Ids, Open(q, id),
         req[q].at # "done", ~exited
  PROVE  IdInv'
  <1>1. /\ pool \in Seq(Ids) /\ rooms \in [Ids -> Requests \union {None}]
        /\ room \in [Requests -> RoomType] /\ req \in [Requests -> RequestType]
        /\ removing \in [Requests -> Nat] /\ q # None
    BY RoomsConstants DEF RoomInv, Typed
  <1>2. room[q].id = 0 /\ removing[q] = 0
    BY <1>1 DEF IdInv, OpensOnce, RoomInv, Placed
  <1>3. room[q].stops = 0 /\ ~room[q].shared
    BY <1>2 DEF RoomInv, PerRoom, Sound
  <1>4. PICK n : n = [NoRoom EXCEPT !.id = id, !.host = req[q].who,
                                    !.kind = req[q].kind, !.timer = TRUE,
                                    !.shared = pool = <<>> \/ Head(pool) # id]
    OBVIOUS
  <1>5. n.id = id /\ ~n.stopped /\ n.stops = 0 /\ n.shared = (pool = <<>> \/ Head(pool) # id)
    BY <1>4 DEF NoRoom
  <1>6. \A x \in Requests : room'[x] = IF x = q THEN n ELSE room[x]
    BY <1>1, <1>4 DEF Open
  <1>7. \A x \in Requests : req'[x].at = IF x = q THEN "done" ELSE req[x].at
    BY <1>1 DEF Open, Goto, RequestType
  <1>8. OpensOnce'
    BY <1>6, <1>7 DEF IdInv, OpensOnce
  <1>9. id # 0 /\ \A x \in Requests : room[x].id # 0 => room[x].id \in Ids
    BY <1>1, RoomsConstants DEF RoomType, Ids
  <1>10. ASSUME Orderly' PROVE Matched'
    <2>1. pool # <<>> /\ Head(pool) = id /\ Orderly
      BY <1>3, <1>5, <1>6, <1>10 DEF Orderly
    <2>2. Matched
      BY <2>1 DEF IdInv
    <2>3. Distinct(pool) /\ \A i \in Ids : Holds(pool, i) <=> rooms[i] = None
      BY <2>2 DEF Matched
    <2>4. Distinct(Tail(pool)) /\ \A x : Holds(Tail(pool), x) <=> Holds(pool, x) /\ x # id
      BY <1>1, <2>1, <2>3, TailHolds
    <2>5. rooms[id] = None
      <3>1. 1 \in 1..Len(pool) /\ pool[1] = id
        BY <1>1, <2>1
      <3>2. QED BY <2>3, <3>1 DEF Holds
    <2>6. /\ pool' = Tail(pool) /\ removing' = removing /\ exited' = exited
          /\ \A i \in Ids : rooms'[i] = IF i = id THEN q ELSE rooms[i]
      BY <1>1, <2>1 DEF Open
    <2>7. \A x \in Requests : room[x].id # 0 /\ rooms[room[x].id] = x =>
            x # q /\ rooms'[room'[x].id] = x
      <3>1. \A x \in Requests : x # None
        BY RoomsConstants
      <3>2. QED BY <1>2, <1>6, <1>9, <2>5, <2>6, <3>1
    <2>8. \A i \in Ids : Holds(pool', i) <=> rooms'[i] = None
      BY <1>1, <2>3, <2>4, <2>6
    <2>9. \A i \in Ids : rooms'[i] # None => room'[rooms'[i]].id = i
      <3>1. \A i \in Ids : rooms[i] # None => rooms[i] \in Requests /\ room[rooms[i]].id = i
        BY <1>1, <2>2 DEF Matched
      <3>2. \A i \in Ids : i # id /\ rooms[i] # None => rooms[i] # q
        BY <1>2, <3>1, RoomsConstants DEF Ids
      <3>3. QED BY <1>5, <1>6, <2>6, <3>1, <3>2
    <2>10. \A x \in Requests :
             room'[x].id # 0 /\ ~room'[x].stopped => rooms'[room'[x].id] = x /\ removing'[x] = 0
      BY <1>2, <1>5, <1>6, <2>2, <2>6, <2>7 DEF Matched
    <2>11. \A x \in Requests :
             removing'[x] > 0 => removing'[x] = 1 /\ rooms'[room'[x].id] = x /\ room'[x].stopped
      <3>1. \A x \in Requests : removing[x] > 0 => x # q /\ room[x].id # 0
        BY <1>2 DEF RoomInv, Placed
      <3>2. QED BY <1>6, <2>2, <2>6, <2>7, <3>1 DEF Matched
    <2>12. QED BY <2>4, <2>6, <2>8, <2>9, <2>10, <2>11 DEF Matched
  <1>11. QED BY <1>8, <1>10 DEF IdInv

\* The second player enters.
LEMMA JoinIds ==
  ASSUME RoomInv, IdInv, NEW q \in Requests, JoinEntered(q)
  PROVE  IdInv'
  <1>1. PICK r \in Requests :
          /\ room[r].id # 0 /\ Goto(q, "done")
          /\ \E left : /\ IsLeft(left, r)
                       /\ \/ /\ \/ room' = [room EXCEPT ![r] = left]
                                \/ room' = [room EXCEPT ![r] = [left EXCEPT !.game = "running"]]
                             /\ UNCHANGED <<rooms, pool, removing, exited>>
                          \/ StopWith(r, left)
    BY JoinLeaves
  <1>2. \A x \in Requests : req'[x].at \in {req[x].at, "done"}
    BY <1>1 DEF Goto, RoomInv, Typed, RequestType
  <1>3. ASSUME NEW left, IsLeft(left, r), UNCHANGED <<rooms, pool, removing, exited>>,
               \/ room' = [room EXCEPT ![r] = left]
               \/ room' = [room EXCEPT ![r] = [left EXCEPT !.game = "running"]]
        PROVE  IdInv'
    <2>1. PICK m : /\ room' = [room EXCEPT ![r] = m]
                   /\ m = left \/ m = [left EXCEPT !.game = "running"]
      BY <1>3
    <2>2. /\ m.id = room[r].id /\ m.stopped = room[r].stopped /\ m.stops = room[r].stops
          /\ m.shared = room[r].shared
      BY <1>3, <2>1 DEF IsLeft, RoomType
    <2>3. \A x \in Requests :
            /\ room'[x].id = room[x].id /\ room'[x].stopped = room[x].stopped
            /\ room'[x].stops = room[x].stops /\ room'[x].shared = room[x].shared
      BY <2>1, <2>2 DEF RoomInv, Typed
    <2>4. QED BY <1>2, <1>3, <2>3, KeptIds
  <1>4. ASSUME NEW left, IsLeft(left, r), StopWith(r, left)
        PROVE  IdInv'
    BY <1>1, <1>2, <1>4, StopIds
  <1>5. QED BY <1>1, <1>3, <1>4

LEMMA IdStep == RoomInv /\ IdInv /\ [Next]_vars => IdInv'
  <1> SUFFICES ASSUME RoomInv, IdInv, [Next]_vars PROVE IdInv'
    OBVIOUS
  <1>1. CASE UNCHANGED vars
    BY <1>1, KeptIds DEF vars
  <1>2. ASSUME NEW q \in Requests, UNCHANGED <<pool, rooms, room, removing, exited>>,
               \/ \E p \in Players, k \in Kinds : CreateAsked(q, p, k)
               \/ \E p \in Players, i \in Ids : JoinAsked(q, p, i)
               \/ CreateAdmitted(q) \/ CreateReserved(q) \/ Fails(q)
        PROVE  IdInv'
    <2>1. req \in [Requests -> RequestType] /\ req[q].at # "done"
      BY <1>2 DEF RoomInv, Typed, CreateAsked, JoinAsked, CreateAdmitted, CreateReserved, Fails
    <2>2. \A x \in Requests : x # q => req'[x] = req[x]
      BY <1>2, <2>1 DEF CreateAsked, JoinAsked, CreateAdmitted, CreateReserved, Open, Fails, Goto
    <2>3. room[q].id = 0
      BY <2>1 DEF IdInv, OpensOnce
    <2>4. QED BY <1>2, <2>2, <2>3, KeptIds
  <1>3. ASSUME NEW q \in Requests, CreateReserved(q) \/ CreateOpened(q)
        PROVE  IdInv'
    <2>1. CASE UNCHANGED <<pool, rooms, room, removing, exited>> /\ CreateReserved(q)
      BY <1>2, <2>1
    <2>2. ASSUME NEW id \in Ids, Open(q, id) PROVE IdInv'
      <3>1. req[q].at # "done" /\ ~exited
        BY <1>3 DEF CreateReserved, CreateOpened
      <3>2. QED BY <2>2, <3>1, OpenIds
    <2>3. pool # <<>> => Head(pool) \in Ids
      BY DEF RoomInv, Typed
    <2>4. req[q].at = "reserved" => req[q].id \in Ids
      BY DEF RoomInv, Typed
    <2>5. QED BY <1>3, <2>1, <2>2, <2>3, <2>4 DEF CreateReserved, CreateOpened
  <1>4. CASE Signal
    <2>1. exited' => exited \/ \A i \in Ids : rooms[i] = None
      BY <1>4 DEF Signal
    <2>2. UNCHANGED <<pool, rooms, req, room, removing>>
      BY <1>4 DEF Signal
    <2>3. QED BY <2>1, <2>2, KeptIds
  <1>5. ASSUME NEW q \in Requests,
               \/ CreateAdmitted(q) \/ Fails(q)
               \/ \E p \in Players, k \in Kinds : CreateAsked(q, p, k)
               \/ \E p \in Players, i \in Ids : JoinAsked(q, p, i)
        PROVE  IdInv'
    <2>1. UNCHANGED <<pool, rooms, room, removing, exited>>
      BY <1>5 DEF CreateAdmitted, Fails, CreateAsked, JoinAsked
    <2>2. QED BY <1>2, <1>5, <2>1
  <1>6. ASSUME NEW p \in Players, NEW i \in Ids, DeleteRoom(p, i)
        PROVE  IdInv'
    BY <1>6, DeleteRoomLeaves, StopIds
  <1>7. ASSUME NEW r \in Requests, GameEnds(r)
        PROVE  IdInv'
    BY <1>7, GameEndsLeaves, StopIds
  <1>8. ASSUME NEW r \in Requests, IdleTimer(r)
        PROVE  IdInv'
    <2>1. PICK left \in RoomType :
            /\ left = [room[r] EXCEPT !.timer = FALSE]
            /\ \/ IsLeft(left, r) /\ StopWith(r, left)
               \/ room' = [room EXCEPT ![r] = left] /\ UNCHANGED <<rooms, pool, removing, exited>>
      BY <1>8, IdleTimerLeaves
    <2>2. room[r].id # 0 /\ req' = req /\ room \in [Requests -> RoomType]
      BY <1>8, IdleTimerLeaves DEF RoomInv, Typed
    <2>3. CASE room' = [room EXCEPT ![r] = left] /\ UNCHANGED <<rooms, pool, removing, exited>>
      <3>1. \A x \in Requests :
              /\ room'[x].id = room[x].id /\ room'[x].stopped = room[x].stopped
              /\ room'[x].stops = room[x].stops /\ room'[x].shared = room[x].shared
        BY <2>1, <2>2, <2>3 DEF RoomType
      <3>2. QED BY <2>2, <2>3, <3>1, KeptIds
    <2>4. QED BY <2>1, <2>2, <2>3, StopIds
  <1>9. ASSUME NEW q \in Requests, Remove(q) \/ RemoveFails(q) \/ JoinEntered(q)
        PROVE  IdInv'
    BY <1>9, RemoveIds, RemoveFailsIds, JoinIds
  <1>10. QED BY <1>1, <1>3, <1>4, <1>5, <1>6, <1>7, <1>8, <1>9 DEF Next, Handler

LEMMA IdInit == Init => IdInv
  <1> SUFFICES ASSUME Init PROVE IdInv
    OBVIOUS
  <1>1. pool = [i \in 1..PoolSize |-> i] /\ PoolSize \in Nat
    BY RoomsConstants DEF Init, Ids
  <1>2. Len(pool) = PoolSize /\ \A i \in 1..PoolSize : pool[i] = i
    BY <1>1
  <1>3. Distinct(pool) /\ \A i \in Ids : Holds(pool, i)
    BY <1>1, <1>2 DEF Distinct, Holds, Ids
  <1>4. \A q \in Requests : /\ room[q].id = 0 /\ ~room[q].stopped /\ removing[q] = 0
                            /\ req[q].at = "idle"
    BY DEF Init, NoRoom, Unused
  <1>5. (\A i \in Ids : rooms[i] = None) /\ ~exited
    BY DEF Init
  <1>6. QED BY <1>3, <1>4, <1>5 DEF IdInv, OpensOnce, Matched

\* Until a room is stopped or an id is taken twice, the ids and the rooms stay
\* matched.
THEOREM IdInvariant == Spec => [](RoomInv /\ IdInv)
  BY IdStep, IdInit, RoomInit, RoomStep, PTL DEF Spec

\* Ids are neither lost nor given out twice, with redis, deletions and failures,
\* as long as no room is stopped twice and no id read by two requests at once.
THEOREM IdsCorrect == Spec => []IdsConserved
  <1>1. RoomInv /\ IdInv => IdsConserved
    <2> SUFFICES ASSUME RoomInv, IdInv, Orderly PROVE IdsConserved
      BY DEF IdsConserved
    <2>1. pool \in Seq(Ids) /\ DOMAIN pool = 1..Len(pool)
          /\ \A k \in 1..Len(pool) : pool[k] \in Ids
      BY DEF RoomInv, Typed
    <2>2. \A x : x \in Range(pool) <=> Holds(pool, x)
      BY <2>1 DEF Range, Holds
    <2>3. \A x : Holds(pool, x) => x \in Ids
      BY <2>1 DEF Holds
    <2>4. Range(pool) = {i \in Ids : rooms[i] = None}
      BY <2>2, <2>3 DEF IdInv, Matched
    <2>5. QED BY <2>4 DEF IdsConserved, IdInv, Matched, Distinct
  <1>2. QED BY <1>1, IdInvariant, PTL

\* A room that waits or plays is found under its id until a room is stopped
\* twice or an id is taken twice: nothing else removes it.
THEOREM LiveCorrect == Spec => []LiveRoomIsKept
  <1>1. RoomInv /\ IdInv => LiveRoomIsKept
    BY DEF IdInv, Matched, LiveRoomIsKept, Opened
  <1>2. QED BY <1>1, IdInvariant, PTL

\* The process does not leave while a match is running, unless a room was
\* stopped twice or an id taken twice.
THEOREM ExitCorrect == Spec => []ExitSafe
  <1>1. RoomInv /\ IdInv => ExitSafe
    <2> SUFFICES ASSUME RoomInv, IdInv, Orderly, exited, NEW r \in Requests,
                        room[r].game = "running"
                 PROVE  FALSE
      BY DEF ExitSafe
    <2>1. room[r].id # 0 /\ ~room[r].stopped
      BY DEF RoomInv, PerRoom, Sound
    <2>2. room[r].id \in Ids
      BY <2>1, RoomsConstants DEF RoomInv, Typed, RoomType, Ids
    <2>3. rooms[room[r].id] = r /\ rooms[room[r].id] = None
      BY <2>1, <2>2 DEF IdInv, Matched
    <2>4. QED BY <2>3, RoomsConstants
  <1>2. QED BY <1>1, IdInvariant, PTL

-----------------------------------------------------------------------------
(***************************************************************************)
(* Which servers stay orderly.                                             *)
(***************************************************************************)

\* Without redis, deletions and decks that fail to start: a room is stopped
\* before its match by its timer only, which is then used up, and no id is kept
\* over an await.
Quiet == ~Redis /\ ~HostDeletes /\ DecksFit

StopsOnce ==
  \A r \in Requests :
    /\ room[r].stops <= 1 /\ ~room[r].shared /\ req[r].at # "reserved"
    /\ room[r].stopped /\ room[r].timer => room[r].game # "none"

\* A step changes one room or one request at most.
LEMMA QuietStep ==
  ASSUME Quiet
  PROVE  RoomInv /\ StopsOnce /\ [Next]_vars => StopsOnce'
  <1> SUFFICES ASSUME RoomInv, StopsOnce, [Next]_vars PROVE StopsOnce'
    OBVIOUS
  <1> DEFINE Once(n) == /\ n.stops <= 1 /\ ~n.shared
                        /\ n.stopped /\ n.timer => n.game # "none"
  <1>1. /\ room \in [Requests -> RoomType] /\ req \in [Requests -> RequestType]
        /\ \A r \in Requests : Once(room[r]) /\ Sound(room[r]) /\ req[r].at # "reserved"
    BY DEF RoomInv, Typed, PerRoom, StopsOnce
  <1>2. ASSUME room' = room \/ \E x \in Requests : \E n : room' = [room EXCEPT ![x] = n] /\ Once(n),
               \A x \in Requests : req'[x].at # "reserved"
        PROVE  StopsOnce'
    <2>1. \A r \in Requests : Once(room'[r])
      BY <1>1, <1>2
    <2>2. QED BY <1>2, <2>1 DEF StopsOnce
  <1>3. ASSUME NEW r \in Requests, NEW left, IsLeft(left, r), StopWith(r, left), req' = req,
               ~room[r].stopped, left.timer => left.game # "none"
        PROVE  StopsOnce'
    <2>1. PICK n \in RoomType : room' = [room EXCEPT ![r] = n] /\ StoppedAs(n, r, left)
      BY <1>3, StopsRoom DEF IsLeft
    <2>2. room[r].stops = 0
      BY <1>1, <1>3 DEF Sound, RoomType
    <2>3. Once(n)
      BY <1>1, <1>3, <2>1, <2>2 DEF StoppedAs, IsLeft
    <2>4. QED BY <1>1, <1>2, <1>3, <2>1, <2>3
  <1>4. ASSUME NEW r \in Requests, IdleTimer(r)
        PROVE  StopsOnce'
    <2>1. PICK left \in RoomType :
            /\ left = [room[r] EXCEPT !.timer = FALSE]
            /\ \/ IsLeft(left, r) /\ StopWith(r, left)
               \/ room' = [room EXCEPT ![r] = left]
      BY <1>4, IdleTimerLeaves
    <2>2. req' = req /\ room[r].timer /\ room[r] \in RoomType
      BY <1>1, <1>4 DEF IdleTimer
    <2>3. /\ ~left.timer /\ left.stops = room[r].stops /\ left.shared = room[r].shared
          /\ left.game = room[r].game /\ left.stopped = room[r].stopped
      BY <2>1, <2>2 DEF RoomType
    <2>4. CASE room' = [room EXCEPT ![r] = left]
      <3>1. Once(left)
        BY <1>1, <2>3
      <3>2. QED BY <1>1, <1>2, <2>2, <2>4, <3>1
    <2>5. CASE IsLeft(left, r) /\ StopWith(r, left)
      <3>1. CASE room[r].game = "none"
        <4>1. ~room[r].stopped
          BY <1>1, <2>2, <3>1
        <4>2. QED BY <1>3, <2>2, <2>3, <2>5, <4>1
      <3>2. CASE room[r].game # "none"
        <4>1. room[r].game = "running"
          BY <2>3, <2>5, <3>2 DEF IsLeft
        <4>2. ~room[r].stopped
          BY <1>1, <4>1 DEF Sound
        <4>3. QED BY <1>3, <2>2, <2>3, <2>5, <4>2
      <3>3. QED BY <3>1, <3>2
    <2>6. QED BY <2>1, <2>4, <2>5
  <1>5. ASSUME NEW r \in Requests, GameEnds(r)
        PROVE  StopsOnce'
    <2>1. room[r].game = "running" /\ ~room[r].stopped /\ req' = req
      BY <1>1, <1>5 DEF GameEnds, Sound
    <2>2. PICK left : left = [room[r] EXCEPT !.game = "over"]
      OBVIOUS
    <2>3. left.game = "over" /\ IsLeft(left, r)
      BY <1>1, <2>1, <2>2 DEF IsLeft, RoomType
    <2>4. StopWith(r, left)
      BY <1>5, <2>2, Zenon DEF GameEnds
    <2>5. QED BY <1>3, <2>1, <2>3, <2>4
  <1>6. ASSUME NEW q \in Requests, JoinEntered(q)
        PROVE  StopsOnce'
    <2>1. PICK r \in Requests : \E left :
            /\ IsLeft(left, r) /\ Goto(q, "done")
            /\ \/ room' = [room EXCEPT ![r] = left]
               \/ room' = [room EXCEPT ![r] = [left EXCEPT !.game = "running"]]
      BY <1>6, JoinLeaves DEF Quiet
    <2> PICK left : /\ IsLeft(left, r) /\ Goto(q, "done")
                    /\ \/ room' = [room EXCEPT ![r] = left]
                       \/ room' = [room EXCEPT ![r] = [left EXCEPT !.game = "running"]]
      BY <2>1
    <2>2. \A x \in Requests : req'[x].at # "reserved"
      BY <1>1 DEF Goto, RequestType
    <2>3. /\ left.stops = room[r].stops /\ left.shared = room[r].shared
          /\ left.stopped = room[r].stopped
          /\ left.timer => room[r].timer
          /\ left.game = "none" => room[r].game = "none"
          /\ left \in RoomType
      BY DEF IsLeft
    <2>4. CASE room' = [room EXCEPT ![r] = left]
      <3>1. left.stopped /\ left.timer => left.game # "none"
        <4>1. room[r].stopped /\ room[r].timer => room[r].game # "none"
          BY <1>1
        <4>2. QED BY <2>3, <4>1
      <3>2. Once(left)
        BY <1>1, <2>3, <3>1
      <3>3. QED BY <1>2, <2>2, <2>4, <3>2
    <2>5. CASE room' = [room EXCEPT ![r] = [left EXCEPT !.game = "running"]]
      <3>1. Once([left EXCEPT !.game = "running"])
        BY <1>1, <2>3 DEF RoomType
      <3>2. QED BY <1>2, <2>2, <2>5, <3>1
    <2>6. QED BY <2>4, <2>5
  <1>7. ASSUME NEW q \in Requests, CreateReserved(q)
        PROVE  StopsOnce'
    <2>1. CASE pool # <<>>
      <3>1. PICK n : /\ n = [NoRoom EXCEPT !.id = Head(pool), !.host = req[q].who,
                                            !.kind = req[q].kind, !.timer = TRUE,
                                            !.shared = pool = <<>> \/ Head(pool) # Head(pool)]
                     /\ room' = [room EXCEPT ![q] = n] /\ Goto(q, "done")
        BY <1>7, <2>1 DEF CreateReserved, Open, Quiet
      <3>2. Once(n)
        <4>1. n.stops = 0 /\ ~n.stopped /\ n.shared = FALSE
          BY <2>1, <3>1 DEF NoRoom
        <4>2. QED BY <4>1
      <3>3. \A x \in Requests : req'[x].at # "reserved"
        BY <1>1, <3>1 DEF Goto, RequestType
      <3>4. QED BY <1>2, <3>1, <3>2, <3>3
    <2>2. CASE pool = <<>>
      <3>1. room' = room /\ Goto(q, "done")
        BY <1>7, <2>2 DEF CreateReserved
      <3>2. \A x \in Requests : req'[x].at # "reserved"
        BY <1>1, <3>1 DEF Goto, RequestType
      <3>3. QED BY <1>2, <3>1, <3>2
    <2>3. QED BY <2>1, <2>2
  <1>8. ASSUME NEW q \in Requests, room' = room,
               \/ CreateAdmitted(q) \/ Fails(q)
               \/ \E p \in Players, k \in Kinds : CreateAsked(q, p, k)
               \/ \E p \in Players, i \in Ids : JoinAsked(q, p, i)
        PROVE  StopsOnce'
    <2>1. \E y : req' = [req EXCEPT ![q] = y] /\ y.at # "reserved"
      <3>1. req[q] \in RequestType
        BY <1>1
      <3>2. ASSUME NEW l, req' = [req EXCEPT ![q].at = l], l # "reserved"
            PROVE  \E y : req' = [req EXCEPT ![q] = y] /\ y.at # "reserved"
        <4>1. req' = [req EXCEPT ![q] = [req[q] EXCEPT !.at = l]]
          BY <1>1, <3>2
        <4>2. [req[q] EXCEPT !.at = l].at # "reserved"
          BY <3>1, <3>2 DEF RequestType
        <4>3. QED BY <4>1, <4>2
      <3>3. CASE CreateAdmitted(q) \/ Fails(q)
        BY <3>2, <3>3 DEF CreateAdmitted, Fails, Goto
      <3>4. ASSUME NEW p \in Players, NEW k \in Kinds, CreateAsked(q, p, k)
            PROVE  \E y : req' = [req EXCEPT ![q] = y] /\ y.at # "reserved"
        <4>1. PICK y : /\ y = [Unused EXCEPT !.at = "asked", !.who = p, !.kind = k]
                       /\ req' = [req EXCEPT ![q] = y]
          BY <3>4 DEF CreateAsked
        <4>2. y.at # "reserved"
          BY <4>1 DEF Unused
        <4>3. QED BY <4>1, <4>2
      <3>5. ASSUME NEW p \in Players, NEW i \in Ids, JoinAsked(q, p, i)
            PROVE  \E y : req' = [req EXCEPT ![q] = y] /\ y.at # "reserved"
        <4>1. PICK y : /\ y = [Unused EXCEPT !.at = "joining", !.who = p, !.target = rooms[i]]
                       /\ req' = [req EXCEPT ![q] = y]
          BY <3>5 DEF JoinAsked
        <4>2. y.at # "reserved"
          BY <4>1 DEF Unused
        <4>3. QED BY <4>1, <4>2
      <3>6. QED BY <1>8, <3>3, <3>4, <3>5
    <2>2. \A x \in Requests : req'[x].at # "reserved"
      BY <1>1, <2>1
    <2>3. QED BY <1>2, <1>8, <2>2
  <1>9. CASE UNCHANGED vars \/ Signal \/ \E r \in Requests : Remove(r)
    <2>1. room' = room /\ req' = req
      BY <1>9 DEF vars, Signal, Remove
    <2>2. QED BY <1>1, <1>2, <2>1
  <1>10. /\ \A q \in Requests : ~RemoveFails(q) /\ ~CreateOpened(q)
         /\ \A p \in Players, i \in Ids : ~DeleteRoom(p, i)
    BY <1>1 DEF RemoveFails, CreateOpened, DeleteRoom, Quiet
  <1>11. \A q \in Requests :
           CreateAdmitted(q) \/ Fails(q) \/ (\E p \in Players, k \in Kinds : CreateAsked(q, p, k))
             \/ (\E p \in Players, i \in Ids : JoinAsked(q, p, i)) => room' = room
    BY DEF CreateAdmitted, Fails, CreateAsked, JoinAsked
  <1> HIDE DEF Once
  <1>12. QED
    <2>1. ASSUME NEW q \in Requests, Handler(q) PROVE StopsOnce'
      BY <1>6, <1>7, <1>8, <1>10, <1>11, <2>1 DEF Handler
    <2>2. ASSUME NEW q \in Requests, NEW p \in Players,
                 (\E k \in Kinds : CreateAsked(q, p, k)) \/ \E i \in Ids : JoinAsked(q, p, i)
          PROVE  StopsOnce'
      BY <1>8, <1>11, <2>2
    <2>3. QED BY <1>4, <1>5, <1>9, <1>10, <2>1, <2>2 DEF Next

\* A server without redis, whose hosts delete no rooms and whose verified decks
\* always start, never comes to stop a room twice or to take an id twice: there
\* the three theorems above hold without their exception.
THEOREM QuietIsOrderly ==
  ASSUME Quiet
  PROVE  Spec => []Orderly
  <1>1. Init => StopsOnce
    BY DEF Init, StopsOnce, NoRoom, Unused
  <1>2. StopsOnce => Orderly
    BY DEF StopsOnce, Orderly
  <1>3. RoomInv /\ StopsOnce /\ [Next]_vars => StopsOnce'
    BY QuietStep
  <1>4. QED BY <1>1, <1>2, <1>3, RoomInit, RoomStep, PTL DEF Spec
=============================================================================
