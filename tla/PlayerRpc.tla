------------------------------ MODULE PlayerRpc ------------------------------
(***************************************************************************)
(* The requests to one player of the match server, and their clock: the    *)
(* class Player of packages/server/src/rooms/rooms.service.ts.             *)
(*                                                                         *)
(* The game asks for one answer at a time (OneRpcPerPlayer of GameFlow).   *)
(* The browser learns of a request from the event stream, which may be cut *)
(* and opened again, and posts answers, which may arrive late, twice or    *)
(* after the clock has run out.  Timer, answers and the game are tasks of  *)
(* one JavaScript engine; the continuation of a settled request runs       *)
(* before the next task, so it is part of the action that settles it.      *)
(*                                                                         *)
(* Times are in seconds, the ticks of setInterval().                       *)
(***************************************************************************)
EXTENDS Integers, Sequences

CONSTANTS
  InitTotalActionTime, RoundTotalActionTime, ActionTime, RerollTime,
                \* the RoomConfig
  MaxRpcs,      \* bound: requests made of the player
  MaxMutations, \* bound: mutations notified between two answers
  MaxRounds     \* bound: rounds played

ASSUME PlayerRpcConstants ==
  /\ {InitTotalActionTime, RoundTotalActionTime, ActionTime, RerollTime} \subseteq Nat
  /\ MaxRpcs \in Nat /\ MaxMutations \in Nat /\ MaxRounds \in Nat

VARIABLES
  guest,        \* playerInfo.isGuest
  resolver,     \* _rpcResolver: none, or the request that is open
  roundTimeout, \* _roundTimeout
  mutations,    \* 2 * _mutationExtraTimeout
  contiguous,   \* _contiguousTimeoutRpcExecuted
  gaveUp,       \* game.giveUp() was called for the player
  connected,    \* the event stream is open
  seen,         \* ids that the browser has been shown
  posted,       \* ids that it has posted answers for
  rounds,       \* rounds begun
  outcomes,     \* history: how each request ended, by its id + 1
  granted,      \* history: the round time granted for this round
  overspent,    \* history: what was used up of it
  timeouts      \* history: requests that timed out on the clock of the round

vars == <<guest, resolver, roundTimeout, mutations, contiguous, gaveUp, connected,
          seen, posted, rounds, outcomes, granted, overspent, timeouts>>
clock   == <<roundTimeout, mutations, contiguous, granted, overspent, timeouts>>
browser == <<connected, seen, posted>>

NoRpc == [id |-> -1, reroll |-> FALSE, timeout |-> 0, free |-> 0]
nextRpcId == Len(outcomes)
Open == resolver # NoRpc
AtLeast0(n) == IF n < 0 THEN 0 ELSE n
Least(m, n) == IF m < n THEN m ELSE n

Init ==
  /\ guest \in BOOLEAN
  /\ resolver = NoRpc /\ contiguous = 0 /\ mutations = 0 /\ gaveUp = FALSE
  /\ roundTimeout = InitTotalActionTime /\ granted = InitTotalActionTime
  /\ overspent = 0 /\ timeouts = 0
  /\ connected = FALSE /\ seen = {} /\ posted = {}
  /\ rounds = 0 /\ outcomes = <<>>

-----------------------------------------------------------------------------
(* The game. *)

\* notify(): every mutation is half a second of animation.
Notify ==
  /\ mutations < MaxMutations
  /\ mutations' = mutations + 1
  /\ UNCHANGED <<guest, resolver, roundTimeout, contiguous, gaveUp, browser,
                 rounds, outcomes, granted, overspent, timeouts>>

\* resetRoundTimeout(), when onPause has shown the roll phase.
ResetRoundTimeout ==
  /\ ~Open /\ ~gaveUp /\ rounds < MaxRounds
  /\ rounds' = rounds + 1
  /\ roundTimeout' = RoundTotalActionTime /\ granted' = RoundTotalActionTime
  /\ overspent' = 0 /\ timeouts' = 0
  /\ UNCHANGED <<guest, resolver, mutations, contiguous, gaveUp, browser, outcomes>>

\* What a request is given besides the round time: `free' in the records.
Allowed(reroll) ==
  (mutations + 1) \div 2 + (IF reroll THEN RerollTime ELSE ActionTime)

\* rpc() up to its await: a connected browser is shown the request.
Rpc(reroll) ==
  /\ ~Open /\ ~gaveUp /\ nextRpcId < MaxRpcs
  /\ resolver' = [id |-> nextRpcId, reroll |-> reroll, free |-> Allowed(reroll),
                  timeout |-> Allowed(reroll) + IF reroll THEN 0 ELSE roundTimeout]
  /\ seen' = IF connected THEN seen \union {nextRpcId} ELSE seen
  /\ UNCHANGED <<guest, clock, gaveUp, connected, posted, rounds, outcomes>>

-----------------------------------------------------------------------------
(* The two ways in which a request is settled. *)

\* Broken: what is left of the time for the action goes to the round.
SetRoundTimeoutSaves(remain) ==
  /\ roundTimeout' = IF resolver.reroll THEN roundTimeout ELSE remain + 1
  /\ mutations' = 0

\* setRoundTimeout(): the round time never grows, and a second is given back.
SetRoundTimeout(remain) ==
  /\ roundTimeout' = IF resolver.reroll THEN roundTimeout
                     ELSE Least(roundTimeout, remain + 1)
  /\ mutations' = 0

\* History: what a request has used of the round time, one second being given
\* back; one that is `late' has used all of it and two seconds more.
Used(late) ==
  IF late THEN roundTimeout + 1 ELSE AtLeast0(roundTimeout - resolver.timeout - 1)

Spent(late, by) ==
  /\ overspent' = overspent + IF resolver.reroll THEN 0 ELSE Used(late)
  /\ timeouts' = timeouts + IF late /\ ~resolver.reroll THEN 1 ELSE 0
  /\ outcomes' = Append(outcomes, [late |-> late, by |-> by])
  /\ UNCHANGED granted

\* Broken: the count of timeouts goes on over answers.
ResolveKeepsCount(id) ==
  /\ SetRoundTimeout(resolver.timeout)
  /\ resolver' = NoRpc
  /\ Spent(FALSE, id)
  /\ UNCHANGED contiguous

\* resolver.resolve() and the finally of rpc().
Resolve(id) ==
  /\ SetRoundTimeout(resolver.timeout)
  /\ contiguous' = 0
  /\ resolver' = NoRpc
  /\ Spent(FALSE, id)

\* Broken: the id of the answer is not looked at.
ReceiveAnyResponse(id) ==
  /\ Open
  /\ Resolve(id)
  /\ UNCHANGED <<guest, gaveUp, browser, rounds>>

\* receiveResponse(): the answer to another request is refused.
ReceiveResponse(id) ==
  /\ Open /\ resolver.id = id
  /\ Resolve(id)
  /\ UNCHANGED <<guest, gaveUp, browser, rounds>>

\* timeoutRpc(): the third request in a row gives up for a guest and fails,
\* otherwise an answer is made up.
GivesUp == guest /\ contiguous' >= 3

\* Broken: the timer stops when the time is up.
TickStops ==
  /\ Open /\ resolver.timeout > -1
  /\ resolver' = [resolver EXCEPT !.timeout = @ - 1]
  /\ UNCHANGED <<guest, clock, gaveUp, browser, rounds, outcomes>>

\* The callback of setInterval(): time is up two seconds after zero.
Tick ==
  /\ Open
  /\ IF resolver.timeout - 1 > -2
     THEN /\ resolver' = [resolver EXCEPT !.timeout = @ - 1]
          /\ UNCHANGED <<clock, gaveUp, outcomes>>
     ELSE /\ SetRoundTimeout(0)
          /\ contiguous' = contiguous + 1
          /\ gaveUp' = (gaveUp \/ GivesUp)
          /\ resolver' = NoRpc
          /\ Spent(TRUE, resolver.id)
  /\ UNCHANGED <<guest, browser, rounds>>

-----------------------------------------------------------------------------
(* The browser. *)

\* Broken: a browser that comes back is shown only what happens from then on.
ConnectBlank == ~connected /\ connected' = TRUE /\ UNCHANGED seen

\* notificationSse$ starts with currentAction().
Connect ==
  /\ ~connected /\ connected' = TRUE
  /\ seen' = IF Open THEN seen \union {resolver.id} ELSE seen

Disconnect == connected /\ connected' = FALSE /\ UNCHANGED seen

Post(id) == posted' = posted \union {id}

Browser ==
  /\ \/ (Connect \/ Disconnect) /\ UNCHANGED posted
     \/ \E id \in seen : Post(id) /\ UNCHANGED <<connected, seen>>
  /\ UNCHANGED <<guest, resolver, clock, gaveUp, rounds, outcomes>>

Next ==
  \/ Notify \/ ResetRoundTimeout
  \/ \E reroll \in BOOLEAN : Rpc(reroll)
  \/ \E id \in posted : ReceiveResponse(id)
  \/ Tick
  \/ Browser

\* setInterval() fires.
Spec == Init /\ [][Next]_vars /\ WF_vars(Tick)

-----------------------------------------------------------------------------
(* What is checked. *)

Ids == 0..MaxRpcs - 1

\* Every variable holds what the code keeps in it; the open request has the
\* number that comes next and is at most one second over its time.
TypeOK ==
  /\ guest \in BOOLEAN /\ gaveUp \in BOOLEAN /\ connected \in BOOLEAN
  /\ resolver \in [id : Int, reroll : BOOLEAN, timeout : Int, free : Nat]
  /\ Open => /\ resolver.id = nextRpcId /\ resolver.id \in Ids
             /\ resolver.timeout \in -1..(resolver.free + roundTimeout)
  /\ roundTimeout \in Nat /\ mutations \in 0..MaxMutations
  /\ contiguous \in 0..Len(outcomes) /\ rounds \in 0..MaxRounds
  /\ posted \subseteq seen /\ seen \subseteq Ids
  /\ outcomes \in Seq([late : BOOLEAN, by : Ids])
  /\ granted \in Nat /\ overspent \in Nat /\ timeouts \in Nat

\* The round time is the time granted less what was used of it: what a player
\* does not use for one action is not added to the next, nobody loses time he
\* did not use, and a timeout costs the two seconds of grace at most.
RoundTimeIsAccounted ==
  /\ granted <= roundTimeout + overspent
  /\ roundTimeout + overspent <= granted + 2 * timeouts

\* Late, repeated and stale answers settle no other request than the one that
\* they were given to.
AnswersFit == \A n \in DOMAIN outcomes : outcomes[n].by = n - 1

\* The last k requests were all left unanswered.
Unanswered(k) ==
  /\ Len(outcomes) >= k
  /\ \A n \in Len(outcomes) - k + 1..Len(outcomes) : outcomes[n].late

\* Exactly the guests who have left three requests in a row unanswered are
\* given up; a player with an account never is.
GivenUpAfterThree == gaveUp <=> guest /\ Unanswered(3)

\* A browser whose stream is open has been shown the open request, whenever it
\* came (back).
ConnectedIsShown == connected /\ Open => resolver.id \in seen

\* Every request is settled.
Settles == Open ~> ~Open
=============================================================================
