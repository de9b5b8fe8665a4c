--------------------------- MODULE PlayerRpcProofs ---------------------------
(***************************************************************************)
(* Theorems of PlayerRpc, for every configuration of the clock and any     *)
(* number of requests, mutations and rounds.                               *)
(***************************************************************************)
EXTENDS PlayerRpc, TLAPS

USE PlayerRpcConstants

Record  == [id : Int, reroll : BOOLEAN, timeout : Int, free : Nat]
Outcome == [late : BOOLEAN, by : Ids]
n0 == Len(outcomes)

\* The last contiguous requests, and no more, were left unanswered; the game
\* asks nothing of a player who is given up.
Trail ==
  /\ \A n \in n0 - contiguous + 1..n0 : outcomes[n].late
  /\ contiguous < n0 => ~outcomes[n0 - contiguous].late
  /\ gaveUp <=> (guest /\ contiguous >= 3)
  /\ gaveUp => ~Open

-----------------------------------------------------------------------------
(* What the types say of the parts. *)

\* The numbers of a typed state.
LEMMA Numbers ==
  ASSUME TypeOK
  PROVE  /\ n0 \in Nat /\ contiguous \in 0..n0
         /\ roundTimeout \in Nat /\ granted \in Nat /\ overspent \in Nat
         /\ timeouts \in Nat
         /\ resolver.free \in Nat /\ resolver.timeout \in Int
         /\ resolver.reroll \in BOOLEAN
  <1>1. outcomes \in Seq(Outcome)
    BY DEF TypeOK, Outcome
  <1>2. n0 \in Nat
    BY <1>1 DEF n0
  <1>3. QED BY <1>2 DEF TypeOK, n0

\* The open request is numbered in order, and its timer between its limits.
LEMMA OpenRequest ==
  ASSUME TypeOK, Open
  PROVE  /\ resolver.id = n0 /\ resolver.id \in Ids
         /\ -1 <= resolver.timeout
         /\ resolver.timeout <= resolver.free + roundTimeout
  <1>1. resolver.timeout \in -1..(resolver.free + roundTimeout)
    BY DEF TypeOK
  <1>2. QED BY <1>1, Numbers DEF TypeOK, nextRpcId, n0

\* The time that a request gets besides the round time.
LEMMA AllowedType ==
  ASSUME TypeOK, NEW reroll \in BOOLEAN
  PROVE  Allowed(reroll) \in Nat
  <1>1. mutations \in Nat
    BY DEF TypeOK
  <1>2. (mutations + 1) \div 2 \in Nat
    BY <1>1
  <1>3. RerollTime \in Nat /\ ActionTime \in Nat
    OBVIOUS
  <1>4. QED BY <1>2, <1>3 DEF Allowed

-----------------------------------------------------------------------------
(* The two ways of settling a request. *)

Remain(late) == IF late THEN 0 ELSE resolver.timeout
Settled(late) ==
  /\ resolver' = NoRpc
  /\ contiguous' = IF late THEN contiguous + 1 ELSE 0
  /\ SetRoundTimeout(Remain(late)) /\ Spent(late, resolver.id)
  /\ UNCHANGED <<guest, browser, rounds>>

\* An answer settles the open request in time.
LEMMA ReceiveSettles ==
  ASSUME NEW id, ReceiveResponse(id)
  PROVE  Open /\ Settled(FALSE) /\ gaveUp' = gaveUp
  BY DEF ReceiveResponse, Resolve, Settled, Remain

\* A tick takes a second off, or settles the request late.
LEMMA TickRuns ==
  ASSUME Tick, resolver.timeout - 1 > -2
  PROVE  /\ Open
         /\ resolver' = [resolver EXCEPT !.timeout = resolver.timeout - 1]
         /\ UNCHANGED <<guest, clock, gaveUp, browser, rounds, outcomes>>
  BY DEF Tick

LEMMA TickSettles ==
  ASSUME Tick, ~(resolver.timeout - 1 > -2)
  PROVE  Open /\ Settled(TRUE) /\ gaveUp' = (gaveUp \/ GivesUp)
  BY DEF Tick, Settled, Remain

\* What a settled request does to the clock and to the history.
LEMMA SettledParts ==
  ASSUME TypeOK, Open, NEW late \in BOOLEAN, Settled(late)
  PROVE  /\ outcomes' = Append(outcomes, [late |-> late, by |-> n0])
         /\ [late |-> late, by |-> n0] \in Outcome
         /\ n0' = n0 + 1 /\ ~Open'
         /\ Remain(late) \in Int /\ Remain(late) >= -1
         /\ granted' = granted /\ mutations' = 0
         /\ resolver.reroll => /\ roundTimeout' = roundTimeout
                               /\ overspent' = overspent /\ timeouts' = timeouts
         /\ ~resolver.reroll =>
              /\ roundTimeout' = Least(roundTimeout, Remain(late) + 1)
              /\ overspent' = overspent + Used(late)
              /\ timeouts' = timeouts + IF late THEN 1 ELSE 0
  <1>1. /\ outcomes' = Append(outcomes, [late |-> late, by |-> n0])
        /\ [late |-> late, by |-> n0] \in Outcome
    BY OpenRequest DEF Settled, Spent, Outcome
  <1>2. outcomes \in Seq(Outcome)
    BY DEF TypeOK, Outcome
  <1>3. n0' = n0 + 1
    BY <1>1, <1>2 DEF n0
  <1>4. ~Open'
    BY DEF Settled, Open, NoRpc
  <1>5. Remain(late) \in Int /\ Remain(late) >= -1
    BY OpenRequest, Numbers DEF Remain
  <1>6. granted' = granted /\ mutations' = 0
    BY DEF Settled, Spent, SetRoundTimeout
  <1>7. ASSUME resolver.reroll
        PROVE  /\ roundTimeout' = roundTimeout
               /\ overspent' = overspent /\ timeouts' = timeouts
    BY <1>7, Numbers DEF Settled, Spent, SetRoundTimeout
  <1>8. ASSUME ~resolver.reroll
        PROVE  /\ roundTimeout' = Least(roundTimeout, Remain(late) + 1)
               /\ overspent' = overspent + Used(late)
               /\ timeouts' = timeouts + IF late THEN 1 ELSE 0
    BY <1>8 DEF Settled, Spent, SetRoundTimeout
  <1>9. QED BY <1>1, <1>3, <1>4, <1>5, <1>6, <1>7, <1>8

-----------------------------------------------------------------------------
(* Types. *)

\* The initial state is well typed.
LEMMA TypeInit == Init => TypeOK
  <1> SUFFICES ASSUME Init PROVE TypeOK
    OBVIOUS
  <1>1. resolver \in [id : Int, reroll : BOOLEAN, timeout : Int, free : Nat]
    BY DEF Init, NoRpc
  <1>2. ~Open
    BY DEF Init, Open
  <1>3. outcomes \in Seq([late : BOOLEAN, by : Ids]) /\ Len(outcomes) = 0
    BY DEF Init
  <1>4. InitTotalActionTime \in Nat /\ MaxMutations \in Nat /\ MaxRounds \in Nat
    OBVIOUS
  <1>5. /\ guest \in BOOLEAN /\ gaveUp \in BOOLEAN /\ connected \in BOOLEAN
        /\ posted \subseteq seen /\ seen \subseteq Ids
    BY DEF Init
  <1>6. /\ roundTimeout \in Nat /\ mutations \in 0..MaxMutations
        /\ contiguous \in 0..Len(outcomes) /\ rounds \in 0..MaxRounds
        /\ granted \in Nat /\ overspent \in Nat /\ timeouts \in Nat
    BY <1>3, <1>4 DEF Init
  <1>7. QED BY <1>1, <1>2, <1>3, <1>5, <1>6 DEF TypeOK

\* The request that is opened is well typed.
LEMMA TypeRpc ==
  ASSUME TypeOK, NEW reroll \in BOOLEAN, Rpc(reroll)
  PROVE  TypeOK'
  <1>1. Allowed(reroll) \in Nat /\ roundTimeout \in Nat
    BY AllowedType, Numbers
  <1>2. nextRpcId \in Ids /\ nextRpcId \in Int
    BY Numbers DEF Rpc, Ids, nextRpcId, n0
  <1>3. resolver' = [id |-> nextRpcId, reroll |-> reroll, free |-> Allowed(reroll),
               timeout |-> Allowed(reroll) + IF reroll THEN 0 ELSE roundTimeout]
    BY DEF Rpc
  <1>4. Allowed(reroll) + (IF reroll THEN 0 ELSE roundTimeout)
          \in -1..(Allowed(reroll) + roundTimeout)
    BY <1>1
  <1>5. resolver' \in [id : Int, reroll : BOOLEAN, timeout : Int, free : Nat]
    BY <1>1, <1>2, <1>3
  <1>6. /\ resolver'.id = nextRpcId
        /\ resolver'.timeout \in -1..(resolver'.free + roundTimeout)
    BY <1>3, <1>4
  <1>7. seen' \subseteq Ids /\ posted' \subseteq seen'
    BY <1>2 DEF Rpc, TypeOK
  <1>8. UNCHANGED <<guest, clock, gaveUp, connected, rounds, outcomes>>
    BY DEF Rpc
  <1>9. QED BY <1>2, <1>5, <1>6, <1>7, <1>8 DEF TypeOK, clock, nextRpcId

\* A settled request leaves the clock within its limits.
LEMMA TypeSettled ==
  ASSUME TypeOK, Open, NEW late \in BOOLEAN, Settled(late), gaveUp' \in BOOLEAN
  PROVE  TypeOK'
  <1>1. /\ outcomes' \in Seq([late : BOOLEAN, by : Ids])
        /\ Len(outcomes') = Len(outcomes) + 1
    <2>1. outcomes \in Seq(Outcome)
      BY DEF TypeOK, Outcome
    <2>0. \E o \in Outcome : outcomes' = Append(outcomes, o)
      BY SettledParts
    <2>2. outcomes' \in Seq(Outcome)
      BY <2>1, <2>0
    <2>3. QED BY <2>2, SettledParts DEF Outcome, n0
  <1>2. resolver' \in [id : Int, reroll : BOOLEAN, timeout : Int, free : Nat]
    BY DEF Settled, NoRpc
  <1>3. ~Open'
    BY SettledParts
  <1>0. /\ roundTimeout \in Nat /\ overspent \in Nat /\ timeouts \in Nat
        /\ granted \in Nat /\ resolver.timeout \in Int
        /\ Len(outcomes) \in Nat /\ contiguous \in 0..Len(outcomes)
        /\ resolver.reroll \in BOOLEAN
    BY Numbers DEF n0
  <1>4. roundTimeout' \in Nat /\ overspent' \in Nat /\ timeouts' \in Nat
    <2>1. CASE resolver.reroll
      BY <2>1, <1>0, SettledParts
    <2>2. CASE ~resolver.reroll
      <3>1. /\ Remain(late) \in Int /\ Remain(late) >= -1
            /\ roundTimeout' = Least(roundTimeout, Remain(late) + 1)
            /\ timeouts' = timeouts + IF late THEN 1 ELSE 0
        BY <2>2, SettledParts
      <3>2. roundTimeout' \in Nat /\ timeouts' \in Nat
        BY <1>0, <3>1 DEF Least
      <3>3. Used(late) \in Nat
        BY <1>0 DEF Used, AtLeast0
      <3>4. overspent' = overspent + Used(late)
        BY <2>2, SettledParts
      <3>5. QED BY <1>0, <3>2, <3>3, <3>4
    <2>3. QED BY <1>0, <2>1, <2>2
  <1>5. mutations' \in 0..MaxMutations /\ granted' \in Nat
    <2>1. mutations' = 0 /\ granted' = granted
      BY SettledParts
    <2>2. QED BY <1>0, <2>1
  <1>6. contiguous' \in 0..Len(outcomes')
    BY <1>1, <1>0 DEF Settled
  <1>7. UNCHANGED <<guest, connected, seen, posted, rounds>>
    BY DEF Settled, browser
  <1>8. QED BY <1>1, <1>2, <1>3, <1>4, <1>5, <1>6, <1>7 DEF TypeOK

\* A second off the timer leaves it above -2.
LEMMA TypeTick ==
  ASSUME TypeOK, Tick, resolver.timeout - 1 > -2
  PROVE  TypeOK'
  <1>1. /\ Open
        /\ resolver' = [resolver EXCEPT !.timeout = resolver.timeout - 1]
        /\ UNCHANGED <<guest, clock, gaveUp, browser, rounds, outcomes>>
    BY TickRuns
  <1>2. /\ resolver.timeout \in Int /\ resolver.free \in Nat
        /\ roundTimeout \in Nat
        /\ resolver.timeout <= resolver.free + roundTimeout
    BY <1>1, Numbers, OpenRequest
  <1>3. resolver \in [id : Int, reroll : BOOLEAN, timeout : Int, free : Nat]
    BY DEF TypeOK
  <1>4. resolver' \in [id : Int, reroll : BOOLEAN, timeout : Int, free : Nat]
    BY <1>1, <1>2, <1>3
  <1>5. /\ resolver'.id = resolver.id /\ resolver'.free = resolver.free
        /\ resolver'.timeout = resolver.timeout - 1
    BY <1>1, <1>3
  <1>6. resolver'.timeout \in -1..(resolver'.free + roundTimeout)
    BY <1>2, <1>5
  <1>7. QED BY <1>1, <1>4, <1>5, <1>6 DEF TypeOK, clock, browser, nextRpcId

\* Every step keeps the types.
LEMMA TypeNext == TypeOK /\ [Next]_vars => TypeOK'
  <1> SUFFICES ASSUME TypeOK, [Next]_vars PROVE TypeOK'
    OBVIOUS
  <1>1. CASE Notify
    <2>1. mutations' \in 0..MaxMutations
      BY <1>1 DEF Notify, TypeOK
    <2>2. QED BY <1>1, <2>1 DEF Notify, TypeOK, Open, browser, nextRpcId
  <1>2. CASE ResetRoundTimeout
    <2>1. /\ roundTimeout' \in Nat /\ granted' \in Nat
          /\ overspent' \in Nat /\ timeouts' \in Nat
      BY <1>2 DEF ResetRoundTimeout
    <2>2. rounds' \in 0..MaxRounds /\ ~Open'
      BY <1>2 DEF ResetRoundTimeout, TypeOK, Open
    <2>3. QED BY <1>2, <2>1, <2>2
                DEF ResetRoundTimeout, TypeOK, Open, browser, nextRpcId
  <1>3. ASSUME NEW reroll \in BOOLEAN, Rpc(reroll) PROVE TypeOK'
    BY <1>3, TypeRpc
  <1>4. ASSUME NEW id \in posted, ReceiveResponse(id) PROVE TypeOK'
    <2>1. Open /\ Settled(FALSE) /\ gaveUp' = gaveUp
      BY <1>4, ReceiveSettles
    <2>2. gaveUp' \in BOOLEAN
      BY <2>1 DEF TypeOK
    <2>3. QED BY <2>1, <2>2, TypeSettled
  <1>5. CASE Tick
    <2>1. CASE resolver.timeout - 1 > -2
      BY <1>5, <2>1, TypeTick
    <2>2. CASE ~(resolver.timeout - 1 > -2)
      <3>1. Open /\ Settled(TRUE) /\ gaveUp' \in BOOLEAN
        BY <1>5, <2>2, TickSettles
      <3>2. QED BY <3>1, TypeSettled
    <2>3. QED BY <2>1, <2>2
  <1>6. CASE Browser
    <2>1. /\ connected' \in BOOLEAN
          /\ posted' \subseteq seen' /\ seen' \subseteq Ids
      BY <1>6, OpenRequest DEF Browser, Connect, Disconnect, Post, TypeOK
    <2>2. UNCHANGED <<guest, resolver, clock, gaveUp, rounds, outcomes>>
      BY <1>6 DEF Browser
    <2>3. QED BY <2>1, <2>2 DEF TypeOK, Open, clock, nextRpcId
  <1>7. CASE UNCHANGED vars
    BY <1>7 DEF vars, TypeOK, Open, nextRpcId
  <1>8. QED BY <1>1, <1>2, <1>3, <1>4, <1>5, <1>6, <1>7 DEF Next

\* The timer never goes further below zero than its grace, and the requests are
\* numbered in order, whatever the configuration.
THEOREM TypeCorrect == Spec => []TypeOK
  BY TypeInit, TypeNext, PTL DEF Spec

-----------------------------------------------------------------------------
(* The clock of the round. *)

\* The bounds of the account after a timeout, which leaves at most one second.
LEMMA LateArithmetic ==
  \A r, o, t, g \in Nat : \A left \in 0..1 :
    g <= r + o /\ r + o <= g + 2 * t =>
      /\ g <= left + (o + r + 1)
      /\ left + (o + r + 1) <= g + 2 * (t + 1)
  OBVIOUS

\* A settled request uses up what the round time loses, and a late one at most
\* two seconds more.
LEMMA AccountSettled ==
  ASSUME TypeOK, RoundTimeIsAccounted, Open, NEW late \in BOOLEAN, Settled(late)
  PROVE  RoundTimeIsAccounted'
  <1>0. /\ roundTimeout \in Nat /\ overspent \in Nat /\ timeouts \in Nat
        /\ granted \in Nat /\ resolver.timeout \in Int
        /\ -1 <= resolver.timeout
        /\ granted' = granted
        /\ granted <= roundTimeout + overspent
        /\ roundTimeout + overspent <= granted + 2 * timeouts
    BY Numbers, OpenRequest, SettledParts DEF RoundTimeIsAccounted
  <1>1. CASE resolver.reroll
    <2>1. /\ roundTimeout' = roundTimeout /\ overspent' = overspent
          /\ timeouts' = timeouts
      BY <1>1, SettledParts
    <2>2. QED BY <1>0, <2>1 DEF RoundTimeIsAccounted
  <1>2. CASE ~resolver.reroll /\ late = TRUE
    <2>1. /\ roundTimeout' = Least(roundTimeout, 0 + 1)
          /\ overspent' = overspent + Used(TRUE)
          /\ timeouts' = timeouts + 1
      BY <1>2, SettledParts DEF Remain
    <2>2. overspent' = overspent + roundTimeout + 1
      BY <1>0, <2>1 DEF Used
    <2>3. roundTimeout' \in 0..1
      BY <1>0, <2>1 DEF Least
    <2>4. /\ granted <= roundTimeout' + (overspent + roundTimeout + 1)
          /\ roundTimeout' + (overspent + roundTimeout + 1)
               <= granted + 2 * (timeouts + 1)
      BY <1>0, <2>3, LateArithmetic
    <2>5. QED BY <1>0, <2>1, <2>2, <2>4 DEF RoundTimeIsAccounted
  <1>3. CASE ~resolver.reroll /\ late = FALSE
    <2>1. /\ roundTimeout' = Least(roundTimeout, resolver.timeout + 1)
          /\ overspent' = overspent + Used(FALSE)
          /\ timeouts' = timeouts + 0
      BY <1>3, SettledParts DEF Remain
    <2>2. roundTimeout' + overspent' = roundTimeout + overspent
      <3>1. CASE roundTimeout < resolver.timeout + 1
        BY <1>0, <2>1, <3>1 DEF Least, Used, AtLeast0
      <3>2. CASE ~(roundTimeout < resolver.timeout + 1)
        BY <1>0, <2>1, <3>2 DEF Least, Used, AtLeast0
      <3>3. QED BY <3>1, <3>2
    <2>3. timeouts' = timeouts
      BY <1>0, <2>1
    <2>4. QED BY <1>0, <2>2, <2>3 DEF RoundTimeIsAccounted
  <1>4. QED BY <1>1, <1>2, <1>3

\* Every step keeps the account.
LEMMA AccountNext ==
  TypeOK /\ RoundTimeIsAccounted /\ [Next]_vars => RoundTimeIsAccounted'
  <1> SUFFICES ASSUME TypeOK, RoundTimeIsAccounted, [Next]_vars
               PROVE  RoundTimeIsAccounted'
    OBVIOUS
  <1>1. CASE ResetRoundTimeout
    <2>1. /\ roundTimeout' = RoundTotalActionTime /\ RoundTotalActionTime \in Nat
          /\ granted' = RoundTotalActionTime /\ overspent' = 0 /\ timeouts' = 0
      BY <1>1 DEF ResetRoundTimeout
    <2>2. QED BY <2>1 DEF RoundTimeIsAccounted
  <1>2. ASSUME NEW id \in posted, ReceiveResponse(id) PROVE RoundTimeIsAccounted'
    BY <1>2, ReceiveSettles, AccountSettled
  <1>3. CASE Tick
    <2>1. CASE resolver.timeout - 1 > -2
      BY <1>3, <2>1, TickRuns DEF clock, RoundTimeIsAccounted
    <2>2. CASE ~(resolver.timeout - 1 > -2)
      BY <1>3, <2>2, TickSettles, AccountSettled
    <2>3. QED BY <2>1, <2>2
  <1>4. CASE Notify \/ (\E reroll \in BOOLEAN : Rpc(reroll)) \/ Browser
             \/ UNCHANGED vars
    <2>1. UNCHANGED <<roundTimeout, granted, overspent, timeouts>>
      BY <1>4 DEF Notify, Rpc, Browser, vars, clock
    <2>2. QED BY <2>1 DEF RoundTimeIsAccounted
  <1>5. QED BY <1>1, <1>2, <1>3, <1>4 DEF Next

\* What a player does not use for one action is not added to the next, and a
\* timeout costs no more than its grace, for every configuration of the room.
THEOREM RoundTimeCorrect == Spec => []RoundTimeIsAccounted
  <1>1. Init => RoundTimeIsAccounted
    BY DEF Init, RoundTimeIsAccounted
  <1>2. QED BY <1>1, TypeInit, TypeNext, AccountNext, PTL DEF Spec

-----------------------------------------------------------------------------
(* The answers and the timeouts in a row. *)

IInv == TypeOK /\ AnswersFit /\ Trail

\* How a settled request lengthens the history.
LEMMA HistorySettled ==
  ASSUME IInv, Open, NEW late \in BOOLEAN, Settled(late)
  PROVE  /\ n0 \in Nat /\ n0' = n0 + 1
         /\ outcomes'[n0 + 1] = [late |-> late, by |-> n0]
         /\ \A n \in 1..n0 : outcomes'[n] = outcomes[n]
         /\ AnswersFit'
  <1>1. outcomes \in Seq(Outcome) /\ n0 \in Nat /\ n0 = Len(outcomes)
    BY Numbers DEF IInv, TypeOK, Outcome, n0
  <1>2. PICK o \in Outcome : /\ o = [late |-> late, by |-> n0]
                             /\ outcomes' = Append(outcomes, o)
    BY SettledParts DEF IInv
  <1>3. n0' = n0 + 1
    BY SettledParts DEF IInv
  <1>4. /\ outcomes'[n0 + 1] = o
        /\ \A n \in 1..n0 : outcomes'[n] = outcomes[n]
        /\ DOMAIN outcomes' = 1..n0 + 1 /\ DOMAIN outcomes = 1..n0
    BY <1>1, <1>2
  <1>5. \A n \in DOMAIN outcomes' : outcomes'[n].by = n - 1
    <2> SUFFICES ASSUME NEW n \in 1..n0 + 1 PROVE outcomes'[n].by = n - 1
      BY <1>4
    <2>1. CASE n = n0 + 1
      BY <1>1, <1>2, <1>4, <2>1
    <2>2. CASE n # n0 + 1
      <3>1. n \in 1..n0
        BY <1>1, <2>2
      <3>2. QED BY <1>4, <3>1 DEF IInv, AnswersFit
    <2>3. QED BY <2>1, <2>2
  <1>6. QED BY <1>1, <1>2, <1>3, <1>4, <1>5 DEF AnswersFit

\* An answer ends the row of timeouts.
LEMMA TrailAnswered ==
  ASSUME IInv, Open, Settled(FALSE), gaveUp' = gaveUp
  PROVE  Trail'
  <1>1. /\ n0 \in Nat /\ n0' = n0 + 1 /\ ~outcomes'[n0 + 1].late
        /\ contiguous' = 0 /\ guest' = guest /\ ~Open'
    <2>1. /\ n0 \in Nat /\ n0' = n0 + 1
          /\ outcomes'[n0 + 1] = [late |-> FALSE, by |-> n0]
      BY HistorySettled
    <2>2. ~outcomes'[n0 + 1].late
      BY <2>1
    <2>3. contiguous' = 0 /\ guest' = guest
      BY DEF Settled
    <2>4. ~Open'
      BY SettledParts DEF IInv
    <2>5. QED BY <2>1, <2>2, <2>3, <2>4
  <1>2. ~gaveUp /\ ~gaveUp'
    BY DEF IInv, Trail
  <1>3. ~(contiguous' >= 3)
    BY <1>1
  <1>4. \A n \in n0' - contiguous' + 1..n0' : outcomes'[n].late
    BY <1>1
  <1>5. ~outcomes'[n0' - contiguous'].late
    BY <1>1
  <1>6. QED BY <1>1, <1>2, <1>3, <1>4, <1>5 DEF Trail

\* A timeout makes the row one longer, and the third gives a guest up.
LEMMA TrailLate ==
  ASSUME IInv, Open, Settled(TRUE), gaveUp' = (gaveUp \/ GivesUp)
  PROVE  Trail'
  <1>1. /\ n0 \in Nat /\ n0' = n0 + 1 /\ outcomes'[n0 + 1].late
        /\ contiguous' = contiguous + 1 /\ guest' = guest /\ ~Open'
        /\ contiguous \in 0..n0
        /\ \A n \in 1..n0 : outcomes'[n] = outcomes[n]
    <2>1. /\ n0 \in Nat /\ n0' = n0 + 1
          /\ outcomes'[n0 + 1] = [late |-> TRUE, by |-> n0]
          /\ \A n \in 1..n0 : outcomes'[n] = outcomes[n]
      BY HistorySettled
    <2>2. outcomes'[n0 + 1].late
      BY <2>1
    <2>3. contiguous' = contiguous + 1 /\ guest' = guest
      BY DEF Settled
    <2>4. ~Open' /\ contiguous \in 0..n0
      BY SettledParts, Numbers DEF IInv
    <2>5. QED BY <2>1, <2>2, <2>3, <2>4
  <1>2. gaveUp' <=> (guest' /\ contiguous' >= 3)
    <2>1. ~gaveUp
      BY DEF IInv, Trail
    <2>2. QED BY <1>1, <2>1 DEF GivesUp
  <1>3. ASSUME NEW n \in n0' - contiguous' + 1..n0' PROVE outcomes'[n].late
    <2>1. CASE n = n0 + 1
      BY <1>1, <2>1
    <2>2. CASE n # n0 + 1
      <3>1. n \in n0 - contiguous + 1..n0 /\ n \in 1..n0
        BY <1>1, <2>2
      <3>2. QED BY <1>1, <3>1 DEF IInv, Trail
    <2>3. QED BY <2>1, <2>2
  <1>4. contiguous' < n0' => ~outcomes'[n0' - contiguous'].late
    <2>1. SUFFICES ASSUME contiguous < n0
                   PROVE  ~outcomes'[n0 - contiguous].late
      BY <1>1
    <2>2. n0 - contiguous \in 1..n0
      BY <1>1, <2>1
    <2>3. QED BY <1>1, <2>1, <2>2 DEF IInv, Trail
  <1>5. QED BY <1>1, <1>2, <1>3, <1>4 DEF Trail

\* Every step keeps the invariant.
LEMMA IInvNext == IInv /\ [Next]_vars => IInv'
  <1> SUFFICES ASSUME IInv, [Next]_vars PROVE IInv'
    OBVIOUS
  <1>1. TypeOK /\ TypeOK'
    BY TypeNext DEF IInv
  <1>2. ASSUME NEW id \in posted, ReceiveResponse(id) PROVE IInv'
    <2>1. Open /\ Settled(FALSE) /\ gaveUp' = gaveUp
      BY <1>2, ReceiveSettles
    <2>2. QED BY <1>1, <2>1, HistorySettled, TrailAnswered DEF IInv
  <1>3. CASE Tick /\ ~(resolver.timeout - 1 > -2)
    <2>1. Open /\ Settled(TRUE) /\ gaveUp' = (gaveUp \/ GivesUp)
      BY <1>3, TickSettles
    <2>2. QED BY <1>1, <2>1, HistorySettled, TrailLate DEF IInv
  <1>4. CASE \E reroll \in BOOLEAN : Rpc(reroll)
    <2>1. UNCHANGED <<outcomes, contiguous, guest, gaveUp>> /\ ~gaveUp
      BY <1>4 DEF Rpc, clock
    <2>2. QED BY <1>1, <2>1 DEF IInv, AnswersFit, Trail, n0
  <1>5. CASE Tick /\ resolver.timeout - 1 > -2
    <2>1. UNCHANGED <<outcomes, contiguous, guest, gaveUp>> /\ Open
      BY <1>5, TickRuns DEF clock
    <2>2. ~gaveUp
      BY <2>1 DEF IInv, Trail
    <2>3. QED BY <1>1, <2>1, <2>2 DEF IInv, AnswersFit, Trail, n0
  <1>6. CASE Notify \/ ResetRoundTimeout \/ Browser \/ UNCHANGED vars
    <2>1. UNCHANGED <<outcomes, contiguous, guest, gaveUp, resolver>>
      BY <1>6 DEF Notify, ResetRoundTimeout, Browser, vars, clock
    <2>2. QED BY <1>1, <2>1 DEF IInv, AnswersFit, Trail, Open, n0
  <1>7. QED BY <1>2, <1>3, <1>4, <1>5, <1>6 DEF Next

\* The initial state satisfies the invariant.
LEMMA IInvInit == Init => IInv
  <1> SUFFICES ASSUME Init PROVE IInv
    OBVIOUS
  <1>1. n0 = 0 /\ contiguous = 0 /\ outcomes = <<>> /\ gaveUp = FALSE /\ ~Open
    BY DEF Init, n0, Open
  <1>2. AnswersFit
    BY <1>1 DEF AnswersFit
  <1>3. Trail
    BY <1>1 DEF Trail
  <1>4. QED BY <1>2, <1>3, TypeInit DEF IInv

\* No answer settles another request than the one it was given to, however
\* late, repeated or stale the answers are.
THEOREM AnswersFitCorrect == Spec => []AnswersFit
  <1>1. IInv => AnswersFit
    BY DEF IInv
  <1>2. QED BY <1>1, IInvInit, IInvNext, PTL DEF Spec

\* Exactly the guests who leave three requests in a row unanswered are given up.
THEOREM GivenUpCorrect == Spec => []GivenUpAfterThree
  <1>1. IInv => GivenUpAfterThree
    <2> SUFFICES ASSUME IInv PROVE GivenUpAfterThree
      OBVIOUS
    <2>1. n0 \in Nat /\ contiguous \in 0..n0 /\ n0 = Len(outcomes)
      BY Numbers DEF IInv, n0
    <2>2. CASE contiguous >= 3
      <3>1. \A n \in n0 - 3 + 1..n0 : n \in n0 - contiguous + 1..n0
        BY <2>1, <2>2
      <3>2. n0 >= 3
        BY <2>1, <2>2
      <3>3. Unanswered(3)
        BY <2>1, <3>1, <3>2 DEF IInv, Trail, Unanswered
      <3>4. QED BY <2>2, <3>3 DEF IInv, Trail, GivenUpAfterThree
    <2>3. CASE ~(contiguous >= 3)
      <3>1. ASSUME Unanswered(3) PROVE FALSE
        <4>1. n0 >= 3 /\ \A n \in n0 - 3 + 1..n0 : outcomes[n].late
          BY <3>1, <2>1 DEF Unanswered
        <4>2. contiguous < n0 /\ n0 - contiguous \in n0 - 3 + 1..n0
          BY <2>1, <2>3, <4>1
        <4>3. QED BY <4>1, <4>2 DEF IInv, Trail
      <3>2. QED BY <2>3, <3>1 DEF IInv, Trail, GivenUpAfterThree
    <2>4. QED BY <2>2, <2>3
  <1>2. QED BY <1>1, IInvInit, IInvNext, PTL DEF Spec

-----------------------------------------------------------------------------
(* The event stream. *)

\* A browser that has an open stream knows the request that is open.
THEOREM ConnectedIsShownCorrect == Spec => []ConnectedIsShown
  <1>1. Init => ConnectedIsShown
    BY DEF Init, ConnectedIsShown
  <1>2. TypeOK /\ ConnectedIsShown /\ [Next]_vars => ConnectedIsShown'
    <2> SUFFICES ASSUME TypeOK, ConnectedIsShown, [Next]_vars
                 PROVE  ConnectedIsShown'
      OBVIOUS
    <2>1. ASSUME NEW reroll \in BOOLEAN, Rpc(reroll) PROVE ConnectedIsShown'
      BY <2>1 DEF Rpc, ConnectedIsShown
    <2>2. ASSUME NEW id \in posted, ReceiveResponse(id) PROVE ConnectedIsShown'
      BY <2>2, ReceiveSettles, SettledParts DEF ConnectedIsShown
    <2>3. CASE Tick /\ resolver.timeout - 1 > -2
      <3>1. resolver'.id = resolver.id /\ Open
        BY <2>3, TickRuns DEF TypeOK
      <3>2. UNCHANGED <<connected, seen>>
        BY <2>3, TickRuns DEF browser
      <3>3. QED BY <3>1, <3>2 DEF ConnectedIsShown
    <2>4. CASE Tick /\ ~(resolver.timeout - 1 > -2)
      BY <2>4, TickSettles, SettledParts DEF ConnectedIsShown
    <2>5. CASE Browser
      <3>1. resolver' = resolver
        BY <2>5 DEF Browser
      <3>2. CASE Connect
        BY <3>1, <3>2 DEF Connect, ConnectedIsShown, Open
      <3>3. CASE ~Connect
        <4>1. seen' = seen /\ (connected' => connected)
          BY <2>5, <3>3 DEF Browser, Disconnect
        <4>2. QED BY <3>1, <4>1 DEF ConnectedIsShown, Open
      <3>4. QED BY <3>2, <3>3
    <2>6. CASE Notify \/ ResetRoundTimeout \/ UNCHANGED vars
      <3>1. UNCHANGED <<resolver, connected, seen>>
        BY <2>6 DEF Notify, ResetRoundTimeout, vars, browser
      <3>2. QED BY <3>1 DEF ConnectedIsShown, Open
    <2>7. QED BY <2>1, <2>2, <2>3, <2>4, <2>5, <2>6 DEF Next
  <1>3. QED BY <1>1, <1>2, TypeInit, TypeNext, PTL DEF Spec
=============================================================================
