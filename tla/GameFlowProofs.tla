-------------------------- MODULE GameFlowProofs --------------------------
(***************************************************************************)
(* Theorems of GameFlow, for every round limit and every bound: the result *)
(* and the end, the phases, the match of MatchSpec, and then the           *)
(* discipline of turns, rounds and requests.                               *)
(***************************************************************************)
EXTENDS GameFlow, TLAPS

USE DEF Player, Nobody

-----------------------------------------------------------------------------
(***************************************************************************)
(* Lemmas about the pieces that the segments share.                        *)
(***************************************************************************)

\* Players are flipped into players.
LEMMA FlipType == \A p \in Player : flip(p) \in Player /\ flip(p) # Nobody
  BY DEF flip

\* gotWinner() keeps the types of what it writes.
LEMMA GotWinnerType ==
  ASSUME TypeOK, NEW w \in Player \union {Nobody}, GotWinner(w)
  PROVE  /\ phase' \in Phase /\ winner' \in Player \union {Nobody}
         /\ terminated' \in BOOLEAN /\ verdicts' \subseteq Verdict
         /\ finish' \in [status : {"pending", "resolved", "rejected"},
                         winner : Player \union {Nobody}]
  <1>1. CASE phase # "gameEnd" /\ ~terminated
    <2>1. [arg |-> w, seen |-> winner'] \in Verdict
      BY <1>1 DEF TypeOK, GotWinner, Verdict
    <2>2. QED BY <1>1, <2>1 DEF TypeOK, GotWinner, Phase
  <1>2. CASE ~(phase # "gameEnd" /\ ~terminated)
    <2>1. finish' = Resolved(w) /\ terminated' = TRUE
      BY <1>2 DEF GotWinner
    <2>2. phase' = phase /\ winner' = winner /\ verdicts' = verdicts
      BY <1>2 DEF GotWinner
    <2>3. finish' \in [status : {"pending", "resolved", "rejected"},
                       winner : Player \union {Nobody}]
      BY <2>1 DEF TypeOK, Resolved
    <2>4. QED BY <2>1, <2>2, <2>3 DEF TypeOK
  <1>3. QED BY <1>1, <1>2

\* Failing keeps the type of the promise.
LEMMA FailType ==
  ASSUME TypeOK, Fail
  PROVE  /\ pc' \in Label /\ terminated' \in BOOLEAN /\ verdicts' \subseteq Verdict
         /\ finish' \in [status : {"pending", "resolved", "rejected"},
                         winner : Player \union {Nobody}]
  BY DEF TypeOK, Fail, Rejected, Label

\* Asking players keeps the types of what it writes.
LEMMA AskType ==
  ASSUME TypeOK, NEW S \in SUBSET Player, NEW m \in Method, NEW l \in Label,
         AskThen(S, m, l)
  PROVE  /\ pc' \in Label /\ terminated' \in BOOLEAN /\ verdicts' \subseteq Verdict
         /\ finish' \in [status : {"pending", "resolved", "rejected"},
                         winner : Player \union {Nobody}]
         /\ ask' \in [Player -> Method \union {"none"}]
         /\ waiting' \subseteq Player
  <1>1. CASE terminated
    BY <1>1, FailType DEF AskThen, TypeOK
  <1>2. CASE ~terminated
    BY <1>2 DEF AskThen, TypeOK, promise
  <1>3. QED BY <1>1, <1>2

\* A pause records the end and the winner it shows to the host.
LEMMA PauseType ==
  ASSUME TypeOK, NEW l \in Label, PauseThen(l), winner' \in Player \union {Nobody}
  PROVE  /\ pc' \in Label
         /\ held' \in [open : BOOLEAN, end : BOOLEAN, winner : Player \union {Nobody}]
  BY DEF TypeOK, PauseThen, NotHeld

-----------------------------------------------------------------------------
(***************************************************************************)
(* Type correctness.                                                       *)
(***************************************************************************)

\* The first half of the loop's segments keeps the type of the state.
LEMMA TypeLoop1 ==
  ASSUME TypeOK,
         \/ Start \/ LoopExit \/ NoPhase \/ Tail
         \/ InitHands \/ HandsDealt \/ AskHands \/ HandsSwitched \/ ToInitActives
         \/ InitActives \/ ActivesChosen \/ ToRoll \/ RollPhase \/ RollDice
  PROVE  TypeOK'
  <1> USE GameFlowConstants DEF flow, board, promise, asked, bounds
  <1>1. CASE Start
    BY <1>1, PauseType DEF TypeOK, Start, Label
  <1>2. CASE LoopExit
    BY <1>2 DEF TypeOK, LoopExit, Label
  <1>3. CASE NoPhase
    BY <1>3 DEF TypeOK, NoPhase, Label
  <1>4. CASE Tail
    BY <1>4, PauseType DEF TypeOK, Tail, Label
  <1>5. CASE InitHands
    BY <1>5 DEF TypeOK, InitHands, SettleThen, Label, Resumption
  <1>6. CASE HandsDealt
    BY <1>6, PauseType DEF TypeOK, HandsDealt, Label
  <1>7. CASE AskHands
    BY <1>7, AskType DEF TypeOK, AskHands, Label, Method
  <1>8. CASE HandsSwitched
    BY <1>8 DEF TypeOK, HandsSwitched, SettleThen, Label, Resumption
  <1>9. CASE ToInitActives
    BY <1>9 DEF TypeOK, ToInitActives, Mutated, Label, Phase
  <1>10. CASE InitActives
    BY <1>10, AskType DEF TypeOK, InitActives, Label, Method
  <1>11. CASE ActivesChosen
    BY <1>11 DEF TypeOK, ActivesChosen, SettleThen, Label, Resumption
  <1>12. CASE ToRoll
    BY <1>12 DEF TypeOK, ToRoll, Mutated, Label, Phase
  <1>13. CASE RollPhase
    BY <1>13 DEF TypeOK, RollPhase, SettleThen, Label, Resumption
  <1>14. CASE RollDice
    <2>1. rerolls' \in [Player -> 0..MaxRerolls]
      BY <1>14 DEF TypeOK, RollDice
    <2>2. dice' \in [Player -> {"none", "rolled", "rerolled"}]
      BY <1>14 DEF TypeOK, RollDice, Mutated
    <2>3. QED
      BY <1>14, <2>1, <2>2, AskType DEF TypeOK, RollDice, Label, Method
  <1>15. QED
    BY <1>1, <1>2, <1>3, <1>4, <1>5, <1>6, <1>7, <1>8, <1>9, <1>10, <1>11,
       <1>12, <1>13, <1>14

\* So does the second half.
LEMMA TypeLoop2 ==
  ASSUME TypeOK,
         \/ ToAction \/ PassEnded \/ PassSkipped \/ BeforeAction
         \/ ReplaceAction \/ AskAction
         \/ ChooseAction \/ InvalidAction \/ TakeAction \/ DeclareEnd
         \/ (\E l \in {"finishSlow", "finishFast"} : FinishAction(l))
         \/ EndPhase \/ DrawTwo \/ EndRound
  PROVE  TypeOK'
  <1> USE GameFlowConstants DEF flow, board, promise, asked, bounds
  <1>1. CASE ToAction
    BY <1>1 DEF TypeOK, ToAction, SettleThen, Mutated, Label, Resumption, Phase
  <1>2. CASE PassEnded
    BY <1>2, FlipType DEF TypeOK, PassEnded, CloseRound, Mutated, Label, Phase
  <1>3. CASE PassSkipped
    BY <1>3, FlipType DEF TypeOK, PassSkipped, CloseRound, Mutated, Label, Phase
  <1>4. CASE BeforeAction
    BY <1>4 DEF TypeOK, BeforeAction, SettleThen, Label, Resumption
  <1>5. CASE ReplaceAction
    BY <1>5 DEF TypeOK, ReplaceAction, SettleThen, Label, Resumption
  <1>6. CASE AskAction
    BY <1>6, AskType DEF TypeOK, AskAction, Label, Method
  <1>7. CASE ChooseAction
    BY <1>7 DEF TypeOK, ChooseAction, SettleThen, Label, Resumption
  <1>8. CASE InvalidAction
    <2>1. flip(turn) \in Player \union {Nobody}
      BY FlipType DEF TypeOK
    <2>2. QED BY <1>8, <2>1, GotWinnerType DEF TypeOK, InvalidAction, Label
  <1>9. CASE TakeAction
    BY <1>9 DEF TypeOK, TakeAction, SettleThen, Label, Resumption
  <1>10. CASE DeclareEnd
    BY <1>10 DEF TypeOK, DeclareEnd, SettleThen, Mutated, Label, Resumption
  <1>11. CASE \E l \in {"finishSlow", "finishFast"} : FinishAction(l)
    BY <1>11, FlipType DEF TypeOK, FinishAction, CloseRound, Mutated, Label, Phase
  <1>12. CASE EndPhase
    BY <1>12 DEF TypeOK, EndPhase, SettleThen, Label, Resumption
  <1>13. CASE DrawTwo
    BY <1>13 DEF TypeOK, DrawTwo, SettleThen, Label, Resumption
  <1>14. CASE EndRound
    <2>1. CASE round' >= MaxRounds
      <3>1. GotWinner(Nobody)
        BY <1>14, <2>1 DEF EndRound
      <3>2. QED BY <1>14, <3>1, GotWinnerType DEF TypeOK, EndRound, Mutated, Label
    <2>2. CASE ~(round' >= MaxRounds)
      BY <1>14, <2>2 DEF TypeOK, EndRound, Mutated, Label, Phase
    <2>3. QED BY <2>1, <2>2
  <1>15. QED
    BY <1>1, <1>2, <1>3, <1>4, <1>5, <1>6, <1>7, <1>8, <1>9, <1>10, <1>11,
       <1>12, <1>13, <1>14

\* The segments that settle events keep the type of the state.
LEMMA TypeSettling ==
  ASSUME TypeOK,
         \/ Settled \/ RunSkill \/ CriticalDamage \/ NoDefeat \/ Defeat
         \/ RequestPlayer \/ ReplaceActive \/ SkillError
  PROVE  TypeOK'
  <1> USE GameFlowConstants DEF flow, board, promise, asked, bounds
  <1>1. CASE Settled
    BY <1>1 DEF TypeOK, Settled, Label, Resumption
  <1>2. CASE RunSkill
    <2>1. PauseThen("damage") /\ winner' = winner
      BY <1>2 DEF RunSkill
    <2>2. skip' \in [Player -> BOOLEAN]
      BY <1>2 DEF TypeOK, RunSkill
    <2>3. effects' \in 0..MaxEffects
      BY <1>2 DEF TypeOK, RunSkill, Effect
    <2>4. "damage" \in Label
      BY DEF Label
    <2>5. /\ pc' \in Label
          /\ held' \in [open : BOOLEAN, end : BOOLEAN, winner : Player \union {Nobody}]
      BY <2>1, <2>4, PauseType DEF TypeOK
    <2>6. QED BY <1>2, <2>2, <2>3, <2>5 DEF TypeOK, RunSkill
  <1>3. CASE CriticalDamage
    BY <1>3, PauseType DEF TypeOK, CriticalDamage, Label
  <1>4. CASE NoDefeat
    BY <1>4, PauseType DEF TypeOK, NoDefeat, Label
  <1>5. CASE Defeat
    <2>1. winner' \in Player \union {Nobody}
      BY <1>5, FlipType DEF TypeOK, Defeat
    <2>2. QED BY <1>5, <2>1, PauseType DEF TypeOK, Defeat, Label, Phase
  <1>6. CASE RequestPlayer
    <2>1. PICK p \in Player, m \in {"rerollDice", "switchHands", "selectCard"} :
            /\ AskThen({p}, m, "settle")
            /\ rerolls' = [rerolls EXCEPT ![p] =
                 IF m = "rerollDice" /\ ~terminated THEN MaxRerolls ELSE @]
      BY <1>6 DEF RequestPlayer
    <2>2. rerolls' \in [Player -> 0..MaxRerolls]
      BY <2>1 DEF TypeOK
    <2>3. {p} \in SUBSET Player /\ m \in Method
      BY DEF Method
    <2>4. effects' \in 0..MaxEffects
      BY <1>6 DEF TypeOK, RequestPlayer, Effect
    <2>5. "settle" \in Label
      BY DEF Label
    <2>6. /\ pc' \in Label /\ terminated' \in BOOLEAN /\ verdicts' \subseteq Verdict
          /\ finish' \in [status : {"pending", "resolved", "rejected"},
                          winner : Player \union {Nobody}]
          /\ ask' \in [Player -> Method \union {"none"}]
          /\ waiting' \subseteq Player
      BY <2>1, <2>3, <2>5, AskType
    <2>7. QED BY <1>6, <2>2, <2>4, <2>6 DEF TypeOK, RequestPlayer
  <1>7. CASE ReplaceActive
    BY <1>7, AskType DEF TypeOK, ReplaceActive, Effect, Label, Method
  <1>8. CASE SkillError
    BY <1>8, FailType DEF TypeOK, SkillError, Effect
  <1>9. QED
    BY <1>1, <1>2, <1>3, <1>4, <1>5, <1>6, <1>7, <1>8

\* The answers of the players keep the type of the state.
LEMMA TypePlayerInput ==
  ASSUME TypeOK, NEW p \in Player, Answer(p) \/ GiveUp(p)
  PROVE  TypeOK'
  <1> USE GameFlowConstants DEF flow, board, promise, asked, bounds
  <1>1. flip(p) \in Player \union {Nobody}
    BY FlipType
  <1>2. [ask EXCEPT ![p] = "none"] \in [Player -> Method \union {"none"}]
    BY DEF TypeOK
  <1>3. CASE AnswerAction(p)
    BY <1>3, <1>2 DEF TypeOK, AnswerAction, Answered
  <1>4. CASE AnswerCards(p)
    BY <1>4, <1>2 DEF TypeOK, AnswerCards, Answered
  <1>5. CASE KeepDice(p)
    BY <1>5, <1>2 DEF TypeOK, KeepDice, Answered
  <1>6. CASE RerollDice(p)
    <2>1. rerolls' \in [Player -> 0..MaxRerolls]
      BY <1>6 DEF TypeOK, RerollDice
    <2>2. dice' \in [Player -> {"none", "rolled", "rerolled"}]
      BY <1>6 DEF TypeOK, RerollDice
    <2>3. /\ ask' \in [Player -> Method \union {"none"}] /\ waiting' \subseteq Player
          /\ pc' \in Label /\ terminated' \in BOOLEAN /\ verdicts' \subseteq Verdict
          /\ finish' \in [status : {"pending", "resolved", "rejected"},
                          winner : Player \union {Nobody}]
      <3>1. CASE Answered(p)
        BY <3>1, <1>2 DEF TypeOK, Answered
      <3>2. CASE UNCHANGED <<ask, waiting, promise, pc>>
        BY <3>2 DEF TypeOK
      <3>3. CASE ask' = [ask EXCEPT ![p] = "none"] /\ Fail /\ waiting' = {}
        BY <3>3, <1>2, FailType
      <3>4. CASE ask' = [ask EXCEPT ![p] = "none"] /\ UNCHANGED <<promise, pc, waiting>>
        BY <3>4, <1>2 DEF TypeOK
      <3>5. QED BY <1>6, <3>1, <3>2, <3>3, <3>4 DEF RerollDice
    <2>4. QED BY <1>6, <2>1, <2>2, <2>3 DEF TypeOK, RerollDice
  <1>7. CASE BadAnswer(p)
    <2>1. CASE p \in waiting
      <3>1. GotWinner(flip(p)) /\ pc' = "done" /\ waiting' = {}
        BY <1>7, <2>1 DEF BadAnswer
      <3>2. QED BY <1>7, <3>1, <1>1, <1>2, GotWinnerType DEF TypeOK, BadAnswer, Label
    <2>2. CASE p \notin waiting
      BY <1>7, <2>2, <1>2 DEF TypeOK, BadAnswer
    <2>3. QED BY <2>1, <2>2
  <1>8. CASE GuestTimeout(p)
    <2>1. CASE p \notin waiting
      <3>1. GotWinner(flip(p)) /\ UNCHANGED <<pc, waiting>>
        BY <1>8, <2>1 DEF GuestTimeout
      <3>2. QED BY <1>8, <3>1, <1>1, <1>2, GotWinnerType DEF TypeOK, GuestTimeout
    <2>2. CASE p \in waiting
      <3>1. [arg |-> flip(p), seen |-> flip(p)] \in Verdict
        BY <1>1 DEF Verdict
      <3>2. /\ phase' \in Phase /\ winner' \in Player \union {Nobody}
            /\ verdicts' \subseteq Verdict
        BY <1>8, <2>2, <3>1, <1>1 DEF TypeOK, GuestTimeout, Phase
      <3>3. finish' \in [status : {"pending", "resolved", "rejected"},
                         winner : Player \union {Nobody}]
        BY <1>8, <2>2, <1>1 DEF TypeOK, GuestTimeout, Resolved
      <3>4. QED BY <1>8, <2>2, <3>2, <3>3, <1>2 DEF TypeOK, GuestTimeout, Label
    <2>3. QED BY <2>1, <2>2
  <1>9. CASE GiveUp(p)
    BY <1>9, <1>1, GotWinnerType DEF TypeOK, GiveUp
  <1>10. QED BY <1>3, <1>4, <1>5, <1>6, <1>7, <1>8, <1>9 DEF Answer

\* What the host does keeps the type of the state.
LEMMA TypeHost ==
  ASSUME TypeOK, ResumeLoop \/ ResumeVerdict \/ Terminate
  PROVE  TypeOK'
  <1> USE GameFlowConstants DEF flow, board, promise, asked, bounds
  <1>1. CASE ResumeLoop
    <2>1. held.winner \in Player \union {Nobody} /\ NotHeld \in
            [open : BOOLEAN, end : BOOLEAN, winner : Player \union {Nobody}]
      BY DEF TypeOK, NotHeld
    <2>2. CASE held.end
      <3>1. GotWinner(held.winner)
        BY <1>1, <2>2 DEF ResumeLoop
      <3>2. QED BY <1>1, <2>1, <3>1, GotWinnerType DEF TypeOK, ResumeLoop
    <2>3. CASE ~held.end
      BY <1>1, <2>1, <2>3 DEF TypeOK, ResumeLoop
    <2>4. QED BY <2>2, <2>3
  <1>2. CASE ResumeVerdict
    <2>1. PICK v \in verdicts :
            /\ terminated' = TRUE
            /\ IF phase = "gameEnd" \/ terminated
               THEN /\ finish' = Resolved(v.seen)
                    /\ verdicts' = verdicts \ {v}
                    /\ UNCHANGED <<phase, winner>>
               ELSE /\ phase' = "gameEnd"
                    /\ winner' = IF v.seen = Nobody THEN winner ELSE v.seen
                    /\ verdicts' = (verdicts \ {v})
                                     \union {[arg |-> v.seen, seen |-> winner']}
                    /\ finish' = Resolved(v.arg)
            /\ UNCHANGED <<turn, round, ended, skip, board, pc, ret, held, waiting>>
            /\ UNCHANGED <<asked, bounds>>
      BY <1>2 DEF ResumeVerdict
    <2>2. v \in Verdict /\ verdicts \subseteq Verdict
      BY <2>1 DEF TypeOK
    <2>3. v.seen \in Player \union {Nobody} /\ v.arg \in Player \union {Nobody}
      BY <2>2 DEF Verdict
    <2>4. phase' \in Phase /\ winner' \in Player \union {Nobody}
      BY <2>1, <2>3 DEF TypeOK, Phase
    <2>5. [arg |-> v.seen, seen |-> winner'] \in Verdict
      BY <2>3, <2>4 DEF Verdict
    <2>6. verdicts' \subseteq Verdict
      BY <2>1, <2>2, <2>5
    <2>7. finish' \in [status : {"pending", "resolved", "rejected"},
                       winner : Player \union {Nobody}]
      BY <2>1, <2>3 DEF TypeOK, Resolved
    <2>8. QED BY <2>1, <2>4, <2>6, <2>7 DEF TypeOK
  <1>3. CASE Terminate
    BY <1>3 DEF TypeOK, Terminate, Rejected
  <1>4. QED BY <1>1, <1>2, <1>3

\* The state of a match has its type, whatever the host and the players do.
THEOREM TypeCorrect == Spec => []TypeOK
  <1>1. Init => TypeOK
    <2> SUFFICES ASSUME Init PROVE TypeOK
      OBVIOUS
    <2>1. /\ finish \in [status : {"pending", "resolved", "rejected"},
                        winner : Player \union {Nobody}]
          /\ held \in [open : BOOLEAN, end : BOOLEAN, winner : Player \union {Nobody}]
      BY DEF Init, Pending, NotHeld
    <2>2. rerolls \in [Player -> 0..MaxRerolls] /\ acts \in 0..MaxActions
          /\ effects \in 0..MaxEffects
      BY GameFlowConstants DEF Init
    <2>3. phase \in Phase /\ pc \in Label /\ ret \in Resumption
      BY DEF Init, Phase, Label, Resumption
    <2>4. QED BY <2>1, <2>2, <2>3 DEF Init, TypeOK
  <1>2. TypeOK /\ [Next]_vars => TypeOK'
    <2> SUFFICES ASSUME TypeOK, [Next]_vars PROVE TypeOK'
      OBVIOUS
    <2>1. CASE Loop
      BY <2>1, TypeLoop1, TypeLoop2, TypeSettling DEF Loop
    <2>2. CASE ResumeLoop \/ ResumeVerdict \/ Terminate
      BY <2>2, TypeHost
    <2>3. CASE \E p \in Player : Answer(p) \/ GiveUp(p)
      BY <2>3, TypePlayerInput
    <2>4. CASE UNCHANGED vars
      BY <2>4 DEF TypeOK, vars, flow, board, promise, asked, bounds
    <2>5. QED BY <2>1, <2>2, <2>3, <2>4 DEF Next
  <1>3. QED BY <1>1, <1>2, PTL DEF Spec

-----------------------------------------------------------------------------
(***************************************************************************)
(* The end of a prompt game.  A lemma per kind of step shows that it keeps *)
(* FlowInv and leaves an ended game as it is; Kept is both.                *)
(***************************************************************************)

EndKept == phase = "gameEnd" => phase' = "gameEnd" /\ winner' = winner
Kept    == FlowInv' /\ EndKept

\* Where the loop runs a segment other than top, tail and done, the game has
\* not ended, or is terminated.
LEMMA NotEnded ==
  ASSUME FlowInv, NEW l, At(l), l \notin {"tail", "top", "done"}
  PROVE  phase # "gameEnd" \/ terminated
  BY DEF FlowInv, EndUnderWay, At

\* A step that leaves match, promise and pause alone, and pc where the end of
\* the game cannot be lost.
LEMMA QuietStep ==
  ASSUME FlowInv, UNCHANGED <<phase, winner, promise, held>>,
         phase = "gameEnd" /\ ~terminated /\ ~(held.open /\ held.end)
           => waiting' # {} \/ pc' \in {"tail", "top", "done"},
         pc' # "idle",
         pc = "done" => pc' = "done",
         pc' = "damage" => phase # "gameEnd" /\ waiting' = {}
  PROVE  Kept
  BY DEF FlowInv, ResultIsWinner, WinnerOnlyAtEnd, EndUnderWay, Kept, EndKept, promise

\* A pause shows the state it is entered in.
LEMMA PauseStep ==
  ASSUME FlowInv, NEW l, l # "idle", l = "damage" => phase # "gameEnd",
         PauseThen(l), pc # "done", ~held.open, waiting = {},
         UNCHANGED <<phase, winner, promise, waiting>>
  PROVE  Kept
  BY DEF FlowInv, ResultIsWinner, WinnerOnlyAtEnd, EndUnderWay, PauseThen, NotHeld,
         Kept, EndKept, promise

\* Players are asked only in a game that has not ended.
LEMMA AskStep ==
  ASSUME FlowInv, NEW S, NEW m, NEW l, l \notin {"idle", "damage"}, AskThen(S, m, l),
         phase # "gameEnd" \/ terminated, pc # "done",
         UNCHANGED <<phase, winner, held>>
  PROVE  Kept
  <1>1. CASE terminated
    <2>1. finish' = finish /\ pc' = "done" /\ UNCHANGED <<terminated, verdicts, waiting>>
      BY <1>1 DEF FlowInv, AskThen, Fail, Rejected
    <2>2. QED BY <1>1, <2>1, QuietStep DEF promise
  <1>2. CASE ~terminated
    <2>1. pc' = l /\ UNCHANGED promise
      BY <1>2 DEF AskThen
    <2>2. QED BY <1>2, <2>1, QuietStep
  <1>3. QED BY <1>1, <1>2

\* A segment of the loop changes the phase only of a game that has not ended.
LEMMA PhaseStep ==
  ASSUME FlowInv, NEW ph, ph # "gameEnd" \/ ph = phase, phase' = Mutated(phase, ph),
         phase # "gameEnd" \/ terminated, ~held.open, pc # "done",
         pc' \in {"tail", "settle"}, UNCHANGED <<winner, promise, held>>
  PROVE  Kept
  BY DEF FlowInv, ResultIsWinner, WinnerOnlyAtEnd, EndUnderWay, Mutated,
         Kept, EndKept, promise

\* gotWinner(w) ends the game, or settles the promise of an ended one with w.
LEMMA GotWinnerStep ==
  ASSUME FlowInv, NEW w, GotWinner(w),
         phase = "gameEnd" /\ ~terminated => w = winner,
         ~held'.open, phase # "gameEnd" => ~(held.open /\ held.end),
         pc' \notin {"idle", "damage"}, pc = "done" => pc' = "done",
         waiting' # {} \/ pc' \in {"tail", "top", "done"} \/ terminated
  PROVE  Kept
  <1>1. CASE phase # "gameEnd" /\ ~terminated
    <2>1. verdicts = {} /\ winner = Nobody /\ finish.status # "resolved"
      BY <1>1 DEF FlowInv, ResultIsWinner, WinnerOnlyAtEnd
    <2>2. /\ phase' = "gameEnd" /\ winner' = w
          /\ verdicts' = {[arg |-> w, seen |-> w]}
          /\ UNCHANGED <<terminated, finish>>
      BY <1>1, <2>1 DEF GotWinner
    <2>3. QED
      BY <1>1, <2>1, <2>2 DEF FlowInv, ResultIsWinner, WinnerOnlyAtEnd, EndUnderWay,
         Kept, EndKept
  <1>2. CASE phase = "gameEnd" \/ terminated
    <2>1. /\ finish' = Resolved(w) /\ terminated'
          /\ phase' = phase /\ winner' = winner /\ verdicts' = verdicts
      BY <1>2 DEF GotWinner
    <2>2. ResultIsWinner' /\ finish'.status # "pending"
      BY <1>2, <2>1 DEF FlowInv, ResultIsWinner, Resolved
    <2>3. QED
      BY <2>1, <2>2 DEF FlowInv, WinnerOnlyAtEnd, EndUnderWay, Kept, EndKept
  <1>3. QED BY <1>1, <1>2

\* The segments that suspend nothing and leave the phase alone.
LEMMA KeptQuiet ==
  ASSUME FlowInv, TypeOK,
         \/ LoopExit \/ NoPhase \/ InitHands \/ HandsSwitched \/ ActivesChosen
         \/ RollPhase \/ BeforeAction \/ ReplaceAction \/ ChooseAction \/ TakeAction
         \/ DeclareEnd \/ EndPhase \/ DrawTwo \/ Settled
  PROVE  Kept
  <1> USE DEF flow, board, promise, At
  <1>1. CASE LoopExit \/ NoPhase
    BY <1>1, QuietStep DEF LoopExit, NoPhase
  <1>2. CASE InitHands \/ RollPhase \/ BeforeAction \/ EndPhase
    BY <1>2, QuietStep DEF InitHands, RollPhase, BeforeAction, EndPhase,
       Enter, SettleThen
  <1>3. CASE HandsSwitched \/ ActivesChosen \/ DrawTwo
    <2>1. phase # "gameEnd" \/ terminated
      BY <1>3, NotEnded DEF HandsSwitched, ActivesChosen, DrawTwo
    <2>2. QED
      BY <1>3, <2>1, QuietStep DEF HandsSwitched, ActivesChosen, DrawTwo, SettleThen
  <1>4. CASE ReplaceAction \/ ChooseAction
    <2>1. phase # "gameEnd" \/ terminated
      BY <1>4, NotEnded DEF ReplaceAction, ChooseAction
    <2>2. QED BY <1>4, <2>1, QuietStep DEF ReplaceAction, ChooseAction, SettleThen
  <1>5. CASE TakeAction \/ DeclareEnd
    <2>1. phase # "gameEnd" \/ terminated
      BY <1>5, NotEnded DEF TakeAction, DeclareEnd
    <2>2. QED BY <1>5, <2>1, QuietStep DEF TakeAction, DeclareEnd, SettleThen
  <1>6. CASE Settled
    <2>1. phase # "gameEnd" \/ terminated
      BY <1>6, NotEnded DEF Settled
    <2>2. ret \notin {"idle", "damage"}
      BY DEF TypeOK, Resumption
    <2>3. QED BY <1>6, <2>1, <2>2, QuietStep DEF Settled
  <1>7. QED BY <1>1, <1>2, <1>3, <1>4, <1>5, <1>6

\* The segments that end in a pause.
LEMMA KeptPause ==
  ASSUME FlowInv, TypeOK,
         \/ Start \/ Tail \/ HandsDealt \/ RunSkill \/ CriticalDamage \/ NoDefeat
         \/ Defeat
  PROVE  Kept
  <1> USE DEF flow, board, promise, At
  <1>1. CASE Start
    <2>1. ~held.open /\ waiting = {}
      BY <1>1 DEF FlowInv, Start
    <2>2. QED BY <1>1, <2>1, PauseStep DEF Start
  <1>2. CASE Tail \/ HandsDealt
    BY <1>2, PauseStep DEF Tail, HandsDealt
  <1>3. CASE RunSkill
    BY <1>3, PauseStep DEF RunSkill, Effect
  <1>4. CASE CriticalDamage
    <2>1. phase # "gameEnd"
      BY <1>4 DEF CriticalDamage, FlowInv
    <2>2. QED BY <1>4, <2>1, PauseStep DEF CriticalDamage
  <1>5. CASE NoDefeat
    <2>1. phase # "gameEnd"
      BY <1>5 DEF NoDefeat, FlowInv
    <2>2. CASE PauseThen("settle")
      BY <1>5, <2>2, PauseStep DEF NoDefeat
    <2>3. CASE pc' = "settle" /\ UNCHANGED held
      BY <1>5, <2>1, <2>3, QuietStep DEF NoDefeat
    <2>4. QED BY <1>5, <2>2, <2>3 DEF NoDefeat
  <1>6. CASE Defeat
    <2>1. /\ phase # "gameEnd" /\ verdicts = {} /\ winner = Nobody
          /\ finish.status # "resolved"
      BY <1>6 DEF Defeat, FlowInv, ResultIsWinner, WinnerOnlyAtEnd
    <2>2. /\ phase' = "gameEnd" /\ pc' = "settle"
          /\ UNCHANGED <<terminated, finish, verdicts, waiting>>
          /\ held' = IF terminated THEN NotHeld
                     ELSE [open |-> TRUE, end |-> TRUE, winner |-> winner']
      BY <1>6 DEF Defeat, PauseThen
    <2>3. held'.open /\ held'.end => held'.winner = winner'
      BY <2>2 DEF NotHeld
    <2>4. terminated \/ (held'.open /\ held'.end)
      BY <2>2
    <2>5. ResultIsWinner' /\ WinnerOnlyAtEnd'
      BY <2>1, <2>2 DEF ResultIsWinner, WinnerOnlyAtEnd
    <2>6. EndUnderWay'
      BY <2>2, <2>4 DEF EndUnderWay
    <2>7. pc # "done"
      BY <1>6 DEF Defeat
    <2>8. QED
      BY <2>1, <2>2, <2>3, <2>5, <2>6, <2>7 DEF FlowInv, Kept, EndKept
  <1>7. QED BY <1>1, <1>2, <1>3, <1>4, <1>5, <1>6

\* The segments that end in requests to the players, and the error of a card.
LEMMA KeptAsk ==
  ASSUME FlowInv,
         \/ AskHands \/ InitActives \/ RollDice \/ AskAction \/ RequestPlayer
         \/ ReplaceActive \/ SkillError
  PROVE  Kept
  <1> USE DEF flow, board, promise, At
  <1>1. CASE AskHands
    BY <1>1, AskStep, NotEnded DEF AskHands
  <1>2. CASE InitActives
    BY <1>2, AskStep DEF InitActives, Enter
  <1>3. CASE RollDice
    BY <1>3, AskStep, NotEnded DEF RollDice
  <1>4. CASE AskAction
    BY <1>4, AskStep, NotEnded DEF AskAction
  <1>5. CASE RequestPlayer
    <2>1. phase # "gameEnd" \/ terminated
      BY <1>5, NotEnded DEF RequestPlayer, Effect
    <2>2. PICK p \in Player, m \in {"rerollDice", "switchHands", "selectCard"} :
            AskThen({p}, m, "settle")
      BY <1>5 DEF RequestPlayer
    <2>3. QED BY <1>5, <2>1, <2>2, AskStep DEF RequestPlayer, Effect
  <1>6. CASE ReplaceActive
    <2>1. phase # "gameEnd" \/ terminated
      BY <1>6, NotEnded DEF ReplaceActive, Effect
    <2>2. PICK S \in SUBSET Player : AskThen(S, "chooseActive", "settle")
      BY <1>6 DEF ReplaceActive
    <2>3. QED BY <1>6, <2>1, <2>2, AskStep DEF ReplaceActive, Effect
  <1>7. CASE SkillError
    <2>1. phase # "gameEnd" \/ terminated
      BY <1>7, NotEnded DEF SkillError, Effect
    <2>2. finish.status = "resolved" => terminated
      BY <1>7 DEF SkillError, Effect, FlowInv
    <2>3. QED
      BY <1>7, <2>1, <2>2 DEF SkillError, Effect, Fail, Rejected, FlowInv,
         ResultIsWinner, WinnerOnlyAtEnd, EndUnderWay, Kept, EndKept
  <1>8. QED BY <1>1, <1>2, <1>3, <1>4, <1>5, <1>6, <1>7

\* The segments that change the phase, and those that end the game.
LEMMA KeptPhase ==
  ASSUME FlowInv,
         \/ ToInitActives \/ ToRoll \/ ToAction \/ PassEnded \/ PassSkipped
         \/ (\E l \in {"finishSlow", "finishFast"} : FinishAction(l))
         \/ EndRound \/ InvalidAction
  PROVE  Kept
  <1> USE DEF flow, board, promise, At
  <1>1. CASE ToInitActives \/ ToRoll \/ ToAction
    <2>1. phase # "gameEnd" \/ terminated
      BY <1>1, NotEnded DEF ToInitActives, ToRoll, ToAction
    <2>2. QED
      BY <1>1, <2>1, PhaseStep DEF ToInitActives, ToRoll, ToAction, SettleThen
  <1>2. CASE \/ PassEnded \/ PassSkipped
             \/ \E l \in {"finishSlow", "finishFast"} : FinishAction(l)
    <2>1. phase # "gameEnd" \/ terminated
      BY <1>2, NotEnded DEF PassEnded, PassSkipped, FinishAction, Enter
    <2>2. PICK ph \in {"end", phase} : phase' = Mutated(phase, ph)
      BY <1>2 DEF PassEnded, PassSkipped, FinishAction, CloseRound
    <2>3. QED
      BY <1>2, <2>1, <2>2, PhaseStep DEF PassEnded, PassSkipped, FinishAction, Enter
  <1>3. CASE EndRound
    <2>1. phase # "gameEnd" \/ terminated
      BY <1>3, NotEnded DEF EndRound
    <2>2. CASE round' >= MaxRounds
      <3>1. GotWinner(Nobody)
        BY <1>3, <2>2 DEF EndRound
      <3>2. QED BY <1>3, <2>1, <3>1, GotWinnerStep DEF EndRound
    <2>3. CASE ~(round' >= MaxRounds)
      BY <1>3, <2>1, <2>3, PhaseStep DEF EndRound
    <2>4. QED BY <2>2, <2>3
  <1>4. CASE InvalidAction
    <2>1. phase # "gameEnd" \/ terminated
      BY <1>4, NotEnded DEF InvalidAction
    <2>2. GotWinner(flip(turn))
      BY <1>4 DEF InvalidAction
    <2>3. QED BY <1>4, <2>1, <2>2, GotWinnerStep DEF InvalidAction
  <1>5. QED BY <1>1, <1>2, <1>3, <1>4

\* With prompt pauses an input finds the game not ended, or terminated.
LEMMA InputStep ==
  ASSUME FlowInv, PromptPause, InputReady
  PROVE  /\ phase # "gameEnd" \/ terminated
         /\ ~held.open /\ pc \notin {"idle", "damage"} /\ verdicts = {}
         /\ waiting # {} \/ pc = "done"
  BY DEF FlowInv, InputReady, EndUnderWay

\* The inputs of the players.
LEMMA KeptInput ==
  ASSUME FlowInv, PromptPause, NEW p \in Player, Answer(p) \/ GiveUp(p)
  PROVE  Kept
  <1> USE DEF flow, board, promise
  <1>1. /\ phase # "gameEnd" \/ terminated
        /\ ~held.open /\ pc \notin {"idle", "damage"} /\ verdicts = {}
        /\ waiting # {} \/ pc = "done"
    BY InputStep DEF Answer, AnswerAction, AnswerCards, KeepDice, RerollDice,
       BadAnswer, GuestTimeout, GiveUp
  <1>2. CASE AnswerAction(p) \/ AnswerCards(p) \/ KeepDice(p)
    BY <1>1, <1>2, QuietStep DEF AnswerAction, AnswerCards, KeepDice, Answered
  <1>3. CASE RerollDice(p)
    <2>1. CASE Fail /\ terminated
      <3>1. UNCHANGED promise /\ pc' = "done"
        BY <2>1 DEF Fail, Rejected, FlowInv
      <3>2. QED BY <1>1, <1>3, <2>1, <3>1, QuietStep DEF RerollDice
    <2>2. CASE UNCHANGED <<promise, pc>>
      BY <1>1, <1>3, <2>2, QuietStep DEF RerollDice
    <2>3. QED BY <1>3, <2>1, <2>2 DEF RerollDice, Answered
  <1>4. CASE BadAnswer(p)
    <2>1. CASE p \in waiting
      <3>1. GotWinner(flip(p)) /\ pc' = "done"
        BY <1>4, <2>1 DEF BadAnswer
      <3>2. QED BY <1>1, <1>4, <3>1, GotWinnerStep DEF BadAnswer
    <2>2. CASE p \notin waiting
      BY <1>1, <1>4, <2>2, QuietStep DEF BadAnswer
    <2>3. QED BY <2>1, <2>2
  <1>5. CASE GuestTimeout(p)
    <2>1. CASE p \notin waiting
      <3>1. GotWinner(flip(p)) /\ UNCHANGED <<pc, waiting>>
        BY <1>5, <2>1 DEF GuestTimeout
      <3>2. QED BY <1>1, <1>5, <3>1, GotWinnerStep DEF GuestTimeout
    <2>2. CASE p \in waiting /\ phase # "gameEnd" /\ ~terminated
      <3>1. /\ phase' = "gameEnd" /\ winner' = flip(p) /\ terminated' /\ pc' = "done"
            /\ verdicts' = {[arg |-> flip(p), seen |-> flip(p)]}
            /\ finish' = Resolved(flip(p)) /\ ~held'.open
        BY <1>1, <1>5, <2>2 DEF GuestTimeout
      <3>2. finish.status = "pending" \/ pc = "done"
        BY <2>2 DEF FlowInv
      <3>3. finish.status # "resolved"
        BY <2>2 DEF FlowInv, ResultIsWinner
      <3>4. ResultIsWinner' /\ finish'.status # "pending"
        BY <3>1, <3>3 DEF ResultIsWinner, Resolved
      <3>5. QED
        BY <2>2, <3>1, <3>4 DEF FlowInv, WinnerOnlyAtEnd, EndUnderWay, Kept, EndKept
    <2>3. CASE p \in waiting /\ terminated
      <3>1. /\ UNCHANGED <<phase, winner, verdicts, held>> /\ terminated' /\ pc' = "done"
            /\ finish' = Resolved(flip(p))
        BY <1>5, <2>3 DEF GuestTimeout
      <3>2. finish' = finish
        BY <2>3, <3>1 DEF FlowInv, Resolved
      <3>3. QED
        BY <1>1, <2>3, <3>1, <3>2 DEF FlowInv, ResultIsWinner, WinnerOnlyAtEnd,
           EndUnderWay, Kept, EndKept
    <2>4. QED BY <1>1, <2>1, <2>2, <2>3
  <1>6. CASE GiveUp(p)
    <2>1. GotWinner(flip(p))
      BY <1>6 DEF GiveUp
    <2>2. QED BY <1>1, <1>6, <2>1, GotWinnerStep DEF GiveUp
  <1>7. QED BY <1>2, <1>3, <1>4, <1>5, <1>6 DEF Answer

\* The inputs of the host.
LEMMA KeptHost ==
  ASSUME FlowInv, PromptPause, ResumeLoop \/ ResumeVerdict \/ Terminate
  PROVE  Kept
  <1> USE DEF flow, board, promise
  <1>1. CASE ResumeLoop
    <2>1. held'.open = FALSE
      BY <1>1 DEF ResumeLoop, NotHeld
    <2>2. CASE held.end
      <3>1. phase = "gameEnd" /\ held.winner = winner
        BY <1>1, <2>2 DEF ResumeLoop, FlowInv
      <3>2. /\ finish' = Resolved(winner) /\ terminated'
            /\ UNCHANGED <<phase, winner, verdicts, pc, waiting>>
        BY <1>1, <2>2, <3>1 DEF ResumeLoop, GotWinner
      <3>3. ResultIsWinner' /\ finish'.status # "pending"
        BY <3>1, <3>2 DEF FlowInv, ResultIsWinner, Resolved
      <3>4. QED
        BY <2>1, <3>1, <3>2, <3>3 DEF FlowInv, WinnerOnlyAtEnd, EndUnderWay,
           Kept, EndKept
    <2>3. CASE ~held.end
      BY <1>1, <2>1, <2>3 DEF ResumeLoop, FlowInv, ResultIsWinner, WinnerOnlyAtEnd,
         EndUnderWay, Kept, EndKept
    <2>4. QED BY <2>2, <2>3
  <1>2. CASE ResumeVerdict
    <2>1. PICK v \in verdicts :
            /\ terminated' = TRUE
            /\ phase = "gameEnd" => /\ finish' = Resolved(v.seen)
                                    /\ verdicts' = verdicts \ {v}
                                    /\ UNCHANGED <<phase, winner>>
            /\ UNCHANGED <<pc, held, waiting>>
      BY <1>2 DEF ResumeVerdict
    <2>2. phase = "gameEnd" /\ v.seen = winner
      BY <2>1 DEF FlowInv
    <2>3. ResultIsWinner' /\ finish'.status # "pending"
      BY <2>1, <2>2 DEF FlowInv, ResultIsWinner, Resolved
    <2>4. QED
      BY <2>1, <2>2, <2>3 DEF FlowInv, WinnerOnlyAtEnd, EndUnderWay, Kept, EndKept
  <1>3. CASE Terminate
    <2>1. finish.status # "pending" => finish' = finish
      BY <1>3 DEF Terminate, Rejected
    <2>2. finish'.status # "pending" /\ (finish'.status = "resolved" => finish' = finish)
      BY <1>3 DEF Terminate, Rejected
    <2>3. QED
      BY <1>3, <2>1, <2>2 DEF Terminate, FlowInv, ResultIsWinner, WinnerOnlyAtEnd,
         EndUnderWay, Kept, EndKept
  <1>4. QED BY <1>1, <1>2, <1>3

\* Every step of a prompt game keeps the invariant and an end that is reached.
LEMMA KeptNext ==
  ASSUME TypeOK, FlowInv, PromptPause, [Next]_vars
  PROVE  Kept
  <1>1. CASE Loop
    BY <1>1, KeptQuiet, KeptPause, KeptAsk, KeptPhase DEF Loop
  <1>2. CASE ResumeLoop \/ ResumeVerdict \/ Terminate
    BY <1>2, KeptHost
  <1>3. CASE \E p \in Player : Answer(p) \/ GiveUp(p)
    BY <1>3, KeptInput
  <1>4. CASE UNCHANGED vars
    BY <1>4 DEF vars, flow, promise, FlowInv, ResultIsWinner, WinnerOnlyAtEnd,
       EndUnderWay, Kept, EndKept
  <1>5. QED BY <1>1, <1>2, <1>3, <1>4 DEF Next

\* A game that has not been started satisfies the invariant.
LEMMA FlowInit == Init => FlowInv
  BY DEF Init, Pending, NotHeld, FlowInv, ResultIsWinner, WinnerOnlyAtEnd, EndUnderWay

\* The invariant of a prompt game.
THEOREM FlowInvariant == ASSUME PromptPause PROVE Spec => []FlowInv
  <1>1. TypeOK /\ FlowInv /\ [Next]_vars => FlowInv'
    BY KeptNext DEF Kept
  <1>2. QED BY <1>1, FlowInit, TypeCorrect, PTL DEF Spec

\* What start() resolves to is the winner of the ended game.
THEOREM ResultCorrect == ASSUME PromptPause PROVE Spec => []ResultIsWinner
  <1>1. FlowInv => ResultIsWinner
    BY DEF FlowInv
  <1>2. QED BY <1>1, FlowInvariant, PTL

\* No step takes an ended game back or gives it another winner.
THEOREM EndCorrect == ASSUME PromptPause PROVE Spec => EndIsFinal
  <1>1. TypeOK /\ FlowInv /\ [Next]_vars
          => [phase = "gameEnd" => phase' = "gameEnd" /\ winner' = winner]_vars
    BY KeptNext DEF Kept, EndKept
  <1>2. QED BY <1>1, FlowInvariant, TypeCorrect, PTL DEF Spec, EndIsFinal

-----------------------------------------------------------------------------
(***************************************************************************)
(* The match that the host of a prompt game sees.  start() dispatches on   *)
(* the phase only at the top of its loop, and a handler goes on after each *)
(* suspension without looking at the phase again: InHome says that it      *)
(* still is the handler's own, unless the game ended meanwhile.            *)
(***************************************************************************)

\* A step of the loop at a segment follows the order of the phases.
LEMMA HomeLoop ==
  ASSUME TypeOK, InHome, Loop
  PROVE  InHome'
  <1> USE DEF flow, board, promise, asked, bounds, At, InHome, Place
  <1>1. CASE Start \/ LoopExit \/ NoPhase \/ Tail
    BY <1>1 DEF Start, LoopExit, NoPhase, Tail, PauseThen
  <1>2. CASE InitHands \/ HandsDealt \/ HandsSwitched \/ ToInitActives
    BY <1>2 DEF InitHands, HandsDealt, HandsSwitched, ToInitActives,
       Enter, SettleThen, PauseThen
  <1>3. CASE AskHands \/ InitActives \/ RollDice \/ AskAction
    BY <1>3 DEF AskHands, InitActives, RollDice, AskAction, Enter, AskThen, Fail
  <1>4. CASE ActivesChosen \/ ToRoll \/ RollPhase \/ ToAction
    BY <1>4 DEF ActivesChosen, ToRoll, RollPhase, ToAction, Enter, SettleThen
  <1>5. CASE PassEnded \/ PassSkipped \/ BeforeAction
    BY <1>5 DEF PassEnded, PassSkipped, BeforeAction, Enter, SettleThen
  <1>6. CASE ReplaceAction \/ ChooseAction \/ TakeAction \/ DeclareEnd
    BY <1>6 DEF ReplaceAction, ChooseAction, TakeAction, DeclareEnd, SettleThen
  <1>7. CASE InvalidAction
    BY <1>7 DEF InvalidAction
  <1>8. CASE \E l \in {"finishSlow", "finishFast"} : FinishAction(l)
    BY <1>8 DEF FinishAction
  <1>9. CASE EndPhase \/ DrawTwo \/ EndRound
    BY <1>9 DEF EndPhase, DrawTwo, EndRound, Enter, SettleThen
  <1>10. CASE Settled
    BY <1>10 DEF Settled, TypeOK, Resumption
  <1>11. CASE RunSkill \/ CriticalDamage \/ NoDefeat \/ Defeat
    BY <1>11 DEF RunSkill, CriticalDamage, NoDefeat, Defeat, Effect, PauseThen
  <1>12. CASE RequestPlayer \/ ReplaceActive \/ SkillError
    BY <1>12 DEF RequestPlayer, ReplaceActive, SkillError, Effect, AskThen, Fail
  <1>13. QED
    BY <1>1, <1>2, <1>3, <1>4, <1>5, <1>6, <1>7, <1>8, <1>9, <1>10, <1>11, <1>12
       DEF Loop

\* What comes from outside ends the game or leaves its phase and place alone.
LEMMA HomeInput ==
  ASSUME InHome,
         \/ ResumeLoop \/ ResumeVerdict \/ Terminate
         \/ \E p \in Player : Answer(p) \/ GiveUp(p)
  PROVE  InHome'
  <1>1. phase' \in {phase, "gameEnd"}
    BY DEF ResumeLoop, ResumeVerdict, Terminate, GiveUp, Answer, AnswerAction,
       AnswerCards, KeepDice, RerollDice, BadAnswer, GuestTimeout, GotWinner, flow,
       promise
  <1>2. ret' = ret /\ pc' \in {pc, "done"}
    BY DEF ResumeLoop, ResumeVerdict, Terminate, GiveUp, Answer, AnswerAction,
       AnswerCards, KeepDice, RerollDice, BadAnswer, GuestTimeout, Answered, Fail
  <1>3. QED BY <1>1, <1>2 DEF InHome, Place

\* Every segment runs in its own phase, however long the host lets it wait.
THEOREM HomeInvariant == Spec => []InHome
  <1>1. Init => InHome
    BY DEF Init, InHome, Place
  <1>2. TypeOK /\ InHome /\ [Next]_vars => InHome'
    <2> SUFFICES ASSUME TypeOK, InHome, [Next]_vars PROVE InHome'
      OBVIOUS
    <2>1. CASE UNCHANGED vars
      BY <2>1 DEF vars, flow, InHome, Place
    <2>2. QED BY <2>1, HomeLoop, HomeInput DEF Next
  <1>3. QED BY <1>1, <1>2, TypeCorrect, PTL DEF Spec

-----------------------------------------------------------------------------
(***************************************************************************)
(* The refinement.  A step that touches neither match nor promise stutters *)
(* in MatchSpec; each of the others is one of its actions.                 *)
(***************************************************************************)

MatchStep == [Match!Next]_(Match!matchVars)

\* A step that leaves the four mapped variables alone is a stutter of the match.
LEMMA StutterStep ==
  ASSUME UNCHANGED <<phase, round, winner, finish>>
  PROVE  MatchStep
  BY DEF MatchStep, Match!matchVars

\* gotWinner() of a game that goes on is Conclude; afterwards it is Publish
\* or, when the promise is settled, a stutter.
LEMMA GotWinnerMatch ==
  ASSUME TypeOK, FlowInv, NEW w \in Player \union {Nobody}, GotWinner(w),
         UNCHANGED round, phase = "gameEnd" /\ ~terminated => w = winner
  PROVE  MatchStep
  <1>1. CASE phase # "gameEnd" /\ ~terminated
    <2>1. phase' = "gameEnd" /\ finish' = finish /\ winner' = w
      BY <1>1 DEF GotWinner, FlowInv, WinnerOnlyAtEnd
    <2>2. Match!Conclude(w)
      BY <1>1, <2>1 DEF Match!Conclude
    <2>3. QED BY <2>2 DEF MatchStep, Match!Next, Match!Player, Match!Nobody
  <1>2. CASE phase = "gameEnd" \/ terminated
    <2>1. finish' = Resolved(w) /\ UNCHANGED <<phase, winner, round>>
      BY <1>2 DEF GotWinner
    <2>2. CASE finish.status = "pending"
      <3>1. phase = "gameEnd" /\ w = winner
        BY <1>2, <2>2 DEF FlowInv
      <3>2. Match!Publish
        BY <2>1, <2>2, <3>1 DEF Resolved, Match!Publish, Match!Publishes
      <3>3. QED BY <3>2 DEF MatchStep, Match!Next
    <2>3. CASE finish.status # "pending"
      BY <2>1, <2>3, StutterStep DEF Resolved
    <2>4. QED BY <2>2, <2>3
  <1>3. QED BY <1>1, <1>2

\* A mutation that takes the phase and the round on as Order says.
LEMMA AdvanceMatch ==
  ASSUME FlowInv, ~terminated, pc # "done", NEW o \in Match!Order,
         phase = o.from, phase' = o.to, round' = round + o.rounds,
         phase = "end" => round' < MaxRounds, UNCHANGED <<winner, finish>>
  PROVE  MatchStep
  <1>1. finish.status = "pending"
    BY DEF FlowInv
  <1>2. Match!Advance
    BY <1>1 DEF Match!Advance
  <1>3. QED BY <1>2 DEF MatchStep, Match!Next

\* Rejecting a settled promise does nothing, rejecting a pending one aborts.
LEMMA RejectMatch ==
  ASSUME finish' = Rejected, UNCHANGED <<phase, round, winner>>
  PROVE  MatchStep
  <1>1. CASE finish.status = "pending"
    <2>1. Match!Abort
      BY <1>1 DEF Rejected, Match!Abort, Match!Nobody
    <2>2. QED BY <2>1 DEF MatchStep, Match!Next
  <1>2. CASE finish.status # "pending"
    BY <1>2, StutterStep DEF Rejected
  <1>3. QED BY <1>1, <1>2

\* Asking players is a stutter of the match, or aborts a terminated one.
LEMMA AskMatch ==
  ASSUME NEW S, NEW m, NEW l, AskThen(S, m, l), UNCHANGED flow
  PROVE  MatchStep
  BY RejectMatch, StutterStep DEF AskThen, Fail, flow, promise

\* The segments that change the phase.
LEMMA MatchPhase ==
  ASSUME TypeOK, FlowInv, InHome,
         \/ ToInitActives \/ ToRoll \/ ToAction \/ PassEnded \/ PassSkipped
         \/ (\E l \in {"finishSlow", "finishFast"} : FinishAction(l))
         \/ EndRound
  PROVE  MatchStep
  <1> USE DEF promise, At
  <1>1. CASE terminated
    <2>1. CASE ToInitActives \/ ToRoll \/ ToAction
      BY <1>1, <2>1, StutterStep DEF ToInitActives, ToRoll, ToAction, Mutated
    <2>2. CASE \/ PassEnded \/ PassSkipped
               \/ \E l \in {"finishSlow", "finishFast"} : FinishAction(l)
      BY <1>1, <2>2, StutterStep DEF PassEnded, PassSkipped, FinishAction,
         CloseRound, Mutated
    <2>3. CASE EndRound
      <3>1. finish' = finish
        BY <1>1, <2>3 DEF EndRound, GotWinner, Resolved, FlowInv
      <3>2. QED
        BY <1>1, <2>3, <3>1, StutterStep DEF EndRound, GotWinner, Mutated
    <2>4. QED BY <2>1, <2>2, <2>3
  <1>2. CASE ~terminated
    <2>1. CASE ToInitActives
      <3>1. phase = "initHands"
        BY <1>2, <2>1, NotEnded DEF ToInitActives, InHome, Place
      <3>2. QED
        BY <1>2, <2>1, <3>1, AdvanceMatch DEF ToInitActives, Mutated, Match!Order,
           TypeOK
    <2>2. CASE ToRoll
      <3>1. phase = "initActives"
        BY <1>2, <2>2, NotEnded DEF ToRoll, InHome, Place
      <3>2. QED
        BY <1>2, <2>2, <3>1, AdvanceMatch DEF ToRoll, Mutated, Match!Order, TypeOK
    <2>3. CASE ToAction
      <3>1. phase = "roll"
        BY <1>2, <2>3, NotEnded DEF ToAction, InHome, Place
      <3>2. QED
        BY <1>2, <2>3, <3>1, AdvanceMatch DEF ToAction, Mutated, Match!Order, TypeOK
    <2>4. CASE \/ PassEnded \/ PassSkipped
               \/ \E l \in {"finishSlow", "finishFast"} : FinishAction(l)
      <3>1. phase = "action" /\ pc # "done"
        BY <1>2, <2>4, NotEnded DEF PassEnded, PassSkipped, FinishAction, Enter,
           InHome, Place
      <3>2. phase' \in {"end", phase} /\ UNCHANGED <<round, winner, finish>>
        BY <1>2, <2>4 DEF PassEnded, PassSkipped, FinishAction, CloseRound, Mutated
      <3>3. CASE phase' = "end"
        BY <1>2, <3>1, <3>2, <3>3, AdvanceMatch DEF Match!Order, TypeOK
      <3>4. CASE phase' = phase
        BY <3>2, <3>4, StutterStep
      <3>5. QED BY <3>2, <3>3, <3>4
    <2>5. CASE EndRound
      <3>1. phase = "end" /\ round' = round + 1
        BY <1>2, <2>5, NotEnded DEF EndRound, InHome, Place, Mutated
      <3>2. CASE round' >= MaxRounds
        <4>1. phase' = "gameEnd" /\ UNCHANGED <<winner, finish>>
          BY <1>2, <2>5, <3>1, <3>2 DEF EndRound, GotWinner
        <4>2. Match!RunOut
          BY <3>1, <3>2, <4>1 DEF Match!RunOut
        <4>3. QED BY <4>2 DEF MatchStep, Match!Next
      <3>3. CASE ~(round' >= MaxRounds)
        <4>1. round' < MaxRounds
          BY <3>1, <3>3, GameFlowConstants DEF TypeOK
        <4>2. phase' = "roll" /\ UNCHANGED <<winner, finish>> /\ pc # "done"
          BY <1>2, <2>5, <3>3 DEF EndRound, Mutated
        <4>3. QED BY <1>2, <3>1, <4>1, <4>2, AdvanceMatch DEF Match!Order
      <3>4. QED BY <3>2, <3>3
    <2>6. QED BY <2>1, <2>2, <2>3, <2>4, <2>5
  <1>3. QED BY <1>1, <1>2

\* The other segments of the loop.
LEMMA MatchLoop ==
  ASSUME TypeOK, FlowInv, InHome, Loop
  PROVE  MatchStep
  <1> USE DEF flow, board, promise
  <1>1. CASE Start \/ LoopExit \/ NoPhase \/ Tail \/ InitHands \/ HandsDealt
             \/ HandsSwitched \/ ActivesChosen \/ RollPhase
    BY <1>1, StutterStep DEF Start, LoopExit, NoPhase, Tail, InitHands, HandsDealt,
       HandsSwitched, ActivesChosen, RollPhase
  <1>2. CASE BeforeAction \/ ReplaceAction \/ ChooseAction \/ TakeAction \/ DeclareEnd
             \/ EndPhase \/ DrawTwo
    BY <1>2, StutterStep DEF BeforeAction, ReplaceAction, ChooseAction, TakeAction,
       DeclareEnd, EndPhase, DrawTwo
  <1>3. CASE Settled \/ RunSkill \/ CriticalDamage \/ NoDefeat
    BY <1>3, StutterStep DEF Settled, RunSkill, CriticalDamage, NoDefeat
  <1>4. CASE AskHands \/ InitActives \/ RollDice \/ AskAction \/ ReplaceActive
    BY <1>4, AskMatch DEF AskHands, InitActives, RollDice, AskAction, ReplaceActive
  <1>5. CASE RequestPlayer
    BY <1>5, AskMatch DEF RequestPlayer
  <1>6. CASE SkillError
    BY <1>6, RejectMatch DEF SkillError, Fail
  <1>7. CASE Defeat
    <2>1. phase # "gameEnd" /\ phase' = "gameEnd" /\ UNCHANGED <<round, finish>>
      BY <1>7 DEF Defeat, FlowInv, At
    <2>2. winner' \in Player \union {Nobody}
      BY <1>7, FlipType DEF Defeat, TypeOK
    <2>3. Match!Conclude(winner')
      BY <2>1 DEF Match!Conclude
    <2>4. QED BY <2>2, <2>3 DEF MatchStep, Match!Next, Match!Player, Match!Nobody
  <1>8. CASE InvalidAction
    <2>1. phase # "gameEnd" \/ terminated
      BY <1>8, NotEnded DEF InvalidAction
    <2>2. flip(turn) \in Player \union {Nobody}
      BY FlipType DEF TypeOK
    <2>3. QED BY <1>8, <2>1, <2>2, GotWinnerMatch DEF InvalidAction
  <1>9. QED
    BY <1>1, <1>2, <1>3, <1>4, <1>5, <1>6, <1>7, <1>8, MatchPhase DEF Loop

\* The inputs of a prompt game.
LEMMA MatchInput ==
  ASSUME TypeOK, FlowInv, PromptPause,
         \/ ResumeLoop \/ ResumeVerdict \/ Terminate
         \/ \E p \in Player : Answer(p) \/ GiveUp(p)
  PROVE  MatchStep
  <1> USE DEF flow, board, promise
  <1>1. CASE ResumeLoop
    <2>1. held.winner \in Player \union {Nobody}
      BY DEF TypeOK
    <2>2. CASE held.end
      <3>1. phase = "gameEnd" /\ held.winner = winner /\ GotWinner(held.winner)
        BY <1>1, <2>2 DEF ResumeLoop, FlowInv
      <3>2. QED BY <1>1, <2>1, <3>1, GotWinnerMatch DEF ResumeLoop
    <2>3. CASE ~held.end
      BY <1>1, <2>3, StutterStep DEF ResumeLoop
    <2>4. QED BY <2>2, <2>3
  <1>2. CASE ResumeVerdict
    <2>1. phase = "gameEnd" /\ finish' = Resolved(winner)
          /\ UNCHANGED <<phase, winner, round>>
      BY <1>2 DEF ResumeVerdict, FlowInv
    <2>2. CASE finish.status = "pending"
      <3>1. Match!Publish
        BY <2>1, <2>2 DEF Resolved, Match!Publish, Match!Publishes
      <3>2. QED BY <3>1 DEF MatchStep, Match!Next
    <2>3. CASE finish.status # "pending"
      BY <2>1, <2>3, StutterStep DEF Resolved
    <2>4. QED BY <2>2, <2>3
  <1>3. CASE Terminate
    BY <1>3, RejectMatch DEF Terminate
  <1>4. ASSUME NEW p \in Player, Answer(p) \/ GiveUp(p)
        PROVE  MatchStep
    <2>1. phase # "gameEnd" \/ terminated
      BY <1>4, InputStep DEF Answer, AnswerAction, AnswerCards, KeepDice, RerollDice,
         BadAnswer, GuestTimeout, GiveUp
    <2>2. flip(p) \in Player \union {Nobody}
      BY FlipType
    <2>3. CASE AnswerAction(p) \/ AnswerCards(p) \/ KeepDice(p)
      BY <2>3, StutterStep DEF AnswerAction, AnswerCards, KeepDice, Answered
    <2>4. CASE RerollDice(p)
      BY <2>4, RejectMatch, StutterStep DEF RerollDice, Answered, Fail
    <2>5. CASE BadAnswer(p)
      BY <2>1, <2>2, <2>5, GotWinnerMatch, StutterStep DEF BadAnswer
    <2>6. CASE GuestTimeout(p)
      <3>1. CASE p \notin waiting
        BY <2>1, <2>2, <2>6, <3>1, GotWinnerMatch DEF GuestTimeout
      <3>2. CASE p \in waiting /\ ~terminated
        <4>1. /\ phase # "gameEnd" /\ phase' = "gameEnd" /\ winner' = flip(p)
              /\ finish' = Resolved(flip(p)) /\ UNCHANGED round
          BY <2>1, <2>6, <3>2 DEF GuestTimeout
        <4>2. finish' = finish \/ Match!Publishes(flip(p))
          BY <4>1 DEF Resolved, Match!Publishes
        <4>3. Match!Conclude(flip(p))
          BY <4>1, <4>2 DEF Match!Conclude
        <4>4. QED BY <2>2, <4>3 DEF MatchStep, Match!Next, Match!Player, Match!Nobody
      <3>3. CASE p \in waiting /\ terminated
        <4>1. finish' = finish
          BY <2>6, <3>3 DEF GuestTimeout, Resolved, FlowInv
        <4>2. QED BY <2>6, <3>3, <4>1, StutterStep DEF GuestTimeout
      <3>4. QED BY <3>1, <3>2, <3>3
    <2>7. CASE GiveUp(p)
      BY <2>1, <2>2, <2>7, GotWinnerMatch DEF GiveUp
    <2>8. QED BY <1>4, <2>3, <2>4, <2>5, <2>6, <2>7 DEF Answer
  <1>5. QED BY <1>1, <1>2, <1>3, <1>4

\* A prompt game is a match as MatchSpec describes it.
THEOREM Refinement == ASSUME PromptPause PROVE Spec => ImplementsMatch
  <1>1. Init => Match!Init
    BY DEF Init, Pending, Match!Init, Match!Nobody
  <1>2. TypeOK /\ FlowInv /\ InHome /\ [Next]_vars => [Match!Next]_(Match!matchVars)
    <2> SUFFICES ASSUME TypeOK, FlowInv, InHome, [Next]_vars PROVE MatchStep
      BY DEF MatchStep
    <2>1. CASE UNCHANGED vars
      BY <2>1, StutterStep DEF vars, flow, promise
    <2>2. QED BY <2>1, MatchLoop, MatchInput DEF Next
  <1>3. QED
    BY <1>1, <1>2, TypeCorrect, FlowInvariant, HomeInvariant, PTL
       DEF Spec, ImplementsMatch, Match!Spec

HIDE DEF Nobody

-----------------------------------------------------------------------------
(***************************************************************************)
(* Requests.                                                               *)
(***************************************************************************)

\* Who is asked for an action is the one whom the loop awaits, in his turn.
ActionAsk ==
  \A p \in Player : ask[p] = "action" => pc = "act" /\ waiting = {p} /\ p = turn

\* A request that the loop does not await outlives the loop only.
Awaited == \A p \in Player : ask[p] # "none" => p \in waiting \/ pc = "done"

AskInv == ActionAsk /\ Awaited

\* Where the loop runs a segment nobody is being asked.
LEMMA NoneAsked ==
  ASSUME TypeOK, AskInv, waiting = {}, pc # "done"
  PROVE  \A p \in Player : ask[p] = "none"
  BY DEF AskInv, Awaited

\* A segment that asks nobody leaves the requests as they are.
LEMMA SilentStep ==
  ASSUME TypeOK, AskInv, waiting = {}, pc # "done", UNCHANGED <<ask, waiting>>
  PROVE  AskInv'
  <1>1. \A p \in Player : ask'[p] = "none"
    BY NoneAsked
  <1>2. QED BY <1>1 DEF AskInv, ActionAsk, Awaited

\* Players are asked when nobody is, and one alone for an action.
LEMMA AskingStep ==
  ASSUME TypeOK, AskInv, waiting = {}, pc # "done",
         NEW S \in SUBSET Player, NEW m \in Method, NEW l, AskThen(S, m, l),
         m = "action" => S = {turn} /\ l = "act" /\ turn' = turn
  PROVE  AskInv'
  <1>1. \A p \in Player : ask[p] = "none"
    BY NoneAsked
  <1>2. CASE terminated
    <2>1. UNCHANGED <<ask, waiting>>
      BY <1>2 DEF AskThen
    <2>2. QED BY <2>1, SilentStep
  <1>3. CASE ~terminated
    <2>1. /\ ask' = [p \in Player |-> IF p \in S THEN m ELSE ask[p]]
          /\ waiting' = S /\ pc' = l
      BY <1>3 DEF AskThen
    <2>2. \A p \in Player : IF p \in S THEN ask'[p] = m ELSE ask'[p] = "none"
      BY <2>1, <1>1
    <2>3. Awaited'
      BY <2>1, <2>2 DEF Awaited
    <2>4. ActionAsk'
      BY <2>1, <2>2 DEF ActionAsk
    <2>5. QED BY <2>3, <2>4 DEF AskInv
  <1>4. QED BY <1>2, <1>3

\* The segments of the loop ask in their turn only.
LEMMA AskLoop ==
  ASSUME TypeOK, AskInv, Loop
  PROVE  AskInv'
  <1>1. CASE Start
    BY <1>1 DEF Start, AskInv, ActionAsk, Awaited, PauseThen, asked, flow
  <1>2. CASE \/ LoopExit \/ NoPhase \/ Tail \/ InitHands \/ HandsDealt
             \/ HandsSwitched \/ ToInitActives \/ ActivesChosen \/ ToRoll
             \/ RollPhase \/ ToAction
    <2>1. UNCHANGED <<ask, waiting>> /\ waiting = {} /\ pc # "done"
      BY <1>2 DEF LoopExit, NoPhase, Tail, InitHands, HandsDealt, HandsSwitched,
         ToInitActives, ActivesChosen, ToRoll, RollPhase, ToAction, Enter, At, asked
    <2>2. QED BY <2>1, SilentStep
  <1>3. CASE \/ PassEnded \/ PassSkipped \/ BeforeAction \/ ReplaceAction
             \/ ChooseAction \/ InvalidAction \/ TakeAction \/ DeclareEnd
             \/ (\E l \in {"finishSlow", "finishFast"} : FinishAction(l))
             \/ EndPhase \/ DrawTwo \/ EndRound
    <2>1. UNCHANGED <<ask, waiting>> /\ waiting = {} /\ pc # "done"
      BY <1>3 DEF PassEnded, PassSkipped, BeforeAction, ReplaceAction, ChooseAction,
         InvalidAction, TakeAction, DeclareEnd, FinishAction, EndPhase, DrawTwo,
         EndRound, Enter, At, asked
    <2>2. QED BY <2>1, SilentStep
  <1>4. CASE \/ Settled \/ RunSkill \/ CriticalDamage \/ NoDefeat \/ Defeat
             \/ SkillError
    <2>1. UNCHANGED <<ask, waiting>> /\ waiting = {} /\ pc # "done"
      BY <1>4 DEF Settled, RunSkill, CriticalDamage, NoDefeat, Defeat, SkillError,
         Effect, At, asked
    <2>2. QED BY <2>1, SilentStep
  <1>5. CASE AskHands \/ InitActives \/ RollDice
    <2>1. /\ waiting = {} /\ pc # "done"
          /\ \E m \in Method \ {"action"}, l \in Label : AskThen(Player, m, l)
      BY <1>5 DEF AskHands, InitActives, RollDice, Enter, At, Method, Label
    <2>2. QED BY <2>1, AskingStep
  <1>6. CASE AskAction
    <2>1. /\ waiting = {} /\ pc # "done" /\ turn' = turn
          /\ AskThen({turn}, "action", "act")
      BY <1>6 DEF AskAction, At, flow
    <2>2. {turn} \in SUBSET Player /\ "action" \in Method
      BY DEF TypeOK, Method
    <2>3. QED BY <2>1, <2>2, AskingStep
  <1>7. CASE RequestPlayer \/ ReplaceActive
    <2>1. waiting = {} /\ pc # "done"
      BY <1>7 DEF RequestPlayer, ReplaceActive, Effect, At
    <2>2. PICK S \in SUBSET Player, m \in Method \ {"action"} :
            AskThen(S, m, "settle")
      <3>1. CASE RequestPlayer
        <4>1. PICK p \in Player, m \in {"rerollDice", "switchHands", "selectCard"} :
                AskThen({p}, m, "settle")
          BY <3>1 DEF RequestPlayer
        <4>2. {p} \in SUBSET Player /\ m \in Method \ {"action"}
          BY DEF Method
        <4>3. QED BY <4>1, <4>2
      <3>2. CASE ReplaceActive
        BY <3>2 DEF ReplaceActive, Method
      <3>3. QED BY <1>7, <3>1, <3>2
    <2>3. QED BY <2>1, <2>2, AskingStep
  <1>8. QED
    BY <1>1, <1>2, <1>3, <1>4, <1>5, <1>6, <1>7 DEF Loop

\* An answer ends the request of its player, or the loop.
LEMMA AskAnswer ==
  ASSUME TypeOK, AskInv, NEW p \in Player, Answer(p)
  PROVE  AskInv'
  <1>1. ask[p] # "none" /\ turn' = turn
    BY DEF Answer, AnswerAction, AnswerCards, KeepDice, RerollDice, BadAnswer,
       GuestTimeout, flow
  <1>2. \/ UNCHANGED <<ask, waiting, pc>>
        \/ /\ ask' = [ask EXCEPT ![p] = "none"]
           /\ \/ pc' = "done" /\ waiting' = {} /\ p \in waiting
              \/ pc' = pc /\ waiting' = waiting \ {p}
    BY DEF Answer, AnswerAction, AnswerCards, KeepDice, RerollDice, BadAnswer,
       GuestTimeout, Answered, Fail
  <1>3. CASE UNCHANGED <<ask, waiting, pc>>
    BY <1>1, <1>3 DEF AskInv, ActionAsk, Awaited
  <1>4. CASE ~UNCHANGED <<ask, waiting, pc>>
    <2>1. \A q \in Player : ask'[q] = IF q = p THEN "none" ELSE ask[q]
      BY <1>2, <1>4 DEF TypeOK
    <2>2. \/ pc' = "done" /\ waiting' = {} /\ p \in waiting
          \/ pc' = pc /\ waiting' = waiting \ {p}
      BY <1>2, <1>4
    <2>3. Awaited'
      BY <2>1, <2>2 DEF AskInv, Awaited
    <2>4. ASSUME NEW q \in Player, ask'[q] = "action"
          PROVE  pc' = "act" /\ waiting' = {q} /\ q = turn'
      <3>1. q # p /\ ask[q] = "action"
        BY <2>1, <2>4
      <3>2. pc = "act" /\ waiting = {q} /\ q = turn
        BY <3>1 DEF AskInv, ActionAsk
      <3>3. QED BY <1>1, <2>2, <3>1, <3>2
    <2>5. QED BY <2>3, <2>4 DEF AskInv, ActionAsk
  <1>5. QED BY <1>3, <1>4

\* The other inputs leave the requests alone.
LEMMA AskHost ==
  ASSUME AskInv,
         ResumeLoop \/ ResumeVerdict \/ Terminate \/ \E p \in Player : GiveUp(p)
  PROVE  AskInv'
  <1>1. UNCHANGED <<ask, waiting, pc, turn>>
    BY DEF ResumeLoop, ResumeVerdict, Terminate, GiveUp, asked, flow
  <1>2. QED BY <1>1 DEF AskInv, ActionAsk, Awaited

\* Requests are awaited, and those for actions come in turn.
THEOREM AsksCorrect == Spec => []AskInv
  <1>1. Init => AskInv
    BY DEF Init, AskInv, ActionAsk, Awaited
  <1>2. TypeOK /\ AskInv /\ [Next]_vars => AskInv'
    <2> SUFFICES ASSUME TypeOK, AskInv, [Next]_vars PROVE AskInv'
      OBVIOUS
    <2>1. CASE UNCHANGED vars
      BY <2>1 DEF vars, flow, asked, AskInv, ActionAsk, Awaited
    <2>2. QED BY <2>1, AskLoop, AskAnswer, AskHost DEF Next
  <1>3. QED BY <1>1, <1>2, TypeCorrect, PTL DEF Spec

-----------------------------------------------------------------------------
(***************************************************************************)
(* Turns and rounds.                                                       *)
(***************************************************************************)

EarlyPlace == {"handsDealt", "askHands", "handsSwitched", "toInitActives",
               "activesChosen", "toRoll", "rollDice"}
EarlyPhase == {"initHands", "initActives", "roll"}

\* From the moment a player may act until his action is done he is in his round
\* and is not skipped.
InTurn ==
  Place \in {"decide", "act", "pay"} =>
    ~ended[turn] /\ ~skip[turn] /\ phase \in {"action", "gameEnd"}

\* The end of a round is not left early, in the phase or in its handler.
AllEnded ==
  phase = "end" \/ Place \in {"drawTwo", "endRound"} => \A p \in Player : ended[p]

\* Nobody has left a round that has not begun.
AllIn ==
  phase \in EarlyPhase \/ Place \in EarlyPlace => \A p \in Player : ~ended[p]

\* A turn is skipped only of a player who is in the round, once it has begun.
SkipInRound ==
  /\ \A p \in Player : skip[p] => ~ended[p]
  /\ phase \in EarlyPhase \/ Place \in EarlyPlace => \A p \in Player : ~skip[p]

RoundInv == InTurn /\ AllEnded /\ AllIn /\ SkipInRound

\* Steps that leave the rounds alone and end the game at most.
LEMMA RoundQuiet ==
  ASSUME RoundInv, UNCHANGED <<turn, ended, skip>>, phase' \in {phase, "gameEnd"},
         Place' = Place \/ Place' \in {"idle", "top", "tail", "done", "finishSlow",
                                       "finishFast", "toAction"}
  PROVE  RoundInv'
  <1> USE DEF EarlyPhase, EarlyPlace
  <1>1. InTurn'
    BY DEF RoundInv, InTurn
  <1>2. AllEnded'
    BY DEF RoundInv, AllEnded
  <1>3. AllIn' /\ SkipInRound'
    BY DEF RoundInv, AllIn, SkipInRound
  <1>4. QED BY <1>1, <1>2, <1>3 DEF RoundInv

\* The segments before the action phase.
LEMMA RoundEarly ==
  ASSUME TypeOK, RoundInv, InHome,
         \/ InitHands \/ HandsDealt \/ AskHands \/ HandsSwitched \/ ToInitActives
         \/ InitActives \/ ActivesChosen \/ ToRoll \/ RollPhase \/ RollDice
         \/ ToAction
  PROVE  RoundInv'
  <1> USE DEF EarlyPhase, EarlyPlace
  <1>1. UNCHANGED <<turn, ended, skip>>
    BY DEF InitHands, HandsDealt, AskHands, HandsSwitched, ToInitActives, InitActives,
       ActivesChosen, ToRoll, RollPhase, RollDice, ToAction, flow
  <1>2. /\ phase \in EarlyPhase \/ Place \in EarlyPlace \union {"toAction"}
        /\ Place' \in EarlyPlace \union {"toAction", "tail", "done"}
        /\ phase' \in {phase, "action"} \union EarlyPhase
        /\ Place = "toAction" => phase' \notin EarlyPhase \/ phase' = phase
        /\ Place = "toAction" => Place' = "tail"
    BY DEF InitHands, HandsDealt, AskHands, HandsSwitched, ToInitActives, InitActives,
       ActivesChosen, ToRoll, RollPhase, RollDice, ToAction, flow, Enter, At, Place,
       SettleThen, PauseThen, AskThen, Fail, Mutated
  <1>3. CASE phase \in EarlyPhase \/ Place \in EarlyPlace
    <2>1. \A p \in Player : ~ended[p] /\ ~skip[p]
      BY <1>3 DEF RoundInv, AllIn, SkipInRound
    <2>2. phase' # "end" /\ Place' \notin {"drawTwo", "endRound", "decide", "act", "pay"}
      BY <1>2, <2>1 DEF RoundInv, AllEnded
    <2>3. QED
      BY <1>1, <2>1, <2>2 DEF RoundInv, InTurn, AllEnded, AllIn, SkipInRound
  <1>4. CASE Place = "toAction"
    <2>1. phase' = phase \/ phase' = "action"
      BY <1>2, <1>4
    <2>2. Place' = "tail"
      BY <1>2, <1>4
    <2>3. InTurn'
      BY <2>2 DEF InTurn
    <2>4. AllEnded'
      BY <1>1, <2>1, <2>2 DEF RoundInv, AllEnded
    <2>5. AllIn' /\ SkipInRound'
      BY <1>1, <2>1, <2>2 DEF RoundInv, AllIn, SkipInRound
    <2>6. QED BY <2>3, <2>4, <2>5 DEF RoundInv
  <1>5. QED BY <1>2, <1>3, <1>4

\* The segments in which a player acts.
LEMMA RoundActing ==
  ASSUME TypeOK, RoundInv,
         \/ BeforeAction \/ ReplaceAction \/ AskAction \/ ChooseAction
         \/ InvalidAction \/ TakeAction \/ DeclareEnd
  PROVE  RoundInv'
  <1> USE DEF EarlyPhase, EarlyPlace
  <1>1. CASE BeforeAction
    <2>1. /\ phase = "action" /\ ~ended[turn] /\ ~skip[turn] /\ Place' = "decide"
          /\ UNCHANGED <<phase, turn, ended, skip>>
      BY <1>1 DEF BeforeAction, Enter, SettleThen, Place, flow
    <2>2. QED BY <2>1 DEF RoundInv, InTurn, AllEnded, AllIn, SkipInRound
  <1>2. CASE AskAction \/ ChooseAction
    <2>1. /\ Place \in {"decide", "act"} /\ Place' \in {"act", "pay", "done"}
          /\ UNCHANGED <<phase, turn, ended, skip>>
      BY <1>2 DEF AskAction, ChooseAction, At, SettleThen, AskThen, Fail, Place, flow
    <2>2. QED BY <2>1 DEF RoundInv, InTurn, AllEnded, AllIn, SkipInRound
  <1>3. CASE ReplaceAction \/ TakeAction \/ InvalidAction
    <2>1. /\ UNCHANGED <<turn, ended, skip>> /\ phase' \in {phase, "gameEnd"}
          /\ Place' \in {"finishSlow", "finishFast", "done"}
      BY <1>3 DEF ReplaceAction, TakeAction, InvalidAction, GotWinner, SettleThen,
         Place, flow
    <2>2. QED BY <2>1, RoundQuiet
  <1>4. CASE DeclareEnd
    <2>1. /\ Place = "pay" /\ Place' = "finishSlow" /\ UNCHANGED <<phase, turn, skip>>
          /\ ended' = ended \/ ended' = [ended EXCEPT ![turn] = TRUE]
      BY <1>4 DEF DeclareEnd, At, SettleThen, Mutated, Place
    <2>2. ~skip[turn] /\ phase \in {"action", "gameEnd"}
      BY <2>1 DEF RoundInv, InTurn
    <2>3. \A p \in Player : skip'[p] => ~ended'[p]
      BY <2>1, <2>2 DEF TypeOK, RoundInv, SkipInRound
    <2>4. QED BY <2>1, <2>2, <2>3 DEF RoundInv, InTurn, AllEnded, AllIn, SkipInRound
  <1>5. QED BY <1>1, <1>2, <1>3, <1>4

\* The turn passes, and the round closes when both have declared its end.
LEMMA RoundPassing ==
  ASSUME TypeOK, RoundInv, InHome,
         \/ PassEnded \/ PassSkipped
         \/ \E l \in {"finishSlow", "finishFast"} : FinishAction(l)
  PROVE  RoundInv'
  <1> USE DEF EarlyPhase, EarlyPlace
  <1>1. Place' = "tail" /\ ended' = ended
    BY DEF PassEnded, PassSkipped, FinishAction, Place
  <1>2. \A p \in Player : skip'[p] => skip[p]
    BY DEF TypeOK, PassEnded, PassSkipped, FinishAction
  <1>3. phase \in {"action", "gameEnd"}
    BY DEF PassEnded, PassSkipped, FinishAction, Enter, At, InHome, Place
  <1>4. phase' = phase \/ (phase' = "end" /\ \A p \in Player : ended[p])
    BY DEF PassEnded, PassSkipped, FinishAction, CloseRound, Mutated
  <1>5. QED
    BY <1>1, <1>2, <1>3, <1>4 DEF RoundInv, InTurn, AllEnded, AllIn, SkipInRound

\* The handler of the end phase.
LEMMA RoundEnding ==
  ASSUME TypeOK, RoundInv, InHome, EndPhase \/ DrawTwo \/ EndRound
  PROVE  RoundInv'
  <1> USE DEF EarlyPhase, EarlyPlace
  <1>1. CASE EndPhase \/ DrawTwo
    <2>1. /\ phase = "end" \/ Place = "drawTwo"
          /\ Place' \in {"drawTwo", "endRound"}
          /\ UNCHANGED <<phase, turn, ended, skip>>
      BY <1>1 DEF EndPhase, DrawTwo, Enter, At, SettleThen, Place, flow
    <2>2. QED BY <2>1 DEF RoundInv, InTurn, AllEnded, AllIn, SkipInRound
  <1>2. CASE EndRound
    <2>1. Place = "endRound" /\ Place' = "tail" /\ UNCHANGED <<turn, skip>>
      BY <1>2 DEF EndRound, At, Place
    <2>2. \A p \in Player : ended[p] /\ ~skip[p]
      BY <2>1 DEF RoundInv, AllEnded, SkipInRound
    <2>3. CASE terminated
      <3>1. ended' = ended /\ phase' = phase
        BY <1>2, <2>3 DEF EndRound, Mutated, GotWinner
      <3>2. QED BY <2>1, <3>1, RoundQuiet
    <2>4. CASE ~terminated
      <3>1. ended' = [p \in Player |-> FALSE] /\ phase' \in {"roll", "gameEnd"}
        BY <1>2, <2>4 DEF EndRound, Mutated, GotWinner
      <3>2. \A p \in Player : ~ended'[p] /\ ~skip'[p]
        BY <2>1, <2>2, <3>1
      <3>3. QED
        BY <2>1, <3>1, <3>2 DEF RoundInv, InTurn, AllEnded, AllIn, SkipInRound
    <2>5. QED BY <2>3, <2>4
  <1>3. QED BY <1>1, <1>2

\* Settling events stays in its handler.
LEMMA RoundSettling ==
  ASSUME TypeOK, RoundInv, InHome,
         \/ Settled \/ RunSkill \/ CriticalDamage \/ NoDefeat \/ Defeat
         \/ RequestPlayer \/ ReplaceActive \/ SkillError
  PROVE  RoundInv'
  <1> USE DEF EarlyPhase, EarlyPlace
  <1>1. CASE Settled
    <2>1. Place' = Place /\ UNCHANGED <<phase, turn, ended, skip>>
      BY <1>1 DEF Settled, At, Place, TypeOK, Resumption, flow
    <2>2. QED BY <2>1, RoundQuiet
  <1>2. CASE \/ CriticalDamage \/ NoDefeat \/ Defeat \/ RequestPlayer
             \/ ReplaceActive \/ SkillError
    <2>1. /\ UNCHANGED <<turn, ended, skip>> /\ phase' \in {phase, "gameEnd"}
          /\ Place' = Place \/ Place' = "done"
      BY <1>2 DEF CriticalDamage, NoDefeat, Defeat, RequestPlayer, ReplaceActive,
         SkillError, Effect, At, PauseThen, AskThen, Fail, Place, flow
    <2>2. QED BY <2>1, RoundQuiet
  <1>3. CASE RunSkill
    <2>1. UNCHANGED <<phase, turn, ended>> /\ Place' = Place /\ phase # "gameEnd"
      BY <1>3 DEF RunSkill, Effect, At, PauseThen, Place
    <2>2. CASE skip' = skip
      BY <2>1, <2>2, RoundQuiet
    <2>3. CASE skip' # skip
      <3>1. /\ phase \in {"action", "end"} /\ ~ended[flip(turn)]
            /\ skip' = [skip EXCEPT ![flip(turn)] = TRUE]
        BY <1>3, <2>3 DEF RunSkill
      <3>2. phase \notin EarlyPhase /\ Place \notin EarlyPlace
        BY <2>1, <3>1 DEF InHome
      <3>3. flip(turn) # turn
        BY DEF TypeOK, flip
      <3>4. ~skip[turn] => ~skip'[turn]
        BY <3>1, <3>3 DEF TypeOK
      <3>5. \A p \in Player : skip'[p] => ~ended'[p]
        BY <2>1, <3>1 DEF TypeOK, RoundInv, SkipInRound
      <3>6. QED
        BY <2>1, <3>2, <3>4, <3>5 DEF RoundInv, InTurn, AllEnded, AllIn, SkipInRound
    <2>4. QED BY <2>2, <2>3
  <1>4. QED BY <1>1, <1>2, <1>3

\* A round that has closed stays closed until the next begins, a player acts
\* in his turn, and flags do not outlive the round.
THEOREM RoundsCorrect == Spec => []RoundInv
  <1>1. Init => RoundInv
    BY DEF Init, RoundInv, InTurn, AllEnded, AllIn, SkipInRound, Place
  <1>2. TypeOK /\ InHome /\ RoundInv /\ [Next]_vars => RoundInv'
    <2> SUFFICES ASSUME TypeOK, InHome, RoundInv, [Next]_vars PROVE RoundInv'
      OBVIOUS
    <2>1. CASE UNCHANGED vars
      <3>1. UNCHANGED <<turn, ended, skip, phase>> /\ Place' = Place
        BY <2>1 DEF vars, flow, Place
      <3>2. QED BY <3>1, RoundQuiet
    <2>2. CASE Loop
      <3>1. CASE Start \/ LoopExit \/ NoPhase \/ Tail
        <4>1. UNCHANGED <<turn, ended, skip, phase>> /\ Place' \in {"top", "tail", "done"}
          BY <3>1 DEF Start, LoopExit, NoPhase, Tail, PauseThen, Place, flow
        <4>2. QED BY <4>1, RoundQuiet
      <3>2. QED
        BY <2>2, <3>1, RoundEarly, RoundActing, RoundPassing, RoundEnding,
           RoundSettling DEF Loop
    <2>3. CASE \/ ResumeLoop \/ ResumeVerdict \/ Terminate
               \/ \E p \in Player : Answer(p) \/ GiveUp(p)
      <3>1. phase' \in {phase, "gameEnd"} /\ UNCHANGED <<turn, ended, skip>>
        BY <2>3 DEF ResumeLoop, ResumeVerdict, Terminate, GiveUp, Answer, AnswerAction,
           AnswerCards, KeepDice, RerollDice, BadAnswer, GuestTimeout, GotWinner, flow,
           promise
      <3>2. ret' = ret /\ pc' \in {pc, "done"}
        BY <2>3 DEF ResumeLoop, ResumeVerdict, Terminate, GiveUp, Answer, AnswerAction,
           AnswerCards, KeepDice, RerollDice, BadAnswer, GuestTimeout, Answered, Fail
      <3>3. Place' = Place \/ Place' = "done"
        BY <3>2 DEF Place
      <3>4. QED BY <3>1, <3>3, RoundQuiet
    <2>4. QED BY <2>1, <2>2, <2>3 DEF Next
  <1>3. QED BY <1>1, <1>2, TypeCorrect, HomeInvariant, PTL DEF Spec

-----------------------------------------------------------------------------
(***************************************************************************)
(* What the runs check.                                                    *)
(***************************************************************************)

\* Whoever is asked for an action has the turn, is in the round and is not
\* skipped, whatever the host.
THEOREM TurnCorrect == Spec => []TurnDiscipline
  <1>1. TypeOK /\ AskInv /\ RoundInv => TurnDiscipline
    <2> SUFFICES ASSUME TypeOK, AskInv, RoundInv, NEW p \in Player, ask[p] = "action"
                 PROVE  /\ p = turn /\ ~ended[p] /\ ~skip[p]
                        /\ phase \in {"action", "gameEnd"}
                        /\ ask[flip(p)] # "action"
      BY DEF TurnDiscipline
    <2>1. p = turn /\ pc = "act"
      BY DEF AskInv, ActionAsk
    <2>2. ~ended[turn] /\ ~skip[turn] /\ phase \in {"action", "gameEnd"}
      BY <2>1 DEF RoundInv, InTurn, Place
    <2>3. ask[flip(p)] # "action"
      <3>1. flip(p) \in Player /\ flip(p) # p
        BY DEF flip
      <3>2. QED BY <2>1, <3>1 DEF AskInv, ActionAsk
    <2>4. QED BY <2>1, <2>2, <2>3
  <1>2. QED BY <1>1, TypeCorrect, AsksCorrect, RoundsCorrect, PTL

\* A round ends when both players have declared its end, and no flag of it is
\* left when the next one begins.
THEOREM RoundCorrect == Spec => []RoundDiscipline
  <1>1. RoundInv => RoundDiscipline
    BY DEF RoundInv, AllEnded, AllIn, SkipInRound, RoundDiscipline, EarlyPhase
  <1>2. QED BY <1>1, RoundsCorrect, PTL

\* The loop never asks a player whose previous request is open, though one of
\* two concurrent requests may outlive the failure of the other.
THEOREM AskedOnceCorrect == Spec => OneRpcPerPlayer
  <1>1. TypeOK /\ AskInv /\ [Next]_vars
          => \A p \in Player : waiting = {} /\ p \in waiting' => ask[p] = "none"
    <2> SUFFICES ASSUME TypeOK, AskInv, [Next]_vars,
                        NEW p \in Player, waiting = {}, p \in waiting'
                 PROVE  ask[p] = "none"
      OBVIOUS
    <2>1. waiting' # waiting
      OBVIOUS
    <2>2. CASE Loop
      <3>1. pc # "done"
        BY <2>2 DEF Loop, Start, LoopExit, NoPhase, Tail, InitHands, HandsDealt, AskHands,
           HandsSwitched, ToInitActives, InitActives, ActivesChosen, ToRoll, RollPhase,
           RollDice, ToAction, PassEnded, PassSkipped, BeforeAction, ReplaceAction,
           AskAction, ChooseAction, InvalidAction, TakeAction, DeclareEnd, FinishAction,
           EndPhase, DrawTwo, EndRound, Settled, RunSkill, CriticalDamage, NoDefeat,
           Defeat, RequestPlayer, ReplaceActive, SkillError, Effect, Enter, At
      <3>2. QED BY <3>1, NoneAsked
    <2>3. CASE ResumeLoop \/ ResumeVerdict \/ Terminate \/ \E q \in Player : GiveUp(q)
      BY <2>1, <2>3 DEF ResumeLoop, ResumeVerdict, Terminate, GiveUp
    <2>4. CASE \E q \in Player : Answer(q)
      BY <2>4 DEF Answer, AnswerAction, AnswerCards, KeepDice, RerollDice, BadAnswer,
         GuestTimeout, Answered, Fail
    <2>5. CASE UNCHANGED vars
      BY <2>1, <2>5 DEF vars
    <2>6. QED BY <2>2, <2>3, <2>4, <2>5 DEF Next
  <1>2. QED BY <1>1, TypeCorrect, AsksCorrect, PTL DEF Spec, OneRpcPerPlayer

\* The flag of a player is cleared only where the turn that was his passes.
THEOREM SkipCorrect == Spec => SkipIsHonored
  <1>1. TypeOK /\ [Next]_vars
          => \A p \in Player : skip[p] /\ ~skip'[p] =>
               phase = "action" /\ turn = p /\ turn' = flip(p)
    <2> SUFFICES ASSUME TypeOK, [Next]_vars, NEW p \in Player, skip[p], ~skip'[p]
                 PROVE  phase = "action" /\ turn = p /\ turn' = flip(p)
      OBVIOUS
    <2>1. skip' # skip
      OBVIOUS
    <2>2. CASE PassSkipped
      <3>1. /\ phase = "action" /\ turn' = flip(turn)
            /\ skip' = [skip EXCEPT ![turn] = FALSE]
        BY <2>2 DEF PassSkipped, Enter
      <3>2. turn = p
        BY <3>1 DEF TypeOK
      <3>3. QED BY <3>1, <3>2
    <2>3. CASE RunSkill
      BY <2>1, <2>3 DEF RunSkill, TypeOK
    <2>4. CASE ~PassSkipped /\ ~RunSkill /\ Loop
      <3>1. skip' = skip
        BY <2>4 DEF Loop, Start, LoopExit, NoPhase, Tail, InitHands, HandsDealt, AskHands,
           HandsSwitched, ToInitActives, InitActives, ActivesChosen, ToRoll, RollPhase,
           RollDice, ToAction, PassEnded, BeforeAction, ReplaceAction,
           AskAction, ChooseAction, InvalidAction, TakeAction, DeclareEnd, FinishAction,
           EndPhase, DrawTwo, EndRound, Settled, CriticalDamage, NoDefeat,
           Defeat, RequestPlayer, ReplaceActive, SkillError, flow
      <3>2. QED BY <2>1, <3>1
    <2>5. CASE \/ ResumeLoop \/ ResumeVerdict \/ Terminate
               \/ \E q \in Player : Answer(q) \/ GiveUp(q)
      BY <2>1, <2>5 DEF ResumeLoop, ResumeVerdict, Terminate, GiveUp, Answer,
         AnswerAction, AnswerCards, KeepDice, RerollDice, BadAnswer, GuestTimeout, flow
    <2>6. CASE UNCHANGED vars
      BY <2>1, <2>6 DEF vars, flow
    <2>7. QED BY <2>2, <2>3, <2>4, <2>5, <2>6 DEF Next
  <1>2. QED BY <1>1, TypeCorrect, PTL DEF Spec, SkipIsHonored
=============================================================================
