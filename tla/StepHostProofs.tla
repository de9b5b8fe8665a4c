--------------------------- MODULE StepHostProofs ---------------------------
(***************************************************************************)
(* Theorems of StepHost, for every round limit and every bound: the host   *)
(* runs a match of GameFlow, its step() is never left pending, and what    *)
(* the program behind it sees is a match of MatchSpec.                     *)
(***************************************************************************)
EXTENDS StepHost, GameFlowProofs

USE DEF Player, Nobody

-----------------------------------------------------------------------------
(***************************************************************************)
(* What the host does is what GameFlow allows.                             *)
(***************************************************************************)

\* Every step of the host is a step of the match or leaves it alone.
LEMMA HostStep ==
  ASSUME [HostNext]_hostVars
  PROVE  [Next]_vars
  <1>1. CASE UNCHANGED hostVars
    BY <1>1 DEF hostVars
  <1>2. CASE Microtask
    BY <1>2 DEF Microtask, GoOn, RunLoop, Report, HostAnswer, Answer, Next
  <1>3. CASE CallStep
    BY <1>3 DEF CallStep, FirstStep, NextStep, Loop, Next
  <1>4. CASE \E p \in Player : HostGiveUp(p)
    BY <1>4 DEF HostGiveUp, Next
  <1>5. QED BY <1>1, <1>2, <1>3, <1>4 DEF HostNext

\* All that is proved of GameFlow for every host holds in the binding.
THEOREM HostRunsGame == HostSpec => Spec
  <1>1. HostInit => Init
    BY DEF HostInit
  <1>2. [HostNext]_hostVars => [Next]_vars
    BY HostStep
  <1>3. QED BY <1>1, <1>2, PTL DEF HostSpec, Spec

-----------------------------------------------------------------------------
(***************************************************************************)
(* step() returns.  Of two open pauses the older one is lost, so it has to *)
(* be shown that the newest is always the one that matters: either the     *)
(* loop waits in it, or it is a verdict whose end settles the promise.     *)
(***************************************************************************)

\* Where the loop pauses it awaits nobody, and an end it shows has come.
Paused ==
  /\ held.open => waiting = {} /\ pc \notin {"idle", "done"}
  /\ held.open /\ held.end => phase = "gameEnd"
  /\ pc = "idle" => waiting = {} /\ status = "notStarted"

\* A terminated game has settled its promise.
Told == terminated => finish.status # "pending"

\* While a verdict is open the phase is out of the loop's reach: the loop is on
\* its way out, or in a pause that only the verdict can be followed by.
VerdictHolds ==
  verdicts # {} /\ ~terminated =>
    /\ phase = "gameEnd"
    /\ \/ pc \in {"tail", "top", "done"}
       \/ /\ held.open
          /\ released = "verdict" \/ (released = "none" /\ newest = "verdict")

\* There is a pause to be released where the match cannot go on without.
CanStep ==
  status = "running" /\ finish.status = "pending" /\ (held.open \/ pc = "done") =>
    newest # "none" \/ released # "none"

\* While a step() waits there is something left to run.
StepRuns ==
  stepping =>
    /\ status = "running"
    /\ finish.status # "pending" \/ released # "none"
         \/ (~held.open /\ pc \notin {"idle", "done"})

HostInv == Paused /\ Told /\ VerdictHolds /\ CanStep /\ StepRuns

\* A step of the loop or of an answer that opens no pause and settles nothing.
QuietHost ==
  /\ UNCHANGED <<verdicts, held, terminated, finish>> /\ pc' # "idle"
  /\ pc' = "done" => pc = "done" \/ finish.status # "pending"
  /\ held.open => waiting' = {} /\ pc' = pc /\ phase' = phase
  /\ verdicts # {} /\ ~terminated =>
       phase' = phase /\ (pc' \in {"tail", "top", "done"} \/ held.open)

\* A pause of the loop.
PauseHost ==
  /\ UNCHANGED <<verdicts, terminated, finish, waiting>> /\ waiting = {} /\ ~held.open
  /\ \E l \in Label \ {"idle", "done"} :
       /\ PauseThen(l)
       /\ verdicts # {} /\ ~terminated => phase' = phase /\ l \in {"tail", "top"}

\* The promise is settled and the loop left.
FailHost ==
  /\ UNCHANGED <<verdicts, held, terminated>> /\ ~held.open
  /\ finish'.status # "pending" /\ pc' = "done"
  /\ verdicts # {} /\ ~terminated => phase' = phase

\* The end of the match, by the loop, an answer or the program.
EndHost ==
  /\ \E w \in Player \union {Nobody} : GotWinner(w)
  /\ UNCHANGED held
  /\ IF held.open THEN UNCHANGED <<waiting, pc>> ELSE pc' \in {"tail", "done"}
  /\ held.open => released = "none"

\* Quiet steps keep the invariant.
LEMMA QuietKeeps ==
  ASSUME HostInv, QuietHost, OnPause, UNCHANGED <<status, released>>
  PROVE  HostInv'
  <1>1. Opened = "none"
    BY DEF QuietHost, Opened
  <1>2. UNCHANGED <<newest, stepping>>
    BY <1>1 DEF OnPause
  <1>3. Paused' /\ Told'
    BY DEF HostInv, Paused, Told, QuietHost
  <1>4. VerdictHolds'
    BY <1>2 DEF HostInv, VerdictHolds, QuietHost
  <1>5. CanStep' /\ StepRuns'
    BY <1>2 DEF HostInv, CanStep, StepRuns, QuietHost
  <1>6. QED BY <1>3, <1>4, <1>5 DEF HostInv

\* A pause of the loop ends the step() that waits, unless the game is terminated.
LEMMA PauseKeeps ==
  ASSUME HostInv, PauseHost, OnPause, UNCHANGED <<status, released>>
  PROVE  HostInv'
  <1>1. PICK l \in Label \ {"idle", "done"} :
          /\ PauseThen(l)
          /\ verdicts # {} /\ ~terminated => phase' = phase /\ l \in {"tail", "top"}
    BY DEF PauseHost
  <1>2. CASE terminated
    <2>1. held' = NotHeld /\ ~held'.open /\ pc' = l
      BY <1>1, <1>2 DEF PauseThen, NotHeld
    <2>2. finish.status # "pending" /\ finish' = finish /\ terminated'
      BY <1>2 DEF HostInv, Told, PauseHost
    <2>3. stepping' => stepping
      BY DEF OnPause
    <2>4. QED
      BY <2>1, <2>2, <2>3, <1>1 DEF HostInv, Paused, Told, VerdictHolds, CanStep, StepRuns
  <1>3. CASE ~terminated
    <2>1. pc' = l /\ held' = [open |-> TRUE, end |-> phase' = "gameEnd", winner |-> winner']
      BY <1>1, <1>3 DEF PauseThen
    <2>2. held'.open /\ held'.end = (phase' = "gameEnd")
      BY <2>1
    <2>3. Opened = "loop"
      BY <2>2 DEF PauseHost, Opened
    <2>4. newest' = "loop" /\ stepping' = FALSE
      BY <2>3 DEF OnPause
    <2>5. Paused'
      BY <1>1, <2>1, <2>2 DEF Paused, PauseHost
    <2>6. Told'
      BY DEF HostInv, Told, PauseHost
    <2>7. VerdictHolds'
      BY <1>1, <1>3, <2>1 DEF HostInv, VerdictHolds, PauseHost
    <2>8. CanStep' /\ StepRuns'
      BY <2>4 DEF CanStep, StepRuns
    <2>9. QED BY <2>5, <2>6, <2>7, <2>8 DEF HostInv
  <1>4. QED BY <1>2, <1>3

\* A step that leaves the loop with the promise settled.
LEMMA FailKeeps ==
  ASSUME HostInv, FailHost, OnPause, UNCHANGED <<status, released>>
  PROVE  HostInv'
  <1>1. stepping' => stepping
    BY DEF OnPause
  <1>2. Paused' /\ Told'
    BY DEF HostInv, Paused, Told, FailHost
  <1>3. VerdictHolds'
    BY DEF HostInv, VerdictHolds, FailHost
  <1>4. CanStep' /\ StepRuns'
    BY <1>1 DEF HostInv, CanStep, StepRuns, FailHost
  <1>5. QED BY <1>2, <1>3, <1>4 DEF HostInv

\* gotWinner() opens a verdict, which is then the newest pause, or settles the
\* promise.
LEMMA EndKeeps ==
  ASSUME TypeOK, HostInv, EndHost, OnPause, UNCHANGED <<status, released>>
  PROVE  HostInv'
  <1>1. PICK w \in Player \union {Nobody} : GotWinner(w)
    BY DEF EndHost
  <1>2. stepping' => stepping
    BY DEF OnPause
  <1>3. CASE phase # "gameEnd" /\ ~terminated
    <2>1. verdicts = {}
      BY <1>3 DEF HostInv, VerdictHolds
    <2>2. /\ phase' = "gameEnd" /\ UNCHANGED <<terminated, finish>>
          /\ verdicts' = verdicts \union {[arg |-> w, seen |-> winner']}
      BY <1>1, <1>3 DEF GotWinner
    <2>3. Opened = "verdict"
      <3>1. verdicts' \ verdicts # {} /\ UNCHANGED held
        BY <2>1, <2>2 DEF EndHost
      <3>2. QED BY <3>1 DEF Opened
    <2>4. newest' = "verdict" /\ stepping' = FALSE
      BY <2>3 DEF OnPause
    <2>5. Paused' /\ Told'
      BY <2>2 DEF HostInv, Paused, Told, EndHost
    <2>6. VerdictHolds'
      BY <2>2, <2>4 DEF VerdictHolds, EndHost
    <2>7. CanStep' /\ StepRuns'
      BY <2>4 DEF CanStep, StepRuns
    <2>8. QED BY <2>5, <2>6, <2>7 DEF HostInv
  <1>4. CASE ~(phase # "gameEnd" /\ ~terminated)
    <2>1. /\ terminated' = TRUE /\ finish' = Resolved(w)
          /\ UNCHANGED <<phase, winner, verdicts>>
      BY <1>1, <1>4 DEF GotWinner
    <2>2. finish'.status # "pending"
      BY <2>1 DEF Resolved, TypeOK
    <2>3. Paused' /\ Told'
      BY <2>1, <2>2 DEF HostInv, Paused, Told, EndHost
    <2>4. VerdictHolds' /\ CanStep' /\ StepRuns'
      BY <2>1, <2>2, <1>2 DEF HostInv, VerdictHolds, CanStep, StepRuns
    <2>5. QED BY <2>3, <2>4 DEF HostInv
  <1>5. QED BY <1>3, <1>4

-----------------------------------------------------------------------------
(***************************************************************************)
(* Which kind of step each segment is.                                     *)
(***************************************************************************)

\* The segments that open no pause and cannot fail.
LEMMA LoopQuiet ==
  ASSUME TypeOK, HostInv,
         \/ LoopExit \/ NoPhase \/ InitHands \/ HandsSwitched \/ ToInitActives
         \/ ActivesChosen \/ ToRoll \/ RollPhase \/ ToAction \/ PassEnded
         \/ PassSkipped \/ BeforeAction \/ ReplaceAction \/ ChooseAction
         \/ TakeAction \/ DeclareEnd
         \/ (\E l \in {"finishSlow", "finishFast"} : FinishAction(l))
         \/ EndPhase \/ DrawTwo \/ Settled
  PROVE  QuietHost
  <1> USE DEF flow, promise
  <1>1. ~held.open /\ pc # "done" /\ UNCHANGED <<verdicts, held, terminated, finish>>
    BY DEF LoopExit, NoPhase, InitHands, HandsSwitched, ToInitActives, ActivesChosen,
       ToRoll, RollPhase, ToAction, PassEnded, PassSkipped, BeforeAction, ReplaceAction,
       ChooseAction, TakeAction, DeclareEnd, FinishAction, EndPhase, DrawTwo, Settled,
       Enter, At
  <1>2. pc' # "idle"
    BY DEF LoopExit, NoPhase, InitHands, HandsSwitched, ToInitActives, ActivesChosen,
       ToRoll, RollPhase, ToAction, PassEnded, PassSkipped, BeforeAction, ReplaceAction,
       ChooseAction, TakeAction, DeclareEnd, FinishAction, EndPhase, DrawTwo, Settled,
       SettleThen, TypeOK, Resumption
  <1>3. pc' = "done" => finish.status # "pending"
    BY DEF LoopExit, NoPhase, InitHands, HandsSwitched, ToInitActives, ActivesChosen,
       ToRoll, RollPhase, ToAction, PassEnded, PassSkipped, BeforeAction, ReplaceAction,
       ChooseAction, TakeAction, DeclareEnd, FinishAction, EndPhase, DrawTwo, Settled,
       SettleThen, TypeOK, Resumption, HostInv, Told
  <1>4. ASSUME verdicts # {}, ~terminated
        PROVE  phase' = phase /\ pc' \in {"tail", "top", "done"}
    <2>1. phase = "gameEnd" /\ pc \in {"tail", "top", "done"}
      BY <1>1, <1>4 DEF HostInv, VerdictHolds
    <2>2. LoopExit \/ NoPhase
      BY <2>1 DEF LoopExit, NoPhase, InitHands, HandsSwitched, ToInitActives,
         ActivesChosen, ToRoll, RollPhase, ToAction, PassEnded, PassSkipped, BeforeAction,
         ReplaceAction, ChooseAction, TakeAction, DeclareEnd, FinishAction, EndPhase,
         DrawTwo, Settled, Enter, At
    <2>3. QED BY <2>2 DEF LoopExit, NoPhase
  <1>5. QED BY <1>1, <1>2, <1>3, <1>4 DEF QuietHost

\* The segments that end in a pause; NoDefeat may do without.
LEMMA LoopPause ==
  ASSUME HostInv,
         \/ Tail \/ HandsDealt \/ RunSkill \/ CriticalDamage \/ NoDefeat \/ Defeat
  PROVE  PauseHost \/ QuietHost
  <1> USE DEF flow, promise
  <1>1. ~held.open /\ waiting = {} /\ UNCHANGED <<verdicts, terminated, finish, waiting>>
    BY DEF Tail, HandsDealt, RunSkill, CriticalDamage, NoDefeat, Defeat, Effect, At
  <1>2. verdicts # {} /\ ~terminated => pc \in {"tail", "top", "done"}
    BY <1>1 DEF HostInv, VerdictHolds
  <1>3. CASE Tail
    BY <1>1, <1>3 DEF Tail, PauseHost, Label
  <1>4. CASE HandsDealt \/ RunSkill \/ CriticalDamage \/ Defeat
    <2>1. pc \notin {"tail", "top", "done"}
      BY <1>4 DEF HandsDealt, RunSkill, CriticalDamage, Defeat, Effect, At
    <2>2. \E l \in Label \ {"idle", "done"} : PauseThen(l)
      BY <1>4 DEF HandsDealt, RunSkill, CriticalDamage, Defeat, Label
    <2>3. QED BY <1>1, <1>2, <2>1, <2>2 DEF PauseHost
  <1>5. CASE NoDefeat
    <2>1. pc \notin {"tail", "top", "done"}
      BY <1>5 DEF NoDefeat, At
    <2>2. CASE PauseThen("settle")
      BY <1>1, <1>2, <2>1, <2>2 DEF PauseHost, Label
    <2>3. CASE pc' = "settle" /\ UNCHANGED held
      BY <1>1, <1>2, <2>1, <2>3 DEF QuietHost
    <2>4. QED BY <1>5, <2>2, <2>3 DEF NoDefeat
  <1>6. QED BY <1>3, <1>4, <1>5

\* The segments that ask players, or whose skill throws.
LEMMA LoopAsk ==
  ASSUME TypeOK, HostInv,
         \/ AskHands \/ InitActives \/ RollDice \/ AskAction \/ RequestPlayer
         \/ ReplaceActive \/ SkillError
  PROVE  FailHost \/ QuietHost
  <1> USE DEF flow, promise
  <1>1. ~held.open /\ UNCHANGED <<phase, held>>
        /\ (Enter("initActives") \/ pc \notin {"idle", "tail", "top", "done"})
    BY DEF AskHands, InitActives, RollDice, AskAction, RequestPlayer, ReplaceActive,
       SkillError, Effect, Enter, At
  <1>2. verdicts = {} \/ terminated
    BY <1>1 DEF HostInv, VerdictHolds, Enter
  <1>3. Fail \/ \E S \in SUBSET Player, m \in Method, l \in Label \ {"idle", "done"} :
                  ~terminated /\ AskThen(S, m, l)
    <2>1. CASE AskHands \/ InitActives \/ RollDice
      BY <2>1 DEF AskHands, InitActives, RollDice, AskThen, Method, Label
    <2>2. CASE AskAction
      BY <2>2 DEF AskAction, AskThen, Method, Label, TypeOK
    <2>3. CASE RequestPlayer
      <3>1. PICK p \in Player, m \in {"rerollDice", "switchHands", "selectCard"} :
              AskThen({p}, m, "settle")
        BY <2>3 DEF RequestPlayer
      <3>2. {p} \in SUBSET Player /\ m \in Method
        BY DEF Method
      <3>3. "settle" \in Label \ {"idle", "done"}
        BY DEF Label
      <3>4. terminated => Fail
        BY <3>1 DEF AskThen
      <3>5. QED BY <3>1, <3>2, <3>3, <3>4
    <2>4. CASE ReplaceActive
      BY <2>4 DEF ReplaceActive, AskThen, Method, Label
    <2>5. CASE SkillError
      BY <2>5 DEF SkillError
    <2>6. QED BY <2>1, <2>2, <2>3, <2>4, <2>5
  <1>4. CASE Fail
    <2>1. finish'.status # "pending"
      BY <1>4 DEF Fail, Rejected, TypeOK
    <2>2. QED BY <1>1, <1>4, <2>1 DEF Fail, FailHost
  <1>5. CASE ~Fail
    <2>1. PICK l \in Label \ {"idle", "done"} : pc' = l /\ UNCHANGED promise
      BY <1>3, <1>5 DEF AskThen
    <2>2. QED BY <1>1, <1>2, <2>1 DEF QuietHost
  <1>6. QED BY <1>4, <1>5

\* The segments that may end the match.
LEMMA LoopEnd ==
  ASSUME TypeOK, HostInv, InvalidAction \/ EndRound
  PROVE  EndHost \/ QuietHost
  <1> USE DEF flow, promise
  <1>1. ~held.open /\ UNCHANGED held /\ pc \in {"act", "pay", "endRound"}
    BY DEF InvalidAction, EndRound, At
  <1>2. CASE InvalidAction
    <2>1. flip(turn) \in Player
      BY FlipType DEF TypeOK
    <2>2. QED BY <1>1, <1>2, <2>1 DEF InvalidAction, EndHost
  <1>3. CASE EndRound
    <2>1. CASE round' >= MaxRounds
      BY <1>1, <1>3, <2>1 DEF EndRound, EndHost
    <2>2. CASE ~(round' >= MaxRounds)
      <3>1. UNCHANGED <<verdicts, terminated, finish>> /\ pc' = "tail"
        BY <1>3, <2>2 DEF EndRound
      <3>2. verdicts = {} \/ terminated
        BY <1>1 DEF HostInv, VerdictHolds
      <3>3. QED BY <1>1, <3>1, <3>2 DEF QuietHost
    <2>3. QED BY <2>1, <2>2
  <1>4. QED BY <1>2, <1>3

\* The answers of the players.
LEMMA AnswerKind ==
  ASSUME TypeOK, HostInv, NEW p \in Player,
         \/ AnswerAction(p) \/ AnswerCards(p) \/ KeepDice(p) \/ RerollDice(p)
         \/ BadAnswer(p)
  PROVE  QuietHost \/ FailHost \/ EndHost
  <1> USE DEF flow, promise
  <1>1. pc # "idle" /\ UNCHANGED held
    BY DEF AnswerAction, AnswerCards, KeepDice, RerollDice, BadAnswer, InputReady
  <1>2. p \in waiting => ~held.open
    BY DEF HostInv, Paused
  <1>3. CASE \/ AnswerAction(p) \/ AnswerCards(p) \/ KeepDice(p)
             \/ (RerollDice(p) /\ UNCHANGED <<promise, pc>>)
             \/ (BadAnswer(p) /\ p \notin waiting)
    <2>1. UNCHANGED <<phase, pc, verdicts, terminated, finish>> /\ waiting' \subseteq waiting
      BY <1>3 DEF AnswerAction, AnswerCards, KeepDice, RerollDice, BadAnswer, Answered,
         Fail
    <2>2. held.open => waiting' = {}
      BY <2>1 DEF HostInv, Paused
    <2>3. verdicts # {} /\ ~terminated => pc' \in {"tail", "top", "done"} \/ held.open
      BY <2>1 DEF HostInv, VerdictHolds
    <2>4. QED BY <1>1, <2>1, <2>2, <2>3 DEF QuietHost
  <1>4. CASE RerollDice(p) /\ ~UNCHANGED <<promise, pc>>
    <2>1. p \in waiting /\ Fail /\ terminated
      BY <1>4 DEF RerollDice, Answered
    <2>2. finish'.status # "pending"
      BY <2>1 DEF Fail, Rejected, TypeOK
    <2>3. QED BY <1>1, <1>2, <2>1, <2>2 DEF Fail, FailHost
  <1>5. CASE BadAnswer(p) /\ p \in waiting
    <2>1. flip(p) \in Player /\ GotWinner(flip(p)) /\ pc' = "done"
      BY <1>5, FlipType DEF BadAnswer
    <2>2. QED BY <1>1, <1>2, <1>5, <2>1 DEF EndHost
  <1>6. QED BY <1>3, <1>4, <1>5

-----------------------------------------------------------------------------
\* The microtasks of the loop and of the answers keep the invariant.
LEMMA RunKeeps ==
  ASSUME TypeOK, HostInv, RunLoop \/ \E p \in Player : HostAnswer(p)
  PROVE  HostInv'
  <1>1. QuietHost \/ PauseHost \/ FailHost \/ EndHost
    <2>1. CASE RunLoop
      <3>1. ~Start
        BY <2>1 DEF RunLoop, Start
      <3>2. QED
        BY <2>1, <3>1, LoopQuiet, LoopPause, LoopAsk, LoopEnd DEF RunLoop, Loop
    <2>2. CASE \E p \in Player : HostAnswer(p)
      BY <2>2, AnswerKind DEF HostAnswer
    <2>3. QED BY <2>1, <2>2
  <1>2. OnPause /\ UNCHANGED <<status, released>>
    BY DEF RunLoop, HostAnswer
  <1>3. QED BY <1>1, <1>2, QuietKeeps, PauseKeeps, FailKeeps, EndKeeps

\* A released pause goes on: the loop runs, or the promise is settled.
LEMMA GoOnKeeps ==
  ASSUME TypeOK, HostInv, GoOn
  PROVE  HostInv'
  <1> USE DEF promise
  <1>1. released' = "none" /\ status' = status /\ (stepping' => stepping)
    BY DEF GoOn, OnPause
  <1>2. CASE released = "loop" /\ ResumeLoop /\ ~held.end
    <2>1. /\ held.open /\ held' = NotHeld
          /\ UNCHANGED <<phase, verdicts, terminated, finish, pc, waiting>>
      BY <1>2 DEF ResumeLoop
    <2>2. ~held'.open
      BY <2>1 DEF NotHeld
    <2>3. pc \notin {"idle", "done"}
      BY <2>1 DEF HostInv, Paused
    <2>4. Paused' /\ Told'
      BY <2>1, <2>2, <2>3 DEF HostInv, Paused, Told
    <2>5. VerdictHolds'
      BY <1>2, <2>1 DEF HostInv, VerdictHolds
    <2>6. CanStep' /\ StepRuns'
      BY <1>1, <2>1, <2>2, <2>3 DEF HostInv, CanStep, StepRuns
    <2>7. QED BY <2>4, <2>5, <2>6 DEF HostInv
  <1>3. CASE \/ released = "loop" /\ ResumeLoop /\ held.end
             \/ released = "verdict" /\ ResumeVerdict
    <2>1. /\ terminated' = TRUE /\ finish'.status # "pending"
          /\ phase' \in {phase, "gameEnd"} /\ held' \in {held, NotHeld}
          /\ UNCHANGED <<pc, waiting>>
      <3>1. CASE ResumeLoop /\ held.end
        <4>1. phase = "gameEnd" /\ GotWinner(held.winner) /\ held' = NotHeld
              /\ UNCHANGED <<pc, waiting>>
          BY <3>1 DEF ResumeLoop, HostInv, Paused
        <4>2. /\ terminated' = TRUE /\ finish' = Resolved(held.winner)
              /\ phase' = phase
          BY <4>1 DEF GotWinner
        <4>3. QED BY <4>1, <4>2 DEF Resolved, TypeOK
      <3>2. CASE ResumeVerdict
        <4>1. /\ terminated' = TRUE /\ phase' \in {phase, "gameEnd"}
              /\ \E w : finish' = Resolved(w)
              /\ UNCHANGED <<held, pc, waiting>>
          BY <3>2 DEF ResumeVerdict
        <4>2. QED BY <4>1 DEF Resolved, TypeOK
      <3>3. QED BY <1>3, <3>1, <3>2
    <2>2. Paused' /\ Told'
      BY <1>1, <2>1 DEF HostInv, Paused, Told, NotHeld
    <2>3. VerdictHolds' /\ CanStep' /\ StepRuns'
      BY <1>1, <2>1 DEF HostInv, VerdictHolds, CanStep, StepRuns
    <2>4. QED BY <2>2, <2>3 DEF HostInv
  <1>4. QED BY <1>2, <1>3 DEF GoOn

\* The calls of the program find a pause to release.
LEMMA CallKeeps ==
  ASSUME TypeOK, HostInv, CallStep
  PROVE  HostInv'
  <1> USE DEF flow, promise
  <1>1. CASE FirstStep
    <2>1. /\ pc = "idle" /\ waiting = {} /\ PauseThen("top")
          /\ UNCHANGED <<phase, verdicts, terminated, finish, waiting>>
          /\ status' = "running" /\ released' = "loop"
      BY <1>1 DEF FirstStep, Start, HostInv, Paused
    <2>2. ~held.open
      BY <2>1 DEF HostInv, Paused
    <2>3. verdicts # {} => terminated
      BY <2>1, <2>2 DEF HostInv, VerdictHolds
    <2>4. pc' = "top" /\ (held'.open /\ held'.end => phase' = "gameEnd")
      BY <2>1 DEF PauseThen, NotHeld
    <2>5. QED
      BY <2>1, <2>3, <2>4 DEF HostInv, Paused, Told, VerdictHolds, CanStep, StepRuns
  <1>2. CASE NextStep
    <2>1. /\ status = "running" /\ released = "none" /\ released' = newest
          /\ UNCHANGED <<phase, verdicts, terminated, finish, waiting, held, pc, status>>
          /\ pc \in {"idle", "done"} \/ held.open
          /\ finish.status = "pending"
      BY <1>2 DEF NextStep, Idle, Unreported, vars, flow, promise
    <2>2. newest # "none"
      BY <2>1 DEF HostInv, Paused, CanStep
    <2>3. QED
      BY <2>1, <2>2 DEF HostInv, Paused, Told, VerdictHolds, CanStep, StepRuns
  <1>3. QED BY <1>1, <1>2 DEF CallStep

\* Giving up, where the program may, opens a verdict that is the newest pause.
LEMMA GiveUpKeeps ==
  ASSUME TypeOK, HostInv, ~CallbackGiveUp, NEW p \in Player, HostGiveUp(p)
  PROVE  HostInv'
  <1>1. Idle /\ GiveUp(p) /\ OnPause /\ UNCHANGED <<status, released>>
    BY DEF HostGiveUp
  <1>2. /\ released = "none" /\ (held.open \/ pc = "done")
        /\ GotWinner(flip(p)) /\ UNCHANGED <<held, waiting, pc>>
    BY <1>1 DEF Idle, GiveUp, InputReady
  <1>3. flip(p) \in Player
    BY FlipType
  <1>4. EndHost
    BY <1>2, <1>3 DEF EndHost
  <1>5. QED BY <1>1, <1>4, EndKeeps

\* The newest pause is the one that matters, whatever the program does between
\* its calls of step().
THEOREM HostCorrect == ASSUME ~CallbackGiveUp PROVE HostSpec => []HostInv
  <1>1. HostInit => HostInv
    BY DEF HostInit, Init, NotHeld, HostInv, Paused, Told, VerdictHolds, CanStep,
       StepRuns
  <1>2. TypeOK /\ HostInv /\ [HostNext]_hostVars => HostInv'
    <2> SUFFICES ASSUME TypeOK, HostInv, [HostNext]_hostVars PROVE HostInv'
      OBVIOUS
    <2>1. CASE Microtask
      <3>1. CASE Report
        BY <3>1 DEF Report, Unreported, vars, flow, promise, HostInv, Paused, Told,
           VerdictHolds, CanStep, StepRuns
      <3>2. QED BY <2>1, <3>1, GoOnKeeps, RunKeeps DEF Microtask
    <2>2. CASE CallStep
      BY <2>2, CallKeeps
    <2>3. CASE \E p \in Player : HostGiveUp(p)
      BY <2>3, GiveUpKeeps
    <2>4. CASE UNCHANGED hostVars
      BY <2>4 DEF hostVars, host, vars, flow, promise, HostInv, Paused, Told,
         VerdictHolds, CanStep, StepRuns
    <2>5. QED BY <2>1, <2>2, <2>3, <2>4 DEF HostNext
  <1>3. QED BY <1>1, <1>2, HostRunsGame, TypeCorrect, PTL DEF HostSpec

\* Nothing is left to run only when no step() waits.
THEOREM StepCorrect == ASSUME ~CallbackGiveUp PROVE HostSpec => []StepReturns
  <1>1. HostInv => StepReturns
    BY DEF HostInv, StepRuns, StepReturns, Idle, Unreported
  <1>2. QED BY <1>1, HostCorrect, PTL

HIDE DEF Nobody

-----------------------------------------------------------------------------
(***************************************************************************)
(* The pauses of this host are not prompt: the end may come while the loop *)
(* is suspended in the midst of a skill.  The loop must then not go on     *)
(* from there, or a defeat would give the ended match another winner.      *)
(***************************************************************************)

\* An ended match is on its way to the program.
EndShown ==
  phase = "gameEnd" => terminated \/ (held.open /\ held.end) \/ verdicts # {}

\* A skill is settled in a match that has not ended; where the match ends
\* while the skill pauses, that pause is not released.
DamageStops ==
  pc = "damage" =>
    IF held.open THEN ~held.end /\ (phase = "gameEnd" => released # "loop")
    ELSE phase # "gameEnd"

\* A match is terminated after its end, and what is reported has been settled.
Reported ==
  /\ terminated => phase = "gameEnd"
  /\ finish.status # "pending" => terminated \/ pc = "done"
  /\ finish.status = "resolved" => terminated
  /\ status = "finished" => finish.status = "resolved"
  /\ status = "aborted" => finish.status # "pending"

SeenInv == EndShown /\ DamageStops /\ Reported

\* What a step does to the match, in the words of MatchSpec.
Advances ==
  /\ ~terminated /\ pc # "done" /\ winner' = winner
  /\ \E o \in Seen!Order : /\ phase = o.from /\ phase' = o.to
                           /\ round' = round + o.rounds
                           /\ phase = "end" => round' < MaxRounds
Ends ==
  /\ phase # "gameEnd" /\ phase' = "gameEnd" /\ round' = round
  /\ winner' \in Player \union {Nobody}
RunsOut ==
  /\ phase = "end" /\ phase' = "gameEnd" /\ winner' = winner
  /\ round' = round + 1 /\ round' >= MaxRounds
Moved == UNCHANGED <<phase, round, winner>> \/ Advances \/ Ends \/ RunsOut

\* What it does to the promise.
Settling ==
  \/ finish' = finish
  \/ finish' = Rejected /\ pc' = "done"
  \/ (\E w \in Player \union {Nobody} : finish' = Resolved(w)) /\ terminated'

SeenStep ==
  /\ Moved /\ Settling
  /\ pc = "done" => pc' = "done"
  /\ terminated => terminated'
  /\ terminated' => terminated \/ phase' = "gameEnd"
  /\ EndShown' /\ DamageStops'

-----------------------------------------------------------------------------
\* An ended match stays as it is.
LEMMA MovedEnd ==
  ASSUME Moved, phase = "gameEnd"
  PROVE  phase' = "gameEnd" /\ winner' = winner /\ round' = round
  BY DEF Moved, Advances, Ends, RunsOut, Seen!Order

\* Such a step keeps the invariant.
LEMMA SeenKeeps ==
  ASSUME TypeOK, SeenInv, SeenStep, UNCHANGED status
  PROVE  SeenInv'
  <1>1. terminated' => phase' = "gameEnd"
    BY MovedEnd DEF SeenInv, Reported, SeenStep
  <1>2. finish.status # "pending" => finish' = finish
    BY DEF SeenStep, Settling, Rejected, Resolved
  <1>3. finish'.status = "resolved" => terminated'
    BY DEF SeenStep, Settling, Rejected, SeenInv, Reported
  <1>4. finish'.status # "pending" => terminated' \/ pc' = "done"
    BY DEF SeenStep, Settling, SeenInv, Reported
  <1>5. Reported'
    BY <1>1, <1>2, <1>3, <1>4 DEF SeenInv, Reported
  <1>6. QED BY <1>5 DEF SeenInv, SeenStep

SeenMatch == [Seen!Next]_(Seen!matchVars)

\* And it is a step of the match.
LEMMA SeenMatches ==
  ASSUME TypeOK, SeenInv, SeenStep, UNCHANGED status
  PROVE  SeenMatch
  <1>1. status = "finished" => phase = "gameEnd" /\ winner' = winner
    BY MovedEnd DEF SeenInv, Reported, SeenStep
  <1>2. CASE UNCHANGED <<phase, round, winner>>
    BY <1>2 DEF SeenMatch, Seen!matchVars
  <1>3. CASE Advances
    <2>1. status # "finished" /\ status # "aborted"
      BY <1>3 DEF Advances, SeenInv, Reported
    <2>2. Seen!Advance
      BY <1>3, <2>1 DEF Advances, Seen!Advance
    <2>3. QED BY <2>2 DEF SeenMatch, Seen!Next
  <1>4. CASE Ends
    <2>1. status # "finished"
      BY <1>1, <1>4 DEF Ends
    <2>2. Seen!Conclude(winner')
      BY <1>4, <2>1 DEF Ends, Seen!Conclude
    <2>3. winner' \in Seen!Player \union {Seen!Nobody}
      BY <1>4 DEF Ends, Seen!Player, Seen!Nobody, Nobody
    <2>4. QED BY <2>2, <2>3 DEF SeenMatch, Seen!Next
  <1>5. CASE RunsOut
    <2>1. Seen!RunOut
      BY <1>5 DEF RunsOut, Seen!RunOut
    <2>2. QED BY <2>1 DEF SeenMatch, Seen!Next
  <1>6. QED BY <1>2, <1>3, <1>4, <1>5 DEF SeenStep, Moved

-----------------------------------------------------------------------------
(* The pieces of the steps. *)

\* Where the loop runs a segment the match has not ended, or is terminated.
LEMMA StillOn ==
  ASSUME HostInv, SeenInv, ~held.open, pc \notin {"tail", "top", "done"}
  PROVE  phase # "gameEnd" \/ terminated
  BY DEF HostInv, VerdictHolds, SeenInv, EndShown

\* A step that leaves the match, the promise and the pause alone.
LEMMA RestSeen ==
  ASSUME SeenInv, UNCHANGED <<phase, round, winner, promise, held>>,
         pc = "done" => pc' = "done",
         pc' = "damage" => pc' = pc /\ released' = released
  PROVE  SeenStep
  <1>1. Moved /\ Settling
    BY DEF Moved, Settling, promise
  <1>2. EndShown' /\ DamageStops'
    BY DEF SeenInv, EndShown, DamageStops, promise
  <1>3. QED BY <1>1, <1>2 DEF SeenStep, promise

\* One that pauses.
LEMMA PauseSeen ==
  ASSUME SeenInv, UNCHANGED <<phase, round, winner, promise>>, ~held.open, pc # "done",
         NEW l, PauseThen(l), l = "damage" => phase # "gameEnd"
  PROVE  SeenStep
  <1>1. Moved /\ Settling
    BY DEF Moved, Settling, promise
  <1>2. phase = "gameEnd" => terminated \/ verdicts # {}
    BY DEF SeenInv, EndShown
  <1>3. EndShown'
    BY <1>2 DEF EndShown, promise
  <1>4. DamageStops'
    BY DEF DamageStops, PauseThen, SeenInv, Reported
  <1>5. QED BY <1>1, <1>3, <1>4 DEF SeenStep, promise

\* One that rejects the promise and leaves the loop.
LEMMA FailSeen ==
  ASSUME SeenInv, UNCHANGED <<phase, round, winner, held>>, Fail
  PROVE  SeenStep
  <1>1. Moved /\ Settling
    BY DEF Moved, Settling, Fail
  <1>2. EndShown' /\ DamageStops'
    BY DEF SeenInv, EndShown, DamageStops, Fail
  <1>3. QED BY <1>1, <1>2 DEF SeenStep, Fail

\* One that asks players.
LEMMA AskSeen ==
  ASSUME SeenInv, UNCHANGED <<phase, round, winner, held>>, pc # "done",
         NEW S, NEW m, NEW l, l # "damage", AskThen(S, m, l)
  PROVE  SeenStep
  <1>1. CASE terminated
    BY <1>1, FailSeen DEF AskThen
  <1>2. CASE ~terminated
    BY <1>2, RestSeen DEF AskThen
  <1>3. QED BY <1>1, <1>2

\* One that ends the match, or settles the promise of a match that has ended.
LEMMA WinnerSeen ==
  ASSUME TypeOK, SeenInv, NEW w \in Player \union {Nobody}, GotWinner(w),
         UNCHANGED <<round, held>>, pc = "done" => pc' = "done",
         pc' = "damage" => pc' = pc /\ held.open /\ released' = "none"
  PROVE  SeenStep
  <1>1. CASE phase # "gameEnd" /\ ~terminated
    <2>1. /\ phase' = "gameEnd" /\ winner' = IF w = Nobody THEN winner ELSE w
          /\ verdicts' = verdicts \union {[arg |-> w, seen |-> winner']}
          /\ UNCHANGED <<terminated, finish>>
      BY <1>1 DEF GotWinner
    <2>2. winner' \in Player \union {Nobody}
      BY <2>1 DEF TypeOK
    <2>3. Moved /\ Settling
      BY <1>1, <2>1, <2>2 DEF Moved, Ends, Settling
    <2>4. verdicts' # {}
      BY <2>1
    <2>5. EndShown' /\ DamageStops'
      BY <2>4 DEF SeenInv, EndShown, DamageStops
    <2>6. QED BY <2>1, <2>3, <2>5 DEF SeenStep
  <1>2. CASE ~(phase # "gameEnd" /\ ~terminated)
    <2>1. /\ finish' = Resolved(w) /\ terminated' = TRUE
          /\ UNCHANGED <<phase, winner, verdicts>>
      BY <1>2 DEF GotWinner
    <2>2. phase = "gameEnd"
      BY <1>2 DEF SeenInv, Reported
    <2>3. Moved /\ Settling
      BY <2>1 DEF Moved, Settling
    <2>4. EndShown' /\ DamageStops'
      BY <2>1, <2>2 DEF SeenInv, EndShown, DamageStops
    <2>5. QED BY <2>1, <2>2, <2>3, <2>4 DEF SeenStep
  <1>3. QED BY <1>1, <1>2

-----------------------------------------------------------------------------
(***************************************************************************)
(* The segments of the loop.                                               *)
(***************************************************************************)

\* Those that only go on elsewhere.
LEMMA RestLoop ==
  ASSUME TypeOK, SeenInv,
         \/ LoopExit \/ NoPhase \/ InitHands \/ HandsSwitched \/ ActivesChosen
         \/ RollPhase \/ BeforeAction \/ ReplaceAction \/ ChooseAction \/ TakeAction
         \/ DeclareEnd \/ EndPhase \/ DrawTwo \/ Settled
  PROVE  SeenStep
  <1> USE DEF flow
  <1>1. UNCHANGED <<phase, round, winner, promise, held>>
    BY DEF LoopExit, NoPhase, InitHands, HandsSwitched, ActivesChosen, RollPhase,
       BeforeAction, ReplaceAction, ChooseAction, TakeAction, DeclareEnd, EndPhase,
       DrawTwo, Settled
  <1>2. pc # "done"
    BY DEF LoopExit, NoPhase, InitHands, HandsSwitched, ActivesChosen, RollPhase,
       BeforeAction, ReplaceAction, ChooseAction, TakeAction, DeclareEnd, EndPhase,
       DrawTwo, Settled, Enter, At
  <1>3. pc' # "damage"
    BY DEF LoopExit, NoPhase, InitHands, HandsSwitched, ActivesChosen, RollPhase,
       BeforeAction, ReplaceAction, ChooseAction, TakeAction, DeclareEnd, EndPhase,
       DrawTwo, Settled, SettleThen, TypeOK, Resumption
  <1>4. QED BY <1>1, <1>2, <1>3, RestSeen

\* Those that pause.
LEMMA PauseLoop ==
  ASSUME SeenInv, Tail \/ HandsDealt \/ RunSkill \/ CriticalDamage \/ NoDefeat
  PROVE  SeenStep
  <1> USE DEF flow
  <1>1. UNCHANGED <<phase, round, winner, promise>> /\ ~held.open
        /\ pc \notin {"done", "idle"}
    BY DEF Tail, HandsDealt, RunSkill, CriticalDamage, NoDefeat, Effect, At
  <1>2. CASE Tail \/ HandsDealt
    BY <1>1, <1>2, PauseSeen DEF Tail, HandsDealt
  <1>3. CASE RunSkill
    <2>1. PauseThen("damage") /\ phase # "gameEnd"
      BY <1>3 DEF RunSkill
    <2>2. QED BY <1>1, <2>1, PauseSeen
  <1>4. CASE CriticalDamage
    <2>1. PauseThen("damage") /\ phase # "gameEnd"
      BY <1>4 DEF CriticalDamage, SeenInv, DamageStops, At
    <2>2. QED BY <1>1, <2>1, PauseSeen
  <1>5. CASE NoDefeat
    <2>1. CASE PauseThen("settle")
      BY <1>1, <2>1, PauseSeen
    <2>2. CASE pc' = "settle" /\ UNCHANGED held
      BY <1>1, <2>2, RestSeen
    <2>3. QED BY <1>5, <2>1, <2>2 DEF NoDefeat
  <1>6. QED BY <1>2, <1>3, <1>4, <1>5

\* Those that ask players, or whose skill throws.
LEMMA AskForLoop ==
  ASSUME SeenInv,
         \/ AskHands \/ InitActives \/ RollDice \/ AskAction \/ RequestPlayer
         \/ ReplaceActive \/ SkillError
  PROVE  SeenStep
  <1> USE DEF flow
  <1>1. UNCHANGED <<phase, round, winner, held>> /\ pc # "done"
    BY DEF AskHands, InitActives, RollDice, AskAction, RequestPlayer, ReplaceActive,
       SkillError, Effect, Enter, At
  <1>2. CASE AskHands \/ InitActives \/ RollDice \/ AskAction
    BY <1>1, <1>2, AskSeen DEF AskHands, InitActives, RollDice, AskAction
  <1>3. CASE RequestPlayer
    BY <1>1, <1>3, AskSeen DEF RequestPlayer
  <1>4. CASE ReplaceActive
    BY <1>1, <1>4, AskSeen DEF ReplaceActive
  <1>5. CASE SkillError
    BY <1>1, <1>5, FailSeen DEF SkillError
  <1>6. QED BY <1>2, <1>3, <1>4, <1>5

\* A step of the match that is not its end, and that a terminated match drops.
LEMMA AdvanceSeen ==
  ASSUME SeenInv, Advances, UNCHANGED <<promise, held>>, pc' # "damage",
         pc = "done" => pc' = "done"
  PROVE  SeenStep
  <1>1. phase' # "gameEnd"
    BY DEF Advances, Seen!Order
  <1>2. Moved /\ Settling
    BY DEF Moved, Settling, promise
  <1>3. EndShown' /\ DamageStops'
    BY <1>1 DEF EndShown, DamageStops
  <1>4. QED BY <1>2, <1>3 DEF SeenStep, promise

\* Those that change the phase, in a match that has not ended.
LEMMA PhaseLoop ==
  ASSUME TypeOK, HostInv, SeenInv, InHome,
         \/ ToInitActives \/ ToRoll \/ ToAction \/ PassEnded \/ PassSkipped
         \/ (\E l \in {"finishSlow", "finishFast"} : FinishAction(l))
  PROVE  SeenStep
  <1>1. /\ UNCHANGED <<winner, promise, held>> /\ ~held.open /\ pc # "done"
        /\ pc' \notin {"damage", "done"}
    BY DEF ToInitActives, ToRoll, ToAction, PassEnded, PassSkipped, FinishAction,
       Enter, At, SettleThen
  <1>2. CASE terminated
    <2>1. UNCHANGED <<phase, round>>
      BY <1>2 DEF ToInitActives, ToRoll, ToAction, PassEnded, PassSkipped, FinishAction,
         CloseRound, Mutated
    <2>2. QED BY <1>1, <2>1, RestSeen
  <1>3. CASE ~terminated
    <2>1. CASE ToInitActives
      <3>1. phase = "initHands"
        BY <1>1, <1>3, <2>1, StillOn DEF ToInitActives, InHome, Place, At
      <3>2. Advances
        BY <1>1, <1>3, <2>1, <3>1 DEF ToInitActives, Mutated, Advances, Seen!Order, TypeOK
      <3>3. QED BY <1>1, <3>2, AdvanceSeen
    <2>2. CASE ToRoll
      <3>1. phase = "initActives"
        BY <1>1, <1>3, <2>2, StillOn DEF ToRoll, InHome, Place, At
      <3>2. Advances
        BY <1>1, <1>3, <2>2, <3>1 DEF ToRoll, Mutated, Advances, Seen!Order, TypeOK
      <3>3. QED BY <1>1, <3>2, AdvanceSeen
    <2>3. CASE ToAction
      <3>1. phase = "roll"
        BY <1>1, <1>3, <2>3, StillOn DEF ToAction, InHome, Place, At
      <3>2. Advances
        BY <1>1, <1>3, <2>3, <3>1 DEF ToAction, Mutated, Advances, Seen!Order, TypeOK
      <3>3. QED BY <1>1, <3>2, AdvanceSeen
    <2>4. CASE \/ PassEnded \/ PassSkipped
               \/ \E l \in {"finishSlow", "finishFast"} : FinishAction(l)
      <3>1. phase = "action"
        BY <1>1, <1>3, <2>4, StillOn DEF PassEnded, PassSkipped, FinishAction, Enter,
           InHome, Place, At
      <3>2. phase' \in {"end", phase} /\ round' = round
        BY <1>3, <2>4 DEF PassEnded, PassSkipped, FinishAction, CloseRound, Mutated
      <3>3. CASE phase' = "end"
        <4>1. Advances
          BY <1>1, <1>3, <3>1, <3>2, <3>3 DEF Advances, Seen!Order, TypeOK
        <4>2. QED BY <1>1, <4>1, AdvanceSeen
      <3>4. CASE phase' = phase
        BY <1>1, <3>2, <3>4, RestSeen
      <3>5. QED BY <3>2, <3>3, <3>4
    <2>5. QED BY <2>1, <2>2, <2>3, <2>4
  <1>4. QED BY <1>2, <1>3

\* The end of a round, perhaps the last.
LEMMA RoundLoop ==
  ASSUME TypeOK, HostInv, SeenInv, InHome, EndRound
  PROVE  SeenStep
  <1>1. /\ pc = "endRound" /\ ~held.open /\ held' = held /\ pc' = "tail"
    BY DEF EndRound, At
  <1>2. CASE terminated
    <2>1. round' = round /\ phase = "gameEnd"
      BY <1>2 DEF EndRound, Mutated, SeenInv, Reported
    <2>2. CASE round' >= MaxRounds
      <3>1. GotWinner(Nobody)
        BY <2>2 DEF EndRound
      <3>2. QED BY <1>1, <2>1, <3>1, WinnerSeen
    <2>3. CASE ~(round' >= MaxRounds)
      <3>1. UNCHANGED <<phase, winner, promise>>
        BY <1>2, <2>3 DEF EndRound, Mutated
      <3>2. QED BY <1>1, <2>1, <3>1, RestSeen
    <2>4. QED BY <2>2, <2>3
  <1>3. CASE ~terminated
    <2>1. phase = "end" /\ round' = round + 1
      BY <1>1, <1>3, StillOn DEF EndRound, InHome, Place, Mutated
    <2>2. CASE round' >= MaxRounds
      <3>1. /\ phase' = "gameEnd" /\ UNCHANGED <<winner, terminated, finish>>
            /\ verdicts' = verdicts \union {[arg |-> Nobody, seen |-> winner']}
        BY <1>3, <2>1, <2>2 DEF EndRound, GotWinner
      <3>2. Moved /\ Settling
        BY <2>1, <2>2, <3>1 DEF Moved, RunsOut, Settling
      <3>3. verdicts' # {}
        BY <3>1
      <3>4. EndShown' /\ DamageStops'
        BY <1>1, <3>3 DEF EndShown, DamageStops
      <3>5. QED BY <1>1, <3>1, <3>2, <3>4 DEF SeenStep
    <2>3. CASE ~(round' >= MaxRounds)
      <3>1. round' < MaxRounds
        BY <2>1, <2>3, GameFlowConstants DEF TypeOK
      <3>2. phase' = "roll" /\ UNCHANGED <<winner, promise>>
        BY <1>3, <2>3 DEF EndRound, Mutated
      <3>3. Advances
        BY <1>1, <1>3, <2>1, <3>1, <3>2 DEF Advances, Seen!Order
      <3>4. QED BY <1>1, <3>2, <3>3, AdvanceSeen
    <2>4. QED BY <2>2, <2>3
  <1>4. QED BY <1>2, <1>3

\* A defeat in a skill: the match ends, and the next pause shows it.
LEMMA DefeatLoop ==
  ASSUME TypeOK, SeenInv, Defeat
  PROVE  SeenStep
  <1>1. phase # "gameEnd" /\ ~terminated /\ pc = "damage"
    BY DEF Defeat, At, SeenInv, DamageStops, Reported
  <1>2. winner' \in Player \union {Nobody}
    BY FlipType DEF Defeat, TypeOK
  <1>3. phase' = "gameEnd" /\ round' = round /\ UNCHANGED promise /\ PauseThen("settle")
    BY DEF Defeat
  <1>4. pc' = "settle" /\ held' = [open |-> TRUE, end |-> TRUE, winner |-> winner']
    BY <1>1, <1>3 DEF PauseThen
  <1>5. Moved /\ Settling
    BY <1>1, <1>2, <1>3 DEF Moved, Ends, Settling, promise
  <1>6. EndShown' /\ DamageStops'
    BY <1>4 DEF EndShown, DamageStops
  <1>7. QED BY <1>1, <1>3, <1>5, <1>6 DEF SeenStep, promise

\* All segments of the loop.
LEMMA RunSeen ==
  ASSUME TypeOK, HostInv, SeenInv, InHome, RunLoop
  PROVE  SeenStep
  <1>1. Loop /\ ~Start
    BY DEF RunLoop, Start
  <1>2. CASE InvalidAction
    <2>1. flip(turn) \in Player \union {Nobody}
      BY FlipType DEF TypeOK
    <2>2. QED BY <1>2, <2>1, WinnerSeen DEF InvalidAction
  <1>3. QED
    BY <1>1, <1>2, RestLoop, PauseLoop, AskForLoop, PhaseLoop, RoundLoop, DefeatLoop DEF Loop

-----------------------------------------------------------------------------
(***************************************************************************)
(* Answers, pauses and the calls of the program.                           *)
(***************************************************************************)

\* The answers of a player; a bad one ends the match.
LEMMA AnswerSeen ==
  ASSUME TypeOK, HostInv, SeenInv, NEW p \in Player, HostAnswer(p)
  PROVE  SeenStep
  <1> USE DEF flow
  <1>1. UNCHANGED <<round, held, released>>
    BY DEF HostAnswer, AnswerAction, AnswerCards, KeepDice, RerollDice, BadAnswer
  <1>2. CASE \/ AnswerAction(p) \/ AnswerCards(p) \/ KeepDice(p)
    <2>1. UNCHANGED <<phase, winner, promise, pc>>
      BY <1>2 DEF AnswerAction, AnswerCards, KeepDice, Answered
    <2>2. QED BY <1>1, <2>1, RestSeen
  <1>3. CASE RerollDice(p)
    <2>1. UNCHANGED <<phase, winner>> /\ (UNCHANGED <<promise, pc>> \/ Fail)
      BY <1>3 DEF RerollDice, Answered
    <2>2. QED BY <1>1, <2>1, RestSeen, FailSeen
  <1>4. CASE BadAnswer(p)
    <2>1. CASE p \in waiting
      <3>1. GotWinner(flip(p)) /\ pc' = "done"
        BY <1>4, <2>1 DEF BadAnswer
      <3>2. flip(p) \in Player \union {Nobody}
        BY FlipType
      <3>3. QED BY <1>1, <3>1, <3>2, WinnerSeen
    <2>2. CASE p \notin waiting
      <3>1. UNCHANGED <<phase, winner, promise, pc>>
        BY <1>4, <2>2 DEF BadAnswer
      <3>2. QED BY <1>1, <3>1, RestSeen
    <2>3. QED BY <2>1, <2>2
  <1>5. QED BY <1>2, <1>3, <1>4 DEF HostAnswer

\* The pause that goes on is not one that the end has overtaken in a skill.
LEMMA GoOnSeen ==
  ASSUME TypeOK, HostInv, SeenInv, GoOn
  PROVE  SeenStep
  <1> USE DEF promise
  <1>1. CASE released = "loop" /\ ResumeLoop
    <2>1. /\ held.open /\ held' = NotHeld /\ ~held'.open /\ UNCHANGED <<round, pc>>
      BY <1>1 DEF ResumeLoop, NotHeld
    <2>2. CASE held.end
      <3>1. phase = "gameEnd" /\ GotWinner(held.winner) /\ pc # "damage"
        BY <1>1, <2>1, <2>2 DEF ResumeLoop, HostInv, Paused, SeenInv, DamageStops
      <3>2. /\ finish' = Resolved(held.winner) /\ terminated' = TRUE
            /\ UNCHANGED <<phase, winner>>
        BY <3>1 DEF GotWinner
      <3>3. held.winner \in Player \union {Nobody}
        BY DEF TypeOK
      <3>4. Moved /\ Settling
        BY <2>1, <3>2, <3>3 DEF Moved, Settling
      <3>5. EndShown' /\ DamageStops'
        BY <2>1, <3>1, <3>2 DEF EndShown, DamageStops
      <3>6. QED BY <2>1, <3>1, <3>2, <3>4, <3>5 DEF SeenStep
    <2>3. CASE ~held.end
      <3>1. UNCHANGED <<phase, winner, terminated, finish, verdicts>>
        BY <1>1, <2>3 DEF ResumeLoop
      <3>2. Moved /\ Settling
        BY <2>1, <3>1 DEF Moved, Settling
      <3>3. EndShown'
        BY <2>3, <3>1 DEF SeenInv, EndShown
      <3>4. DamageStops'
        BY <1>1, <2>1, <3>1 DEF SeenInv, DamageStops
      <3>5. QED BY <2>1, <3>1, <3>2, <3>3, <3>4 DEF SeenStep
    <2>4. QED BY <2>2, <2>3
  <1>2. CASE released = "verdict" /\ ResumeVerdict
    <2>1. verdicts # {} /\ UNCHANGED <<round, held, pc>> /\ released' = "none"
      BY <1>2 DEF ResumeVerdict, GoOn
    <2>2. phase = "gameEnd"
      BY <2>1 DEF HostInv, VerdictHolds, SeenInv, Reported
    <2>3. PICK v \in verdicts : finish' = Resolved(v.seen)
      BY <1>2, <2>2 DEF ResumeVerdict
    <2>4. v.seen \in Player \union {Nobody}
      BY <2>3 DEF TypeOK, Verdict
    <2>5. UNCHANGED <<phase, winner>> /\ terminated' = TRUE
      BY <1>2, <2>2 DEF ResumeVerdict
    <2>6. Moved /\ Settling
      BY <2>1, <2>3, <2>4, <2>5 DEF Moved, Settling
    <2>7. EndShown' /\ DamageStops'
      BY <2>1, <2>2, <2>5 DEF SeenInv, EndShown, DamageStops
    <2>8. QED BY <2>1, <2>2, <2>5, <2>6, <2>7 DEF SeenStep
  <1>3. QED BY <1>1, <1>2 DEF GoOn

\* The program gives up where nothing is left to run.
LEMMA GiveUpSeen ==
  ASSUME TypeOK, SeenInv, ~CallbackGiveUp, NEW p \in Player, HostGiveUp(p)
  PROVE  SeenStep
  <1>1. Idle /\ GiveUp(p) /\ released' = released
    BY DEF HostGiveUp
  <1>2. /\ released = "none" /\ (held.open \/ pc \in {"idle", "done"})
        /\ GotWinner(flip(p)) /\ UNCHANGED <<round, held, pc>>
    BY <1>1 DEF Idle, GiveUp
  <1>3. flip(p) \in Player \union {Nobody}
    BY FlipType
  <1>4. QED BY <1>1, <1>2, <1>3, WinnerSeen

\* Its calls of step() leave the match alone, and report nothing.
LEMMA CallSeen ==
  ASSUME TypeOK, HostInv, SeenInv, CallStep
  PROVE  SeenInv' /\ SeenMatch
  <1> USE DEF flow, promise
  <1>1. CASE FirstStep
    <2>1. /\ UNCHANGED <<phase, round, winner, terminated, finish, verdicts>>
          /\ pc = "idle" /\ PauseThen("top") /\ status = "notStarted" /\ status' = "running"
      BY <1>1 DEF FirstStep, Start
    <2>2. ~held.open
      BY <2>1 DEF HostInv, Paused
    <2>3. pc' = "top"
      BY <2>1 DEF PauseThen
    <2>4. EndShown' /\ DamageStops'
      BY <2>1, <2>2, <2>3 DEF SeenInv, EndShown, DamageStops
    <2>5. Reported'
      BY <2>1 DEF SeenInv, Reported
    <2>6. SeenMatch
      BY <2>1 DEF SeenMatch, Seen!matchVars
    <2>7. QED BY <2>4, <2>5, <2>6 DEF SeenInv
  <1>2. CASE NextStep
    <2>1. /\ UNCHANGED <<phase, round, winner, terminated, finish, verdicts, held, pc, status>>
          /\ status = "running" /\ finish.status = "pending"
          /\ released = "none" /\ released' = newest
      BY <1>2 DEF NextStep, Idle, Unreported, vars
    <2>2. ~terminated
      BY <2>1 DEF HostInv, Told
    <2>3. ASSUME pc = "damage", held.open, phase = "gameEnd"
          PROVE  released' # "loop"
      <3>1. verdicts # {}
        BY <2>2, <2>3 DEF SeenInv, EndShown, DamageStops
      <3>2. newest = "verdict"
        BY <2>1, <2>2, <2>3, <3>1 DEF HostInv, VerdictHolds
      <3>3. QED BY <2>1, <3>2
    <2>4. EndShown' /\ DamageStops'
      BY <2>1, <2>3 DEF SeenInv, EndShown, DamageStops
    <2>5. Reported'
      BY <2>1 DEF SeenInv, Reported
    <2>6. SeenMatch
      BY <2>1 DEF SeenMatch, Seen!matchVars
    <2>7. QED BY <2>4, <2>5, <2>6 DEF SeenInv
  <1>3. QED BY <1>1, <1>2 DEF CallStep

\* The program is told of an ended match with its winner, or of a failed one.
LEMMA ReportSeen ==
  ASSUME TypeOK, SeenInv, Report
  PROVE  SeenInv' /\ SeenMatch
  <1>1. /\ UNCHANGED <<phase, round, winner, terminated, finish, verdicts, held, pc, released>>
        /\ status = "running" /\ finish.status # "pending"
        /\ status' = IF finish.status = "resolved" THEN "finished" ELSE "aborted"
    BY DEF Report, Unreported, vars, flow, promise
  <1>2. SeenInv'
    BY <1>1 DEF SeenInv, EndShown, DamageStops, Reported
  <1>3. CASE finish.status = "resolved"
    <2>1. phase = "gameEnd" /\ status' = "finished"
      BY <1>1, <1>3 DEF SeenInv, Reported
    <2>2. Seen!Publish
      BY <1>1, <2>1 DEF Seen!Publish, Seen!Publishes
    <2>3. QED BY <1>2, <2>2 DEF SeenMatch, Seen!Next
  <1>4. CASE finish.status # "resolved"
    <2>1. status' = "aborted"
      BY <1>1, <1>4
    <2>2. Seen!Abort
      BY <1>1, <2>1 DEF Seen!Abort, Seen!Nobody, Nobody
    <2>3. QED BY <1>2, <2>2 DEF SeenMatch, Seen!Next
  <1>5. QED BY <1>3, <1>4

-----------------------------------------------------------------------------
\* Every step of the host keeps the invariant and is a step of the match.
LEMMA HostSeenStep ==
  ASSUME TypeOK, InHome, HostInv, SeenInv, ~CallbackGiveUp, [HostNext]_hostVars
  PROVE  SeenInv' /\ SeenMatch
  <1>1. CASE GoOn \/ RunLoop \/ \E p \in Player : HostAnswer(p) \/ HostGiveUp(p)
    <2>1. SeenStep
      BY <1>1, GoOnSeen, RunSeen, AnswerSeen, GiveUpSeen
    <2>2. UNCHANGED status
      BY <1>1 DEF GoOn, RunLoop, HostAnswer, HostGiveUp
    <2>3. QED BY <2>1, <2>2, SeenKeeps, SeenMatches
  <1>2. CASE UNCHANGED hostVars
    <2>1. UNCHANGED <<phase, round, winner, status, terminated, finish, verdicts, held, pc,
                      released>>
      BY <1>2 DEF hostVars, host, vars, flow, promise
    <2>2. SeenMatch
      BY <2>1 DEF SeenMatch, Seen!matchVars
    <2>3. SeenInv'
      BY <2>1 DEF SeenInv, EndShown, DamageStops, Reported
    <2>4. QED BY <2>2, <2>3
  <1>3. QED BY <1>1, <1>2, CallSeen, ReportSeen DEF HostNext, Microtask

\* In a binding the end overtakes no skill that goes on.
THEOREM SeenInvariant == ASSUME ~CallbackGiveUp PROVE HostSpec => []SeenInv
  <1>1. HostInit => SeenInv
    BY DEF HostInit, Init, Pending, NotHeld, SeenInv, EndShown, DamageStops, Reported
  <1>2. TypeOK /\ InHome /\ HostInv /\ SeenInv /\ [HostNext]_hostVars => SeenInv'
    BY HostSeenStep
  <1>3. QED
    BY <1>1, <1>2, HostRunsGame, TypeCorrect, HomeInvariant, HostCorrect, PTL DEF HostSpec

\* What the program behind the binding reads of status and state is a match of
\* MatchSpec: the end it sees is final, and has the winner of the state.
THEOREM HostRefinement == ASSUME ~CallbackGiveUp PROVE HostSpec => HostSeesMatch
  <1>1. HostInit => Seen!Init
    BY DEF HostInit, Init, Seen!Init, Seen!Nobody, Nobody
  <1>2. TypeOK /\ InHome /\ HostInv /\ SeenInv /\ [HostNext]_hostVars
          => [Seen!Next]_(Seen!matchVars)
    BY HostSeenStep DEF SeenMatch
  <1>3. QED
    BY <1>1, <1>2, SeenInvariant, HostRunsGame, TypeCorrect, HomeInvariant, HostCorrect, PTL
       DEF HostSpec, HostSeesMatch, Seen!Spec
=============================================================================
