------------------------------ MODULE GameFlow ------------------------------
(***************************************************************************)
(* The life of one match: class Game of packages/core/src/game.ts with the *)
(* parts of StateMutator and SkillExecutor that suspend it.                *)
(*                                                                         *)
(* Game.start() runs one asynchronous loop.  It is suspended only while a  *)
(* player's rpc is outstanding or while the host's onPause callback has    *)
(* not returned; between two suspensions a segment of the loop is atomic.  *)
(* pc names the segment that runs next.  Beside the loop there may be      *)
(*   - one continuation per player that has been asked (Promise.all starts *)
(*     two of them; one goes on when the other has failed),                *)
(*   - calls of gotWinner() that nobody awaits: giveUp(), the round limit, *)
(*     the pause handler itself.  Those that are suspended in onPause are  *)
(*     the records of verdicts.                                            *)
(***************************************************************************)
EXTENDS Integers

CONSTANTS
  MaxRounds,    \* config.maxRoundsCount
  MaxRerolls,   \* bound: rerolls a player is offered by one request
  MaxActions,   \* bound: actions other than declareEnd in one round
  MaxEffects,   \* bound: skills and requests that one event sets off
  PromptPause   \* TRUE when onPause returns without waiting for an input

ASSUME GameFlowConstants ==
  /\ MaxRounds \in Nat /\ MaxActions \in Nat /\ MaxEffects \in Nat
  /\ MaxRerolls \in Nat \ {0}
  /\ PromptPause \in BOOLEAN

Player  == {0, 1}
Nobody  == -1                      \* the null of winner: 0 | 1 | null
flip(p) == 1 - p

Phase  == {"initHands", "initActives", "roll", "action", "end", "gameEnd"}
Method == {"rerollDice", "switchHands", "chooseActive", "selectCard", "action"}
Label  == {"idle", "top", "handsDealt", "askHands", "handsSwitched",
           "toInitActives", "activesChosen", "toRoll", "rollDice", "toAction",
           "decide", "act", "pay", "finishSlow", "finishFast", "drawTwo",
           "endRound", "tail", "settle", "damage", "done"}

\* Where the loop may go on after events have settled.
Resumption == {"top", "handsDealt", "toInitActives", "toRoll", "rollDice", "tail",
               "decide", "pay", "finishSlow", "finishFast", "drawTwo", "endRound"}

VARIABLES
  phase, turn, round, winner,  \* GameState.phase, currentTurn, roundNumber, winner
  ended, skip,                 \* PlayerState.declaredEnd, skipNextTurn
  dice, hands,                 \* PlayerState.dice and hands: how far they got
  terminated, finish,          \* Game._terminated, Game.finishResolvers
  verdicts,                    \* gotWinner() calls suspended in onPause
  pc, ret, held, waiting,      \* the loop: next segment, where handleEvent
                               \*   returns to, its onPause, the rpcs it awaits
  ask, rerolls,                \* per player: outstanding rpc, rerolls still due
  acts, effects                \* counters of the bounds

flow  == <<phase, turn, round, winner, ended, skip>>
board == <<dice, hands>>
promise == <<terminated, finish, verdicts>>
asked == <<ask, rerolls>>
bounds == <<acts, effects>>
vars  == <<flow, board, promise, pc, ret, held, waiting, asked, bounds>>

Pending  == [status |-> "pending", winner |-> Nobody]
NotHeld  == [open |-> FALSE, end |-> FALSE, winner |-> Nobody]

Init ==
  /\ phase = "initHands" /\ turn = 0 /\ round = 0 /\ winner = Nobody
  /\ ended = [p \in Player |-> FALSE] /\ skip = [p \in Player |-> FALSE]
  /\ dice = [p \in Player |-> "none"] /\ hands = [p \in Player |-> "none"]
  /\ terminated = FALSE /\ finish = Pending /\ verdicts = {}
  /\ pc = "idle" /\ ret = "top" /\ held = NotHeld /\ waiting = {}
  /\ ask = [p \in Player |-> "none"] /\ rerolls = [p \in Player |-> 0]
  /\ acts = 0 /\ effects = 0

-----------------------------------------------------------------------------
(***************************************************************************)
(* The pieces every segment is made of.                                    *)
(***************************************************************************)

\* Game.mutate() drops the mutation once the game is terminated.  The mutator
\* and the skill executor write the state directly, without this check.
Mutated(old, new) == IF terminated THEN old ELSE new

Resolved(w) == IF finish.status = "pending"
               THEN [status |-> "resolved", winner |-> w] ELSE finish
Rejected    == IF finish.status = "pending"
               THEN [status |-> "rejected", winner |-> Nobody] ELSE finish

\* Broken: _terminated is never set.
GotWinnerGoesOn(w) ==
  IF phase # "gameEnd"
  THEN /\ phase' = "gameEnd" /\ winner' = IF w = Nobody THEN winner ELSE w
       /\ verdicts' = verdicts \union {[arg |-> w, seen |-> winner']}
       /\ UNCHANGED <<terminated, finish>>
  ELSE finish' = Resolved(w) /\ UNCHANGED <<terminated, phase, winner, verdicts>>

\* gotWinner(w) up to its await: it ends the game and enters onPause, or, when
\* the phase is gameEnd already, settles the promise at once.
GotWinner(w) ==
  IF phase # "gameEnd" /\ ~terminated
  THEN /\ phase' = "gameEnd"
       /\ winner' = IF w = Nobody THEN winner ELSE w
       /\ verdicts' = verdicts \union {[arg |-> w, seen |-> winner']}
       /\ UNCHANGED <<terminated, finish>>
  ELSE /\ finish' = Resolved(w)
       /\ terminated' = TRUE
       /\ UNCHANGED <<phase, winner, verdicts>>

\* The loop may run the segment l.
At(l) == pc = l /\ ~held.open /\ waiting = {}

\* Broken: the host is shown the winner of the state before the segment.
PauseThenStale(l) ==
  /\ pc' = l
  /\ held' = IF terminated THEN NotHeld
             ELSE [open |-> TRUE, end |-> phase' = "gameEnd", winner |-> winner]

\* notifyAndPause(): the pause handler returns at once in a terminated game;
\* otherwise the host is called with the state as it is now.
PauseThen(l) ==
  /\ pc' = l
  /\ held' = IF terminated THEN NotHeld
             ELSE [open |-> TRUE, end |-> phase' = "gameEnd", winner |-> winner']

\* handleEvent(s): the loop settles events and then goes on at l.
SettleThen(l) == pc' = "settle" /\ ret' = l /\ effects' = 0

\* The catch of start() for every error but GiTcgIoError.
Fail == /\ pc' = "done"
        /\ finish' = Rejected
        /\ UNCHANGED <<terminated, verdicts>>

\* rpc() for the players of S at once, the loop awaiting all of them.
AskThen(S, method, l) ==
  IF terminated
  THEN Fail /\ UNCHANGED <<ask, waiting>>
  ELSE /\ ask' = [p \in Player |-> IF p \in S THEN method ELSE ask[p]]
       /\ waiting' = S
       /\ pc' = l
       /\ UNCHANGED promise

-----------------------------------------------------------------------------
(***************************************************************************)
(* start() and the phases.                                                 *)
(***************************************************************************)

Start ==
  /\ pc = "idle"
  /\ UNCHANGED flow
  /\ PauseThen("top")
  /\ UNCHANGED <<board, promise, ret, waiting, asked, bounds>>

LoopExit ==
  /\ At("top") /\ terminated
  /\ pc' = "done"
  /\ UNCHANGED <<flow, board, promise, ret, held, waiting, asked, bounds>>

\* case default: a phase that has no handler.
NoPhase ==
  /\ At("top") /\ ~terminated /\ phase = "gameEnd"
  /\ pc' = "tail"
  /\ UNCHANGED <<flow, board, promise, ret, held, waiting, asked, bounds>>

Tail ==
  /\ At("tail")
  /\ UNCHANGED flow
  /\ PauseThen("top")
  /\ UNCHANGED <<board, promise, ret, waiting, asked, bounds>>

Enter(ph) == At("top") /\ ~terminated /\ phase = ph

InitHands ==
  /\ Enter("initHands")
  /\ hands' = [p \in Player |-> "drawn"]
  /\ SettleThen("handsDealt")
  /\ UNCHANGED <<flow, dice, promise, held, waiting, asked, acts>>

HandsDealt ==
  /\ At("handsDealt")
  /\ UNCHANGED flow
  /\ PauseThen("askHands")
  /\ UNCHANGED <<board, promise, ret, waiting, asked, bounds>>

AskHands ==
  /\ At("askHands")
  /\ AskThen(Player, "switchHands", "handsSwitched")
  /\ UNCHANGED <<flow, board, ret, held, rerolls, bounds>>

HandsSwitched ==
  /\ At("handsSwitched")
  /\ SettleThen("toInitActives")
  /\ UNCHANGED <<flow, board, promise, held, waiting, asked, acts>>

ToInitActives ==
  /\ At("toInitActives")
  /\ phase' = Mutated(phase, "initActives")
  /\ pc' = "tail"
  /\ UNCHANGED <<turn, round, winner, ended, skip, board, promise>>
  /\ UNCHANGED <<ret, held, waiting, asked, bounds>>

InitActives ==
  /\ Enter("initActives")
  /\ AskThen(Player, "chooseActive", "activesChosen")
  /\ UNCHANGED <<flow, board, ret, held, rerolls, bounds>>

ActivesChosen ==
  /\ At("activesChosen")
  /\ SettleThen("toRoll")
  /\ UNCHANGED <<flow, board, promise, held, waiting, asked, acts>>

ToRoll ==
  /\ At("toRoll")
  /\ phase' = Mutated(phase, "roll")
  /\ round' = Mutated(round, round + 1)
  /\ acts' = 0
  /\ pc' = "tail"
  /\ UNCHANGED <<turn, winner, ended, skip, board, promise>>
  /\ UNCHANGED <<ret, held, waiting, asked, effects>>

RollPhase ==
  /\ Enter("roll")
  /\ SettleThen("rollDice")
  /\ UNCHANGED <<flow, board, promise, held, waiting, asked, acts>>

\* Broken: the phase changes before the rerolls.
RollDiceEarly ==
  /\ At("rollDice")
  /\ rerolls' = IF terminated THEN rerolls ELSE [p \in Player |-> 1]
  /\ dice' = Mutated(dice, [p \in Player |-> "rolled"])
  /\ phase' = Mutated(phase, "action")
  /\ AskThen(Player, "rerollDice", "toAction")
  /\ UNCHANGED <<turn, round, winner, ended, skip, hands, ret, held, bounds>>

RollDice ==
  /\ At("rollDice")
  /\ \E times \in [Player -> 1..MaxRerolls] :
       rerolls' = IF terminated THEN rerolls ELSE times
  /\ dice' = Mutated(dice, [p \in Player |-> "rolled"])
  /\ AskThen(Player, "rerollDice", "toAction")
  /\ UNCHANGED <<flow, hands, ret, held, bounds>>

ToAction ==
  /\ At("toAction")
  /\ phase' = Mutated(phase, "action")
  /\ SettleThen("tail")
  /\ UNCHANGED <<turn, round, winner, ended, skip, board, promise>>
  /\ UNCHANGED <<held, waiting, asked, acts>>

\* The end of actionPhase(): the round closes once both players declared it.
CloseRound ==
  phase' = Mutated(phase, IF \A p \in Player : ended[p] THEN "end" ELSE phase)

PassEnded ==
  /\ Enter("action") /\ ended[turn]
  /\ turn' = flip(turn)
  /\ CloseRound
  /\ pc' = "tail"
  /\ UNCHANGED <<round, winner, ended, skip, board, promise>>
  /\ UNCHANGED <<ret, held, waiting, asked, bounds>>

\* Broken: the flag is cleared, the turn stays.
PassSkippedStays ==
  /\ Enter("action") /\ ~ended[turn] /\ skip[turn]
  /\ skip' = [skip EXCEPT ![turn] = FALSE]
  /\ CloseRound
  /\ pc' = "tail"
  /\ UNCHANGED <<turn, round, winner, ended, board, promise>>
  /\ UNCHANGED <<ret, held, waiting, asked, bounds>>

PassSkipped ==
  /\ Enter("action") /\ ~ended[turn] /\ skip[turn]
  /\ skip' = [skip EXCEPT ![turn] = FALSE]
  /\ turn' = flip(turn)
  /\ CloseRound
  /\ pc' = "tail"
  /\ UNCHANGED <<round, winner, ended, board, promise>>
  /\ UNCHANGED <<ret, held, waiting, asked, bounds>>

\* Broken: skipNextTurn is not looked at.
BeforeActionAnyway ==
  /\ Enter("action") /\ ~ended[turn]
  /\ SettleThen("decide")
  /\ UNCHANGED <<flow, board, promise, held, waiting, asked, acts>>

BeforeAction ==
  /\ Enter("action") /\ ~ended[turn] /\ ~skip[turn]
  /\ SettleThen("decide")
  /\ UNCHANGED <<flow, board, promise, held, waiting, asked, acts>>

\* A replaceAction skill (a prepared skill) takes the player's turn.
ReplaceAction ==
  /\ At("decide") /\ acts < MaxActions
  /\ acts' = acts + 1
  /\ SettleThen("finishSlow")
  /\ UNCHANGED <<flow, board, promise, held, waiting, asked>>

AskAction ==
  /\ At("decide")
  /\ AskThen({turn}, "action", "act")
  /\ UNCHANGED <<flow, board, ret, held, rerolls, bounds>>

\* modifyAction0..3 of the chosen action, before it is paid.
ChooseAction ==
  /\ At("act")
  /\ SettleThen("pay")
  /\ UNCHANGED <<flow, board, promise, held, waiting, asked, acts>>

\* The index, and later the dice and energy, do not pass: GiTcgIoError(who).
InvalidAction ==
  /\ At("act") \/ At("pay")
  /\ GotWinner(flip(turn))
  /\ pc' = "done"
  /\ UNCHANGED <<turn, round, ended, skip, board>>
  /\ UNCHANGED <<ret, held, waiting, asked, bounds>>

\* useSkill, playCard, switchActive and elementalTuning, fast or not.
TakeAction ==
  /\ At("pay") /\ acts < MaxActions
  /\ acts' = acts + 1
  /\ \E l \in {"finishSlow", "finishFast"} : SettleThen(l)
  /\ UNCHANGED <<flow, board, promise, held, waiting, asked>>

DeclareEnd ==
  /\ At("pay")
  /\ ended' = Mutated(ended, [ended EXCEPT ![turn] = TRUE])
  /\ SettleThen("finishSlow")
  /\ UNCHANGED <<phase, turn, round, winner, skip, board, promise>>
  /\ UNCHANGED <<held, waiting, asked, acts>>

FinishAction(l) ==
  /\ At(l)
  /\ turn' = IF l = "finishSlow" THEN Mutated(turn, flip(turn)) ELSE turn
  /\ CloseRound
  /\ pc' = "tail"
  /\ UNCHANGED <<round, winner, ended, skip, board, promise>>
  /\ UNCHANGED <<ret, held, waiting, asked, bounds>>

EndPhase ==
  /\ Enter("end")
  /\ SettleThen("drawTwo")
  /\ UNCHANGED <<flow, board, promise, held, waiting, asked, acts>>

\* drawCardsPlain(who, 2) writes through the mutator, terminated or not.
DrawTwo ==
  /\ At("drawTwo")
  /\ hands' = [p \in Player |-> "drawn"]
  /\ SettleThen("endRound")
  /\ UNCHANGED <<flow, dice, promise, held, waiting, asked, acts>>

\* Broken: without stepRound.
EndRoundUncounted ==
  /\ At("endRound")
  /\ ended' = Mutated(ended, [p \in Player |-> FALSE])
  /\ phase' = Mutated(phase, "roll")
  /\ acts' = 0
  /\ pc' = "tail"
  /\ UNCHANGED <<turn, round, winner, promise, skip, board>>
  /\ UNCHANGED <<ret, held, waiting, asked, effects>>

\* The last segment of endPhase().  gotWinner(null) is not awaited: the loop
\* goes on to its tail while the verdict is still suspended.
EndRound ==
  /\ At("endRound")
  /\ ended' = Mutated(ended, [p \in Player |-> FALSE])
  /\ round' = Mutated(round, round + 1)
  /\ IF round' >= MaxRounds
     THEN GotWinner(Nobody)
     ELSE /\ phase' = Mutated(phase, "roll")
          /\ UNCHANGED <<winner, promise>>
  /\ acts' = 0
  /\ pc' = "tail"
  /\ UNCHANGED <<turn, skip, board, ret, held, waiting, asked, effects>>

-----------------------------------------------------------------------------
(***************************************************************************)
(* Settling events: SkillExecutor.handleEvent() and finalizeSkill(), as    *)
(* far as they suspend the loop or touch flow.                             *)
(***************************************************************************)

Settled ==
  /\ At("settle")
  /\ pc' = ret
  /\ UNCHANGED <<flow, board, promise, ret, held, waiting, asked, bounds>>

Effect == At("settle") /\ effects < MaxEffects /\ effects' = effects + 1

\* Broken: skills run in an ended game.
RunSkillAfterEnd ==
  /\ Effect
  /\ UNCHANGED flow
  /\ PauseThen("damage")
  /\ UNCHANGED <<board, promise, ret, waiting, asked, acts>>

\* Broken: continueNextTurn() skips a player who has declared the end.
RunSkillSkipsEnded ==
  /\ Effect /\ phase \in {"action", "end"}
  /\ skip' = [skip EXCEPT ![flip(turn)] = TRUE]
  /\ UNCHANGED <<phase, turn, round, winner, ended>>
  /\ PauseThen("damage")
  /\ UNCHANGED <<board, promise, ret, waiting, asked, acts>>

\* finalizeSkill() up to its first pause, with or without continueNextTurn().
\* That function itself checks only declaredEnd; that the player whose turn it
\* is not is skipped, and from the action phase on, is an assumption about
\* card data: it is what the cards that call it do.
RunSkill ==
  /\ Effect /\ phase # "gameEnd"
  /\ \/ UNCHANGED skip
     \/ /\ phase \in {"action", "end"} /\ ~ended[flip(turn)]
        /\ skip' = [skip EXCEPT ![flip(turn)] = TRUE]
  /\ UNCHANGED <<phase, turn, round, winner, ended>>
  /\ PauseThen("damage")
  /\ UNCHANGED <<board, promise, ret, waiting, asked, acts>>

\* Some character is about to fall: a pause, then modifyZeroHealth, whose
\* events may be damage again.
CriticalDamage ==
  /\ At("damage") /\ effects < MaxEffects
  /\ effects' = effects + 1
  /\ UNCHANGED flow
  /\ PauseThen("damage")
  /\ UNCHANGED <<board, promise, ret, waiting, asked, acts>>

\* The game goes on, after one more pause when the skill gains energy.
NoDefeat ==
  /\ At("damage")
  /\ UNCHANGED flow
  /\ PauseThen("settle") \/ (pc' = "settle" /\ UNCHANGED held)
  /\ UNCHANGED <<board, promise, ret, waiting, asked, bounds>>

\* Every character of a player has fallen, or of both: then nobody wins.
Defeat ==
  /\ At("damage")
  /\ phase' = "gameEnd"
  /\ \/ \E loser \in Player : winner' = flip(loser)
     \/ UNCHANGED winner
  /\ UNCHANGED <<turn, round, ended, skip>>
  /\ PauseThen("settle")
  /\ UNCHANGED <<board, promise, ret, waiting, asked, bounds>>

\* requestReroll, requestSwitchHands, requestSelectCard.
RequestPlayer ==
  /\ Effect
  /\ \E p \in Player, m \in {"rerollDice", "switchHands", "selectCard"} :
       /\ AskThen({p}, m, "settle")
       /\ rerolls' = [rerolls EXCEPT ![p] =
                        IF m = "rerollDice" /\ ~terminated THEN MaxRerolls ELSE @]
  /\ UNCHANGED <<flow, board, ret, held, acts>>

\* The active characters of the players in S were defeated.
ReplaceActive ==
  /\ Effect
  /\ \E S \in (SUBSET Player) \ {{}} : AskThen(S, "chooseActive", "settle")
  /\ UNCHANGED <<flow, board, ret, held, rerolls, acts>>

\* The code of a card throws, or nobody is left to choose from.
SkillError ==
  /\ Effect
  /\ Fail
  /\ UNCHANGED <<flow, board, ret, held, waiting, asked, acts>>

-----------------------------------------------------------------------------
(***************************************************************************)
(* What comes from outside: onPause returning, answers, giveUp, terminate. *)
(* An input is a task of its own, never run while the loop is runnable;    *)
(* with PromptPause neither while a pause is open.                         *)
(***************************************************************************)

InputReady ==
  /\ pc # "idle"
  /\ IF PromptPause
     THEN ~held.open /\ verdicts = {} /\ (waiting # {} \/ pc = "done")
     ELSE held.open \/ waiting # {} \/ pc = "done"

\* onPause of the loop returns; mutatorPauseHandler() then looks at the state
\* it was called with, not at the present one.
ResumeLoop ==
  /\ held.open
  /\ IF held.end THEN GotWinner(held.winner) ELSE UNCHANGED <<phase, winner, promise>>
  /\ held' = NotHeld
  /\ UNCHANGED <<turn, round, ended, skip, board, pc, ret, waiting, asked, bounds>>

\* onPause of a gotWinner() returns: the handler calls gotWinner() again with
\* the winner it saw, then the suspended call settles the promise.
ResumeVerdict ==
  \E v \in verdicts :
    /\ terminated' = TRUE
    /\ IF phase = "gameEnd" \/ terminated
       THEN /\ finish' = Resolved(v.seen)
            /\ verdicts' = verdicts \ {v}
            /\ UNCHANGED <<phase, winner>>
       ELSE /\ phase' = "gameEnd"
            /\ winner' = IF v.seen = Nobody THEN winner ELSE v.seen
            /\ verdicts' = (verdicts \ {v})
                             \union {[arg |-> v.seen, seen |-> winner']}
            /\ finish' = Resolved(v.arg)
    /\ UNCHANGED <<turn, round, ended, skip, board, pc, ret, held, waiting>>
    /\ UNCHANGED <<asked, bounds>>

\* Broken: Promise.race where Promise.all is meant.
AnsweredRace(p) ==
  /\ ask' = [ask EXCEPT ![p] = "none"]
  /\ waiting' = {}
  /\ UNCHANGED <<promise, pc>>

\* p's continuation is done; the loop that awaits it has one less to await.
Answered(p) ==
  /\ ask' = [ask EXCEPT ![p] = "none"]
  /\ waiting' = waiting \ {p}
  /\ UNCHANGED <<promise, pc>>

AnswerAction(p) ==
  /\ InputReady /\ ask[p] \in {"action", "chooseActive"}
  /\ Answered(p)
  /\ UNCHANGED <<flow, board, ret, held, rerolls, bounds>>

AnswerCards(p) ==
  /\ InputReady /\ ask[p] \in {"switchHands", "selectCard"}
  /\ hands' = [hands EXCEPT ![p] = "changed"]
  /\ Answered(p)
  /\ UNCHANGED <<flow, dice, ret, held, rerolls, bounds>>

KeepDice(p) ==
  /\ InputReady /\ ask[p] = "rerollDice"
  /\ Answered(p)
  /\ UNCHANGED <<flow, board, ret, held, rerolls, bounds>>

\* Broken: i <= times in the loop of reroll().
RerollDiceOnceMore(p) ==
  /\ InputReady /\ ask[p] = "rerollDice"
  /\ dice' = [dice EXCEPT ![p] = "rerolled"]
  /\ rerolls' = [rerolls EXCEPT ![p] = @ - 1]
  /\ \/ rerolls[p] = 0 /\ Answered(p)
     \/ rerolls[p] > 0 /\ UNCHANGED <<ask, waiting, promise, pc>>
  /\ UNCHANGED <<flow, hands, ret, held, bounds>>

\* reroll() replaces the dice and asks again while rerolls are due; the rpc of
\* a terminated game throws, into whoever still awaits p.
RerollDice(p) ==
  /\ InputReady /\ ask[p] = "rerollDice"
  /\ dice' = [dice EXCEPT ![p] = "rerolled"]
  /\ rerolls' = [rerolls EXCEPT ![p] = @ - 1]
  /\ \/ rerolls[p] = 1 /\ Answered(p)
     \/ rerolls[p] > 1 /\ ~terminated /\ UNCHANGED <<ask, waiting, promise, pc>>
     \/ /\ rerolls[p] > 1 /\ terminated
        /\ ask' = [ask EXCEPT ![p] = "none"]
        /\ IF p \in waiting
           THEN Fail /\ waiting' = {}
           ELSE UNCHANGED <<promise, pc, waiting>>
  /\ UNCHANGED <<flow, hands, ret, held, bounds>>

\* rpc() of p rejects or its answer does not verify: GiTcgIoError(p), caught
\* by start() unless the loop stopped awaiting p.
BadAnswer(p) ==
  /\ InputReady /\ ask[p] # "none"
  /\ ask' = [ask EXCEPT ![p] = "none"]
  /\ IF p \in waiting
     THEN /\ GotWinner(flip(p))
          /\ pc' = "done"
          /\ waiting' = {}
     ELSE UNCHANGED <<phase, winner, promise, pc, waiting>>
  /\ UNCHANGED <<turn, round, ended, skip, board, ret, held, rerolls, bounds>>

GiveUp(p) ==
  /\ InputReady
  /\ GotWinner(flip(p))
  /\ UNCHANGED <<turn, round, ended, skip, board, pc, ret, held, waiting>>
  /\ UNCHANGED <<asked, bounds>>

\* The server's timeoutRpc() for a guest who was late too often: it gives up
\* for him and rejects his rpc in the same task.
GuestTimeout(p) ==
  /\ InputReady /\ ask[p] # "none"
  /\ ask' = [ask EXCEPT ![p] = "none"]
  /\ IF p \notin waiting
     THEN GotWinner(flip(p)) /\ UNCHANGED <<pc, waiting>>
     ELSE /\ IF phase # "gameEnd" /\ ~terminated
             THEN /\ phase' = "gameEnd" /\ winner' = flip(p)
                  /\ verdicts' = verdicts \union {[arg |-> flip(p), seen |-> flip(p)]}
             ELSE UNCHANGED <<phase, winner, verdicts>>
          /\ finish' = Resolved(flip(p)) /\ terminated' = TRUE
          /\ pc' = "done" /\ waiting' = {}
  /\ UNCHANGED <<turn, round, ended, skip, board, ret, held, rerolls, bounds>>

Terminate ==
  /\ InputReady
  /\ finish' = Rejected
  /\ terminated' = TRUE
  /\ UNCHANGED <<flow, board, verdicts, pc, ret, held, waiting, asked, bounds>>

-----------------------------------------------------------------------------
Loop ==
  \/ Start \/ LoopExit \/ NoPhase \/ Tail
  \/ InitHands \/ HandsDealt \/ AskHands \/ HandsSwitched \/ ToInitActives
  \/ InitActives \/ ActivesChosen \/ ToRoll
  \/ RollPhase \/ RollDice \/ ToAction
  \/ PassEnded \/ PassSkipped \/ BeforeAction \/ ReplaceAction \/ AskAction
  \/ ChooseAction \/ InvalidAction \/ TakeAction \/ DeclareEnd
  \/ \E l \in {"finishSlow", "finishFast"} : FinishAction(l)
  \/ EndPhase \/ DrawTwo \/ EndRound
  \/ Settled \/ RunSkill \/ CriticalDamage \/ NoDefeat \/ Defeat
  \/ RequestPlayer \/ ReplaceActive \/ SkillError

Answer(p) == \/ AnswerAction(p) \/ AnswerCards(p)
             \/ KeepDice(p) \/ RerollDice(p) \/ BadAnswer(p) \/ GuestTimeout(p)

Next == \/ Loop \/ ResumeLoop \/ ResumeVerdict
        \/ \E p \in Player : Answer(p) \/ GiveUp(p)
        \/ Terminate

Spec == Init /\ [][Next]_vars

\* The loop and the continuations are microtasks of the JavaScript engine, the
\* host's onPause returns, and the io of a player answers or fails (the server
\* answers for him when his time is over).  giveUp and terminate are nobody's
\* obligation.
Fairness == /\ WF_vars(Loop) /\ WF_vars(ResumeLoop) /\ WF_vars(ResumeVerdict)
            /\ \A p \in Player : WF_vars(Answer(p))

FairSpec == Spec /\ Fairness

-----------------------------------------------------------------------------
(***************************************************************************)
(* Properties.                                                             *)
(***************************************************************************)

Verdict == [arg : Player \union {Nobody}, seen : Player \union {Nobody}]

\* The type of the state.
TypeOK ==
  /\ phase \in Phase /\ turn \in Player /\ round \in Nat
  /\ winner \in Player \union {Nobody}
  /\ ended \in [Player -> BOOLEAN] /\ skip \in [Player -> BOOLEAN]
  /\ dice \in [Player -> {"none", "rolled", "rerolled"}]
  /\ hands \in [Player -> {"none", "drawn", "changed"}]
  /\ terminated \in BOOLEAN
  /\ finish \in [status : {"pending", "resolved", "rejected"},
                 winner : Player \union {Nobody}]
  /\ verdicts \subseteq Verdict
  /\ pc \in Label /\ ret \in Resumption /\ waiting \subseteq Player
  /\ held \in [open : BOOLEAN, end : BOOLEAN, winner : Player \union {Nobody}]
  /\ ask \in [Player -> Method \union {"none"}]
  /\ rerolls \in [Player -> 0..MaxRerolls]
  /\ acts \in 0..MaxActions /\ effects \in 0..MaxEffects

\* What start() resolves to is the winner of a game that has ended.
ResultIsWinner ==
  finish.status = "resolved" => phase = "gameEnd" /\ finish.winner = winner

\* A winner is set only in a game that has ended.
WinnerOnlyAtEnd == winner # Nobody => phase = "gameEnd"

\* A game that has ended stays ended, with the winner it has: no second cause
\* of the end and no phase of the loop undoes it.
EndIsFinal ==
  [][phase = "gameEnd" => phase' = "gameEnd" /\ winner' = winner]_vars

\* terminate() promises that nothing is changed any more.
FrozenAfterTerminate == [][terminated => UNCHANGED <<flow, board>>]_vars

\* Whoever is asked for an action has the turn, has not declared the end of
\* his round and is not being skipped; the rpc outlives only the game.
TurnDiscipline ==
  \A p \in Player : ask[p] = "action" =>
    /\ p = turn /\ ~ended[p] /\ ~skip[p]
    /\ phase \in {"action", "gameEnd"}
    /\ ask[flip(p)] # "action"

\* A round is over only when both players declared its end, a round starts
\* with both of them in it, and no turn is skipped across a round's end.
RoundDiscipline ==
  /\ phase = "end" => \A p \in Player : ended[p] /\ ~skip[p]
  /\ phase \in {"initHands", "initActives", "roll"} =>
       \A p \in Player : ~ended[p] /\ ~skip[p]

\* A granted extra turn is not lost: the flag of a player is cleared only where
\* the turn that was his passes, in the action phase, to the other one.
SkipIsHonored ==
  [][\A p \in Player : skip[p] /\ ~skip'[p] =>
       phase = "action" /\ turn = p /\ turn' = flip(p)]_vars

\* The loop never asks a player who has not answered its previous request.
OneRpcPerPlayer ==
  [][\A p \in Player : waiting = {} /\ p \in waiting' => ask[p] = "none"]_vars

\* What the result and the end of a prompt game rest on: whatever ends the
\* game is on its way to settle the promise with the winner that was set, and
\* until then the loop is where it cannot touch the phase.
EndUnderWay ==
  \/ terminated
  \/ held.open /\ held.end
  \/ verdicts # {} /\ (waiting # {} \/ pc \in {"tail", "top", "done"})

FlowInv ==
  /\ ResultIsWinner
  /\ WinnerOnlyAtEnd
  /\ \A v \in verdicts : phase = "gameEnd" /\ v.seen = winner /\ v.arg = winner
  /\ held.open /\ held.end => phase = "gameEnd" /\ held.winner = winner
  /\ phase = "gameEnd" => EndUnderWay
  /\ terminated => finish.status # "pending"
  /\ finish.status # "pending" => terminated \/ pc = "done"
  /\ pc = "idle" => phase # "gameEnd" /\ ~held.open /\ waiting = {}
  /\ pc = "damage" => phase # "gameEnd" /\ waiting = {}

\* The host of a prompt game sees the match that MatchSpec promises.
Match == INSTANCE MatchSpec WITH
           stage <- phase, victor <- winner, outcome <- finish,
           RoundLimit <- MaxRounds
ImplementsMatch == Match!Spec

\* The segment the loop is in, or goes on at when the events have settled.
Place == IF pc \in {"settle", "damage"} THEN ret ELSE pc

\* A handler never goes on in the phase of another one, however long its
\* suspension lasted and whatever happened meanwhile; the game may have ended.
InHome ==
  phase # "gameEnd" =>
    /\ Place \in {"handsDealt", "askHands", "handsSwitched", "toInitActives"}
         => phase = "initHands"
    /\ Place \in {"activesChosen", "toRoll"} => phase = "initActives"
    /\ Place \in {"rollDice", "toAction"} => phase = "roll"
    /\ Place \in {"decide", "act", "pay", "finishSlow", "finishFast"}
         => phase = "action"
    /\ Place \in {"drawTwo", "endRound"} => phase = "end"

\* The loop of start() ends.
LoopEnds == pc # "idle" ~> pc = "done"
=============================================================================
