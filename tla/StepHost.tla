------------------------------ MODULE StepHost ------------------------------
(***************************************************************************)
(* The C binding, packages/cbinding/js/main.ts, as the host of a match.    *)
(*                                                                         *)
(* The program in C calls step() and giveUp() and is called back for the   *)
(* players' requests, which it answers at once.  step() lets the match run *)
(* to its next pause: it takes two resolvers, the one it waits for and the *)
(* one the pause waits for.  A pause that opens while another one is open  *)
(* replaces that resolver, so only the newest pause can be released.       *)
(*                                                                         *)
(* The engine's microtasks run to the end before a call of the program     *)
(* returns; Idle says that none is left, and only then the program acts.   *)
(***************************************************************************)
EXTENDS GameFlow

CONSTANT CallbackGiveUp  \* whether giveUp() is called while a request is answered

ASSUME StepHostConstants == ~PromptPause /\ CallbackGiveUp \in BOOLEAN

VARIABLES
  status,      \* #status
  stepping,    \* step() awaits #stepResolvers
  newest,      \* the pause that awaits the present #stepDoneResolvers
  released     \* the pause whose resolver was resolved and that has yet to go on

host == <<status, stepping, newest, released>>
hostVars == <<vars, host>>

HostInit ==
  /\ Init
  /\ status = "notStarted" /\ stepping = FALSE
  /\ newest = "none" /\ released = "none"

-----------------------------------------------------------------------------
\* start() of the match has settled its promise and step() has not seen it.
Unreported == finish.status # "pending" /\ status = "running"

\* Nothing is left to run until the program calls again.
Idle ==
  /\ pc \in {"idle", "done"} \/ held.open
  /\ waiting = {} /\ \A p \in Player : ask[p] = "none"
  /\ released = "none" /\ ~Unreported

\* The pause that opens in this step, if one does.
Opened == CASE verdicts' \ verdicts # {}    -> "verdict"
            [] held'.open /\ ~held.open     -> "loop"
            [] OTHER                        -> "none"

\* Broken: a pause does not wake step().
OnPauseSilent ==
  IF Opened = "none"
  THEN UNCHANGED <<newest, stepping>>
  ELSE newest' = Opened /\ UNCHANGED stepping

\* #onPause() up to its await.
OnPause ==
  IF Opened = "none"
  THEN UNCHANGED <<newest, stepping>>
  ELSE newest' = Opened /\ stepping' = FALSE

-----------------------------------------------------------------------------
\* The first step(): start() opens its first pause before step() resolves
\* #stepDoneResolvers, so that pause is released by the step that starts it.
FirstStep ==
  /\ Idle /\ status = "notStarted"
  /\ Start
  /\ status' = "running" /\ stepping' = TRUE
  /\ released' = "loop" /\ newest' = "none"

\* Broken: the pause that was open first is released.
NextStepOldest ==
  /\ Idle /\ status = "running"
  /\ stepping' = TRUE
  /\ released' = IF held.open THEN "loop" ELSE newest
  /\ newest' = "none"
  /\ UNCHANGED <<vars, status>>

NextStep ==
  /\ Idle /\ status = "running"
  /\ stepping' = TRUE
  /\ released' = newest /\ newest' = "none"
  /\ UNCHANGED <<vars, status>>

\* #onPause() after its await, and the handler of the match behind it.
GoOn ==
  /\ \/ released = "loop" /\ ResumeLoop
     \/ released = "verdict" /\ ResumeVerdict
  /\ released' = "none"
  /\ OnPause
  /\ UNCHANGED status

RunLoop == pc # "idle" /\ Loop /\ OnPause /\ UNCHANGED <<status, released>>

\* #rpc(): the callback answers, or what it answers cannot be decoded or used.
HostAnswer(p) ==
  /\ \/ AnswerAction(p) \/ AnswerCards(p) \/ KeepDice(p) \/ RerollDice(p)
     \/ BadAnswer(p)
  /\ OnPause
  /\ UNCHANGED <<status, released>>

\* The then and the catch of start().
Report ==
  /\ Unreported
  /\ status' = IF finish.status = "resolved" THEN "finished" ELSE "aborted"
  /\ stepping' = FALSE
  /\ UNCHANGED <<vars, newest, released>>

HostGiveUp(p) ==
  /\ Idle \/ (CallbackGiveUp /\ waiting # {})
  /\ GiveUp(p)
  /\ OnPause
  /\ UNCHANGED <<status, released>>

-----------------------------------------------------------------------------
Microtask == GoOn \/ RunLoop \/ Report \/ \E p \in Player : HostAnswer(p)
CallStep  == FirstStep \/ NextStep

HostNext == Microtask \/ CallStep \/ \E p \in Player : HostGiveUp(p)

HostSpec == HostInit /\ [][HostNext]_hostVars

\* The engine runs its microtasks and the program goes on stepping.
HostFairness == WF_hostVars(Microtask) /\ WF_hostVars(CallStep)

FairHostSpec == HostSpec /\ HostFairness

-----------------------------------------------------------------------------
\* step() returns: when nothing is left to run, the promise that it handed to
\* its caller is not pending, though of two open pauses the older one is
\* abandoned.  The library aborts the program otherwise.
StepReturns == Idle => ~stepping

\* A program that goes on stepping sees the end of its match.
MatchEnds == status = "running" ~> status \in {"finished", "aborted"}

\* What the program reads of status and state is a match as MatchSpec has it.
Seen == INSTANCE MatchSpec WITH
          stage <- phase, victor <- winner, RoundLimit <- MaxRounds,
          outcome <- [status |-> CASE status = "finished" -> "resolved"
                                   [] status = "aborted"  -> "rejected"
                                   [] OTHER               -> "pending",
                      winner |-> IF status = "finished" THEN winner ELSE Nobody]
HostSeesMatch == Seen!Spec
=============================================================================
