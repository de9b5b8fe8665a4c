----------------------------- MODULE MatchSpec -----------------------------
(***************************************************************************)
(* What a match promises to the program that hosts it, without a word on   *)
(* the loop, the players' requests or the pauses: the phases come in the   *)
(* order of the rules, the match ends once, and the promise of start() is  *)
(* settled once, with the winner of the ended match unless it is rejected. *)
(***************************************************************************)
EXTENDS Integers

CONSTANT RoundLimit

Player == {0, 1}
Nobody == -1

VARIABLES
  stage,    \* the phase
  round,    \* the number of the round
  victor,   \* the winner of the ended match, Nobody before and in a draw
  outcome   \* the promise of start()

matchVars == <<stage, round, victor, outcome>>

Init == /\ stage = "initHands" /\ round = 0 /\ victor = Nobody
        /\ outcome = [status |-> "pending", winner |-> Nobody]

\* The phases from -> to that follow each other, and the rounds they take.
Order == { [from |-> "initHands",   to |-> "initActives", rounds |-> 0],
           [from |-> "initActives", to |-> "roll",        rounds |-> 1],
           [from |-> "roll",        to |-> "action",      rounds |-> 0],
           [from |-> "action",      to |-> "end",         rounds |-> 0],
           [from |-> "end",         to |-> "roll",        rounds |-> 1] }

\* The next phase; the one that follows the last round is never entered.
Advance ==
  /\ outcome.status = "pending"
  /\ \E o \in Order : /\ stage = o.from /\ stage' = o.to
                      /\ round' = round + o.rounds
                      /\ stage = "end" => round' < RoundLimit
  /\ UNCHANGED <<victor, outcome>>

Publishes(w) == outcome.status = "pending"
                  /\ outcome' = [status |-> "resolved", winner |-> w]

\* The match ends, and with it perhaps the promise.
Conclude(w) ==
  /\ stage # "gameEnd" /\ stage' = "gameEnd" /\ victor' = w
  /\ UNCHANGED outcome \/ Publishes(w)
  /\ UNCHANGED round

\* The draw when the rounds are used up.
RunOut ==
  /\ stage = "end" /\ stage' = "gameEnd"
  /\ round' = round + 1 /\ round' >= RoundLimit
  /\ UNCHANGED <<victor, outcome>>

Publish == stage = "gameEnd" /\ Publishes(victor) /\ UNCHANGED <<stage, round, victor>>

Abort == /\ outcome.status = "pending"
         /\ outcome' = [status |-> "rejected", winner |-> Nobody]
         /\ UNCHANGED <<stage, round, victor>>

Next == \/ Advance \/ RunOut \/ Publish \/ Abort
        \/ \E w \in Player \union {Nobody} : Conclude(w)

Spec == Init /\ [][Next]_matchVars
=============================================================================
