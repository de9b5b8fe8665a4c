----------------------------- MODULE Settlement -----------------------------
(***************************************************************************)
(* How a skill is settled: core/src/skill_executor.ts with the heal,       *)
(* damage and chooseActive of core/src/mutator.ts.                         *)
(*                                                                         *)
(* finalizeSkill() runs a skill, decides who falls, lets the wards that    *)
(* make a character immune act, broadcasts the events, each of which may   *)
(* have further skills settled by a nested finalizeSkill(), and at last    *)
(* has the players replace their fallen active characters.  The state it   *)
(* looks at after a nested call is not the one it looked at before.        *)
(*                                                                         *)
(* What skills do is card data: a skill strikes some characters, or mends  *)
(* or revives one.  Wards come in two kinds, after ElectroCrystalCore,     *)
(* used up when it saves its character, and OdeOfResurrection, which       *)
(* saves for dice of its player and costs one more each time.              *)
(***************************************************************************)
EXTENDS Integers, Sequences, FiniteSets

CONSTANTS
  Slots,          \* characters of a player
  MaxHealth,
  Dice,           \* dice of each player
  OdesPerPlayer,  \* how many characters of a player have the Ode
  MaxWards,       \* bound: characters that have a ward
  MaxSkills       \* bound: skills settled, nested ones included

ASSUME SettlementConstants ==
  /\ Slots \in Nat \ {0} /\ MaxHealth \in Nat \ {0}
  /\ Dice \in Nat /\ OdesPerPlayer \in Nat /\ MaxWards \in Nat
  /\ MaxSkills \in Nat

Player == {0, 1}
Char   == Player \X (1..Slots)
Nobody == -1

Owner(c) == c[1]
Flip(p)  == 1 - p

VARIABLES
  phase, winner,
  health, alive, active,
  core,    \* the characters with an ElectroCrystalCore
  ode,     \* what the Ode of a character costs next, 0 where there is none
  dice,
  stack,   \* the calls of finalizeSkill(), the outermost first
  thrown,  \* the error that left the outermost call
  skills   \* how many skills were executed

board == <<health, alive, active, core, ode, dice>>
vars  == <<phase, winner, board, stack, thrown, skills>>

Places == {"settle", "immune", "events", "choose", "after"}

Frame == [at       : Places,
          deadly   : SUBSET Char,   \* whom damage with causeDefeated has hit
          saved    : SUBSET Char,   \* whose modifyZeroHealth is to be handled
          critical : BOOLEAN,       \* criticalDamageEvents is not empty
          asked    : SUBSET Player, \* whose howToChooseActive is pending
          chosen   : SUBSET Char]   \* what has been answered

Init ==
  /\ phase = "action" /\ winner = Nobody
  /\ health = [c \in Char |-> MaxHealth]
  /\ alive = [c \in Char |-> TRUE]
  /\ active = [p \in Player |-> <<p, 1>>]
  /\ \E odes \in SUBSET Char :
       /\ \A p \in Player :
            Cardinality({c \in odes : Owner(c) = p}) <= OdesPerPlayer
       /\ ode = [c \in Char |-> IF c \in odes THEN 1 ELSE 0]
       /\ core \in SUBSET (Char \ odes)
       /\ Cardinality(odes \union core) <= MaxWards
  /\ dice = [p \in Player |-> Dice]
  /\ stack = <<>> /\ thrown = "nothing" /\ skills = 0

-----------------------------------------------------------------------------
Top == stack[Len(stack)]
At(place) == stack # <<>> /\ Top.at = place

GoTo(frame) == stack' = [stack EXCEPT ![Len(stack)] = frame]
Return      == stack' = SubSeq(stack, 1, Len(stack) - 1)
Throw(what) == thrown' = what /\ stack' = <<>>

\* A skill may be settled: by the game, or in answer to an event of the
\* innermost call.  finalizeSkill() does nothing once the game has ended.
MaySettle ==
  /\ phase # "gameEnd" /\ thrown = "nothing" /\ skills < MaxSkills
  /\ stack = <<>> \/ At("events") \/ At("after")

Execute(deadly) ==
  /\ stack' = Append(stack, [at |-> "settle", deadly |-> deadly, saved |-> {},
                             critical |-> FALSE, asked |-> {}, chosen |-> {}])
  /\ skills' = skills + 1

\* switchActive() to each of chosen, at most one character of a player.
Switched(chosen) ==
  [p \in Player |-> IF \E c \in chosen : Owner(c) = p
                    THEN CHOOSE c \in chosen : Owner(c) = p ELSE active[p]]

\* damage(): health stops at zero; a character at zero is still alive.  A skill
\* or its reaction may also switch to a character, be it one it has just hit.
\* Hits are a set: preprocessEventList() makes one event of all the damage that
\* a skill does to a character.
Strike(hits, value, to) ==
  /\ MaySettle
  /\ active' = Switched(to)
  /\ health' = [c \in Char |-> IF c \notin hits THEN health[c]
                               ELSE IF health[c] <= value THEN 0
                               ELSE health[c] - value]
  /\ Execute({c \in hits : health[c] <= value})
  /\ UNCHANGED <<phase, winner, alive, core, ode, dice, thrown>>

\* heal() of a character: one at zero health that is not being saved is an
\* internal error; one that has fallen is revived.
Mend(c) ==
  /\ MaySettle
  /\ IF alive[c] /\ health[c] = 0
     THEN Throw("heal") /\ UNCHANGED <<health, alive, skills>>
     ELSE /\ health' = [health EXCEPT ![c] = IF @ = MaxHealth THEN @ ELSE @ + 1]
          /\ alive' = [alive EXCEPT ![c] = TRUE]
          /\ Execute({}) /\ UNCHANGED thrown
  /\ UNCHANGED <<phase, winner, active, core, ode, dice>>

-----------------------------------------------------------------------------
\* checkImmune(): a ward of c would act in the present state.
CheckImmune(c) == c \in core \/ (ode[c] > 0 /\ dice[Owner(c)] >= ode[c])

\* Broken: the survivors are counted before the fall is recorded.
FailedStale(fallen) ==
  {p \in Player : fallen # {} /\ \A c \in Char : Owner(c) = p => ~alive[c]}

\* The players whose last character is among the fallen.
Failed(fallen) ==
  {p \in Player : /\ \E c \in fallen : Owner(c) = p
                  /\ \A c \in Char : Owner(c) = p => ~alive[c] \/ c \in fallen}

\* Broken: the first player who fails loses, whoever else does.
VerdictFirst(failed) ==
  LET loser == CHOOSE p \in failed : \A q \in failed : p <= q
  IN  phase' = "gameEnd" /\ winner' = Flip(loser) /\ Return

\* Both have failed: nobody wins.
Verdict(failed) ==
  /\ phase' = "gameEnd"
  /\ winner' = IF failed = Player THEN winner ELSE Flip(CHOOSE p \in failed : TRUE)
  /\ Return

\* The loop of finalizeSkill() over the damage that the skill has dealt.
Settle ==
  /\ At("settle")
  /\ LET saved  == {c \in Top.deadly : CheckImmune(c)}
         fallen == {c \in Top.deadly \ saved : alive[c]}
         failed == Failed(fallen)
     IN  /\ alive' = [c \in Char |-> alive[c] /\ c \notin fallen]
         /\ IF failed # {} THEN Verdict(failed)
            ELSE /\ GoTo([Top EXCEPT !.at = IF saved = {} THEN "events" ELSE "immune",
                                     !.saved = saved,
                                     !.critical = Top.deadly # {}])
                 /\ UNCHANGED <<phase, winner>>
  /\ UNCHANGED <<health, active, core, ode, dice, thrown, skills>>

\* Broken: the first ward that acts ends the loop.
StillSavedNone(c) == {}

StillSaved(c) == Top.saved \ {c}

\* handleEventShallow() of modifyZeroHealth: the ward looks at the state anew.
\* After the last one the loop finds heal events only, and ends.
Immune(c) ==
  /\ At("immune") /\ c \in Top.saved
  /\ IF CheckImmune(c)
     THEN /\ health' = [health EXCEPT ![c] = 1]
          /\ IF c \in core
             THEN core' = core \ {c} /\ UNCHANGED <<ode, dice>>
             ELSE /\ dice' = [dice EXCEPT ![Owner(c)] = @ - ode[c]]
                  /\ ode' = [ode EXCEPT ![c] = @ + 1]
                  /\ UNCHANGED core
     ELSE UNCHANGED <<health, core, ode, dice>>
  /\ GoTo([Top EXCEPT !.saved = StillSaved(c),
                      !.at = IF StillSaved(c) = {} THEN "events" ELSE "immune"])
  /\ UNCHANGED <<phase, winner, alive, active, thrown, skills>>

-----------------------------------------------------------------------------
\* Broken: only the player whose opponent struck is looked at.
ActiveFallenOfOne == {p \in {1} : ~alive[active[p]]}

ActiveFallen == {p \in Player : ~alive[active[p]]}

Candidates(p) == {c \in Char : Owner(c) = p /\ alive[c] /\ c # active[p]}

\* The events have been handled.  chooseActive() of a player throws where
\* nobody is left, and its rpc throws where the game has ended.
EventsDone ==
  /\ At("events")
  /\ IF ~Top.critical \/ ActiveFallen = {}
     THEN Return /\ UNCHANGED thrown
     ELSE IF phase = "gameEnd" \/ \E p \in ActiveFallen : Candidates(p) = {}
          THEN Throw("chooseActive")
          ELSE GoTo([Top EXCEPT !.at = "choose", !.asked = ActiveFallen,
                                   !.chosen = {}])
               /\ UNCHANGED thrown
  /\ UNCHANGED <<phase, winner, board, skills>>

\* A player answers; when all who were asked have, their active characters
\* are switched.
ChooseActive(p, c) ==
  /\ At("choose") /\ p \in Top.asked /\ c \in Candidates(p)
  /\ LET chosen == Top.chosen \union {c}
     IN  IF Top.asked = {p}
         THEN /\ active' = Switched(chosen)
              /\ GoTo([Top EXCEPT !.asked = {}, !.at = "after"])
         ELSE /\ GoTo([Top EXCEPT !.asked = @ \ {p}, !.chosen = chosen])
              /\ UNCHANGED active
  /\ UNCHANGED <<phase, winner, health, alive, core, ode, dice, thrown, skills>>

\* The request of a player fails: the GiTcgIoError leaves all calls.
ChooseFails ==
  /\ At("choose")
  /\ Throw("io") /\ UNCHANGED <<phase, winner, board, skills>>

\* The onSwitchActive events have been handled.
AfterDone ==
  /\ At("after")
  /\ Return /\ UNCHANGED <<phase, winner, board, thrown, skills>>

\* Bound: a skill that switches hits one character at most, as Overloaded does.
SwitchesWith(hits) ==
  {to \in SUBSET {c \in Char : alive[c]} :
     to = {} \/ (Cardinality(to) = 1 /\ Cardinality(hits) <= 1)}

Next ==
  \/ \E hits \in SUBSET {c \in Char : alive[c]}, value \in 1..MaxHealth :
       \E to \in SwitchesWith(hits) : Strike(hits, value, to)
  \/ \E c \in Char : Mend(c) \/ Immune(c)
  \/ Settle \/ EventsDone \/ ChooseFails \/ AfterDone
  \/ \E p \in Player, c \in Char : ChooseActive(p, c)

Spec == Init /\ [][Next]_vars

-----------------------------------------------------------------------------
TypeOK ==
  /\ phase \in {"action", "gameEnd"} /\ winner \in {Nobody} \union Player
  /\ health \in [Char -> 0..MaxHealth] /\ alive \in [Char -> BOOLEAN]
  /\ active \in [Player -> Char] /\ \A p \in Player : Owner(active[p]) = p
  /\ core \subseteq Char /\ ode \in [Char -> Nat] /\ dice \in [Player -> Nat]
  /\ stack \in Seq(Frame)
  /\ thrown \in {"nothing", "heal", "chooseActive", "io"}
  /\ skills \in 0..MaxSkills

Fallen(p) == \A c \in Char : Owner(c) = p => ~alive[c]

\* The game has ended exactly when a player has nobody left, however deep in
\* the nesting the last one fell; the other player has won, or neither.
EndIffFallen ==
  /\ phase = "gameEnd" <=> \E p \in Player : Fallen(p)
  /\ \A p \in Player : winner = p <=> Fallen(Flip(p)) /\ ~Fallen(p)

AtRest == stack = <<>> /\ thrown = "nothing" /\ phase = "action"

\* When the skill and all that it set off are settled, both active characters
\* are alive, whichever call it was that felled one.
ActiveAliveAtRest == AtRest => \A p \in Player : alive[active[p]]

\* Nobody is asked for a character that does not exist, unless the end of the
\* game, reached in a nested call, has settled the match already.
ErrorOnlyAfterEnd == thrown = "chooseActive" => phase = "gameEnd"

\* A character that the wards were found able to save has been saved.
AliveHasHealth == AtRest => \A c \in Char : alive[c] => health[c] > 0

\* heal() never finds a living character with no health, as it asserts.
HealAccepted == thrown # "heal"
=============================================================================
