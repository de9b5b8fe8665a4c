-------------------------- MODULE SettlementProofs --------------------------
(***************************************************************************)
(* Theorems of Settlement, for any number of characters, any health, any   *)
(* wards and any depth of nesting.                                         *)
(***************************************************************************)
EXTENDS Settlement, FiniteSetTheorems, TLAPS

USE SettlementConstants

-----------------------------------------------------------------------------
(* Stacks. *)

\* Replacing the innermost call leaves the others as they are.
LEMMA GoToType ==
  ASSUME stack \in Seq(Frame), stack # <<>>, NEW f \in Frame, GoTo(f)
  PROVE  /\ stack' \in Seq(Frame) /\ stack' # <<>>
         /\ Len(stack) \in Nat /\ Len(stack) > 0 /\ Len(stack') = Len(stack)
         /\ Top' = f
         /\ \A i \in 1..Len(stack) : i < Len(stack) => stack'[i] = stack[i]
  <1>1. Len(stack) \in Nat /\ Len(stack) > 0
    OBVIOUS
  <1>2. QED BY <1>1 DEF GoTo, Top

LEMMA ReturnType ==
  ASSUME stack \in Seq(Frame), stack # <<>>, Return
  PROVE  /\ stack' \in Seq(Frame) /\ Len(stack) \in Nat /\ Len(stack) > 0
         /\ Len(stack') = Len(stack) - 1
         /\ \A i \in 1..Len(stack') : stack'[i] = stack[i]
  <1> DEFINE n == Len(stack) - 1
  <1>1. Len(stack) \in Nat /\ Len(stack) > 0
    OBVIOUS
  <1>2. n \in Nat /\ n <= Len(stack)
    BY <1>1
  <1>3. \A i \in 1..n : stack[i] \in Frame
    BY <1>1
  <1>4. SubSeq(stack, 1, n) = [i \in 1..n |-> stack[i]]
    BY <1>1, <1>2
  <1>5. stack' = [i \in 1..n |-> stack[i]]
    BY <1>4 DEF Return
  <1> HIDE DEF n
  <1>6. stack' \in Seq(Frame) /\ Len(stack') = n
    BY <1>2, <1>3, <1>5
  <1>7. QED BY <1>1, <1>5, <1>6 DEF n

LEMMA ExecuteType ==
  ASSUME stack \in Seq(Frame), NEW D \in SUBSET Char, Execute(D)
  PROVE  /\ stack' \in Seq(Frame) /\ stack' # <<>> /\ Len(stack) \in Nat
         /\ Len(stack') = Len(stack) + 1
         /\ Top'.at = "settle" /\ Top'.deadly = D
         /\ \A i \in 1..Len(stack) : stack'[i] = stack[i]
  <1> DEFINE f == [at |-> "settle", deadly |-> D, saved |-> {},
                   critical |-> FALSE, asked |-> {}, chosen |-> {}]
  <1>1. f \in Frame
    BY DEF Frame, Places
  <1>2. stack' = Append(stack, f) /\ Len(stack) \in Nat
    BY DEF Execute
  <1>3. stack' \in Seq(Frame) /\ Len(stack') = Len(stack) + 1
    BY <1>1, <1>2
  <1>4. stack'[Len(stack')] = f /\ \A i \in 1..Len(stack) : stack'[i] = stack[i]
    BY <1>1, <1>2, <1>3
  <1>5. QED BY <1>2, <1>3, <1>4 DEF Top

\* The innermost call is a frame.
LEMMA TopType ==
  ASSUME stack \in Seq(Frame), stack # <<>>
  PROVE  Top \in Frame /\ Len(stack) \in Nat /\ Len(stack) > 0
  BY DEF Top

-----------------------------------------------------------------------------
(* Types. *)

LEMMA OwnerType == \A c \in Char : Owner(c) \in Player
  BY DEF Char, Owner

LEMMA InitType == Init => TypeOK
  <1> SUFFICES ASSUME Init PROVE TypeOK
    OBVIOUS
  <1>1. PICK odes \in SUBSET Char :
          /\ ode = [c \in Char |-> IF c \in odes THEN 1 ELSE 0]
          /\ core \in SUBSET (Char \ odes)
    BY DEF Init
  <1>2. ode \in [Char -> Nat] /\ core \subseteq Char
    BY <1>1
  <1>3. active \in [Player -> Char] /\ \A p \in Player : Owner(active[p]) = p
    BY DEF Init, Char, Owner
  <1>4. QED BY <1>2, <1>3 DEF Init, TypeOK

\* The switches put a chosen character in each place that has one.
LEMMA SwitchedType ==
  ASSUME TypeOK, NEW D \in SUBSET Char, NEW p \in Player
  PROVE  /\ Switched(D) \in [Player -> Char]
         /\ Owner(Switched(D)[p]) = p
         /\ IF \E c \in D : Owner(c) = p THEN Switched(D)[p] \in D
            ELSE Switched(D)[p] = active[p]
  <1>1. \A q \in Player : (\E c \in D : Owner(c) = q) =>
          /\ (CHOOSE c \in D : Owner(c) = q) \in D
          /\ Owner(CHOOSE c \in D : Owner(c) = q) = q
    OBVIOUS
  <1>2. active \in [Player -> Char] /\ Owner(active[p]) = p
    BY DEF TypeOK
  <1>3. Switched(D) \in [Player -> Char]
    BY <1>1, <1>2 DEF Switched
  <1>4. Switched(D)[p] = IF \E c \in D : Owner(c) = p
                         THEN CHOOSE c \in D : Owner(c) = p ELSE active[p]
    BY DEF Switched
  <1>5. QED BY <1>1, <1>2, <1>3, <1>4

LEMMA StrikeType ==
  ASSUME TypeOK, NEW hits \in SUBSET Char, NEW value \in 1..MaxHealth,
         NEW to \in SUBSET Char, Strike(hits, value, to)
  PROVE  TypeOK'
  <1>1. health' \in [Char -> 0..MaxHealth]
    BY DEF TypeOK, Strike
  <1>2. {c \in hits : health[c] <= value} \in SUBSET Char
    OBVIOUS
  <1>3. stack' \in Seq(Frame)
    BY <1>2, ExecuteType DEF TypeOK, Strike
  <1>4. skills' \in 0..MaxSkills
    BY DEF TypeOK, Strike, Execute, MaySettle
  <1>5. active' \in [Player -> Char] /\ \A p \in Player : Owner(active'[p]) = p
    <2>1. \A p \in Player : Switched(to) \in [Player -> Char] /\ Owner(Switched(to)[p]) = p
      BY SwitchedType
    <2>2. 0 \in Player /\ active' = Switched(to)
      BY DEF Player, Strike
    <2>3. QED BY <2>1, <2>2
  <1>6. QED BY <1>1, <1>3, <1>4, <1>5 DEF TypeOK, Strike

LEMMA MendType ==
  ASSUME TypeOK, NEW c \in Char, Mend(c)
  PROVE  TypeOK'
  <1>1. CASE alive[c] /\ health[c] = 0
    <2>1. <<>> \in Seq(Frame)
      OBVIOUS
    <2>2. QED BY <1>1, <2>1 DEF TypeOK, Mend, Throw
  <1>2. CASE ~(alive[c] /\ health[c] = 0)
    <2> DEFINE h == IF health[c] = MaxHealth THEN health[c] ELSE health[c] + 1
    <2>0. h \in 0..MaxHealth
      BY DEF TypeOK
    <2>a. health' = [health EXCEPT ![c] = h] /\ alive' = [alive EXCEPT ![c] = TRUE]
      BY <1>2, Zenon DEF Mend
    <2> HIDE DEF h
    <2>1. health' \in [Char -> 0..MaxHealth] /\ alive' \in [Char -> BOOLEAN]
      BY <2>0, <2>a DEF TypeOK
    <2>2. stack' \in Seq(Frame) /\ skills' \in 0..MaxSkills
      BY <1>2, ExecuteType DEF TypeOK, Mend, Execute, MaySettle
    <2>3. QED BY <1>2, <2>1, <2>2 DEF TypeOK, Mend
  <1>3. QED BY <1>1, <1>2

\* What the settling of damage may do.
LEMMA SettleRuns ==
  ASSUME TypeOK, Settle
  PROVE  \E saved, fallen \in SUBSET Top.deadly :
           /\ saved = {c \in Top.deadly : CheckImmune(c)}
           /\ fallen = {c \in Top.deadly \ saved : alive[c]}
           /\ alive' = [c \in Char |-> alive[c] /\ c \notin fallen]
           /\ \/ Failed(fallen) # {} /\ Verdict(Failed(fallen))
              \/ /\ Failed(fallen) = {}
                 /\ GoTo([Top EXCEPT
                      !.at = IF saved = {} THEN "events" ELSE "immune",
                      !.saved = saved, !.critical = Top.deadly # {}])
                 /\ UNCHANGED <<phase, winner>>
  <1> DEFINE saved  == {c \in Top.deadly : CheckImmune(c)}
             fallen == {c \in Top.deadly \ saved : alive[c]}
  <1>1. saved \in SUBSET Top.deadly /\ fallen \in SUBSET Top.deadly
    OBVIOUS
  <1> HIDE DEF saved, fallen
  <1>2. /\ alive' = [c \in Char |-> alive[c] /\ c \notin fallen]
        /\ \/ Failed(fallen) # {} /\ Verdict(Failed(fallen))
           \/ /\ Failed(fallen) = {}
              /\ GoTo([Top EXCEPT
                   !.at = IF saved = {} THEN "events" ELSE "immune",
                   !.saved = saved, !.critical = Top.deadly # {}])
              /\ UNCHANGED <<phase, winner>>
    BY Zenon DEF Settle, saved, fallen
  <1>3. saved = {c \in Top.deadly : CheckImmune(c)} /\ fallen = {c \in Top.deadly \ saved : alive[c]}
    BY DEF saved, fallen
  <1>4. QED BY <1>1, <1>2, <1>3

LEMMA SettleType ==
  ASSUME TypeOK, Settle
  PROVE  TypeOK'
  <1>1. PICK saved, fallen \in SUBSET Top.deadly :
           /\ alive' = [c \in Char |-> alive[c] /\ c \notin fallen]
           /\ \/ Failed(fallen) # {} /\ Verdict(Failed(fallen))
              \/ /\ Failed(fallen) = {}
                 /\ GoTo([Top EXCEPT
                      !.at = IF saved = {} THEN "events" ELSE "immune",
                      !.saved = saved, !.critical = Top.deadly # {}])
                 /\ UNCHANGED <<phase, winner>>
    BY SettleRuns
  <1>2. stack \in Seq(Frame) /\ stack # <<>>
    BY DEF TypeOK, Settle, At
  <1>3. Top \in Frame
    BY <1>2, TopType
  <1>4. alive' \in [Char -> BOOLEAN]
    BY <1>1
  <1>5. UNCHANGED <<health, active, core, ode, dice, thrown, skills>>
    BY DEF Settle
  <1>6. CASE Failed(fallen) # {} /\ Verdict(Failed(fallen))
    <2>1. stack' \in Seq(Frame)
      BY <1>2, <1>6, ReturnType DEF Verdict
    <2>2. phase' = "gameEnd" /\ winner' \in {Nobody} \union Player
      <3>1. (CHOOSE p \in Failed(fallen) : TRUE) \in Failed(fallen)
        BY <1>6
      <3>2. (CHOOSE p \in Failed(fallen) : TRUE) \in Player
        BY <3>1 DEF Failed
      <3>3. \A p \in Player : Flip(p) \in Player
        BY DEF Flip, Player
      <3>4. QED BY <1>6, <3>2, <3>3 DEF Verdict, TypeOK
    <2>3. QED BY <1>4, <1>5, <2>1, <2>2 DEF TypeOK
  <1>7. CASE /\ GoTo([Top EXCEPT
                      !.at = IF saved = {} THEN "events" ELSE "immune",
                      !.saved = saved, !.critical = Top.deadly # {}])
             /\ UNCHANGED <<phase, winner>>
    <2> DEFINE f == [Top EXCEPT
                      !.at = IF saved = {} THEN "events" ELSE "immune",
                      !.saved = saved, !.critical = Top.deadly # {}]
    <2>1. saved \in SUBSET Char
      BY <1>3 DEF Frame
    <2>2. f \in Frame
      BY <1>3, <2>1 DEF Frame, Places
    <2>3. stack' \in Seq(Frame)
      BY <1>2, <1>7, <2>2, GoToType
    <2>4. QED BY <1>4, <1>5, <1>7, <2>3 DEF TypeOK
  <1>8. QED BY <1>1, <1>6, <1>7

LEMMA ImmuneType ==
  ASSUME TypeOK, NEW c \in Char, Immune(c)
  PROVE  TypeOK'
  <1>1. stack \in Seq(Frame) /\ stack # <<>>
    BY DEF TypeOK, Immune, At
  <1>2. Top \in Frame
    BY <1>1, TopType
  <1>3. StillSaved(c) \in SUBSET Char
    BY <1>2 DEF Frame, StillSaved
  <1> DEFINE f == [Top EXCEPT !.saved = StillSaved(c),
                    !.at = IF StillSaved(c) = {} THEN "events" ELSE "immune"]
  <1>4. f \in Frame
    BY <1>2, <1>3 DEF Frame, Places
  <1>5. stack' \in Seq(Frame)
    BY <1>1, <1>4, GoToType DEF Immune
  <1>6. health' \in [Char -> 0..MaxHealth]
    <2>1. health' = health \/ health' = [health EXCEPT ![c] = 1]
      BY DEF Immune
    <2>2. 1 \in 0..MaxHealth /\ health \in [Char -> 0..MaxHealth]
      BY DEF TypeOK
    <2>3. QED BY <2>1, <2>2
  <1>7. /\ core' \subseteq Char /\ ode' \in [Char -> Nat]
        /\ dice' \in [Player -> Nat]
    <2>1. Owner(c) \in Player
      BY OwnerType
    <2>2. CASE c \in core \/ ~CheckImmune(c)
      BY <2>2 DEF TypeOK, Immune, CheckImmune
    <2>3. CASE c \notin core /\ CheckImmune(c)
      <3>1. /\ dice' = [dice EXCEPT ![Owner(c)] = @ - ode[c]]
            /\ ode' = [ode EXCEPT ![c] = @ + 1] /\ core' = core
        BY <2>3 DEF Immune
      <3>2. /\ dice[Owner(c)] \in Nat /\ ode[c] \in Nat
            /\ dice[Owner(c)] - ode[c] \in Nat
        BY <2>1, <2>3 DEF TypeOK, CheckImmune
      <3>3. QED BY <2>1, <3>1, <3>2 DEF TypeOK
    <2>4. QED BY <2>2, <2>3
  <1>8. QED BY <1>5, <1>6, <1>7 DEF TypeOK, Immune

LEMMA EventsDoneType ==
  ASSUME TypeOK, EventsDone
  PROVE  TypeOK'
  <1>1. stack \in Seq(Frame) /\ stack # <<>>
    BY DEF TypeOK, EventsDone, At
  <1>2. Top \in Frame
    BY <1>1, TopType
  <1>3. [Top EXCEPT !.at = "choose", !.asked = ActiveFallen, !.chosen = {}] \in Frame
    BY <1>2 DEF Frame, Places, ActiveFallen
  <1>4. stack' \in Seq(Frame)
    <2>1. CASE Return
      BY <1>1, <2>1, ReturnType
    <2>2. CASE stack' = <<>>
      BY <2>2
    <2>3. CASE GoTo([Top EXCEPT !.at = "choose", !.asked = ActiveFallen, !.chosen = {}])
      BY <1>1, <1>3, <2>3, GoToType
    <2>4. QED BY <2>1, <2>2, <2>3 DEF EventsDone, Throw
  <1>5. thrown' \in {"nothing", "heal", "chooseActive", "io"}
    BY DEF TypeOK, EventsDone, Throw
  <1>6. QED BY <1>4, <1>5 DEF TypeOK, EventsDone, board

\* What an answer does.
LEMMA ChooseRuns ==
  ASSUME TypeOK, NEW p \in Player, NEW c \in Char, ChooseActive(p, c)
  PROVE  LET D == Top.chosen \union {c}
             f == IF Top.asked = {p}
                  THEN [Top EXCEPT !.asked = {}, !.at = "after"]
                  ELSE [Top EXCEPT !.asked = @ \ {p}, !.chosen = D]
         IN  /\ stack \in Seq(Frame) /\ stack # <<>> /\ Top \in Frame
             /\ D \in SUBSET Char /\ f \in Frame /\ GoTo(f)
             /\ active' = IF Top.asked = {p} THEN Switched(D) ELSE active
             /\ UNCHANGED <<phase, winner, health, alive, core, ode, dice,
                            thrown, skills>>
  <1> DEFINE D == Top.chosen \union {c}
             f == IF Top.asked = {p}
                  THEN [Top EXCEPT !.asked = {}, !.at = "after"]
                  ELSE [Top EXCEPT !.asked = @ \ {p}, !.chosen = D]
  <1>1. stack \in Seq(Frame) /\ stack # <<>>
    BY DEF TypeOK, ChooseActive, At
  <1>2. Top \in Frame
    BY <1>1, TopType
  <1>3. D \in SUBSET Char
    BY <1>2 DEF Frame
  <1>4. f \in Frame
    BY <1>2, <1>3 DEF Frame, Places
  <1>5. GoTo(f) /\ active' = IF Top.asked = {p} THEN Switched(D) ELSE active
    BY DEF ChooseActive
  <1>6. UNCHANGED <<phase, winner, health, alive, core, ode, dice, thrown, skills>>
    BY DEF ChooseActive
  <1>7. QED BY <1>1, <1>2, <1>3, <1>4, <1>5, <1>6

LEMMA ChooseType ==
  ASSUME TypeOK, NEW p \in Player, NEW c \in Char, ChooseActive(p, c)
  PROVE  TypeOK'
  <1> DEFINE D == Top.chosen \union {c}
  <1>1. stack' \in Seq(Frame)
    BY ChooseRuns, GoToType
  <1>2. active' \in [Player -> Char] /\ \A q \in Player : Owner(active'[q]) = q
    <2>1. D \in SUBSET Char /\ (active' = Switched(D) \/ active' = active)
      BY ChooseRuns
    <2>2. \A q \in Player : /\ Switched(D) \in [Player -> Char]
                            /\ Owner(Switched(D)[q]) = q
      BY <2>1, SwitchedType
    <2>3. 0 \in Player
      BY DEF Player
    <2>4. QED BY <2>1, <2>2, <2>3 DEF TypeOK
  <1>3. UNCHANGED <<phase, winner, health, alive, core, ode, dice, thrown, skills>>
    BY ChooseRuns
  <1>4. QED BY <1>1, <1>2, <1>3 DEF TypeOK

LEMMA ReturningType ==
  ASSUME TypeOK, ChooseFails \/ AfterDone
  PROVE  TypeOK'
  <1>1. stack \in Seq(Frame) /\ stack # <<>>
    BY DEF TypeOK, ChooseFails, AfterDone, At
  <1>2. CASE ChooseFails
    BY <1>2 DEF TypeOK, ChooseFails, Throw, board
  <1>3. CASE AfterDone
    <2>1. stack' \in Seq(Frame)
      BY <1>1, <1>3, ReturnType DEF AfterDone
    <2>2. QED BY <1>3, <2>1 DEF TypeOK, AfterDone, board
  <1>4. QED BY <1>2, <1>3

LEMMA NextType == TypeOK /\ [Next]_vars => TypeOK'
  <1> SUFFICES ASSUME TypeOK, [Next]_vars PROVE TypeOK'
    OBVIOUS
  <1>1. ASSUME NEW hits \in SUBSET {c \in Char : alive[c]},
               NEW value \in 1..MaxHealth,
               NEW to \in SUBSET {c \in Char : alive[c]}, Strike(hits, value, to)
        PROVE  TypeOK'
    BY <1>1, StrikeType
  <1>2. ASSUME NEW c \in Char, Mend(c) \/ Immune(c) PROVE TypeOK'
    BY <1>2, MendType, ImmuneType
  <1>3. CASE Settle
    BY <1>3, SettleType
  <1>4. CASE EventsDone
    BY <1>4, EventsDoneType
  <1>5. CASE ChooseFails \/ AfterDone
    BY <1>5, ReturningType
  <1>6. ASSUME NEW p \in Player, NEW c \in Char, ChooseActive(p, c) PROVE TypeOK'
    BY <1>6, ChooseType
  <1>7. CASE UNCHANGED vars
    BY <1>7 DEF TypeOK, vars, board
  <1>8. QED BY <1>1, <1>2, <1>3, <1>4, <1>5, <1>6, <1>7 DEF Next, SwitchesWith

\* The state keeps its types.
THEOREM TypeCorrect == Spec => []TypeOK
  BY InitType, NextType, PTL DEF Spec

-----------------------------------------------------------------------------
(* The calls. *)

\* Only the innermost call is anywhere but in the middle of its events; what
\* comes before the events comes before the end; an error leaves all calls.
Nesting ==
  /\ \A i \in 1..Len(stack) :
       i < Len(stack) => stack[i].at \in {"events", "after"}
  /\ stack # <<>> /\ Top.at \notin {"events", "after"} => phase = "action"
  /\ thrown # "nothing" => stack = <<>>

\* Which calls an action returns from, goes on in, or starts.
Moves ==
  \/ stack' = <<>>
  \/ Return /\ stack # <<>> /\ UNCHANGED thrown
  \/ \E f \in Frame : /\ GoTo(f) /\ stack # <<>> /\ UNCHANGED <<phase, thrown>>
                      /\ f.at = "choose" => phase = "action"
                      /\ f.at = "immune" => phase = "action"
                      /\ f.at # "settle"
  \/ \E D \in SUBSET Char :
       /\ Execute(D) /\ UNCHANGED <<phase, thrown>>
       /\ phase # "gameEnd" /\ thrown = "nothing"
       /\ stack = <<>> \/ At("events") \/ At("after")

LEMMA NextMoves ==
  ASSUME TypeOK, Nesting, Next
  PROVE  Moves
  <1>0. stack \in Seq(Frame) /\ phase \in {"action", "gameEnd"}
    BY DEF TypeOK
  <1>1. ASSUME NEW hits \in SUBSET {c \in Char : alive[c]},
               NEW value \in 1..MaxHealth,
               NEW to \in SUBSET {c \in Char : alive[c]}, Strike(hits, value, to)
        PROVE  Moves
    <2>1. {c \in hits : health[c] <= value} \in SUBSET Char
      OBVIOUS
    <2>2. QED BY <1>1, <2>1 DEF Strike, MaySettle, Moves
  <1>2. ASSUME NEW c \in Char, Mend(c) PROVE Moves
    <2>1. CASE alive[c] /\ health[c] = 0
      BY <1>2, <2>1 DEF Mend, Throw, Moves
    <2>2. CASE ~(alive[c] /\ health[c] = 0)
      <3>1. Execute({}) /\ UNCHANGED <<phase, thrown>> /\ MaySettle
        BY <1>2, <2>2 DEF Mend
      <3>2. {} \in SUBSET Char
        OBVIOUS
      <3>3. QED BY <3>1, <3>2 DEF Moves, MaySettle
    <2>3. QED BY <2>1, <2>2
  <1>3. CASE Settle
    <2>1. stack # <<>> /\ Top.at = "settle" /\ UNCHANGED thrown
      BY <1>3 DEF Settle, At
    <2>2. Top \in Frame /\ phase = "action"
      BY <1>0, <2>1, TopType DEF Nesting
    <2>3. PICK saved, fallen \in SUBSET Top.deadly :
            \/ Verdict(Failed(fallen))
            \/ /\ GoTo([Top EXCEPT
                    !.at = IF saved = {} THEN "events" ELSE "immune",
                    !.saved = saved, !.critical = Top.deadly # {}])
               /\ UNCHANGED <<phase, winner>>
      BY <1>3, SettleRuns
    <2>4. CASE Verdict(Failed(fallen))
      BY <2>1, <2>4 DEF Verdict, Moves
    <2>5. CASE /\ GoTo([Top EXCEPT
                    !.at = IF saved = {} THEN "events" ELSE "immune",
                    !.saved = saved, !.critical = Top.deadly # {}])
               /\ UNCHANGED <<phase, winner>>
      <3> DEFINE f == [Top EXCEPT
                    !.at = IF saved = {} THEN "events" ELSE "immune",
                    !.saved = saved, !.critical = Top.deadly # {}]
      <3>1. saved \in SUBSET Char
        BY <2>2 DEF Frame
      <3>2. f \in Frame /\ f.at \in {"events", "immune"}
        BY <2>2, <3>1 DEF Frame, Places
      <3>3. QED BY <2>1, <2>2, <2>5, <3>2 DEF Moves
    <2>6. QED BY <2>3, <2>4, <2>5
  <1>4. ASSUME NEW c \in Char, Immune(c) PROVE Moves
    <2>1. stack # <<>> /\ Top.at = "immune" /\ UNCHANGED <<phase, thrown>>
      BY <1>4 DEF Immune, At
    <2>2. Top \in Frame /\ phase = "action"
      BY <1>0, <2>1, TopType DEF Nesting
    <2> DEFINE f == [Top EXCEPT !.saved = StillSaved(c),
                      !.at = IF StillSaved(c) = {} THEN "events" ELSE "immune"]
    <2>3. StillSaved(c) \in SUBSET Char
      BY <2>2 DEF StillSaved, Frame
    <2>4. f \in Frame /\ f.at \in {"events", "immune"}
      BY <2>2, <2>3 DEF Frame, Places
    <2>5. GoTo(f)
      BY <1>4 DEF Immune
    <2>6. QED BY <2>1, <2>2, <2>4, <2>5 DEF Moves
  <1>5. CASE EventsDone
    <2>1. stack # <<>> /\ Top.at = "events" /\ UNCHANGED phase
      BY <1>5 DEF EventsDone, At
    <2>2. Top \in Frame
      BY <1>0, <2>1, TopType
    <2> DEFINE f == [Top EXCEPT !.at = "choose", !.asked = ActiveFallen, !.chosen = {}]
    <2>3. f \in Frame /\ f.at = "choose"
      BY <2>2 DEF Frame, Places, ActiveFallen
    <2>4. \/ Return /\ UNCHANGED thrown
          \/ stack' = <<>>
          \/ GoTo(f) /\ phase # "gameEnd" /\ UNCHANGED thrown
      BY <1>5 DEF EventsDone, Throw
    <2>5. QED BY <1>0, <2>1, <2>3, <2>4 DEF Moves
  <1>6. CASE ChooseFails \/ AfterDone
    BY <1>6 DEF ChooseFails, AfterDone, Throw, At, Moves
  <1>7. ASSUME NEW p \in Player, NEW c \in Char, ChooseActive(p, c) PROVE Moves
    <2> DEFINE D == Top.chosen \union {c}
               f == IF Top.asked = {p}
                    THEN [Top EXCEPT !.asked = {}, !.at = "after"]
                    ELSE [Top EXCEPT !.asked = @ \ {p}, !.chosen = D]
    <2>1. /\ stack # <<>> /\ Top \in Frame /\ f \in Frame /\ GoTo(f)
          /\ UNCHANGED <<phase, thrown>>
      BY <1>7, ChooseRuns
    <2>2. Top.at = "choose" /\ phase = "action"
      BY <1>0, <1>7 DEF ChooseActive, At, Nesting
    <2>3. f.at \in {"choose", "after"}
      BY <2>1, <2>2 DEF Frame
    <2>4. QED BY <2>1, <2>2, <2>3 DEF Moves
  <1>8. QED BY <1>1, <1>2, <1>3, <1>4, <1>5, <1>6, <1>7, Zenon DEF Next, SwitchesWith

LEMMA NestingKept ==
  ASSUME TypeOK, Nesting, [Next]_vars
  PROVE  Nesting'
  <1>0. stack \in Seq(Frame) /\ phase \in {"action", "gameEnd"}
    BY DEF TypeOK
  <1>1. CASE UNCHANGED vars
    BY <1>1 DEF vars, Nesting, Top
  <1>2. CASE stack' = <<>>
    BY <1>2 DEF Nesting
  <1>3. CASE Return /\ stack # <<>> /\ UNCHANGED thrown
    <2>1. /\ Len(stack) \in Nat /\ Len(stack) > 0 /\ Len(stack') = Len(stack) - 1
          /\ stack' \in Seq(Frame) /\ \A i \in 1..Len(stack') : stack'[i] = stack[i]
      BY <1>0, <1>3, ReturnType
    <2>2. \A i \in 1..Len(stack') : stack'[i].at \in {"events", "after"}
      BY <2>1 DEF Nesting
    <2>3. stack' # <<>> => Top'.at \in {"events", "after"}
      BY <2>1, <2>2 DEF Top
    <2>4. QED BY <1>3, <2>2, <2>3 DEF Nesting
  <1>4. ASSUME NEW f \in Frame, GoTo(f), stack # <<>>, UNCHANGED <<phase, thrown>>,
               f.at = "choose" => phase = "action",
               f.at = "immune" => phase = "action", f.at # "settle"
        PROVE  Nesting'
    <2>1. /\ Len(stack') = Len(stack) /\ Top' = f
          /\ \A i \in 1..Len(stack) : i < Len(stack) => stack'[i] = stack[i]
      BY <1>0, <1>4, GoToType
    <2>2. f.at \in Places
      BY DEF Frame
    <2>3. f.at \notin {"events", "after"} => phase' = "action"
      BY <1>4, <2>2 DEF Places
    <2>4. thrown' = "nothing"
      BY <1>4 DEF Nesting
    <2>5. QED BY <2>1, <2>3, <2>4 DEF Nesting
  <1>5. ASSUME NEW D \in SUBSET Char, Execute(D), UNCHANGED <<phase, thrown>>,
               phase # "gameEnd", thrown = "nothing",
               stack = <<>> \/ At("events") \/ At("after")
        PROVE  Nesting'
    <2>1. /\ Len(stack) \in Nat /\ Len(stack') = Len(stack) + 1
          /\ \A i \in 1..Len(stack) : stack'[i] = stack[i]
      BY <1>0, <1>5, ExecuteType
    <2>2. \A i \in 1..Len(stack) : stack[i].at \in {"events", "after"}
      BY <1>0, <1>5, <2>1 DEF Nesting, At, Top
    <2>3. Top'.at = "settle" /\ phase' = "action" /\ thrown' = "nothing"
      BY <1>0, <1>5, ExecuteType
    <2>4. \A i \in 1..Len(stack') : i < Len(stack') =>
            i \in 1..Len(stack) /\ stack'[i] = stack[i]
      BY <2>1
    <2>5. \A i \in 1..Len(stack') : i < Len(stack') =>
            stack'[i].at \in {"events", "after"}
      BY <2>2, <2>4
    <2>6. QED BY <2>3, <2>5, Zenon DEF Nesting
  <1>6. QED BY <1>1, <1>2, <1>3, <1>4, <1>5, NextMoves DEF Moves

-----------------------------------------------------------------------------
(* The end. *)

\* Nobody fails twice: after a fall, those have nobody left who failed by it.
LEMMA FallenAfter ==
  ASSUME NEW fallen \in SUBSET Char, NEW p \in Player, ~Fallen(p),
         alive' = [c \in Char |-> alive[c] /\ c \notin fallen]
  PROVE  Fallen(p)' <=> p \in Failed(fallen)
  <1>1. \A c \in Char : alive'[c] <=> alive[c] /\ c \notin fallen
    OBVIOUS
  <1>2. Fallen(p)' <=> \A c \in Char : Owner(c) = p => ~alive[c] \/ c \in fallen
    BY <1>1 DEF Fallen
  <1>3. QED BY <1>2 DEF Fallen, Failed

LEMMA FlipFlips == \A p \in Player : Flip(p) \in Player /\ Flip(p) # p /\ Flip(Flip(p)) = p
  BY DEF Flip, Player

\* The two players.
LEMMA TwoPlayers == \A p, q \in Player : q = p \/ q = Flip(p)
  BY DEF Flip, Player

LEMMA EndKept ==
  ASSUME TypeOK, Nesting, EndIffFallen, [Next]_vars
  PROVE  EndIffFallen'
  <1>1. CASE UNCHANGED <<phase, winner, alive>>
    BY <1>1 DEF EndIffFallen, Fallen
  <1>2. ASSUME NEW c \in Char, Mend(c) PROVE EndIffFallen'
    <2>1. /\ phase # "gameEnd" /\ UNCHANGED <<phase, winner>>
          /\ alive' = alive \/ alive' = [alive EXCEPT ![c] = TRUE]
      BY <1>2, Zenon DEF Mend, MaySettle
    <2>2. \A p \in Player : ~Fallen(p)
      BY <2>1 DEF EndIffFallen
    <2>3. \A d \in Char : alive[d] => alive'[d]
      BY <2>1 DEF TypeOK
    <2>4. \A p \in Player : ~Fallen(p)'
      BY <2>2, <2>3 DEF Fallen
    <2>5. \A p \in Player : winner # p
      BY <2>2, FlipFlips DEF EndIffFallen
    <2>6. QED BY <2>1, <2>4, <2>5, FlipFlips DEF EndIffFallen
  <1>3. CASE Settle
    <2>0. stack \in Seq(Frame) /\ stack # <<>> /\ Top.at = "settle"
      BY <1>3 DEF TypeOK, Settle, At
    <2>1. phase = "action" /\ Top \in Frame
      BY <2>0, TopType DEF Nesting
    <2>2. PICK saved, fallen \in SUBSET Top.deadly :
            /\ alive' = [c \in Char |-> alive[c] /\ c \notin fallen]
            /\ \/ Failed(fallen) # {} /\ Verdict(Failed(fallen))
               \/ Failed(fallen) = {} /\ UNCHANGED <<phase, winner>>
      BY <1>3, SettleRuns
    <2>3. fallen \in SUBSET Char
      BY <2>1 DEF Frame
    <2>4. \A p \in Player : ~Fallen(p)
      BY <2>1 DEF EndIffFallen
    <2>5. \A p \in Player : Fallen(p)' <=> p \in Failed(fallen)
      BY <2>2, <2>3, <2>4, FallenAfter
    <2>6. \A p \in Player : winner # p
      BY <2>4, FlipFlips DEF EndIffFallen
    <2>7. CASE Failed(fallen) = {} /\ UNCHANGED <<phase, winner>>
      BY <2>1, <2>5, <2>6, <2>7, FlipFlips DEF EndIffFallen
    <2>8. CASE Failed(fallen) # {} /\ Verdict(Failed(fallen))
      <3>1. Failed(fallen) \subseteq Player /\ phase' = "gameEnd"
        BY <2>8 DEF Failed, Verdict
      <3>2. CASE Failed(fallen) = Player
        <4>1. winner' = winner
          BY <2>8, <3>2 DEF Verdict
        <4>2. QED BY <2>5, <2>6, <3>1, <3>2, <4>1, <2>8, FlipFlips DEF EndIffFallen
      <3>3. CASE Failed(fallen) # Player
        <4>1. PICK q \in Player : Failed(fallen) = {q}
          BY <2>8, <3>1, <3>3, TwoPlayers
        <4>2. winner' = Flip(q)
          BY <2>8, <3>3, <4>1 DEF Verdict
        <4>3. \A p \in Player : Fallen(p)' <=> p = q
          BY <2>5, <4>1
        <4>4. QED BY <3>1, <4>2, <4>3, FlipFlips, TwoPlayers DEF EndIffFallen
      <3>4. QED BY <3>2, <3>3
    <2>9. QED BY <2>2, <2>7, <2>8
  <1>4. ASSUME NEW hits \in SUBSET {c \in Char : alive[c]},
               NEW value \in 1..MaxHealth,
               NEW to \in SUBSET {c \in Char : alive[c]}, Strike(hits, value, to)
        PROVE  EndIffFallen'
    BY <1>1, <1>4 DEF Strike
  <1>5. ASSUME NEW c \in Char, Immune(c) PROVE EndIffFallen'
    BY <1>1, <1>5 DEF Immune
  <1>6. CASE EventsDone \/ ChooseFails \/ AfterDone \/ UNCHANGED vars
    BY <1>1, <1>6 DEF EventsDone, ChooseFails, AfterDone, vars, board
  <1>7. ASSUME NEW p \in Player, NEW c \in Char, ChooseActive(p, c)
        PROVE  EndIffFallen'
    BY <1>1, <1>7 DEF ChooseActive
  <1>8. QED BY <1>2, <1>3, <1>4, <1>5, <1>6, <1>7, Zenon DEF Next, SwitchesWith

\* The error of chooseActive() comes after the end.
LEMMA ErrorKept ==
  ASSUME TypeOK, Nesting, EndIffFallen, ErrorOnlyAfterEnd, [Next]_vars
  PROVE  ErrorOnlyAfterEnd'
  <1>1. CASE thrown' # "chooseActive"
    BY <1>1 DEF ErrorOnlyAfterEnd
  <1>2. CASE EventsDone
    <2>1. SUFFICES ASSUME NEW p \in Player, ~alive[active[p]], Candidates(p) = {}
          PROVE  phase = "gameEnd"
      BY <1>2, <2>1 DEF EventsDone, ErrorOnlyAfterEnd, ActiveFallen
    <2>2. Fallen(p)
      BY <2>1 DEF Fallen, Candidates
    <2>3. QED BY <2>2 DEF EndIffFallen
  <1>3. CASE Settle
    BY <1>3 DEF Settle, At, Nesting, ErrorOnlyAfterEnd
  <1>4. CASE UNCHANGED vars
    BY <1>4 DEF vars, ErrorOnlyAfterEnd
  <1>5. CASE thrown' = thrown /\ phase' = phase
    BY <1>5 DEF ErrorOnlyAfterEnd
  <1>6. ASSUME NEW hits, NEW value, NEW to, Strike(hits, value, to) PROVE ErrorOnlyAfterEnd'
    BY <1>5, <1>6 DEF Strike, Execute
  <1>7. ASSUME NEW c, Mend(c) \/ Immune(c) PROVE ErrorOnlyAfterEnd'
    BY <1>1, <1>5, <1>7 DEF Mend, Immune, Throw
  <1>8. CASE ChooseFails \/ AfterDone
    BY <1>1, <1>5, <1>8 DEF ChooseFails, AfterDone, Throw
  <1>9. ASSUME NEW p, NEW c, ChooseActive(p, c) PROVE ErrorOnlyAfterEnd'
    BY <1>5, <1>9 DEF ChooseActive
  <1>10. QED BY <1>2, <1>3, <1>4, <1>6, <1>7, <1>8, <1>9, Zenon DEF Next, SwitchesWith

-----------------------------------------------------------------------------
(* The active characters. *)

\* While choices are pending, every player whose active character has fallen
\* is asked or has chosen a character that is alive.
Choosing ==
  stack # <<>> /\ Top.at = "choose" =>
    /\ Top.critical
    /\ \A c \in Top.chosen : alive[c]
    /\ \A p \in Player : ~alive[active[p]] =>
         p \in Top.asked \/ \E c \in Top.chosen : Owner(c) = p

\* Where an active character has fallen, some call has yet to replace it.
SwitchDue ==
  phase = "action" /\ thrown = "nothing" /\ (\E p \in Player : ~alive[active[p]]) =>
    \E i \in 1..Len(stack) :
      stack[i].critical /\ stack[i].at \notin {"settle", "after"}

\* A call that goes on elsewhere, or that has begun, waits for no choice.
LEMMA ChoosingElsewhere ==
  ASSUME TypeOK, Nesting,
         \/ Return /\ stack # <<>>
         \/ \E D \in SUBSET Char : Execute(D)
         \/ \E f \in Frame : GoTo(f) /\ stack # <<>> /\ f.at # "choose"
         \/ stack' = <<>>
  PROVE  stack' = <<>> \/ Top'.at # "choose"
  <1>0. stack \in Seq(Frame)
    BY DEF TypeOK
  <1>1. CASE Return /\ stack # <<>>
    <2>1. /\ Len(stack) \in Nat /\ Len(stack') = Len(stack) - 1
          /\ stack' \in Seq(Frame) /\ \A i \in 1..Len(stack') : stack'[i] = stack[i]
      BY <1>0, <1>1, ReturnType
    <2>2. \A i \in 1..Len(stack') : stack'[i].at \in {"events", "after"}
      BY <2>1 DEF Nesting
    <2>3. QED BY <2>1, <2>2 DEF Top
  <1>2. ASSUME NEW D \in SUBSET Char, Execute(D) PROVE Top'.at # "choose"
    BY <1>0, <1>2, ExecuteType
  <1>3. ASSUME NEW f \in Frame, GoTo(f), stack # <<>>, f.at # "choose"
        PROVE  Top'.at # "choose"
    BY <1>0, <1>3, GoToType
  <1>4. QED BY <1>1, <1>2, <1>3

LEMMA ChoosingKept ==
  ASSUME TypeOK, Nesting, Choosing, [Next]_vars
  PROVE  Choosing'
  <1>0. stack \in Seq(Frame)
    BY DEF TypeOK
  <1>1. CASE stack' = <<>> \/ Top'.at # "choose"
    BY <1>1 DEF Choosing
  <1>2. CASE UNCHANGED vars
    BY <1>2 DEF vars, board, Choosing, Top
  <1>3. ASSUME NEW hits \in SUBSET {c \in Char : alive[c]},
               NEW value \in 1..MaxHealth,
               NEW to \in SUBSET {c \in Char : alive[c]}, Strike(hits, value, to)
        PROVE  Choosing'
    <2>1. {c \in hits : health[c] <= value} \in SUBSET Char
      OBVIOUS
    <2>2. QED BY <1>1, <1>3, <2>1, ChoosingElsewhere DEF Strike
  <1>4. ASSUME NEW c \in Char, Mend(c) PROVE Choosing'
    <2>1. stack' = <<>> \/ Execute({})
      BY <1>4 DEF Mend, Throw
    <2>2. {} \in SUBSET Char
      OBVIOUS
    <2>3. QED BY <1>1, <2>1, <2>2, ChoosingElsewhere
  <1>5. CASE Settle
    <2>1. stack # <<>> /\ Top \in Frame
      BY <1>0, <1>5, TopType DEF Settle, At
    <2>2. PICK saved, fallen \in SUBSET Top.deadly :
            \/ Verdict(Failed(fallen))
            \/ GoTo([Top EXCEPT !.at = IF saved = {} THEN "events" ELSE "immune",
                               !.saved = saved, !.critical = Top.deadly # {}])
      BY <1>5, SettleRuns
    <2> DEFINE f == [Top EXCEPT !.at = IF saved = {} THEN "events" ELSE "immune",
                               !.saved = saved, !.critical = Top.deadly # {}]
    <2>3. saved \in SUBSET Char
      BY <2>1 DEF Frame
    <2>4. f \in Frame /\ f.at # "choose"
      BY <2>1, <2>3 DEF Frame, Places
    <2>5. Return \/ GoTo(f)
      BY <2>2 DEF Verdict
    <2>6. QED BY <1>1, <2>1, <2>4, <2>5, ChoosingElsewhere
  <1>6. ASSUME NEW c \in Char, Immune(c) PROVE Choosing'
    <2>1. stack # <<>> /\ Top \in Frame
      BY <1>0, <1>6, TopType DEF Immune, At
    <2> DEFINE f == [Top EXCEPT !.saved = StillSaved(c),
                      !.at = IF StillSaved(c) = {} THEN "events" ELSE "immune"]
    <2>2. StillSaved(c) \in SUBSET Char
      BY <2>1 DEF StillSaved, Frame
    <2>3. f \in Frame /\ f.at # "choose"
      BY <2>1, <2>2 DEF Frame, Places
    <2>4. GoTo(f)
      BY <1>6 DEF Immune
    <2>5. QED BY <1>1, <2>1, <2>3, <2>4, ChoosingElsewhere
  <1>7. CASE EventsDone
    <2>1. stack # <<>> /\ Top \in Frame
      BY <1>0, <1>7, TopType DEF EventsDone, At
    <2> DEFINE f == [Top EXCEPT !.at = "choose", !.asked = ActiveFallen, !.chosen = {}]
    <2>2. Return \/ stack' = <<>> \/ (GoTo(f) /\ Top.critical)
      BY <1>7 DEF EventsDone, Throw
    <2>3. CASE Return \/ stack' = <<>>
      BY <1>1, <2>1, <2>3, ChoosingElsewhere
    <2>4. CASE GoTo(f) /\ Top.critical
      <3>1. f \in Frame
        BY <2>1 DEF Frame, Places, ActiveFallen
      <3>2. Top' = f
        BY <1>0, <2>1, <2>4, <3>1, GoToType
      <3>3. f.critical /\ f.chosen = {} /\ f.asked = ActiveFallen
        BY <2>1, <2>4 DEF Frame
      <3>4. UNCHANGED <<alive, active>>
        BY <1>7 DEF EventsDone, board
      <3> HIDE DEF f
      <3>5. QED BY <3>2, <3>3, <3>4 DEF Choosing, ActiveFallen
    <2>5. QED BY <2>2, <2>3, <2>4
  <1>8. CASE ChooseFails \/ AfterDone
    <2>1. stack # <<>> /\ (Return \/ stack' = <<>>)
      BY <1>8 DEF ChooseFails, AfterDone, Throw, At
    <2>2. QED BY <1>1, <2>1, ChoosingElsewhere
  <1>9. ASSUME NEW p \in Player, NEW c \in Char, ChooseActive(p, c)
        PROVE  Choosing'
    <2> DEFINE D == Top.chosen \union {c}
               f == IF Top.asked = {p}
                    THEN [Top EXCEPT !.asked = {}, !.at = "after"]
                    ELSE [Top EXCEPT !.asked = @ \ {p}, !.chosen = D]
    <2>1. /\ stack # <<>> /\ Top \in Frame /\ f \in Frame /\ GoTo(f)
          /\ active' = IF Top.asked = {p} THEN Switched(D) ELSE active
          /\ alive' = alive
      BY <1>9, ChooseRuns
    <2>2. Top.at = "choose" /\ c \in Candidates(p)
      BY <1>9 DEF ChooseActive, At
    <2>3. CASE Top.asked = {p}
      <3>1. f.at = "after"
        BY <2>1, <2>3 DEF Frame
      <3>2. QED BY <1>1, <2>1, <3>1, ChoosingElsewhere
    <2>4. CASE Top.asked # {p}
      <3>1. f = [Top EXCEPT !.asked = @ \ {p}, !.chosen = D]
        BY <2>4
      <3>2. /\ f.critical = Top.critical /\ f.chosen = Top.chosen \union {c}
            /\ f.asked = Top.asked \ {p}
        BY <2>1, <3>1 DEF Frame
      <3>3. Top' = f
        BY <1>0, <2>1, GoToType
      <3>4. active' = active /\ alive' = alive
        BY <2>1, <2>4
      <3>5. alive[c] /\ Owner(c) = p
        BY <2>2 DEF Candidates
      <3> HIDE DEF f
      <3>6. /\ Top.critical /\ \A d \in Top.chosen : alive[d]
            /\ \A q \in Player : ~alive[active[q]] =>
                 q \in Top.asked \/ \E d \in Top.chosen : Owner(d) = q
        BY <2>1, <2>2 DEF Choosing
      <3>7. /\ f.critical /\ \A d \in f.chosen : alive[d]
            /\ \A q \in Player : ~alive[active[q]] =>
                 q \in f.asked \/ \E d \in f.chosen : Owner(d) = q
        BY <3>2, <3>5, <3>6
      <3>8. QED BY <3>3, <3>4, <3>7 DEF Choosing
    <2>5. QED BY <2>3, <2>4
  <1>10. QED BY <1>2, <1>3, <1>4, <1>5, <1>6, <1>7, <1>8, <1>9, Zenon DEF Next, SwitchesWith

\* A call that owes a choice keeps owing it while others return, go on or begin.
Owes(i) == stack[i].critical /\ stack[i].at \notin {"settle", "after"}
Due     == \E i \in 1..Len(stack) : Owes(i)

LEMMA DueKept ==
  ASSUME TypeOK, Nesting, Due,
         \/ /\ Return /\ stack # <<>>
            /\ ~Top.critical \/ Top.at \in {"settle", "after"}
         \/ \E D \in SUBSET Char : Execute(D)
         \/ \E f \in Frame : /\ GoTo(f) /\ stack # <<>>
                             /\ Owes(Len(stack)) =>
                                  f.critical /\ f.at \notin {"settle", "after"}
  PROVE  Due'
  <1>0. stack \in Seq(Frame)
    BY DEF TypeOK
  <1>a. PICK i \in 1..Len(stack) : Owes(i)
    BY DEF Due
  <1>1. CASE /\ Return /\ stack # <<>>
             /\ ~Top.critical \/ Top.at \in {"settle", "after"}
    <2>1. /\ Len(stack) \in Nat /\ Len(stack') = Len(stack) - 1
          /\ \A j \in 1..Len(stack') : stack'[j] = stack[j]
      BY <1>0, <1>1, ReturnType
    <2>2. i # Len(stack)
      BY <1>a, <1>1 DEF Owes, Top
    <2>3. i \in 1..Len(stack')
      BY <2>1, <2>2
    <2>4. QED BY <1>a, <2>1, <2>3 DEF Due, Owes
  <1>2. ASSUME NEW D \in SUBSET Char, Execute(D) PROVE Due'
    <2>1. /\ Len(stack) \in Nat /\ Len(stack') = Len(stack) + 1
          /\ \A j \in 1..Len(stack) : stack'[j] = stack[j]
      BY <1>0, <1>2, ExecuteType
    <2>2. i \in 1..Len(stack')
      BY <2>1
    <2>3. QED BY <1>a, <2>1, <2>2 DEF Due, Owes
  <1>3. ASSUME NEW f \in Frame, GoTo(f), stack # <<>>,
               Owes(Len(stack)) => f.critical /\ f.at \notin {"settle", "after"}
        PROVE  Due'
    <2>1. /\ Len(stack) \in Nat /\ Len(stack') = Len(stack) /\ Top' = f
          /\ \A j \in 1..Len(stack) : j < Len(stack) => stack'[j] = stack[j]
      BY <1>0, <1>3, GoToType
    <2>2. stack'[Len(stack)] = f
      BY <2>1 DEF Top
    <2>3. CASE i = Len(stack)
      <3>1. stack'[i].critical /\ stack'[i].at \notin {"settle", "after"}
        BY <1>a, <1>3, <2>2, <2>3
      <3>2. i \in 1..Len(stack')
        BY <2>1
      <3>3. QED BY <3>1, <3>2 DEF Due, Owes
    <2>4. CASE i # Len(stack)
      <3>1. stack'[i] = stack[i] /\ i \in 1..Len(stack')
        BY <2>1, <2>4
      <3>2. QED BY <1>a, <3>1 DEF Due, Owes
    <2>5. QED BY <2>3, <2>4
  <1>4. QED BY <1>1, <1>2, <1>3

LEMMA SwitchKept ==
  ASSUME TypeOK, Nesting, Choosing, SwitchDue, [Next]_vars
  PROVE  SwitchDue'
  <1>0. stack \in Seq(Frame)
    BY DEF TypeOK
  <1>1. CASE phase' # "action" \/ thrown' # "nothing"
    BY <1>1 DEF SwitchDue
  <1>2. CASE UNCHANGED vars
    BY <1>2 DEF vars, board, SwitchDue
  <1>3. CASE Due'
    BY <1>3 DEF SwitchDue, Due, Owes
  <1>4. CASE \A p \in Player : alive'[active'[p]]
    BY <1>4 DEF SwitchDue
  <1>5. ASSUME phase = "action", thrown = "nothing", ~Due
        PROVE  \A p \in Player : alive[active[p]]
    BY <1>5 DEF SwitchDue, Due, Owes
  <1>6. active \in [Player -> Char] /\ \A p \in Player : active[p] \in Char
    BY DEF TypeOK
  <1>7. ASSUME NEW hits \in SUBSET {c \in Char : alive[c]},
               NEW value \in 1..MaxHealth,
               NEW to \in SUBSET {c \in Char : alive[c]}, Strike(hits, value, to)
        PROVE  SwitchDue'
    <2>1. {c \in hits : health[c] <= value} \in SUBSET Char
      OBVIOUS
    <2>2. CASE Due
      BY <1>3, <1>7, <2>1, <2>2, DueKept DEF Strike
    <2>3. CASE ~Due
      <3>1. UNCHANGED <<phase, thrown, alive>> /\ active' = Switched(to)
        BY <1>7 DEF Strike
      <3>2. ASSUME \A p \in Player : alive[active[p]]
            PROVE  \A p \in Player : alive'[active'[p]]
        <4>1. \A p \in Player : Switched(to)[p] \in to \/ Switched(to)[p] = active[p]
          BY SwitchedType
        <4>2. QED BY <3>1, <3>2, <4>1
      <3>3. QED BY <1>1, <1>4, <1>5, <2>3, <3>1, <3>2
    <2>4. QED BY <2>2, <2>3
  <1>8. ASSUME NEW c \in Char, Mend(c) PROVE SwitchDue'
    <2>1. CASE alive[c] /\ health[c] = 0
      BY <1>1, <1>8, <2>1 DEF Mend, Throw
    <2>2. CASE ~(alive[c] /\ health[c] = 0)
      <3>1. /\ alive' = [alive EXCEPT ![c] = TRUE]
            /\ Execute({}) /\ UNCHANGED <<thrown, phase, active>>
        BY <1>8, <2>2 DEF Mend
      <3>2. CASE Due
        <4>1. {} \in SUBSET Char
          OBVIOUS
        <4>2. QED BY <1>3, <3>1, <3>2, <4>1, DueKept
      <3>3. CASE ~Due
        <4>1. \A d \in Char : alive[d] => alive'[d]
          BY <3>1 DEF TypeOK
        <4>2. QED BY <1>1, <1>4, <1>5, <1>6, <3>1, <3>3, <4>1
      <3>4. QED BY <3>2, <3>3
    <2>3. QED BY <2>1, <2>2
  <1>9. CASE Settle
    <2>1. stack # <<>> /\ Top \in Frame /\ Top.at = "settle"
      BY <1>0, <1>9, TopType DEF Settle, At
    <2>2. PICK saved, fallen \in SUBSET Top.deadly :
            /\ alive' = [c \in Char |-> alive[c] /\ c \notin fallen]
            /\ \/ Verdict(Failed(fallen))
               \/ /\ GoTo([Top EXCEPT
                      !.at = IF saved = {} THEN "events" ELSE "immune",
                      !.saved = saved, !.critical = Top.deadly # {}])
                  /\ UNCHANGED <<phase, winner>>
      BY <1>9, SettleRuns
    <2>3. CASE Verdict(Failed(fallen))
      BY <1>1, <2>3 DEF Verdict
    <2>4. CASE /\ GoTo([Top EXCEPT
                      !.at = IF saved = {} THEN "events" ELSE "immune",
                      !.saved = saved, !.critical = Top.deadly # {}])
               /\ UNCHANGED <<phase, winner>>
      <3> DEFINE f == [Top EXCEPT
                      !.at = IF saved = {} THEN "events" ELSE "immune",
                      !.saved = saved, !.critical = Top.deadly # {}]
      <3>1. saved \in SUBSET Char
        BY <2>1 DEF Frame
      <3>2. /\ f \in Frame /\ f.at \notin {"settle", "after"}
            /\ f.critical = (Top.deadly # {})
        BY <2>1, <3>1 DEF Frame, Places
      <3>3. UNCHANGED <<active, thrown>>
        BY <1>9 DEF Settle
      <3>4. CASE Due
        <4>1. ~Owes(Len(stack))
          BY <2>1 DEF Owes, Top
        <4>2. QED BY <1>3, <2>1, <2>4, <3>2, <3>4, <4>1, DueKept
      <3>5. CASE Top.deadly # {}
        <4>1. /\ Len(stack) \in Nat /\ Len(stack) > 0
              /\ Len(stack') = Len(stack) /\ Top' = f
          BY <1>0, <2>1, <2>4, <3>2, GoToType
        <4>2. stack'[Len(stack')] = f /\ Len(stack') \in 1..Len(stack')
          BY <4>1 DEF Top
        <4>3. QED BY <1>3, <3>2, <3>5, <4>2 DEF Due, Owes
      <3>6. CASE ~Due /\ Top.deadly = {}
        <4>1. \A c \in Char : alive'[c] = alive[c]
          BY <2>2, <3>6 DEF TypeOK
        <4>2. QED BY <1>1, <1>4, <1>5, <1>6, <2>4, <3>3, <3>6, <4>1
      <3>7. QED BY <3>4, <3>5, <3>6
    <2>5. QED BY <2>2, <2>3, <2>4
  <1>10. ASSUME NEW c \in Char, Immune(c) PROVE SwitchDue'
    <2>1. stack # <<>> /\ Top \in Frame
      BY <1>0, <1>10, TopType DEF Immune, At
    <2> DEFINE f == [Top EXCEPT !.saved = StillSaved(c),
                      !.at = IF StillSaved(c) = {} THEN "events" ELSE "immune"]
    <2>2. StillSaved(c) \in SUBSET Char
      BY <2>1 DEF StillSaved, Frame
    <2>3. f \in Frame /\ f.at \notin {"settle", "after"} /\ f.critical = Top.critical
      BY <2>1, <2>2 DEF Frame, Places
    <2>4. GoTo(f) /\ UNCHANGED <<phase, thrown, alive, active>>
      BY <1>10 DEF Immune
    <2> HIDE DEF f
    <2>5. CASE Due
      <3>1. Owes(Len(stack)) => f.critical
        BY <2>3 DEF Owes, Top
      <3>2. QED BY <1>3, <2>1, <2>3, <2>4, <2>5, <3>1, DueKept
    <2>6. CASE ~Due
      BY <1>1, <1>4, <1>5, <2>4, <2>6
    <2>7. QED BY <2>5, <2>6
  <1>11. CASE EventsDone
    <2>1. stack # <<>> /\ Top \in Frame /\ Top.at = "events"
      BY <1>0, <1>11, TopType DEF EventsDone, At
    <2>2. UNCHANGED <<phase, alive, active>>
      BY <1>11 DEF EventsDone, board
    <2> DEFINE f == [Top EXCEPT !.at = "choose", !.asked = ActiveFallen, !.chosen = {}]
    <2>3. \/ Return /\ UNCHANGED thrown /\ (~Top.critical \/ ActiveFallen = {})
          \/ thrown' = "chooseActive"
          \/ GoTo(f) /\ Top.critical
      BY <1>11 DEF EventsDone, Throw
    <2>4. CASE Return /\ UNCHANGED thrown /\ (~Top.critical \/ ActiveFallen = {})
      <3>1. CASE ActiveFallen = {}
        BY <1>4, <2>2, <3>1 DEF ActiveFallen
      <3>2. CASE ~Due
        BY <1>1, <1>4, <1>5, <2>2, <2>4, <3>2
      <3>3. CASE ~Top.critical /\ Due
        BY <1>3, <2>1, <2>4, <3>3, DueKept
      <3>4. QED BY <2>4, <3>1, <3>2, <3>3
    <2>5. CASE GoTo(f) /\ Top.critical
      <3>1. f \in Frame /\ f.at = "choose" /\ f.critical
        BY <2>1, <2>5 DEF Frame, Places, ActiveFallen
      <3>2. Owes(Len(stack)) /\ Len(stack) \in 1..Len(stack)
        BY <2>1, <2>5, <1>0, TopType DEF Owes, Top
      <3>3. Due
        BY <3>2 DEF Due
      <3> HIDE DEF f
      <3>4. QED BY <1>3, <2>1, <2>5, <3>1, <3>3, DueKept
    <2>6. QED BY <1>1, <2>3, <2>4, <2>5
  <1>12. CASE ChooseFails
    BY <1>1, <1>12 DEF ChooseFails, Throw
  <1>13. CASE AfterDone
    <2>1. /\ stack # <<>> /\ Top.at = "after" /\ Return
          /\ UNCHANGED <<phase, thrown, alive, active>>
      BY <1>13 DEF AfterDone, At, board
    <2>2. CASE Due
      BY <1>3, <2>1, <2>2, DueKept
    <2>3. CASE ~Due
      BY <1>1, <1>4, <1>5, <2>1, <2>3
    <2>4. QED BY <2>2, <2>3
  <1>14. ASSUME NEW p \in Player, NEW c \in Char, ChooseActive(p, c)
         PROVE  SwitchDue'
    <2> DEFINE D == Top.chosen \union {c}
               f == IF Top.asked = {p}
                    THEN [Top EXCEPT !.asked = {}, !.at = "after"]
                    ELSE [Top EXCEPT !.asked = @ \ {p}, !.chosen = D]
    <2>1. /\ stack # <<>> /\ Top \in Frame /\ f \in Frame /\ GoTo(f)
          /\ active' = IF Top.asked = {p} THEN Switched(D) ELSE active
          /\ D \in SUBSET Char /\ UNCHANGED <<phase, thrown, alive>>
      BY <1>14, ChooseRuns
    <2>2. Top.at = "choose" /\ c \in Candidates(p)
      BY <1>14 DEF ChooseActive, At
    <2>3. /\ Top.critical /\ \A d \in Top.chosen : alive[d]
          /\ \A q \in Player : ~alive[active[q]] =>
               q \in Top.asked \/ \E d \in Top.chosen : Owner(d) = q
      BY <2>1, <2>2 DEF Choosing
    <2>4. CASE Top.asked = {p}
      <3>1. \A d \in D : alive[d]
        BY <2>2, <2>3 DEF Candidates
      <3>2. \A q \in Player : ~alive[active[q]] => \E d \in D : Owner(d) = q
        BY <2>2, <2>3, <2>4 DEF Candidates
      <3>3. \A q \in Player :
              IF \E d \in D : Owner(d) = q THEN Switched(D)[q] \in D
              ELSE Switched(D)[q] = active[q]
        BY <2>1, SwitchedType
      <3>4. \A q \in Player : alive[Switched(D)[q]]
        BY <3>1, <3>2, <3>3
      <3>5. active' = Switched(D) /\ alive' = alive
        BY <2>1, <2>4
      <3>6. QED BY <1>4, <3>4, <3>5
    <2>5. CASE Top.asked # {p}
      <3>1. f = [Top EXCEPT !.asked = @ \ {p}, !.chosen = D]
        BY <2>5
      <3>2. f.critical /\ f.at = "choose"
        BY <2>1, <2>2, <2>3, <3>1 DEF Frame
      <3> HIDE DEF f
      <3>3. Owes(Len(stack)) /\ Len(stack) \in 1..Len(stack)
        BY <1>0, <2>1, <2>2, <2>3, TopType DEF Owes, Top
      <3>4. Due
        BY <3>3 DEF Due
      <3>5. QED BY <1>3, <2>1, <3>2, <3>4, DueKept
    <2>6. QED BY <2>4, <2>5
  <1>15. QED BY <1>2, <1>7, <1>8, <1>9, <1>10, <1>11, <1>12, <1>13, <1>14, Zenon DEF Next, SwitchesWith

-----------------------------------------------------------------------------
(* The properties. *)

LEMMA SettlementInit ==
  Init => Nesting /\ EndIffFallen /\ ErrorOnlyAfterEnd /\ Choosing /\ SwitchDue
  <1> SUFFICES ASSUME Init
      PROVE Nesting /\ EndIffFallen /\ ErrorOnlyAfterEnd /\ Choosing /\ SwitchDue
    OBVIOUS
  <1>1. /\ phase = "action" /\ winner = Nobody /\ stack = <<>>
        /\ thrown = "nothing" /\ alive = [c \in Char |-> TRUE]
        /\ active = [p \in Player |-> <<p, 1>>]
    BY DEF Init
  <1>2. \A p \in Player : <<p, 1>> \in Char
    BY DEF Char
  <1>3. \A p \in Player : ~Fallen(p)
    <2>1. \A p \in Player : Owner(<<p, 1>>) = p
      BY DEF Owner
    <2>2. QED BY <1>1, <1>2, <2>1 DEF Fallen
  <1>4. EndIffFallen
    BY <1>1, <1>3, FlipFlips DEF EndIffFallen, Player, Nobody
  <1>5. SwitchDue
    BY <1>1, <1>2 DEF SwitchDue
  <1>6. Len(stack) = 0
    BY <1>1
  <1>7. QED BY <1>1, <1>4, <1>5, <1>6 DEF Nesting, ErrorOnlyAfterEnd, Choosing

\* Every call keeps its place; the invariant on which all the others rest.
THEOREM CallsNest == Spec => []Nesting
  BY SettlementInit, NestingKept, TypeCorrect, PTL DEF Spec

\* However deep in the nesting a last character falls, the game ends then, and
\* the winner is who has somebody left.
THEOREM EndIsTheFall == Spec => []EndIffFallen
  BY SettlementInit, EndKept, CallsNest, TypeCorrect, PTL DEF Spec

\* chooseActive() throws only where the game has ended in a nested call.
THEOREM ErrorsComeLate == Spec => []ErrorOnlyAfterEnd
  BY SettlementInit, ErrorKept, EndIsTheFall, CallsNest, TypeCorrect, PTL DEF Spec

THEOREM SwitchIsDue == Spec => []SwitchDue
  <1>1. Spec => []Choosing
    BY SettlementInit, ChoosingKept, CallsNest, TypeCorrect, PTL DEF Spec
  <1>2. QED BY <1>1, SettlementInit, SwitchKept, CallsNest, TypeCorrect, PTL DEF Spec

\* A settled skill leaves both active characters alive.
THEOREM ActivesLive == Spec => []ActiveAliveAtRest
  <1>1. SwitchDue => ActiveAliveAtRest
    <2>1. stack = <<>> => 1..Len(stack) = {}
      OBVIOUS
    <2>2. QED BY <2>1 DEF SwitchDue, ActiveAliveAtRest, AtRest
  <1>2. QED BY <1>1, SwitchIsDue, PTL

-----------------------------------------------------------------------------
(***************************************************************************)
(* Wards, where at most one of a player is paid from his dice.             *)
(***************************************************************************)

OneOde == \A c, d \in Char : Owner(c) = Owner(d) /\ ode[c] > 0 /\ ode[d] > 0 => c = d

Dying == {c \in Char : alive[c] /\ health[c] = 0}

\* Living characters without health are in the innermost call, which has just
\* felled them or is about to save them, and the wards of the latter will act.
ZeroInv ==
  phase = "action" /\ thrown = "nothing" =>
    \/ Dying = {} /\ ~At("immune")
    \/ At("settle") /\ Dying \subseteq Top.deadly
    \/ At("immune") /\ Dying \subseteq Top.saved /\ \A c \in Top.saved : CheckImmune(c)

LEMMA OdeInit == OdesPerPlayer <= 1 /\ Init => OneOde
  <1> SUFFICES ASSUME OdesPerPlayer <= 1, Init,
                      NEW c \in Char, NEW d \in Char,
                      Owner(c) = Owner(d), ode[c] > 0, ode[d] > 0, c # d
               PROVE  FALSE
    BY DEF OneOde
  <1>1. PICK odes \in SUBSET Char :
          /\ \A p \in Player : Cardinality({x \in odes : Owner(x) = p}) <= OdesPerPlayer
          /\ ode = [x \in Char |-> IF x \in odes THEN 1 ELSE 0]
    BY DEF Init
  <1>2. c \in odes /\ d \in odes
    BY <1>1
  <1>3. PICK p \in Player : p = Owner(c)
    BY OwnerType
  <1> DEFINE mine == {x \in odes : Owner(x) = p}
  <1>4. IsFiniteSet(Char)
    <2>1. IsFiniteSet(Player)
      <3>1. Player = 0..1
        BY DEF Player
      <3>2. IsFiniteSet(0..1)
        BY FS_Interval, 0 \in Int, 1 \in Int
      <3>3. QED BY <3>1, <3>2
    <2>2. IsFiniteSet(1..Slots)
      BY FS_Interval
    <2>3. QED BY <2>1, <2>2, FS_Product DEF Char
  <1>5. IsFiniteSet(mine)
    BY <1>4, FS_Subset
  <1>6. {c, d} \subseteq mine
    BY <1>2, <1>3
  <1>7. Cardinality({c, d}) = 2
    <2>1. IsFiniteSet({c}) /\ Cardinality({c}) = 1
      BY FS_Singleton
    <2>2. d \notin {c} /\ {c, d} = {c} \union {d}
      OBVIOUS
    <2>3. Cardinality({c} \union {d}) = Cardinality({c}) + 1
      BY <2>1, <2>2, FS_AddElement
    <2>4. QED BY <2>1, <2>2, <2>3
  <1>8. Cardinality({c, d}) <= Cardinality(mine)
    BY <1>5, <1>6, FS_Subset
  <1>9. Cardinality(mine) <= OdesPerPlayer
    BY <1>1
  <1>10. Cardinality(mine) \in Nat
    BY <1>5, FS_CardinalityType
  <1>11. QED BY <1>7, <1>8, <1>9, <1>10

\* Whether a character has an Ode never changes.
LEMMA OdeKept == TypeOK /\ OneOde /\ [Next]_vars => OneOde'
  <1> SUFFICES ASSUME TypeOK, OneOde, [Next]_vars PROVE OneOde'
    OBVIOUS
  <1>1. \A x \in Char : ode[x] \in Nat
    BY DEF TypeOK
  <1>2. CASE ode' = ode
    BY <1>2 DEF OneOde
  <1>3. ASSUME NEW c \in Char, Immune(c) PROVE OneOde'
    <2>1. ode' = ode \/ (ode[c] > 0 /\ ode' = [ode EXCEPT ![c] = @ + 1])
      <3>1. CheckImmune(c) /\ c \notin core => ode[c] > 0
        BY DEF CheckImmune
      <3>2. QED BY <1>3, <3>1 DEF Immune
    <2>2. CASE ode[c] > 0 /\ ode' = [ode EXCEPT ![c] = @ + 1]
      <3>1. \A x \in Char : ode'[x] > 0 => ode[x] > 0
        BY <1>1, <2>2 DEF TypeOK
      <3>2. QED BY <3>1 DEF OneOde
    <2>3. QED BY <1>2, <2>1, <2>2
  <1>4. ode' = ode \/ \E c \in Char : Immune(c)
    BY DEF Next, Strike, Mend, Settle, EventsDone, ChooseFails, AfterDone, ChooseActive,
           vars, board
  <1>5. QED BY <1>2, <1>3, <1>4

\* A call that begins has the dying among those that it hit.
LEMMA ZeroExecutes ==
  ASSUME TypeOK, NEW D \in SUBSET Char, Execute(D), Dying' \subseteq D
  PROVE  ZeroInv'
  <1>1. stack' # <<>> /\ Top'.at = "settle" /\ Top'.deadly = D
    BY ExecuteType DEF TypeOK
  <1>2. QED BY <1>1 DEF ZeroInv, At

\* A call that returns or goes on after its events leaves nobody dying.
LEMMA ZeroMoves ==
  ASSUME TypeOK, Nesting, ZeroInv, UNCHANGED <<phase, thrown, health, alive>>,
         ~At("settle"), ~At("immune"),
         \/ Return /\ stack # <<>>
         \/ \E f \in Frame : GoTo(f) /\ stack # <<>> /\ f.at \notin {"settle", "immune"}
  PROVE  ZeroInv'
  <1>1. stack \in Seq(Frame)
    BY DEF TypeOK
  <1>2. ~At("immune")'
    <2>1. CASE Return /\ stack # <<>>
      <3>1. /\ Len(stack) \in Nat /\ Len(stack') = Len(stack) - 1
            /\ stack' \in Seq(Frame) /\ \A i \in 1..Len(stack') : stack'[i] = stack[i]
        BY <1>1, <2>1, ReturnType
      <3>2. \A i \in 1..Len(stack') : stack'[i].at \in {"events", "after"}
        BY <3>1 DEF Nesting
      <3>3. QED BY <3>1, <3>2 DEF At, Top
    <2>2. ASSUME NEW f \in Frame, GoTo(f), stack # <<>>, f.at \notin {"settle", "immune"}
          PROVE  ~At("immune")'
      <3>1. Top' = f
        BY <1>1, <2>2, GoToType
      <3>2. QED BY <2>2, <3>1 DEF At
    <2>3. QED BY <2>1, <2>2
  <1>3. phase = "action" /\ thrown = "nothing" => Dying = {}
    BY DEF ZeroInv
  <1>4. Dying' = Dying
    BY DEF Dying
  <1>5. QED BY <1>2, <1>3, <1>4 DEF ZeroInv

LEMMA ZeroSettle ==
  ASSUME TypeOK, ZeroInv, Settle
  PROVE  ZeroInv'
  <1>1. stack \in Seq(Frame) /\ stack # <<>> /\ Top \in Frame /\ Top.at = "settle"
    BY TopType DEF TypeOK, Settle, At
  <1>2. PICK saved, fallen \in SUBSET Top.deadly :
          /\ saved = {c \in Top.deadly : CheckImmune(c)}
          /\ fallen = {c \in Top.deadly \ saved : alive[c]}
          /\ alive' = [c \in Char |-> alive[c] /\ c \notin fallen]
          /\ \/ Failed(fallen) # {} /\ Verdict(Failed(fallen))
             \/ /\ Failed(fallen) = {}
                /\ GoTo([Top EXCEPT
                     !.at = IF saved = {} THEN "events" ELSE "immune",
                     !.saved = saved, !.critical = Top.deadly # {}])
                /\ UNCHANGED <<phase, winner>>
    BY SettleRuns
  <1>3. CASE Verdict(Failed(fallen))
    BY <1>3 DEF Verdict, ZeroInv
  <1>4. CASE /\ GoTo([Top EXCEPT
                  !.at = IF saved = {} THEN "events" ELSE "immune",
                  !.saved = saved, !.critical = Top.deadly # {}])
             /\ UNCHANGED <<phase, winner>>
    <2>1. PICK f : f = [Top EXCEPT
                          !.at = IF saved = {} THEN "events" ELSE "immune",
                          !.saved = saved, !.critical = Top.deadly # {}]
      OBVIOUS
    <2>2. saved \in SUBSET Char
      BY <1>1 DEF Frame
    <2>3. /\ f \in Frame /\ f.saved = saved
          /\ f.at = IF saved = {} THEN "events" ELSE "immune"
      BY <1>1, <2>1, <2>2 DEF Frame, Places
    <2>4. Top' = f /\ stack' # <<>>
      BY <1>1, <1>4, <2>1, <2>3, GoToType
    <2>5. UNCHANGED <<health, thrown, core, ode, dice>>
      BY DEF Settle
    <2>6. phase = "action" /\ thrown = "nothing" => Dying \subseteq Top.deadly
      BY <1>1 DEF ZeroInv, At
    <2>7. phase = "action" /\ thrown = "nothing" => Dying' \subseteq saved
      BY <1>2, <2>5, <2>6 DEF Dying
    <2>8. \A c \in saved : CheckImmune(c)'
      BY <1>2, <2>5 DEF CheckImmune
    <2>9. CASE saved = {}
      BY <1>4, <2>3, <2>4, <2>5, <2>7, <2>9 DEF ZeroInv, At
    <2>10. CASE saved # {}
      BY <1>4, <2>3, <2>4, <2>5, <2>7, <2>8, <2>10 DEF ZeroInv, At
    <2>11. QED BY <2>9, <2>10
  <1>5. QED BY <1>2, <1>3, <1>4

LEMMA ZeroImmune ==
  ASSUME TypeOK, Nesting, OneOde, ZeroInv, NEW c \in Char, Immune(c)
  PROVE  ZeroInv'
  <1>1. /\ stack \in Seq(Frame) /\ stack # <<>> /\ Top \in Frame /\ Top.at = "immune"
        /\ c \in Top.saved /\ Top.saved \subseteq Char
    BY TopType DEF TypeOK, Immune, At, Frame
  <1>2. phase = "action" /\ thrown = "nothing"
    BY <1>1 DEF Nesting
  <1>3. Dying \subseteq Top.saved /\ \A d \in Top.saved : CheckImmune(d)
    BY <1>1, <1>2 DEF ZeroInv, At
  <1>4. PICK f : f = [Top EXCEPT !.saved = StillSaved(c),
                        !.at = IF StillSaved(c) = {} THEN "events" ELSE "immune"]
    OBVIOUS
  <1>5. /\ f \in Frame /\ f.saved = Top.saved \ {c}
        /\ f.at = IF f.saved = {} THEN "events" ELSE "immune"
    BY <1>1, <1>4 DEF Frame, Places, StillSaved
  <1>6. Top' = f /\ stack' # <<>>
    BY <1>1, <1>4, <1>5, GoToType DEF Immune
  <1>7. /\ health' = [health EXCEPT ![c] = 1] /\ alive' = alive
        /\ phase' = phase /\ thrown' = thrown
    BY <1>1, <1>3 DEF Immune
  <1>8. Dying' \subseteq f.saved
    <2>1. \A d \in Char : d # c => health'[d] = health[d]
      BY <1>7 DEF TypeOK
    <2>2. health'[c] = 1
      BY <1>7 DEF TypeOK
    <2>3. QED BY <1>3, <1>5, <1>7, <2>1, <2>2 DEF Dying
  <1>9. ASSUME NEW d \in Top.saved, d # c PROVE CheckImmune(d)'
    <2>1. d \in Char /\ CheckImmune(d)
      BY <1>1, <1>3, <1>9
    <2>2. CASE c \in core
      <3>1. core' = core \ {c} /\ ode' = ode /\ dice' = dice
        BY <1>1, <1>3, <2>2 DEF Immune
      <3>2. QED BY <1>9, <2>1, <3>1 DEF CheckImmune
    <2>3. CASE c \notin core
      <3>1. /\ core' = core /\ ode[c] > 0
            /\ dice' = [dice EXCEPT ![Owner(c)] = @ - ode[c]]
            /\ ode' = [ode EXCEPT ![c] = @ + 1]
        BY <1>1, <1>3, <2>3 DEF Immune, CheckImmune
      <3>2. CASE d \in core
        BY <3>1, <3>2 DEF CheckImmune
      <3>3. CASE d \notin core
        <4>1. ode[d] > 0 /\ dice[Owner(d)] >= ode[d]
          BY <2>1, <3>3 DEF CheckImmune
        <4>2. Owner(d) # Owner(c)
          BY <1>9, <2>1, <3>1, <4>1 DEF OneOde
        <4>3. Owner(d) \in Player
          BY <2>1, OwnerType
        <4>4. ode'[d] = ode[d] /\ dice'[Owner(d)] = dice[Owner(d)]
          BY <1>9, <2>1, <3>1, <4>2, <4>3 DEF TypeOK
        <4>5. QED BY <4>1, <4>4 DEF CheckImmune
      <3>4. QED BY <3>2, <3>3
    <2>4. QED BY <2>2, <2>3
  <1>10. CASE f.saved = {}
    BY <1>5, <1>6, <1>8, <1>10 DEF ZeroInv, At
  <1>11. CASE f.saved # {}
    BY <1>5, <1>6, <1>8, <1>9, <1>11 DEF ZeroInv, At
  <1>12. QED BY <1>10, <1>11

\* Where a skill may be settled nobody is dying.
LEMMA NobodyDying ==
  ASSUME Nesting, ZeroInv, TypeOK, MaySettle
  PROVE  Dying = {}
  <1>1. phase = "action" /\ thrown = "nothing"
    BY DEF TypeOK, MaySettle
  <1>2. ~At("settle") /\ ~At("immune")
    BY DEF MaySettle, At
  <1>3. QED BY <1>1, <1>2 DEF ZeroInv

LEMMA ZeroKept ==
  ASSUME TypeOK, Nesting, OneOde, ZeroInv, [Next]_vars
  PROVE  ZeroInv'
  <1>1. ASSUME NEW hits \in SUBSET {c \in Char : alive[c]},
               NEW value \in 1..MaxHealth,
               NEW to \in SUBSET {c \in Char : alive[c]}, Strike(hits, value, to)
        PROVE  ZeroInv'
    <2>1. PICK D \in SUBSET Char : D = {c \in hits : health[c] <= value}
      OBVIOUS
    <2>2. Execute(D) /\ Dying = {} /\ alive' = alive
      BY <1>1, <2>1, NobodyDying DEF Strike
    <2>3. health' = [c \in Char |-> IF c \notin hits THEN health[c]
                                    ELSE IF health[c] <= value THEN 0
                                    ELSE health[c] - value]
      BY <1>1 DEF Strike
    <2>4. \A c \in Char : health[c] \in 0..MaxHealth
      BY DEF TypeOK
    <2>5. \A c \in Char : alive[c] /\ health'[c] = 0 => c \in D
      BY <2>1, <2>2, <2>3, <2>4 DEF Dying
    <2>6. Dying' \subseteq D
      BY <2>2, <2>5 DEF Dying
    <2>7. QED BY <2>2, <2>6, ZeroExecutes
  <1>2. ASSUME NEW c \in Char, Mend(c) PROVE ZeroInv'
    <2>1. Dying = {}
      BY <1>2, NobodyDying DEF Mend
    <2>2. ~(alive[c] /\ health[c] = 0)
      BY <2>1 DEF Dying
    <2>3. Execute({}) /\ alive' = [alive EXCEPT ![c] = TRUE]
      BY <1>2, <2>2 DEF Mend
    <2> DEFINE h == IF health[c] = MaxHealth THEN health[c] ELSE health[c] + 1
    <2>4. health' = [health EXCEPT ![c] = h]
      BY <1>2, <2>2, Zenon DEF Mend
    <2>5. h # 0
      BY DEF TypeOK
    <2> HIDE DEF h
    <2>6. \A d \in Char : health'[d] = IF d = c THEN h ELSE health[d]
      BY <2>4 DEF TypeOK
    <2>7. \A d \in Char : d # c => alive'[d] = alive[d]
      BY <2>3 DEF TypeOK
    <2>8. Dying' = {}
      BY <2>1, <2>5, <2>6, <2>7 DEF Dying
    <2>9. {} \in SUBSET Char /\ Dying' \subseteq {}
      BY <2>8
    <2>10. QED BY <2>3, <2>9, ZeroExecutes
  <1>3. ASSUME NEW c \in Char, Immune(c) PROVE ZeroInv'
    BY <1>3, ZeroImmune
  <1>4. CASE Settle
    BY <1>4, ZeroSettle
  <1>5. CASE thrown' # "nothing"
    BY <1>5 DEF ZeroInv
  <1>6. CASE EventsDone
    <2>1. stack \in Seq(Frame) /\ stack # <<>> /\ Top \in Frame /\ Top.at = "events"
      BY <1>6, TopType DEF TypeOK, EventsDone, At
    <2>2. ~At("settle") /\ ~At("immune") /\ UNCHANGED <<phase, health, alive>>
      BY <1>6, <2>1 DEF EventsDone, At, board
    <2>3. CASE Return /\ UNCHANGED thrown
      BY <2>1, <2>2, <2>3, ZeroMoves
    <2>4. CASE Throw("chooseActive")
      BY <1>5, <2>4 DEF Throw
    <2>5. CASE /\ GoTo([Top EXCEPT !.at = "choose", !.asked = ActiveFallen, !.chosen = {}])
               /\ UNCHANGED thrown
      <3>1. ActiveFallen \in SUBSET Player
        BY DEF ActiveFallen
      <3>2. PICK f : f = [Top EXCEPT !.at = "choose", !.asked = ActiveFallen, !.chosen = {}]
        OBVIOUS
      <3>3. f \in Frame /\ f.at = "choose"
        BY <2>1, <3>1, <3>2 DEF Frame, Places
      <3>4. QED BY <2>1, <2>2, <2>5, <3>2, <3>3, ZeroMoves
    <2>6. QED BY <1>6, <2>3, <2>4, <2>5 DEF EventsDone
  <1>7. CASE ChooseFails
    BY <1>5, <1>7 DEF ChooseFails, Throw
  <1>8. CASE AfterDone
    BY <1>8, ZeroMoves DEF AfterDone, At, board
  <1>9. ASSUME NEW p \in Player, NEW c \in Char, ChooseActive(p, c) PROVE ZeroInv'
    <2> DEFINE D == Top.chosen \union {c}
               f == IF Top.asked = {p}
                    THEN [Top EXCEPT !.asked = {}, !.at = "after"]
                    ELSE [Top EXCEPT !.asked = @ \ {p}, !.chosen = D]
    <2>1. /\ stack \in Seq(Frame) /\ stack # <<>> /\ Top \in Frame
          /\ f \in Frame /\ GoTo(f)
          /\ UNCHANGED <<phase, thrown, health, alive>>
      BY <1>9, ChooseRuns
    <2>2. Top.at = "choose"
      BY <1>9 DEF ChooseActive, At
    <2>3. f.at \notin {"settle", "immune"}
      BY <2>1, <2>2 DEF Frame
    <2> HIDE DEF f
    <2>4. QED BY <2>1, <2>2, <2>3, ZeroMoves DEF At
  <1>10. CASE UNCHANGED vars
    BY <1>10 DEF vars, board, ZeroInv, Dying, At, Top, CheckImmune
  <1>11. QED BY <1>1, <1>2, <1>3, <1>4, <1>6, <1>7, <1>8, <1>9, <1>10, Zenon DEF Next, SwitchesWith

\* With one Ode a player, wards that were found able to act do act, so that a
\* character without health is fallen, or is being settled.
THEOREM WardsHold ==
  ASSUME OdesPerPlayer <= 1
  PROVE  Spec => []ZeroInv
  <1>1. Init => ZeroInv /\ OneOde
    <2>1. Init => ZeroInv
      BY DEF Init, ZeroInv, Dying, At
    <2>2. QED BY <2>1, OdeInit
  <1>2. QED BY <1>1, OdeKept, ZeroKept, CallsNest, TypeCorrect, PTL DEF Spec

\* What is alive when all is settled has health left.
THEOREM SavedLive ==
  ASSUME OdesPerPlayer <= 1
  PROVE  Spec => []AliveHasHealth
  <1>1. TypeOK /\ ZeroInv => AliveHasHealth
    <2> SUFFICES ASSUME TypeOK, ZeroInv, AtRest, NEW c \in Char, alive[c]
                 PROVE  health[c] > 0
      BY DEF AliveHasHealth
    <2>1. Dying = {}
      BY DEF ZeroInv, AtRest, At
    <2>2. health[c] # 0
      BY <2>1 DEF Dying
    <2>3. QED BY <2>2 DEF TypeOK
  <1>2. QED BY <1>1, WardsHold, TypeCorrect, PTL

\* And no heal finds a living character without health.
THEOREM HealsAccepted ==
  ASSUME OdesPerPlayer <= 1
  PROVE  Spec => []HealAccepted
  <1>1. Init => HealAccepted
    BY DEF Init, HealAccepted
  <1>2. TypeOK /\ Nesting /\ ZeroInv /\ HealAccepted /\ [Next]_vars => HealAccepted'
    <2> SUFFICES ASSUME TypeOK, Nesting, ZeroInv, HealAccepted, [Next]_vars
                 PROVE  HealAccepted'
      OBVIOUS
    <2>1. CASE thrown' = thrown \/ thrown' \in {"chooseActive", "io"}
      BY <2>1 DEF HealAccepted
    <2>2. ASSUME NEW c \in Char, Mend(c) PROVE HealAccepted'
      <3>1. Dying = {}
        BY <2>2, NobodyDying DEF Mend
      <3>2. ~(alive[c] /\ health[c] = 0)
        BY <3>1 DEF Dying
      <3>3. QED BY <2>1, <2>2, <3>2 DEF Mend
    <2>3. \/ \E c \in Char : Mend(c)
          \/ thrown' = thrown \/ thrown' \in {"chooseActive", "io"}
      BY DEF Next, Strike, Immune, Settle, EventsDone, ChooseFails, AfterDone, ChooseActive,
             Throw, vars
    <2>4. QED BY <2>1, <2>2, <2>3
  <1>3. QED BY <1>1, <1>2, WardsHold, CallsNest, TypeCorrect, PTL DEF Spec
=============================================================================
