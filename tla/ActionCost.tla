----------------------------- MODULE ActionCost -----------------------------
(***************************************************************************)
(* What an action costs and how it is paid: the attachments of a hand card *)
(* (applyAttachmentModifications), the modifyAction events, the choice and *)
(* the check of dice (packages/utils/src/dice.ts) and the consumption of   *)
(* dice in Game.actionPhase().                                             *)
(*                                                                         *)
(* A DiceRequirement is a JavaScript Map: its entries keep the order of    *)
(* insertion and chooseDice() depends on it, so it is a sequence of        *)
(* entries here.                                                           *)
(***************************************************************************)
EXTENDS Naturals, FiniteSets, SequencesExt

CONSTANTS
  Colors,        \* the DiceType of elements in use, 1..7 in the code
  TunesTo,       \* the colour that elemental tuning makes
  Costs,         \* Costs[k]: the printed costs of actions of kind k
  MaxDice,       \* bound: dice a player holds (16 in the code)
  MaxLayer,      \* bound: layers of an attachment (none in the code)
  MaxModifiers,  \* bound: modifiers that apply to one action
  BothWays       \* a card may carry both CostReduction and CostIncrease

Void    == 0
Omni    == 8
Aligned == 8   \* the key of a requirement; dice never have it
Energy  == 9
Kinds   == {"skill", "card", "switch", "tuning"}
Needs   == Colors \union {Void, Aligned, Energy}

Requirements == Seq([type : Needs, count : Nat])

ASSUME ActionCostConstants ==
  /\ Colors \subseteq 1..7 /\ TunesTo \in Colors /\ DOMAIN Costs = Kinds
  /\ MaxDice \in Nat /\ MaxLayer \in Nat \ {0} /\ MaxModifiers \in Nat
  /\ BothWays \in BOOLEAN

\* What the builders print on cards and skills: a type once, aligned dice with
\* nothing but energy, colours before dice of any type.  To switch and to tune
\* cost one die.
ASSUME PrintedCosts ==
  /\ \A k \in Kinds : \A c \in Costs[k] :
       /\ c \in Requirements
       /\ \A i, j \in DOMAIN c : i < j =>
            /\ c[i].type # c[j].type
            /\ c[i].type = Void => c[j].type = Energy
            /\ Aligned \in {c[i].type, c[j].type} => Energy \in {c[i].type, c[j].type}
  /\ \A k \in {"switch", "tuning"} : Costs[k] \subseteq {<<[type |-> Void, count |-> 1]>>}

-----------------------------------------------------------------------------
\* The elements of s at the positions S, in their order.
Picked(s, S) ==
  [k \in 1..Cardinality(S) |->
     s[CHOOSE i \in S : Cardinality({j \in S : j < i}) = k - 1]]

(* Requirements: Map.get, Map.has, Map.set. *)

Has(req, t) == \E i \in DOMAIN req : req[i].type = t
Get(req, t) ==
  IF Has(req, t) THEN req[CHOOSE i \in DOMAIN req : req[i].type = t].count ELSE 0
Put(req, t, n) ==
  IF Has(req, t)
  THEN [i \in DOMAIN req |-> IF req[i].type = t THEN [req[i] EXCEPT !.count = n]
                                                ELSE req[i]]
  ELSE Append(req, [type |-> t, count |-> n])

\* The dice that a requirement asks for, numbered within their type.
Units(req) ==
  UNION {{<<req[i].type, j>> : j \in 1..req[i].count} :
         i \in {k \in DOMAIN req : req[k].type # Energy}}

diceCostSize(req) == Cardinality(Units(req))

\* Broken: entries that have become 0 stay.
normalizeKeepsZeros(req) ==
  IF req = <<>> THEN <<[type |-> Aligned, count |-> 0]>> ELSE req

normalizeCost(req) ==
  LET kept == Picked(req, {i \in DOMAIN req : req[i].count # 0})
  IN IF kept = <<>> THEN <<[type |-> Aligned, count |-> 0]>> ELSE kept

\* Types in the order in which they are added to and deducted from.
Priority ==
  LET all == <<Aligned, 1, 2, 3, 4, 5, 6, 7, Void>>
  IN Picked(all, {i \in DOMAIN all : all[i] \in Needs})

\* Broken: what one type could not cover is not asked of the next.
deductFirstOnly(req, types, n) ==
  LET t == Head(types)
  IN Put(req, t, IF n < Get(req, t) THEN Get(req, t) - n ELSE 0)

\* What the first k types ask for, which is what they can take off.
covered(req, types) ==
  LET upTo[k \in 0..Len(types)] ==
        IF k = 0 THEN 0 ELSE upTo[k - 1] + Get(req, types[k])
  IN upTo

\* The types are reduced in turn until n is used up, and a type that is passed
\* on the way is entered with 0 if the map lacks it.
deductCost(req, types, n) ==
  LET upTo    == covered(req, types)
      enough  == {k \in DOMAIN types : upTo[k] >= n}
      last    == IF enough = {} THEN Len(types) ELSE Min(enough)
      passed  == SubSeq(types, 1, last)
      left(t) == IF t = types[last] /\ upTo[last] > n THEN upTo[last] - n ELSE 0
      missing == Picked(types, {k \in 1..last : ~Has(req, types[k])})
  IN [i \in DOMAIN req |-> IF Contains(passed, req[i].type)
                           THEN [req[i] EXCEPT !.count = left(req[i].type)]
                           ELSE req[i]]
     \o [i \in DOMAIN missing |-> [type |-> missing[i], count |-> 0]]

\* Broken: a requirement that has the type gets the increase as its count.
appendOverwrites(req, types, n) ==
  LET present == Picked(types, {k \in DOMAIN types : Has(req, types[k])})
  IN IF present = <<>> THEN Put(req, Aligned, n) ELSE Put(req, Head(present), n)

\* The first type the map has, with whatever count, is increased.
appendCost(req, types, n) ==
  LET present == Picked(types, {k \in DOMAIN types : Has(req, types[k])})
  IN IF present = <<>> THEN Put(req, Aligned, n)
     ELSE Put(req, Head(present), Get(req, Head(present)) + n)

\* Empowerment: as many dice of any type, and the energy as before.
changeType(req) ==
  LET dice == <<[type |-> Void, count |-> diceCostSize(req)]>>
  IN IF Get(req, Energy) > 0 THEN Put(dice, Energy, Get(req, Energy)) ELSE dice

\* What one attachment makes of the cost.
attached(req, a) ==
  CASE a.kind = "increase" -> appendCost(req, Priority, a.layer)
    [] a.kind = "decrease" -> deductCost(req, Priority, a.layer)
    [] OTHER -> req

\* The cost after the first k attachments, in their order.
costAfter(printed, attachments) ==
  LET after[k \in 0..Len(attachments)] ==
        IF k = 0 THEN printed ELSE attached(after[k - 1], attachments[k])
  IN after

\* applyAttachmentModifications()
CostOfCard(printed, attachments) ==
  LET changed == costAfter(printed, attachments)[Len(attachments)]
      void    == \E i \in DOMAIN attachments : attachments[i].kind = "changeType"
  IN normalizeCost(IF void THEN changeType(changed) ELSE changed)

-----------------------------------------------------------------------------
(* Dice: sequences of types.  chooseDice() returns the chosen indices. *)

CountOf(dice, d) == Cardinality({i \in DOMAIN dice : dice[i] = d})
FirstOf(S, n) == {i \in S : Cardinality({j \in S : j < i}) < n}
LastOf(S, n) == {i \in S : Cardinality({j \in S : j > i}) < n}

\* Broken: omni dice do not help out.
checkWithoutOmni(req, chosen) ==
  IF Has(req, Aligned)
  THEN /\ Get(req, Aligned) = Len(chosen)
       /\ Cardinality(Range(chosen)) <= 1
  ELSE Len(chosen) = diceCostSize(req)
       /\ \A c \in Colors : CountOf(chosen, c) >= Get(req, c)

\* checkDice(): a requirement of aligned dice stands alone; otherwise each unit
\* of a colour takes a die out, an omni die if it must, and what is left over
\* is as much as is required of any colour.
checkDice(req, chosen) ==
  IF Has(req, Aligned)
  THEN /\ Get(req, Aligned) = Len(chosen)
       /\ \/ Cardinality(Range(chosen)) <= 1
          \/ Cardinality(Range(chosen)) = 2 /\ Omni \in Range(chosen)
  ELSE LET lacking == {u \in Units(req) : u[1] \in Colors /\ u[2] > CountOf(chosen, u[1])}
       IN /\ Cardinality(lacking) <= CountOf(chosen, Omni)
          /\ Len(chosen) = diceCostSize(req)

\* Broken: the dice of a colour are taken before the omni dice are looked at,
\* and the omni dice do not count as aligned.
chooseWithoutOmni(n, dice) ==
  LET group(i) == {j \in DOMAIN dice : dice[j] = dice[i]}
      able == {i \in DOMAIN dice : Cardinality(group(i)) >= n}
  IN IF able # {} THEN LastOf(group(Max(able)), n) ELSE {}

\* The last die whose colour, with the omni dice, is enough decides.
chooseAligned(n, dice) ==
  LET omni  == {i \in DOMAIN dice : dice[i] = Omni}
      group(i) == omni \union {j \in DOMAIN dice : dice[j] = dice[i]}
      able  == {i \in DOMAIN dice \ omni : Cardinality(group(i)) >= n}
  IN CASE able # {} -> LastOf(group(Max(able)), n)
       [] able = {} /\ Cardinality(omni) >= n -> LastOf(omni, n)
       [] OTHER -> {}

\* What an entry takes of the dice that are free: a colour its first dice and
\* then the first omni dice, any colour the last dice.
takes(entry, free, dice) ==
  LET n    == entry.count
      same == FirstOf({i \in free : dice[i] = entry.type}, n)
      omni == FirstOf({i \in free : dice[i] = Omni}, n - Cardinality(same))
  IN CASE entry.type = Energy -> {}
       [] entry.type = Void   -> LastOf(free, n)
       [] OTHER               -> same \union omni

\* The dice that the first k entries take, one entry after the other.
taken(req, dice) ==
  LET upTo[k \in 0..Len(req)] ==
        IF k = 0 THEN {}
        ELSE upTo[k - 1] \union takes(req[k], DOMAIN dice \ upTo[k - 1], dice)
  IN upTo

\* chooseDice(): all or nothing.
chooseDice(req, dice) ==
  IF Has(req, Aligned) THEN chooseAligned(Get(req, Aligned), dice)
  ELSE LET all == taken(req, dice)[Len(req)]
       IN IF Cardinality(all) = diceCostSize(req) THEN all ELSE {}

chooseDiceValue(req, dice) == Picked(dice, chooseDice(req, dice))

\* sortDice(), with the order of colours (the characters of the player) left
\* open: omni dice come first, dice of one colour together.
Sorted(dice) ==
  \A i, j \in DOMAIN dice : i < j =>
    /\ dice[j] = Omni => dice[i] = Omni
    /\ dice[i] = dice[j] => \A k \in i..j : dice[k] = dice[i]

-----------------------------------------------------------------------------
VARIABLES
  card,         \* the printed cost of the card in hand
  attachments,  \* its attachments, in the order in which they were made
  dice,         \* PlayerState.dice
  kind, cost,   \* the action that is offered, and its cost so far
  stage,        \* "idle", the modifyAction event that goes on, "pay" or "error"
  modifiers     \* modifiers that have been applied to the action

vars == <<card, attachments, dice, kind, cost, stage, modifiers>>

Hands == UNION {{s \in [1..n -> Colors \union {Omni}] : Sorted(s)} : n \in 0..MaxDice}

Init ==
  /\ card \in Costs["card"] /\ attachments = <<>> /\ dice \in Hands
  /\ kind = "card" /\ cost = normalizeCost(card)
  /\ stage = "idle" /\ modifiers = 0

CardCost == CostOfCard(card, attachments)
IsPermutationOf(s, t) ==
  /\ Len(s) = Len(t)
  /\ \A d \in Colors \union {Omni} : CountOf(s, d) = CountOf(t, d)

KindsOn(as) == {as[i].kind : i \in DOMAIN as}

\* createAttachment(): a layer more, or a new attachment at the end.  A card
\* that costs nothing gets no CostReduction (FrostmoonEnclave).
Attach(k) ==
  /\ stage = "idle"
  /\ k = "decrease" => diceCostSize(CardCost) > 0
  /\ BothWays \/ ~({"increase", "decrease"} \subseteq KindsOn(attachments) \union {k})
  /\ IF k \in KindsOn(attachments)
     THEN \E i \in DOMAIN attachments :
            /\ attachments[i].kind = k /\ attachments[i].layer < MaxLayer
            /\ k # "changeType"
            /\ attachments' = [attachments EXCEPT ![i].layer = @ + 1]
     ELSE attachments' = Append(attachments, [kind |-> k, layer |-> 1])
  /\ UNCHANGED <<card, dice, kind, cost, stage, modifiers>>

\* availableActions(): an action with the cost it has before modifyAction.
Offer(k, printed) ==
  /\ stage = "idle" /\ stage' = "modifyAction0"
  /\ kind' = k /\ modifiers' = 0
  /\ cost' = IF k = "card" THEN CardCost ELSE normalizeCost(printed)
  /\ UNCHANGED <<card, attachments, dice>>

\* One modifier of the present stage; `cost' normalizes when it is read.
Modified(s, ks, new) ==
  /\ stage = s /\ kind \in ks /\ modifiers < MaxModifiers
  /\ modifiers' = modifiers + 1
  /\ cost' = normalizeCost(new)
  /\ UNCHANGED <<card, attachments, dice, kind, stage>>

canDeductCost == \E i \in DOMAIN cost : cost[i].count > 0

\* addCost(), deductCost() and the like look at the cost only.  The kinds are
\* those that the filters of the cards let each of them modify.
addVoidCost ==
  Modified("modifyAction0", {"switch"}, Put(cost, Void, Get(cost, Void) + 1))
addOmniCost ==
  Modified("modifyAction0", {"skill"}, appendCost(cost, Priority, 1))
deductVoidCost(n) ==
  /\ Has(cost, Void)
  /\ Modified("modifyAction0", {"skill"}, deductCost(cost, <<Void>>, n))
deductColorCost(t, n) ==
  /\ Has(cost, t) \/ Has(cost, Void)
  /\ Modified("modifyAction1", {"skill", "card"}, deductCost(cost, <<t, Void>>, n))
deductOmniCost(n) ==
  /\ canDeductCost
  /\ Modified("modifyAction2", {"skill", "card", "switch"},
              deductCost(cost, Priority, n))
deductAllCost ==
  canDeductCost /\ Modified("modifyAction3", {"card"}, <<>>)

Modify == \/ addVoidCost \/ addOmniCost \/ deductAllCost
          \/ \E n \in 1..2 : \/ deductVoidCost(n) \/ deductOmniCost(n)
                             \/ \E t \in Colors : deductColorCost(t, n)

After == [modifyAction0 |-> "modifyAction1", modifyAction1 |-> "modifyAction2",
          modifyAction2 |-> "modifyAction3", modifyAction3 |-> "pay"]

NextStage ==
  /\ stage \in DOMAIN After /\ stage' = After[stage]
  /\ UNCHANGED <<card, attachments, dice, kind, cost, modifiers>>

\* applyAutoSelectedDiceToAction(): without a choice of dice the action is
\* NO_DICE and not offered as valid.
Valid ==
  IF kind = "tuning" THEN \E i \in DOMAIN dice : dice[i] \notin {Omni, TunesTo}
  ELSE checkDice(cost, chooseDiceValue(cost, dice))

\* The action is dealt with.
Finished ==
  kind' = "card" /\ cost' = normalizeCost(card) /\ modifiers' = 0

\* Broken: tuning takes any die.
LegalWhenAnyDie(used) ==
  /\ checkDice(cost, used)
  /\ \A d \in Range(used) : CountOf(used, d) <= CountOf(dice, d)

\* The dice that the player names pay the cost, are among his own, and a card is
\* tuned with a die that gains by it.
Legal(used) ==
  /\ checkDice(cost, used)
  /\ \A d \in Range(used) : CountOf(used, d) <= CountOf(dice, d)
  /\ kind = "tuning" => used[1] \notin {Omni, TunesTo}

\* The resetDice mutation: what the dice may be afterwards.
resetDice(left) == {s \in Hands : IsPermutationOf(s, left)}

\* operatingDice: one die less for every one that is used.
without(held, used) ==
  LET left[k \in 0..Len(used)] ==
        IF k = 0 THEN held ELSE RemoveFirst(left[k - 1], used[k])
  IN left[Len(used)]

\* The tail of actionPhase(): the dice are removed, tuning adds one; an answer
\* that is not legal ends the match.
Consume(used) ==
  LET rest == without(dice, used)
  IN IF Legal(used)
     THEN /\ stage' = "idle"
          /\ dice' \in resetDice(IF kind = "tuning" THEN Append(rest, TunesTo) ELSE rest)
     ELSE stage' = "error" /\ UNCHANGED dice

\* The player answers the rpc, in whatever order he names his dice; a card that
\* was played or tuned has left.
Pay(used) ==
  /\ stage = "pay" /\ Valid
  /\ Consume(used)
  /\ attachments' = IF kind \in {"card", "tuning"} /\ stage' = "idle"
                    THEN <<>> ELSE attachments
  /\ Finished /\ UNCHANGED card

\* The player chooses another action.
Decline ==
  /\ stage = "pay" /\ stage' = "idle"
  /\ Finished /\ UNCHANGED <<card, attachments, dice>>

Next ==
  \/ \E k \in {"increase", "decrease", "changeType"} : Attach(k)
  \/ \E k \in Kinds : \E printed \in Costs[k] : Offer(k, printed)
  \/ Modify
  \/ NextStage
  \/ \E used \in Hands : Pay(used)
  \/ Decline

Spec == Init /\ [][Next]_vars

-----------------------------------------------------------------------------
(* What is checked. *)

\* Every variable holds what the code keeps in it.
TypeOK ==
  /\ card \in Requirements /\ cost \in Requirements
  /\ attachments \in Seq([kind : {"increase", "decrease", "changeType"}, layer : 1..MaxLayer])
  /\ dice \in Hands /\ kind \in Kinds
  /\ stage \in {"idle", "pay", "error"} \union DOMAIN After /\ modifiers \in 0..MaxModifiers

\* The number of dice that checkDice() takes for a requirement.
Needed(req) == IF Has(req, Aligned) THEN Get(req, Aligned) ELSE diceCostSize(req)

\* A set of dice pays a requirement when its dice can be dealt out to all the
\* units: a colour gets a die of that colour or an omni die, aligned units get
\* one colour and omni dice, a unit of any colour gets any die.
Pays(chosen, req) ==
  /\ Len(chosen) = diceCostSize(req)
  /\ \E f \in Injection(DOMAIN chosen, Units(req)), c \in Colors :
       \A i \in DOMAIN chosen :
         CASE f[i][1] = Void    -> TRUE
           [] f[i][1] = Aligned -> chosen[i] \in {c, Omni}
           [] OTHER             -> chosen[i] \in {f[i][1], Omni}

Offered == stage = "pay" /\ kind # "tuning"
Selections == {Picked(dice, S) : S \in SUBSET DOMAIN dice}

\* checkDice() accepts exactly the dice that pay the cost of the action, unit
\* by unit: no unit of a requirement is passed over, however the cost came
\* about.
CheckIsPayment ==
  Offered => \A s \in Selections : checkDice(cost, s) <=> Pays(s, cost)

\* The greedy choice of chooseDice() never fails when the dice the player holds
\* could pay: no action is called NO_DICE that is affordable, and none VALID
\* that is not.
ChoiceIsComplete ==
  Offered => (Valid <=> \E s \in Selections : Pays(s, cost))

\* The other units of a requirement of aligned dice would be forgotten, and a
\* zero left in the map would make it one: the cost in force is free of both.
NormalForm ==
  /\ Has(cost, Aligned) => diceCostSize(cost) = Get(cost, Aligned)
  /\ \A i \in DOMAIN cost : cost[i].count > 0 \/ Needed(cost) = 0

Less(n, k) == IF n < k THEN 0 ELSE n - k
NeedsThen(k) == Needed(cost') = k
CardCostThen == CostOfCard(card', attachments')

\* What is asked of the player changes by what the texts of the modifiers say:
\* an increase by what it adds, a deduction by what it can still take off from
\* the types it names, and never anything else.
ModifiersAreHonest ==
  [][/\ addVoidCost \/ addOmniCost => NeedsThen(Needed(cost) + 1)
     /\ deductAllCost => NeedsThen(0)
     /\ \A n \in 1..2 :
          /\ deductVoidCost(n) => NeedsThen(Needed(cost)
               - (IF n < Get(cost, Void) THEN n ELSE Get(cost, Void)))
          /\ deductOmniCost(n) => NeedsThen(Less(Needed(cost), n))
          /\ \A t \in Colors : deductColorCost(t, n) => NeedsThen(Needed(cost)
               - (IF n < Get(cost, t) + Get(cost, Void) THEN n
                  ELSE Get(cost, t) + Get(cost, Void)))]_vars

\* The same of the attachments of a card, whatever was attached before; a
\* change of the type keeps the number of dice and the energy.
AttachmentsAreHonest ==
  [][/\ Attach("increase") => Needed(CardCostThen) = Needed(CardCost) + 1
     /\ Attach("decrease") => Needed(CardCostThen) = Needed(CardCost) - 1
     /\ Attach("changeType") => /\ Needed(CardCostThen) = Needed(CardCost)
                               /\ Get(CardCostThen, Energy) = Get(CardCost, Energy)]_vars

\* A payment takes the needed dice from the player and no others; a tuned card
\* turns a die that is neither omni nor of the element into one that is.
PaidExactly ==
  [][stage = "pay" /\ dice' # dice =>
       IF kind = "tuning"
       THEN \E d \in Colors \ {TunesTo} :
              /\ CountOf(dice', TunesTo) = CountOf(dice, TunesTo) + 1
              /\ CountOf(dice', d) + 1 = CountOf(dice, d)
              /\ CountOf(dice', Omni) = CountOf(dice, Omni)
       ELSE /\ Len(dice') + Needed(cost) = Len(dice)
            /\ \A d \in Colors \union {Omni} : CountOf(dice', d) <= CountOf(dice, d)]_vars

\* The text of CostIncrease: the card costs more.  An increase after a
\* CostReduction may make it cheaper instead (see the README).
IncreaseNeverCheapens ==
  [][Attach("increase") => Needed(CardCostThen) > Needed(CardCost)]_vars

=============================================================================
