-------------------------------- MODULE Piles --------------------------------
(***************************************************************************)
(* The cards of both players, in hand and in the pile: the operations of   *)
(* core/src/mutator.ts that move them and those of the skill context,      *)
(* core/src/builder/context/skill.ts, that cards are written with.         *)
(*                                                                         *)
(* Every operation runs without interruption but switchHands(), which      *)
(* waits for the player's answer.  In which order operations come is up to *)
(* the cards that are played, so any may follow any.                       *)
(*                                                                         *)
(* A hand is a set, its order is display only.  A card that is on the      *)
(* stage or was removed is gone.                                           *)
(***************************************************************************)
EXTENDS Filtering, Integers, FiniteSets, SequencesExt

CONSTANTS
  Names,       \* what cards there are
  Deck,        \* cards of a player when the match begins
  InitialHands, MaxHands, MaxPile,
  MaxCards,    \* bound: cards that ever exist
  MaxCount,    \* bound: cards that one operation draws or creates
  MaxRepeats   \* bound: ids too many in an answer that names cards twice

ASSUME PilesConstants ==
  /\ {Deck, InitialHands, MaxHands, MaxPile, MaxCards, MaxCount, MaxRepeats} \subseteq Nat
  /\ InitialHands <= MaxHands /\ Deck <= MaxPile /\ 2 * Deck <= MaxCards

Player == {0, 1}
Flip(p) == 1 - p

VARIABLES
  hands, pile,  \* of each player
  gone,
  name,         \* the definitions of the cards that exist, in order of their ids
  switching,    \* the players who are asked which cards to switch
  dealt,        \* the hands have been dealt
  failed        \* the match has ended with an error

vars == <<hands, pile, gone, name, switching, dealt, failed>>

Card == 1..Len(name)

Least(a, b) == IF a < b THEN a ELSE b

Init ==
  /\ name \in [1..2 * Deck -> Names]
  /\ hands = [p \in Player |-> {}]
  /\ pile = [p \in Player |-> [i \in 1..Deck |-> p * Deck + i]]
  /\ gone = {} /\ switching = {} /\ dealt = FALSE /\ failed = FALSE

\* The operations that skills perform wait for no answer.
Ready == dealt /\ switching = {} /\ ~failed

-----------------------------------------------------------------------------
(* Into the hand. *)

\* Broken: the hand is looked at before the card is in it.
RoomLate(p) ==
  IF Cardinality(hands[p]) > MaxHands THEN 0 ELSE MaxHands + 1 - Cardinality(hands[p])

\* How many cards more the hand of p keeps.
Room(p) ==
  IF Cardinality(hands[p]) > MaxHands THEN 0 ELSE MaxHands - Cardinality(hands[p])

\* insertHandCard() of one card after the other: what overflows is removed.
Insert(p, cards) ==
  LET kept == Least(Room(p), Len(cards))
  IN  /\ hands' = [hands EXCEPT ![p] = @ \union {cards[i] : i \in 1..kept}]
      /\ gone' = gone \union {cards[i] : i \in kept + 1..Len(cards)}

Without(s, cards) == Kept(s, ToSet(s) \ cards)

DrawCardsPlain(p, count) ==
  /\ Ready
  /\ LET drawn == SubSeq(pile[p], 1, Least(count, Len(pile[p])))
     IN  /\ Insert(p, drawn)
         /\ pile' = [pile EXCEPT ![p] = Without(@, ToSet(drawn))]
  /\ UNCHANGED <<name, switching, dealt, failed>>

\* drawCards() with a condition: any card of the pile that meets it.
DrawCard(p, c) ==
  /\ Ready /\ c \in ToSet(pile[p])
  /\ Insert(p, <<c>>)
  /\ pile' = [pile EXCEPT ![p] = Without(@, {c})]
  /\ UNCHANGED <<name, switching, dealt, failed>>

CreateHandCard(p, n) ==
  /\ Ready /\ Len(name) < MaxCards
  /\ name' = Append(name, n)
  /\ Insert(p, <<Len(name) + 1>>)
  /\ UNCHANGED <<pile, switching, dealt, failed>>

\* The played card is in the hand, whatever its size, until its own skill
\* takes it away.
RequestPlayCard(n) ==
  /\ Ready /\ Len(name) < MaxCards
  /\ name' = Append(name, n)
  /\ gone' = gone \union {Len(name) + 1}
  /\ UNCHANGED <<hands, pile, switching, dealt, failed>>

\* disposeCard(), a card played or tuned.
RemoveCard(p, c) ==
  /\ Ready /\ c \in hands[p] \union ToSet(pile[p])
  /\ hands' = [hands EXCEPT ![p] = @ \ {c}]
  /\ pile' = [pile EXCEPT ![p] = Without(@, {c})]
  /\ gone' = gone \union {c}
  /\ UNCHANGED <<name, switching, dealt, failed>>

\* stealHandCard(): it is the hand the card came from whose size is looked at.
StealHandCard(p, c) ==
  /\ Ready /\ c \in hands[Flip(p)]
  /\ LET overflowed == Cardinality(hands[Flip(p)] \ {c}) > MaxHands
     IN  /\ hands' = [q \in Player |->
               IF q = p /\ ~overflowed THEN hands[q] \union {c} ELSE hands[q] \ {c}]
         /\ gone' = IF overflowed THEN gone \union {c} ELSE gone
  /\ UNCHANGED <<pile, name, switching, dealt, failed>>

SwapPlayerHandCards ==
  /\ Ready
  /\ hands' = [p \in Player |-> hands[Flip(p)]]
  /\ UNCHANGED <<pile, gone, name, switching, dealt, failed>>

-----------------------------------------------------------------------------
(* Into the pile. *)

Strategies == {"top", "bottom", "random", "spaceAround"} \X {0}
                \union {"topRange", "topIndex"} \X (1..MaxCount)

\* Broken: the gap behind the last card is not counted.
SpaceAroundLate(length, count) ==
  LET step == length \div count
      rest == length % count
  IN  [i \in 1..count |-> i - 1 + i * step + Least(i, rest)]

SpaceAround(length, count) ==
  LET step == length \div (count + 1)
      rest == length % (count + 1)
  IN  [i \in 1..count |-> i - 1 + i * step + Least(i, rest)]

\* The indices at which count cards may be put, one after the other, into a
\* pile.  Its length is the one it had before the first was.
Indices(strategy, length, count) ==
  LET n == strategy[2]
  IN  CASE strategy[1] = "top"         -> {[i \in 1..count |-> 0]}
        [] strategy[1] = "bottom"      -> {[i \in 1..count |-> length]}
        [] strategy[1] = "random"      -> [1..count -> 0..length]
        [] strategy[1] = "spaceAround" -> {SpaceAround(length, count)}
        [] strategy[1] = "topRange"    ->
             IF length = 0 THEN {[i \in 1..count |-> 0]}
                           ELSE [1..count -> 0..Least(n, length) - 1]
        [] strategy[1] = "topIndex"    -> {[i \in 1..count |-> Least(n, length)]}

\* applyMutation() of the cards in order, each at its index.
Spliced(s, cards, index) ==
  LET after[k \in 0..Len(cards)] ==
        IF k = 0 THEN s
        ELSE IF index[k] > Len(after[k - 1]) THEN Append(after[k - 1], cards[k])
        ELSE InsertAt(after[k - 1], index[k] + 1, cards[k])
  IN  after[Len(cards)]

\* The cards for which the pile has room.
Fitting(p, cards) == SubSeq(cards, 1, Least(Len(cards), MaxPile - Len(pile[p])))

InsertPileCards(p, cards, strategy) ==
  \E new \in {Spliced(pile[p], cards, index) :
                index \in Indices(strategy, Len(pile[p]), Len(cards))} :
     pile' = [pile EXCEPT ![p] = new]

CreatePileCards(p, n, count, strategy) ==
  /\ Ready /\ Len(name) + count <= MaxCards
  /\ LET cards == Fitting(p, [i \in 1..count |-> Len(name) + i])
     IN  /\ name' = name \o [i \in 1..Len(cards) |-> n]
         /\ InsertPileCards(p, cards, strategy)
  /\ UNCHANGED <<hands, gone, switching, dealt, failed>>

\* Broken: a card leaves the hand though the pile has no room for it.
UndrawCardsAnyway(p, chosen, strategy) ==
  /\ Ready
  /\ InsertPileCards(p, Fitting(p, chosen), strategy)
  /\ hands' = [hands EXCEPT ![p] = @ \ ToSet(chosen)]
  /\ UNCHANGED <<gone, name, switching, dealt, failed>>

UndrawCards(p, chosen, strategy) ==
  /\ Ready
  /\ LET cards == Fitting(p, chosen)
     IN  /\ InsertPileCards(p, cards, strategy)
         /\ hands' = [hands EXCEPT ![p] = @ \ ToSet(cards)]
  /\ UNCHANGED <<gone, name, switching, dealt, failed>>

-----------------------------------------------------------------------------
(* Switching hands. *)

\* initHands() up to its awaits.
InitHands ==
  /\ ~dealt
  /\ hands' = [p \in Player |-> {pile[p][i] : i \in 1..Least(InitialHands, Deck)}]
  /\ pile' = [p \in Player |-> Without(pile[p], hands'[p])]
  /\ switching' = Player /\ dealt' = TRUE
  /\ UNCHANGED <<gone, name, failed>>

RequestSwitchHands(p) ==
  /\ Ready
  /\ switching' = {p}
  /\ UNCHANGED <<hands, pile, gone, name, dealt, failed>>

\* Broken: the search starts anew, behind the top of the pile.
SkippedAll(s, top, names) ==
  LET others == {i \in top..Len(s) : name[s[i]] \notin names}
  IN  IF others = {} THEN 1 ELSE CHOOSE i \in others : \A j \in others : i >= j

\* Where the first card of another name is, from top on; the top of the pile
\* where there is none.
Skipped(s, top, names) ==
  LET others == {i \in top..Len(s) : name[s[i]] \notin names}
  IN  IF others = {} THEN 1 ELSE CHOOSE i \in others : \A j \in others : i <= j

\* What is drawn, card by card, for those put back.
Drawn(s, count, names) ==
  LET after[k \in 0..count] ==
        IF k = 0 THEN [pile |-> s, top |-> 1, drawn |-> {}]
        ELSE LET before == after[k - 1]
                 at     == Skipped(before.pile, before.top, names)
             IN  [pile  |-> RemoveAt(before.pile, at),
                  top   |-> IF name[before.pile[at]] \in names
                            THEN Len(before.pile) ELSE at,
                  drawn |-> before.drawn \union {before.pile[at]}]
  IN  after[count].drawn

\* The pile with these cards put anywhere into it.
Mixed(s, cards) ==
  {Spliced(s, cards, index) :
     index \in {f \in [1..Len(cards) -> 0..Len(s) + Len(cards) - 1] :
                  \A k \in DOMAIN f : f[k] < Len(s) + k}}

\* switchHands() from its await on: the cards that the player has named go
\* anywhere into the pile, and one is drawn for each id in the answer.  Nobody
\* looks whether ids repeat: a card named again is only moved again, within the
\* pile, but counts again.  Drawing from an empty pile is an error.
SwitchHands(p, removed, repeats) ==
  LET count == Cardinality(removed) + repeats
  IN  /\ p \in switching /\ removed \subseteq hands[p]
      /\ removed = {} => repeats = 0
      /\ \E mixed \in Mixed(pile[p], SetToSeq(removed)) :
           LET drawn == Drawn(mixed, Least(count, Len(mixed)), {name[c] : c \in removed})
           IN  /\ hands' = [hands EXCEPT ![p] = (@ \ removed) \union drawn]
               /\ pile' = [pile EXCEPT ![p] = Without(mixed, drawn)]
               /\ failed' = (failed \/ count > Len(mixed))
      /\ switching' = switching \ {p}
      /\ UNCHANGED <<gone, name, dealt>>

\* The player does not answer, or names a card that is not in the hand: the
\* match ends before any card is moved.  Another player who is asked still is.
SwitchFails(p) ==
  /\ p \in switching
  /\ switching' = switching \ {p} /\ failed' = TRUE
  /\ UNCHANGED <<hands, pile, gone, name, dealt>>

-----------------------------------------------------------------------------
\* Some cards of a hand, in some order.
HandChoices(p) ==
  {s \in [1..1 -> hands[p]] \union [1..2 -> hands[p]] : IsInjective(s)}

Next ==
  \/ InitHands \/ SwapPlayerHandCards
  \/ \E p \in Player :
       \/ RequestSwitchHands(p)
       \/ \E removed \in SUBSET hands[p], repeats \in 0..MaxRepeats :
            SwitchHands(p, removed, repeats)
       \/ SwitchFails(p)
       \/ \E count \in 1..MaxCount : DrawCardsPlain(p, count)
       \/ \E c \in Card : DrawCard(p, c) \/ RemoveCard(p, c) \/ StealHandCard(p, c)
       \/ \E n \in Names :
            \/ CreateHandCard(p, n) \/ RequestPlayCard(n)
            \/ \E count \in 1..MaxCount, strategy \in Strategies :
                 CreatePileCards(p, n, count, strategy)
       \/ \E chosen \in HandChoices(p), strategy \in Strategies :
            UndrawCards(p, chosen, strategy)

Spec == Init /\ [][Next]_vars

-----------------------------------------------------------------------------
\* The limit itself, which stolen cards break.
HandsWithinLimit == \A p \in Player : Cardinality(hands[p]) <= MaxHands

\* A card is in one place once, and a pile is never too large.
CardsConserved ==
  /\ \A c \in Card :
       Cardinality({p \in Player : c \in hands[p]})
         + Cardinality({at \in Player \X (1..MaxPile) :
                           at[2] <= Len(pile[at[1]]) /\ pile[at[1]][at[2]] = c})
         + (IF c \in gone THEN 1 ELSE 0) = 1
  /\ \A p \in Player : Len(pile[p]) <= MaxPile

Larger(h) == IF Cardinality(h[0]) > Cardinality(h[1]) THEN Cardinality(h[0])
                                                      ELSE Cardinality(h[1])

\* The larger hand grows beyond the limit by a stolen card, or by a switch whose
\* answer names a card twice: drawing, creating and swapping, and switching
\* cards that are named once, never take it there or further.
OverflowHasCause ==
  [][ \/ Larger(hands') <= MaxHands \/ Larger(hands') <= Larger(hands)
      \/ \E p \in Player : \E c \in hands[Flip(p)] :
           hands'[p] = hands[p] \union {c} /\ hands'[Flip(p)] = hands[Flip(p)] \ {c}
      \/ \E p \in switching : \E removed \in SUBSET hands[p], repeats \in 1..MaxRepeats :
           SwitchHands(p, removed, repeats)
    ]_vars

FairSwitch(p, removed, repeats) ==
  LET names    == {name[c] : c \in removed}
      received == hands'[p] \ (hands[p] \ removed)
  IN  /\ Cardinality(hands'[p]) = Cardinality(hands[p]) + Least(repeats, Len(pile[p]))
      /\ failed' => failed \/ repeats > Len(pile[p])
      /\ (\E c \in received : name[c] \in names) =>
           \A c \in ToSet(pile'[p]) : name[c] \in names

\* Who switches cards gets as many back, and one more for each id he repeats
\* while the pile lasts: only then, beyond its end, does the switch fail.  Cards
\* of a name he put back come only when all others in the pile have been drawn.
SwitchIsFair ==
  [][ \A p \in switching \ switching' :
        \A removed \in SUBSET hands[p], repeats \in 0..MaxRepeats :
           FairSwitch(p, removed, repeats) \/ ~SwitchHands(p, removed, repeats) ]_vars

\* The sizes of the gaps that the new cards leave between the old ones.
Gaps(old, new) ==
  LET at == {i \in 1..Len(new) : new[i] \notin ToSet(old)}
  IN  {n \in 0..Len(new) :
         \E i \in at \union {0}, j \in at \union {Len(new) + 1} :
            n = j - i - 1 /\ i < j /\ \A k \in at : k <= i \/ k >= j}

Even(p) == \A a, b \in Gaps(pile[p], pile'[p]) : a - b <= 1

\* Cards put into a pile all around are as far apart as they can be.
SpreadEvenly ==
  [][ name' # name => \A p \in Player, n \in Names, count \in 1..MaxCount :
        Even(p) \/ ~CreatePileCards(p, n, count, <<"spaceAround", 0>>) ]_vars
=============================================================================
