----------------------------- MODULE PilesProofs -----------------------------
(***************************************************************************)
(* What Piles keeps, for all sizes of hands and piles: every card is in    *)
(* one place, whatever operations are performed on it.                     *)
(*                                                                         *)
(* The invariant says that the hands, the cards of the piles and the cards *)
(* that are gone part the cards that exist, and that a pile lists its      *)
(* cards.  An operation moves some of them from one part to another.       *)
(***************************************************************************)
EXTENDS Piles, DataLemmas

Typed ==
  /\ name \in Seq(Names)
  /\ hands \in [Player -> SUBSET Card] /\ pile \in [Player -> Seq(Card)]
  /\ gone \subseteq Card
  /\ switching \subseteq Player /\ dealt \in BOOLEAN

\* The sets a, b, c, d and e are parts of the set cards.
Parts(cards, a, b, c, d, e) ==
  /\ cards = a \union b \union c \union d \union e
  /\ a \cap b = {} /\ a \cap c = {} /\ a \cap d = {} /\ a \cap e = {}
  /\ b \cap c = {} /\ b \cap d = {} /\ b \cap e = {}
  /\ c \cap d = {} /\ c \cap e = {} /\ d \cap e = {}

\* The cards of a pile.
InPile(p) == ToSet(pile[p])

\* Every card is in one place.
Placed ==
  \A p \in Player :
    /\ Lists(pile[p], InPile(p)) /\ Len(pile[p]) <= MaxPile
    /\ Parts(Card, hands[p], hands[Flip(p)], InPile(p), InPile(Flip(p)), gone)

\* Before the deal all hands are empty and the piles full.
Undealt == ~dealt => switching = {} /\ \A p \in Player : hands[p] = {} /\ Len(pile[p]) = Deck

\* The inductive invariant.
Inv == Typed /\ Placed /\ Undealt

-----------------------------------------------------------------------------
(* The places of cards. *)

\* A player's opponent.
LEMMA Opponent ==
  ASSUME NEW p \in Player
  PROVE  Flip(p) \in Player /\ Flip(p) # p /\ Flip(Flip(p)) = p /\ Player = {p, Flip(p)}
BY DEF Player, Flip

\* The same parts for the other player.
LEMMA PartsFlip ==
  ASSUME NEW C, NEW a, NEW b, NEW c, NEW d, NEW e, Parts(C, a, b, c, d, e)
  PROVE  Parts(C, b, a, d, c, e)
BY Zenon DEF Parts

\* Cards are where they belong after a step that leaves lists of cards as piles
\* and parts the cards that there are then.
LEMMA PlacedNext ==
  ASSUME NEW p \in Player, NEW X, NEW Y, name' \in Seq(Names),
         hands' = [r \in Player |-> hands'[r]], pile' = [r \in Player |-> pile'[r]],
         Lists(pile'[p], X), Len(pile'[p]) <= MaxPile,
         Lists(pile'[Flip(p)], Y), Len(pile'[Flip(p)]) <= MaxPile,
         Parts(Card', hands'[p], hands'[Flip(p)], X, Y, gone'),
         switching' \subseteq Player, dealt' \in BOOLEAN
  PROVE  Typed' /\ Placed'
<1>1. X = InPile(p)' /\ Y = InPile(Flip(p))'
  BY ListsBasics, Zenon DEF InPile
<1>2. ASSUME NEW r \in Player
      PROVE  /\ Lists(pile'[r], InPile(r)') /\ Len(pile'[r]) <= MaxPile
             /\ Parts(Card', hands'[r], hands'[Flip(r)], InPile(r)', InPile(Flip(r))', gone')
  <2>1. CASE r = p
    BY <2>1, <1>1, Zenon
  <2>2. CASE r = Flip(p)
    <3>1. Flip(r) = p
      BY <2>2, Opponent, Zenon
    <3>2. Parts(Card', hands'[Flip(p)], hands'[p], Y, X, gone')
      BY PartsFlip, Zenon
    <3>. QED BY <3>1, <3>2, <2>2, <1>1, Zenon
  <2>. QED BY <2>1, <2>2, Opponent
<1>3. Placed'
  BY <1>2, Zenon DEF Placed
<1>4. ASSUME NEW r \in Player
      PROVE  hands'[r] \in SUBSET Card' /\ pile'[r] \in Seq(Card') /\ gone' \subseteq Card'
  <2>1. hands'[r] \subseteq Card' /\ InPile(r)' \subseteq Card' /\ gone' \subseteq Card'
    BY <1>2 DEF Parts
  <2>2. pile'[r] \in Seq(InPile(r)')
    BY <1>2, Zenon DEF Lists
  <2>3. \A S, T, s : S \subseteq T /\ s \in Seq(S) => s \in Seq(T)
    OBVIOUS
  <2>. QED BY <2>1, <2>2, <2>3, Zenon
<1>5. gone' \subseteq Card'
  BY <1>4 DEF Player
<1>6. hands' \in [Player -> SUBSET Card'] /\ pile' \in [Player -> Seq(Card')]
  BY <1>4, Zenon
<1>. QED BY <1>3, <1>5, <1>6, Zenon DEF Typed

\* What the invariant says of one player.
LEMMA PlacedOf ==
  ASSUME Inv, NEW p \in Player
  PROVE  /\ Lists(pile[p], InPile(p)) /\ Len(pile[p]) <= MaxPile /\ Len(pile[p]) \in Nat
         /\ Lists(pile[Flip(p)], InPile(Flip(p))) /\ Len(pile[Flip(p)]) <= MaxPile
         /\ Parts(Card, hands[p], hands[Flip(p)], InPile(p), InPile(Flip(p)), gone)
         /\ hands = [r \in Player |-> hands[r]] /\ pile = [r \in Player |-> pile[r]]
         /\ name \in Seq(Names) /\ switching \subseteq Player /\ dealt \in BOOLEAN
<1>1. Flip(p) \in Player
  BY Opponent
<1>2. Len(pile[p]) \in Nat
  BY ListsBasics, Zenon DEF Inv, Placed
<1>3. hands = [r \in Player |-> hands[r]] /\ pile = [r \in Player |-> pile[r]]
  BY Zenon DEF Inv, Typed
<1>. QED BY <1>1, <1>2, <1>3, Zenon DEF Inv, Placed, Typed

\* The cards that exist are finitely many, so is every hand.
LEMMA HandFinite ==
  ASSUME Inv, NEW p \in Player
  PROVE  IsFiniteSet(hands[p]) /\ Cardinality(hands[p]) \in Nat /\ Room(p) \in Nat
<1>1. hands[p] \subseteq Card /\ IsFiniteSet(Card)
  <2>1. Len(name) \in Nat
    BY DEF Inv, Typed
  <2>2. hands[p] \subseteq Card
    BY DEF Inv, Typed
  <2>. QED BY <2>1, <2>2, FS_Interval DEF Card
<1>2. IsFiniteSet(hands[p])
  BY <1>1, FS_Subset
<1>3. Cardinality(hands[p]) \in Nat
  BY <1>2, FS_CardinalityType
<1>. QED BY <1>2, <1>3, PilesConstants DEF Room

\* Of the cards that are inserted some are kept, as many as there is room for,
\* and the others are gone.
IsInserted(p, cards, a, b) ==
  /\ cards = a \union b /\ a \cap b = {}
  /\ IsFiniteSet(a) /\ Cardinality(a) <= Room(p)
  /\ hands' = [hands EXCEPT ![p] = @ \union a] /\ gone' = gone \union b

\* Cards inserted at a place of a pile are cards between two parts of it.
LEMMA InsertParts ==
  ASSUME Inv, NEW p \in Player, NEW X, NEW cards, Lists(cards, X), Insert(p, cards)
  PROVE  \E a, b : IsInserted(p, X, a, b)
<1>1. Len(cards) \in Nat /\ Room(p) \in Nat
  BY ListsBasics, HandFinite, Zenon
<1>2. PICK n : n = Least(Room(p), Len(cards))
  OBVIOUS
<1>3. n \in 0..Len(cards) /\ n <= Room(p)
  BY <1>1, <1>2 DEF Least
<1>. DEFINE a == {cards[i] : i \in 1..n}
            b == {cards[i] : i \in n + 1..Len(cards)}
<1>4. X = a \union b /\ a \cap b = {}
  <2>1. \A i \in 1..Len(cards) : cards[i] \in X /\ (i \in 1..n \/ i \in n + 1..Len(cards))
    BY <1>1, <1>3 DEF Lists
  <2>2. \A x \in X : \E i \in 1..Len(cards) : cards[i] = x
    BY DEF Lists
  <2>3. \A i \in 1..n, j \in n + 1..Len(cards) : cards[i] # cards[j]
    BY <1>1, <1>3 DEF Lists
  <2>4. \A i : i \in 1..n \/ i \in n + 1..Len(cards) => i \in 1..Len(cards)
    BY <1>1, <1>3
  <2>5. a \subseteq X /\ b \subseteq X
    BY <2>1, <2>4
  <2>6. X \subseteq a \union b
    BY <2>1, <2>2
  <2>7. a \cap b = {}
    BY <2>3
  <2>. QED BY <2>5, <2>6, <2>7, Zenon
<1>5. IsFiniteSet(a) /\ Cardinality(a) = n
  <2>1. Lists(SubSeq(cards, 1, n), a) /\ Len(SubSeq(cards, 1, n)) = n
    BY <1>3, ListsPart, Zenon
  <2>. HIDE DEF a
  <2>. QED BY <2>1, ListsBasics
<1>6. hands' = [hands EXCEPT ![p] = @ \union a] /\ gone' = gone \union b
  BY <1>2, Zenon DEF Insert
<1>. HIDE DEF a, b
<1>7. Cardinality(a) <= Room(p)
  BY <1>3, <1>5
<1>. QED BY <1>4, <1>5, <1>6, <1>7, Zenon DEF IsInserted

\* The pile that is left without some cards.
LEMMA WithoutLists ==
  ASSUME NEW X, NEW s, Lists(s, X), NEW cards
  PROVE  Lists(Without(s, cards), X \ cards) /\ Len(Without(s, cards)) <= Len(s)
<1>1. Lists(Kept(s, X \ cards), X \cap (X \ cards))
  BY ListsKept
<1>2. X \cap (X \ cards) = X \ cards
  OBVIOUS
<1>3. Without(s, cards) = Kept(s, X \ cards)
  BY ListsBasics, Zenon DEF Without
<1>4. Lists(Without(s, cards), X \ cards)
  BY <1>1, <1>2, <1>3
<1>5. /\ Cardinality(X \ cards) = Len(Without(s, cards)) /\ Cardinality(X) = Len(s)
      /\ IsFiniteSet(X)
  BY <1>4, ListsBasics
<1>6. Cardinality(X \ cards) <= Cardinality(X)
  BY <1>5, FS_Subset
<1>. QED BY <1>4, <1>5, <1>6

-----------------------------------------------------------------------------
(* Into the hand. *)

\* Cards of a pile that are inserted into the hand.
LEMMA DrawnFrom ==
  ASSUME Inv, NEW p \in Player, NEW D, D \subseteq InPile(p), NEW a, NEW b,
         IsInserted(p, D, a, b), pile' = [pile EXCEPT ![p] = Without(@, D)],
         dealt, UNCHANGED <<name, switching, dealt>>
  PROVE  Inv'
<1>1. PICK q : q = Flip(p)
  OBVIOUS
<1>2. /\ hands'[p] = hands[p] \union a /\ hands'[q] = hands[q]
      /\ hands' = [r \in Player |-> hands'[r]]
      /\ pile'[p] = Without(pile[p], D) /\ pile'[q] = pile[q]
      /\ pile' = [r \in Player |-> pile'[r]]
  BY <1>1, PlacedOf, Opponent, Zenon DEF IsInserted
<1>3. Lists(pile'[p], InPile(p) \ D) /\ Len(pile'[p]) <= MaxPile
  <2>1. Lists(Without(pile[p], D), InPile(p) \ D) /\ Len(Without(pile[p], D)) <= Len(pile[p])
    BY WithoutLists, PlacedOf, Zenon
  <2>2. Len(Without(pile[p], D)) \in Nat /\ Len(pile[p]) \in Nat /\ Len(pile[p]) <= MaxPile
    BY <2>1, PlacedOf, ListsBasics, Zenon
  <2>. QED BY <2>1, <2>2, <1>2, PilesConstants
<1>4. Parts(Card', hands'[p], hands'[q], InPile(p) \ D, InPile(q), gone')
  <2>1. Parts(Card, hands[p], hands[q], InPile(p), InPile(q), gone)
    BY <1>1, PlacedOf, Zenon
  <2>2. Card' = Card /\ gone' = gone \union b /\ D = a \union b /\ a \cap b = {}
    BY DEF Card, IsInserted
  <2>. QED BY <2>1, <2>2, <1>2 DEF Parts
<1>5. Typed' /\ Placed'
  BY <1>1, <1>2, <1>3, <1>4, PlacedOf, PlacedNext, Zenon
<1>. QED BY <1>5, Zenon DEF Inv, Undealt

\* Cards drawn from the top of the pile.
LEMMA DrawCardsPlainStep ==
  ASSUME Inv, NEW p \in Player, NEW count \in 1..MaxCount, DrawCardsPlain(p, count)
  PROVE  Inv'
<1>1. PICK n : n = Least(count, Len(pile[p]))
  OBVIOUS
<1>2. n \in 0..Len(pile[p]) /\ Lists(pile[p], InPile(p))
  BY <1>1, PlacedOf DEF Least
<1>3. PICK drawn : drawn = SubSeq(pile[p], 1, n)
  OBVIOUS
<1>4. PICK D : D = {pile[p][i] : i \in 1..n}
  OBVIOUS
<1>5. Lists(drawn, D)
  BY <1>2, <1>3, <1>4, ListsPart
<1>6. ToSet(drawn) = D
  BY <1>5, ListsBasics, Zenon
<1>7. PICK a, b : IsInserted(p, D, a, b)
  <2>1. Insert(p, drawn)
    BY <1>1, <1>3, Zenon DEF DrawCardsPlain
  <2>. QED BY <2>1, <1>5, InsertParts, Zenon
<1>8. D \subseteq InPile(p)
  <2>1. \A i \in 1..n : pile[p][i] \in InPile(p)
    BY <1>2, PlacedOf DEF Lists
  <2>. QED BY <1>4, <2>1
<1>9. /\ pile' = [pile EXCEPT ![p] = Without(@, D)] /\ dealt
      /\ UNCHANGED <<name, switching, dealt>>
  BY <1>1, <1>3, <1>6, Zenon DEF DrawCardsPlain, Ready
<1>. QED BY <1>7, <1>8, <1>9, DrawnFrom, Zenon

\* One card is a list.
LEMMA OneCard ==
  ASSUME NEW c
  PROVE  Lists(<<c>>, {c})
BY DEF Lists

\* A card drawn by its name.
LEMMA DrawCardStep ==
  ASSUME Inv, NEW p \in Player, NEW c, DrawCard(p, c)
  PROVE  Inv'
<1>1. PICK a, b : IsInserted(p, {c}, a, b)
  BY OneCard, InsertParts, Zenon DEF DrawCard
<1>2. /\ {c} \subseteq InPile(p)
      /\ pile' = [pile EXCEPT ![p] = Without(@, {c})] /\ dealt
      /\ UNCHANGED <<name, switching, dealt>>
  BY Zenon DEF DrawCard, Ready, InPile
<1>. QED BY <1>1, <1>2, DrawnFrom, Zenon

\* A card more exists.
LEMMA OneMore ==
  ASSUME Inv, NEW n \in Names, name' = Append(name, n)
  PROVE  /\ name' \in Seq(Names) /\ Len(name) \in Nat
         /\ Card' = Card \union {Len(name) + 1} /\ Len(name) + 1 \notin Card
BY DEF Inv, Typed, Card

\* A card that is created in the hand.
LEMMA CreateHandCardStep ==
  ASSUME Inv, NEW p \in Player, NEW n \in Names, CreateHandCard(p, n)
  PROVE  Inv'
<1>1. PICK q : q = Flip(p)
  OBVIOUS
<1>2. PICK c : c = Len(name) + 1
  OBVIOUS
<1>3. PICK a, b : IsInserted(p, {c}, a, b)
  BY <1>2, OneCard, InsertParts, Zenon DEF CreateHandCard
<1>4. /\ hands'[p] = hands[p] \union a /\ hands'[q] = hands[q]
      /\ hands' = [r \in Player |-> hands'[r]] /\ gone' = gone \union b
      /\ {c} = a \union b /\ a \cap b = {}
  BY <1>1, <1>3, PlacedOf, Opponent, Zenon DEF IsInserted
<1>5. dealt /\ UNCHANGED <<pile, switching, dealt>> /\ name' = Append(name, n)
  BY DEF CreateHandCard, Ready
<1>6. name' \in Seq(Names) /\ Card' = Card \union {c} /\ c \notin Card
  BY <1>2, <1>5, OneMore
<1>7. Parts(Card', hands'[p], hands'[q], InPile(p), InPile(q), gone')
  <2>1. Parts(Card, hands[p], hands[q], InPile(p), InPile(q), gone)
    BY <1>1, PlacedOf, Zenon
  <2>. QED BY <2>1, <1>4, <1>6 DEF Parts
<1>8. Typed' /\ Placed'
  BY <1>1, <1>4, <1>5, <1>6, <1>7, PlacedOf, PlacedNext, Zenon
<1>. QED BY <1>5, <1>8, Zenon DEF Inv, Undealt

\* A card that is played.
LEMMA RequestPlayCardStep ==
  ASSUME Inv, NEW n \in Names, RequestPlayCard(n)
  PROVE  Inv'
<1>1. PICK p, q : p \in Player /\ q = Flip(p)
  BY DEF Player
<1>2. PICK c : c = Len(name) + 1
  OBVIOUS
<1>3. /\ dealt /\ UNCHANGED <<hands, pile, switching, dealt>> /\ name' = Append(name, n)
      /\ gone' = gone \union {c}
  BY <1>2 DEF RequestPlayCard, Ready
<1>4. name' \in Seq(Names) /\ Card' = Card \union {c} /\ c \notin Card
  BY <1>2, <1>3, OneMore
<1>5. Parts(Card', hands'[p], hands'[q], InPile(p), InPile(q), gone')
  <2>1. Parts(Card, hands[p], hands[q], InPile(p), InPile(q), gone)
    BY <1>1, PlacedOf, Zenon
  <2>. QED BY <2>1, <1>3, <1>4 DEF Parts
<1>6. Typed' /\ Placed'
  BY <1>1, <1>3, <1>4, <1>5, PlacedOf, PlacedNext, Zenon
<1>. QED BY <1>3, <1>6, Zenon DEF Inv, Undealt

\* A card that is removed.
LEMMA RemoveCardStep ==
  ASSUME Inv, NEW p \in Player, NEW c, RemoveCard(p, c)
  PROVE  Inv'
<1>1. PICK q : q = Flip(p)
  OBVIOUS
<1>2. /\ c \in hands[p] \union InPile(p) /\ dealt /\ UNCHANGED <<name, switching, dealt>>
      /\ hands' = [hands EXCEPT ![p] = @ \ {c}]
      /\ pile' = [pile EXCEPT ![p] = Without(@, {c})] /\ gone' = gone \union {c}
  BY Zenon DEF RemoveCard, Ready, InPile
<1>3. /\ hands'[p] = hands[p] \ {c} /\ hands'[q] = hands[q]
      /\ hands' = [r \in Player |-> hands'[r]]
      /\ pile'[p] = Without(pile[p], {c}) /\ pile'[q] = pile[q]
      /\ pile' = [r \in Player |-> pile'[r]]
  BY <1>1, <1>2, PlacedOf, Opponent, Zenon
<1>4. Lists(pile'[p], InPile(p) \ {c}) /\ Len(pile'[p]) <= MaxPile
  <2>1. /\ Lists(Without(pile[p], {c}), InPile(p) \ {c})
        /\ Len(Without(pile[p], {c})) <= Len(pile[p])
    BY WithoutLists, PlacedOf, Zenon
  <2>2. Len(Without(pile[p], {c})) \in Nat /\ Len(pile[p]) \in Nat /\ Len(pile[p]) <= MaxPile
    BY <2>1, PlacedOf, ListsBasics, Zenon
  <2>. QED BY <2>1, <2>2, <1>3, PilesConstants
<1>5. Parts(Card', hands'[p], hands'[q], InPile(p) \ {c}, InPile(q), gone')
  <2>1. Parts(Card, hands[p], hands[q], InPile(p), InPile(q), gone)
    BY <1>1, PlacedOf, Zenon
  <2>2. Card' = Card
    BY <1>2 DEF Card
  <2>. QED BY <2>1, <2>2, <1>2, <1>3 DEF Parts
<1>6. Typed' /\ Placed'
  BY <1>1, <1>2, <1>3, <1>4, <1>5, PlacedOf, PlacedNext, Zenon
<1>. QED BY <1>2, <1>6, Zenon DEF Inv, Undealt

\* A card that is stolen.
LEMMA StealHandCardStep ==
  ASSUME Inv, NEW p \in Player, NEW c, StealHandCard(p, c)
  PROVE  Inv'
<1>1. PICK q : q = Flip(p)
  OBVIOUS
<1>2. PICK kept \in BOOLEAN :
        kept = ~(Cardinality(hands[Flip(p)] \ {c}) > MaxHands)
  OBVIOUS
<1>3. /\ c \in hands[q] /\ dealt /\ UNCHANGED <<pile, name, switching, dealt>>
      /\ hands' = [r \in Player |-> IF r = p /\ kept THEN hands[r] \union {c} ELSE hands[r] \ {c}]
      /\ gone' = IF kept THEN gone ELSE gone \union {c}
  BY <1>1, <1>2 DEF StealHandCard, Ready
<1>4. /\ hands'[p] = IF kept THEN hands[p] \union {c} ELSE hands[p] \ {c}
      /\ hands'[q] = hands[q] \ {c} /\ hands' = [r \in Player |-> hands'[r]]
  BY <1>1, <1>3, Opponent
<1>5. Parts(Card', hands'[p], hands'[q], InPile(p), InPile(q), gone')
  <2>1. Parts(Card, hands[p], hands[q], InPile(p), InPile(q), gone)
    BY <1>1, PlacedOf, Zenon
  <2>2. Card' = Card
    BY <1>3 DEF Card
  <2>3. CASE kept
    BY <2>1, <2>2, <2>3, <1>3, <1>4 DEF Parts
  <2>4. CASE ~kept
    BY <2>1, <2>2, <2>4, <1>3, <1>4 DEF Parts
  <2>. QED BY <2>3, <2>4
<1>6. Typed' /\ Placed'
  BY <1>1, <1>3, <1>4, <1>5, PlacedOf, PlacedNext, Zenon
<1>. QED BY <1>3, <1>6, Zenon DEF Inv, Undealt

\* Hands that are swapped.
LEMMA SwapPlayerHandCardsStep ==
  ASSUME Inv, SwapPlayerHandCards
  PROVE  Inv'
<1>1. PICK p, q : p \in Player /\ q = Flip(p)
  BY DEF Player
<1>2. /\ dealt /\ UNCHANGED <<pile, gone, name, switching, dealt>>
      /\ hands' = [r \in Player |-> hands[Flip(r)]]
  BY DEF SwapPlayerHandCards, Ready
<1>3. hands'[p] = hands[q] /\ hands'[q] = hands[p] /\ hands' = [r \in Player |-> hands'[r]]
  BY <1>1, <1>2, Opponent, Zenon
<1>4. Parts(Card', hands'[p], hands'[q], InPile(p), InPile(q), gone')
  <2>1. Parts(Card, hands[p], hands[q], InPile(p), InPile(q), gone)
    BY <1>1, PlacedOf, Zenon
  <2>2. Card' = Card
    BY <1>2 DEF Card
  <2>. QED BY <2>1, <2>2, <1>2, <1>3 DEF Parts
<1>5. Typed' /\ Placed'
  BY <1>1, <1>2, <1>3, <1>4, PlacedOf, PlacedNext, Zenon
<1>. QED BY <1>2, <1>5, Zenon DEF Inv, Undealt

-----------------------------------------------------------------------------
(* Into the pile. *)

\* What Spliced does with the card k.
Splice(C, cards, index) ==
  [k \in 1..Len(cards) |-> [r \in Seq(C) |->
     IF index[k] > Len(r) THEN Append(r, cards[k]) ELSE InsertAt(r, index[k] + 1, cards[k])]]

\* Inserting one by one leads from lists of cards to lists of cards.
LEMMA SpliceType ==
  ASSUME NEW C, NEW cards \in Seq(C), NEW index \in [1..Len(cards) -> Nat]
  PROVE  Splice(C, cards, index) \in [1..Len(cards) -> [Seq(C) -> Seq(C)]]
<1>1. ASSUME NEW k \in 1..Len(cards), NEW r \in Seq(C)
      PROVE  (IF index[k] > Len(r) THEN Append(r, cards[k])
                                   ELSE InsertAt(r, index[k] + 1, cards[k])) \in Seq(C)
  <2>1. cards[k] \in C /\ index[k] \in Nat /\ Len(r) \in Nat
    OBVIOUS
  <2>2. CASE index[k] > Len(r)
    BY <2>1, <2>2
  <2>3. CASE ~(index[k] > Len(r))
    <3>1. index[k] + 1 \in 1..Len(r) + 1
      BY <2>1, <2>3
    <3>2. IsInsertion(InsertAt(r, index[k] + 1, cards[k]), C, r, index[k] + 1, cards[k])
      BY <2>1, <3>1, InsertAtElements, Zenon
    <3>. QED BY <2>3, <3>2, Zenon DEF IsInsertion
  <2>. QED BY <2>2, <2>3
<1>. QED BY <1>1, Zenon DEF Splice

\* What a step inserts.
LEMMA SpliceValue ==
  ASSUME NEW C, NEW cards, NEW index, NEW k \in 1..Len(cards), NEW r \in Seq(C)
  PROVE  Splice(C, cards, index)[k][r] =
           IF index[k] > Len(r) THEN Append(r, cards[k]) ELSE InsertAt(r, index[k] + 1, cards[k])
BY DEF Splice

\* f goes from pile to pile as Spliced puts the cards into s.
Splices(f, s, cards, index) ==
  f = [k \in 0..Len(cards) |->
         IF k = 0 THEN s
         ELSE IF index[k] > Len(f[k - 1]) THEN Append(f[k - 1], cards[k])
         ELSE InsertAt(f[k - 1], index[k] + 1, cards[k])]

\* The same, as a start and a step.
Puts(f, s, cards, index) ==
  /\ f[0] = s
  /\ \A k \in 1..Len(cards) :
       f[k] = IF index[k] > Len(f[k - 1]) THEN Append(f[k - 1], cards[k])
              ELSE InsertAt(f[k - 1], index[k] + 1, cards[k])

\* The recursion as a sequence of steps.
LEMMA SplicedRecursion ==
  ASSUME NEW C, NEW s \in Seq(C), NEW cards \in Seq(C), NEW index \in [1..Len(cards) -> Nat]
  PROVE  \E f : Puts(f, s, cards, index) /\ Spliced(s, cards, index) = f[Len(cards)]
<1>1. Len(cards) \in Nat
  OBVIOUS
<1>2. Splice(C, cards, index) \in [1..Len(cards) -> [Seq(C) -> Seq(C)]]
  BY SpliceType
<1>3. PICK g : GoesOn(g, Seq(C), Len(cards), s, Splice(C, cards, index))
  BY <1>1, <1>2, Recursion, Zenon
<1>4. Splices(g, s, cards, index)
  <2>1. ASSUME NEW k \in 1..Len(cards)
        PROVE  g[k] = IF index[k] > Len(g[k - 1]) THEN Append(g[k - 1], cards[k])
                      ELSE InsertAt(g[k - 1], index[k] + 1, cards[k])
    <3>1. g[k - 1] \in Seq(C) /\ g[k] = Splice(C, cards, index)[k][g[k - 1]]
      BY <1>1, <1>3, RecursionStep
    <3>2. Splice(C, cards, index)[k][g[k - 1]] =
            IF index[k] > Len(g[k - 1]) THEN Append(g[k - 1], cards[k])
            ELSE InsertAt(g[k - 1], index[k] + 1, cards[k])
      BY <3>1, SpliceValue, SMT
    <3>. QED BY <3>1, <3>2, Zenon
  <2>2. g[0] = s /\ g = [k \in 0..Len(cards) |-> g[k]]
    BY <1>3 DEF GoesOn
  <2>3. \A k \in 0..Len(cards) : k = 0 \/ k \in 1..Len(cards)
    BY <1>1
  <2>. QED BY <2>1, <2>2, <2>3, Zenon DEF Splices
<1>. DEFINE h == CHOOSE f : Splices(f, s, cards, index)
<1>5. Splices(h, s, cards, index)
  BY <1>4, Zenon
<1>6. Spliced(s, cards, index) = h[Len(cards)]
  BY Zenon DEF Spliced, Splices
<1>. HIDE DEF h
<1>7. Puts(h, s, cards, index)
  <2>. DEFINE goes == [k \in 0..Len(cards) |->
                      IF k = 0 THEN s
                      ELSE IF index[k] > Len(h[k - 1]) THEN Append(h[k - 1], cards[k])
                      ELSE InsertAt(h[k - 1], index[k] + 1, cards[k])]
  <2>1. h = goes
    BY <1>5, Zenon DEF Splices
  <2>2. goes[0] = s /\ \A k \in 1..Len(cards) :
          goes[k] = IF index[k] > Len(h[k - 1]) THEN Append(h[k - 1], cards[k])
                 ELSE InsertAt(h[k - 1], index[k] + 1, cards[k])
    BY <1>1
  <2>. HIDE DEF goes
  <2>. QED BY <2>1, <2>2, Zenon DEF Puts
<1>. QED BY <1>6, <1>7, Zenon

\* t lists the cards of both s and cards.
ListsBoth(t, s, X, cards, Y) == Lists(t, X \union Y) /\ Len(t) = Len(s) + Len(cards)

\* The pile with cards put into it, wherever, lists those it had and the new.
LEMMA SplicedLists ==
  ASSUME NEW X, NEW s, Lists(s, X), NEW Y, NEW cards, Lists(cards, Y), X \cap Y = {},
         NEW index \in [1..Len(cards) -> Nat]
  PROVE  ListsBoth(Spliced(s, cards, index), s, X, cards, Y)
<1>. DEFINE C == X \union Y
            n == Len(cards)
            Z(k) == X \union {cards[i] : i \in 1..k}
<1>1. /\ s \in Seq(C) /\ cards \in Seq(C) /\ n \in Nat /\ Len(s) \in Nat
      /\ \A i \in 1..n : cards[i] \in Y
  BY DEF Lists
<1>2. PICK f : Puts(f, s, cards, index) /\ Spliced(s, cards, index) = f[n]
  <2>. HIDE DEF C
  <2>. QED BY <1>1, SplicedRecursion, Zenon
<1>3. f[0] = s /\ \A k \in 1..n :
        f[k] = IF index[k] > Len(f[k - 1]) THEN Append(f[k - 1], cards[k])
               ELSE InsertAt(f[k - 1], index[k] + 1, cards[k])
  BY <1>2, Zenon DEF Puts
<1>. DEFINE T == {k \in 0..n : Lists(f[k], Z(k)) /\ Len(f[k]) = Len(s) + k}
<1>4. 0 \in T
  <2>1. Z(0) = X /\ 0 \in 0..n /\ Len(s) = Len(s) + 0
    BY <1>1
  <2>. HIDE DEF Z, n
  <2>. QED BY <1>3, <2>1, Zenon
<1>5. ASSUME NEW k \in 0..n - 1, k \in T PROVE k + 1 \in T
  <2>1. PICK m : m = k + 1
    OBVIOUS
  <2>2. /\ m \in 1..n /\ m \in 0..n /\ m - 1 = k /\ cards[m] \in Y /\ index[m] \in Nat
    BY <1>1, <2>1
  <2>3. cards[m] \notin Z(k)
    <3>1. ASSUME NEW i \in 1..k PROVE cards[i] # cards[m] /\ i \in 1..n
      <4>1. i \in 1..n /\ i # m
        BY <1>1, <2>1, <2>2
      <4>. QED BY <4>1, <2>2 DEF Lists
    <3>. QED BY <2>2, <3>1
  <2>4. Z(m) = Z(k) \union {cards[m]}
    <3>1. 1..m = 1..k \union {m}
      BY <2>1
    <3>. QED BY <3>1
  <2>5. Lists(f[k], Z(k)) /\ Len(f[k]) = Len(s) + k
    BY <1>5
  <2>. HIDE DEF Z, n, T
  <2>6. f[m] = IF index[m] > Len(f[k]) THEN Append(f[k], cards[m])
               ELSE InsertAt(f[k], index[m] + 1, cards[m])
    BY <1>3, <2>2, Zenon
  <2>7. Lists(f[m], Z(m))
    <3>1. CASE index[m] > Len(f[k])
      BY <3>1, <2>3, <2>4, <2>5, <2>6, ListsAppend
    <3>2. CASE ~(index[m] > Len(f[k]))
      <4>1. PICK j \in 1..Len(f[k]) + 1 : j = index[m] + 1
        BY <2>2, <2>5, <3>2, <1>1
      <4>2. f[m] = InsertAt(f[k], j, cards[m])
        BY <2>6, <3>2, <4>1, Zenon
      <4>3. Lists(InsertAt(f[k], j, cards[m]), Z(k) \union {cards[m]})
        BY <2>3, <2>5, ListsInsert
      <4>. QED BY <4>2, <4>3, <2>4, Zenon
    <3>. QED BY <3>1, <3>2
  <2>8. Len(f[m]) = Len(s) + m
    <3>1. /\ IsFiniteSet(Z(k)) /\ Cardinality(Z(k)) = Len(f[k])
          /\ Cardinality(Z(m)) = Len(f[m])
      BY <2>5, <2>7, ListsBasics, Zenon
    <3>2. Cardinality(Z(m)) = Cardinality(Z(k)) + 1
      BY <3>1, <2>3, <2>4, FS_AddElement
    <3>. QED BY <3>1, <3>2, <2>1, <2>5, <1>1
  <2>. QED BY <2>1, <2>2, <2>7, <2>8 DEF T
<1>6. n \in T
  <2>. HIDE DEF T
  <2>1. \A k \in 0..n : k \in T
    BY <1>1, <1>4, <1>5, BoundedInduction, Zenon
  <2>. QED BY <2>1, <1>1
<1>7. Z(n) = X \union Y
  <2>1. \A y \in Y : \E i \in 1..n : cards[i] = y
    BY DEF Lists
  <2>. QED BY <1>1, <2>1
<1>. HIDE DEF Z, n
<1>. QED BY <1>2, <1>6, <1>7 DEF n, ListsBoth

\* Indices are natural numbers, one for each of the cards.
LEMMA IndicesType ==
  ASSUME NEW strategy \in Strategies, NEW length \in Nat, NEW count \in Nat,
         NEW index \in Indices(strategy, length, count)
  PROVE  index \in [1..count -> Nat]
<1>1. PICK kind, n : strategy = <<kind, n>> /\ n \in Nat
                     /\ kind \in {"top", "bottom", "random", "spaceAround", "topRange", "topIndex"}
  BY PilesConstants DEF Strategies
<1>2. strategy[1] = kind /\ strategy[2] = n
  BY <1>1
<1>3. Least(n, length) \in Nat
  BY <1>1 DEF Least
<1>4. CASE kind = "top"
  BY <1>2, <1>4 DEF Indices
<1>5. CASE kind = "bottom"
  BY <1>2, <1>5 DEF Indices
<1>6. CASE kind = "random"
  BY <1>2, <1>6 DEF Indices
<1>7. CASE kind = "spaceAround"
  <2>1. index = SpaceAround(length, count)
    BY <1>2, <1>7 DEF Indices
  <2>2. PICK step \in Nat, rest \in Nat :
          step = length \div (count + 1) /\ rest = length % (count + 1)
    OBVIOUS
  <2>3. index = [i \in 1..count |-> i - 1 + i * step + Least(i, rest)]
    BY <2>1, <2>2 DEF SpaceAround
  <2>4. \A i \in 1..count : i * step \in Nat
    OBVIOUS
  <2>5. \A i \in 1..count : i - 1 + i * step + Least(i, rest) \in Nat
    BY <2>4 DEF Least
  <2>. QED BY <2>3, <2>5
<1>8. CASE kind = "topRange"
  BY <1>2, <1>3, <1>8 DEF Indices
<1>9. CASE kind = "topIndex"
  BY <1>2, <1>3, <1>9 DEF Indices
<1>. QED BY <1>1, <1>4, <1>5, <1>6, <1>7, <1>8, <1>9

\* The pile of p has room for these cards.
Fits(p, cards) == Len(pile[p]) + Len(cards) <= MaxPile

\* What fits are the first m of the cards.
IsFitting(p, cards, m) ==
  /\ m \in 0..Len(cards) /\ Len(Fitting(p, cards)) = m /\ Fits(p, Fitting(p, cards))
  /\ \A i \in 1..m : Fitting(p, cards)[i] = cards[i]
  /\ Lists(Fitting(p, cards), {cards[i] : i \in 1..m})

\* What fits into the pile after the insertion.
LEMMA FittingLists ==
  ASSUME Inv, NEW p \in Player, NEW Y, NEW cards, Lists(cards, Y)
  PROVE  \E m : IsFitting(p, cards, m)
<1>1. /\ Len(cards) \in Nat /\ MaxPile \in Nat
      /\ Len(pile[p]) \in Nat /\ Len(pile[p]) <= MaxPile
  BY ListsBasics, PlacedOf, PilesConstants
<1>2. PICK m : m = Least(Len(cards), MaxPile - Len(pile[p]))
  OBVIOUS
<1>3. m \in 0..Len(cards) /\ Len(pile[p]) + m <= MaxPile
  <2>1. CASE Len(cards) < MaxPile - Len(pile[p])
    <3>1. m = Len(cards)
      BY <1>2, <2>1 DEF Least
    <3>. QED BY <1>1, <2>1, <3>1
  <2>2. CASE ~(Len(cards) < MaxPile - Len(pile[p]))
    <3>1. m = MaxPile - Len(pile[p])
      BY <1>2, <2>2 DEF Least
    <3>. QED BY <1>1, <2>2, <3>1
  <2>. QED BY <2>1, <2>2
<1>4. Fitting(p, cards) = SubSeq(cards, 1, m)
  BY <1>2, Zenon DEF Fitting
<1>5. /\ Lists(SubSeq(cards, 1, m), {cards[i] : i \in 1..m}) /\ Len(SubSeq(cards, 1, m)) = m
      /\ \A i \in 1..m : SubSeq(cards, 1, m)[i] = cards[i]
  BY <1>3, ListsPart
<1>. QED BY <1>3, <1>4, <1>5, Zenon DEF IsFitting, Fits

\* Cards that are not in the pile and for which it has room are in it then.
LEMMA InsertedPile ==
  ASSUME Inv, NEW p \in Player, NEW Y, NEW cards, Lists(cards, Y), Y \cap InPile(p) = {},
         Fits(p, cards), NEW strategy \in Strategies, InsertPileCards(p, cards, strategy)
  PROVE  /\ pile' = [r \in Player |-> pile'[r]] /\ pile'[Flip(p)] = pile[Flip(p)]
         /\ Lists(pile'[p], InPile(p) \union Y) /\ Len(pile'[p]) <= MaxPile
<1>1. PICK index \in Indices(strategy, Len(pile[p]), Len(cards)) :
        pile' = [pile EXCEPT ![p] = Spliced(pile[p], cards, index)]
  BY Zenon DEF InsertPileCards
<1>2. index \in [1..Len(cards) -> Nat]
  BY <1>1, IndicesType, ListsBasics, PlacedOf, Zenon
<1>3. /\ pile'[p] = Spliced(pile[p], cards, index) /\ pile'[Flip(p)] = pile[Flip(p)]
      /\ pile' = [r \in Player |-> pile'[r]]
  BY <1>1, PlacedOf, Opponent, Zenon
<1>4. Lists(pile[p], InPile(p)) /\ InPile(p) \cap Y = {}
  BY PlacedOf, Zenon
<1>5. /\ Lists(Spliced(pile[p], cards, index), InPile(p) \union Y)
      /\ Len(Spliced(pile[p], cards, index)) = Len(pile[p]) + Len(cards)
  <2>1. ListsBoth(Spliced(pile[p], cards, index), pile[p], InPile(p), cards, Y)
    BY <1>2, <1>4, SplicedLists, Zenon
  <2>. QED BY <2>1, Zenon DEF ListsBoth
<1>. QED BY <1>3, <1>5, Zenon DEF Fits

\* Cards that are created in a pile.
LEMMA CreatePileCardsStep ==
  ASSUME Inv, NEW p \in Player, NEW n \in Names, NEW count \in 1..MaxCount,
         NEW strategy \in Strategies, CreatePileCards(p, n, count, strategy)
  PROVE  Inv'
<1>1. PICK q : q = Flip(p)
  OBVIOUS
<1>2. PICK k \in Nat : k = Len(name) /\ Card = 1..k
  BY DEF Inv, Typed, Card
<1>3. PICK new : new = [i \in 1..count |-> k + i]
  OBVIOUS
<1>4. Lists(new, k + 1..k + count) /\ Len(new) = count /\ \A i \in 1..count : new[i] = k + i
  <2>1. Len(new) = count /\ new \in Seq(k + 1..k + count) /\ \A i \in 1..count : new[i] = k + i
    BY <1>3
  <2>2. ASSUME NEW x \in k + 1..k + count PROVE \E i \in 1..count : new[i] = x
    <3>1. x - k \in 1..count /\ k + (x - k) = x
      OBVIOUS
    <3>. QED BY <2>1, <3>1
  <2>. QED BY <2>1, <2>2 DEF Lists
<1>5. PICK m : IsFitting(p, new, m)
  BY <1>4, FittingLists, Zenon
<1>6. PICK cards : cards = Fitting(p, new)
  OBVIOUS
<1>7. PICK Y : Y = {new[i] : i \in 1..m}
  OBVIOUS
<1>8. m \in 0..count /\ Lists(cards, Y) /\ Len(cards) = m /\ Fits(p, cards)
  BY <1>4, <1>5, <1>6, <1>7, Zenon DEF IsFitting
<1>9. Y = k + 1..k + m
  <2>1. Y = {k + i : i \in 1..m}
    <3>1. \A i \in 1..m : new[i] = k + i
      BY <1>4, <1>8
    <3>. QED BY <1>7, <3>1
  <2>2. ASSUME NEW x \in k + 1..k + m PROVE \E i \in 1..m : k + i = x
    <3>1. x - k \in 1..m /\ k + (x - k) = x
      BY <1>8
    <3>. QED BY <3>1
  <2>3. \A i \in 1..m : k + i \in k + 1..k + m
    BY <1>8
  <2>. QED BY <2>1, <2>2, <2>3
<1>10. /\ dealt /\ UNCHANGED <<hands, gone, switching, dealt>>
       /\ name' = name \o [i \in 1..m |-> n] /\ InsertPileCards(p, cards, strategy)
  BY <1>2, <1>3, <1>6, <1>8, Zenon DEF CreatePileCards, Ready
<1>11. name' \in Seq(Names) /\ Card' = Card \union Y /\ Card \cap Y = {}
  <2>1. PICK more : more = [i \in 1..m |-> n]
    OBVIOUS
  <2>2. more \in Seq(Names) /\ Len(more) = m
    BY <1>8, <2>1
  <2>3. name \in Seq(Names) /\ name' = name \o more
    BY <1>10, <2>1, PlacedOf
  <2>4. IsJoin(name', Names, name, more)
    BY <2>2, <2>3, Joined, Zenon
  <2>5. name' \in Seq(Names) /\ Len(name') = k + m
    BY <1>2, <2>2, <2>4, Zenon DEF IsJoin
  <2>6. Card' = 1..k + m
    BY <2>5 DEF Card
  <2>. QED BY <1>2, <1>8, <1>9, <2>5, <2>6
<1>12. Parts(Card, hands[p], hands[q], InPile(p), InPile(q), gone)
  BY <1>1, PlacedOf, Zenon
<1>13. Y \cap InPile(p) = {}
  BY <1>11, <1>12 DEF Parts
<1>14. /\ pile' = [r \in Player |-> pile'[r]] /\ pile'[q] = pile[q]
       /\ Lists(pile'[p], InPile(p) \union Y) /\ Len(pile'[p]) <= MaxPile
  BY <1>1, <1>8, <1>10, <1>13, InsertedPile, Zenon
<1>15. Parts(Card', hands'[p], hands'[q], InPile(p) \union Y, InPile(q), gone')
  BY <1>10, <1>11, <1>12 DEF Parts
<1>16. Typed' /\ Placed'
  BY <1>1, <1>10, <1>11, <1>14, <1>15, PlacedOf, PlacedNext, Zenon
<1>. QED BY <1>10, <1>16, Zenon DEF Inv, Undealt

\* Cards that are put back.
LEMMA UndrawCardsStep ==
  ASSUME Inv, NEW p \in Player, NEW chosen \in HandChoices(p),
         NEW strategy \in Strategies, UndrawCards(p, chosen, strategy)
  PROVE  Inv'
<1>1. PICK q : q = Flip(p)
  OBVIOUS
<1>2. PICK X : X = ToSet(chosen)
  OBVIOUS
<1>3. Lists(chosen, X) /\ X \subseteq hands[p]
  BY <1>2 DEF HandChoices, Lists, IsInjective, ToSet
<1>4. PICK m : IsFitting(p, chosen, m)
  BY <1>3, FittingLists, Zenon
<1>5. PICK cards : cards = Fitting(p, chosen)
  OBVIOUS
<1>6. PICK Y : Y = {chosen[i] : i \in 1..m}
  OBVIOUS
<1>7. m \in 0..Len(chosen) /\ Lists(cards, Y) /\ Fits(p, cards)
  BY <1>4, <1>5, <1>6, Zenon DEF IsFitting
<1>8. Y \subseteq hands[p]
  <2>1. Len(chosen) \in Nat
    BY <1>3, ListsBasics
  <2>2. \A i \in 1..m : chosen[i] \in X
    BY <1>3, <1>7, <2>1 DEF Lists
  <2>. QED BY <1>3, <1>6, <2>2
<1>9. /\ dealt /\ UNCHANGED <<gone, name, switching, dealt>>
      /\ hands' = [hands EXCEPT ![p] = @ \ Y] /\ InsertPileCards(p, cards, strategy)
  <2>1. ToSet(cards) = Y
    BY <1>7, ListsBasics, Zenon
  <2>. QED BY <1>5, <2>1, Zenon DEF UndrawCards, Ready
<1>10. Parts(Card, hands[p], hands[q], InPile(p), InPile(q), gone)
  BY <1>1, PlacedOf, Zenon
<1>11. Y \cap InPile(p) = {}
  BY <1>8, <1>10 DEF Parts
<1>12. /\ pile' = [r \in Player |-> pile'[r]] /\ pile'[q] = pile[q]
       /\ Lists(pile'[p], InPile(p) \union Y) /\ Len(pile'[p]) <= MaxPile
  BY <1>1, <1>7, <1>9, <1>11, InsertedPile, Zenon
<1>13. hands'[p] = hands[p] \ Y /\ hands'[q] = hands[q] /\ hands' = [r \in Player |-> hands'[r]]
  BY <1>1, <1>9, PlacedOf, Opponent, Zenon
<1>14. Parts(Card', hands'[p], hands'[q], InPile(p) \union Y, InPile(q), gone')
  <2>1. Card' = Card
    BY <1>9 DEF Card
  <2>. QED BY <2>1, <1>8, <1>9, <1>10, <1>13 DEF Parts
<1>15. Typed' /\ Placed'
  BY <1>1, <1>9, <1>12, <1>13, <1>14, PlacedOf, PlacedNext, Zenon
<1>. QED BY <1>9, <1>15, Zenon DEF Inv, Undealt

\* The hands that are dealt.
LEMMA InitHandsStep ==
  ASSUME Inv, InitHands
  PROVE  Inv'
<1>1. PICK p, q : p \in Player /\ q = Flip(p)
  BY DEF Player
<1>2. /\ hands' = [r \in Player |-> {pile[r][i] : i \in 1..Least(InitialHands, Deck)}]
      /\ pile' = [r \in Player |-> Without(pile[r], hands'[r])]
      /\ ~dealt /\ dealt' /\ switching' = Player /\ UNCHANGED <<gone, name>>
  BY Zenon DEF InitHands
<1>3. ASSUME NEW r \in Player
      PROVE  /\ hands'[r] \subseteq InPile(r) /\ hands[r] = {}
             /\ Lists(pile'[r], InPile(r) \ hands'[r]) /\ Len(pile'[r]) <= MaxPile
  <2>1. Len(pile[r]) = Deck /\ hands[r] = {}
    BY <1>2 DEF Inv, Undealt
  <2>2. \A i \in 1..Least(InitialHands, Deck) : i \in 1..Len(pile[r])
    BY <2>1, PilesConstants DEF Least
  <2>3. hands'[r] \subseteq InPile(r)
    <3>1. \A i \in 1..Len(pile[r]) : pile[r][i] \in InPile(r)
      BY PlacedOf DEF Lists
    <3>2. hands'[r] = {pile[r][i] : i \in 1..Least(InitialHands, Deck)}
      BY <1>2, Zenon
    <3>. QED BY <2>2, <3>1, <3>2
  <2>4. pile'[r] = Without(pile[r], hands'[r])
    BY <1>2, Zenon
  <2>5. /\ Lists(pile'[r], InPile(r) \ hands'[r]) /\ Len(pile'[r]) <= Len(pile[r])
    <3>1. PICK D : D = hands'[r]
      OBVIOUS
    <3>2. Lists(pile[r], InPile(r))
      BY PlacedOf, Zenon
    <3>3. Lists(Without(pile[r], D), InPile(r) \ D) /\ Len(Without(pile[r], D)) <= Len(pile[r])
      BY <3>2, WithoutLists, Zenon
    <3>. QED BY <2>4, <3>1, <3>3, Zenon
  <2>6. Len(pile'[r]) \in Nat /\ Len(pile[r]) \in Nat /\ Len(pile[r]) <= MaxPile
    BY <2>5, PlacedOf, ListsBasics, Zenon
  <2>. QED BY <2>1, <2>3, <2>5, <2>6, PilesConstants
<1>4. q \in Player /\ q # p
  BY <1>1, Opponent
<1>5. Parts(Card', hands'[p], hands'[q], InPile(p) \ hands'[p], InPile(q) \ hands'[q], gone')
  <2>1. Parts(Card, hands[p], hands[q], InPile(p), InPile(q), gone)
    BY <1>1, PlacedOf, Zenon
  <2>2. Card' = Card
    BY <1>2 DEF Card
  <2>3. /\ hands'[p] \subseteq InPile(p) /\ hands[p] = {}
        /\ hands'[q] \subseteq InPile(q) /\ hands[q] = {}
    BY <1>1, <1>3, <1>4
  <2>. QED BY <2>1, <2>2, <2>3, <1>2 DEF Parts
<1>6. hands' = [r \in Player |-> hands'[r]] /\ pile' = [r \in Player |-> pile'[r]]
  BY <1>2, Zenon
<1>7. Typed' /\ Placed'
  <2>1. switching' \subseteq Player /\ dealt' \in BOOLEAN /\ name' \in Seq(Names)
    BY <1>2, PlacedOf, <1>1
  <2>. QED BY <1>1, <1>3, <1>4, <1>5, <1>6, <2>1, PlacedNext, Zenon
<1>. QED BY <1>2, <1>7, Zenon DEF Inv, Undealt

-----------------------------------------------------------------------------
(* Switching hands. *)

\* What is drawn next.
DrawNext(r, names) ==
  LET at == Skipped(r.pile, r.top, names)
  IN  [pile  |-> RemoveAt(r.pile, at),
       top   |-> IF name[r.pile[at]] \in names THEN Len(r.pile) ELSE at,
       drawn |-> r.drawn \union {r.pile[at]}]

\* Where drawing one card after the other stands.
Draws(C) == [pile : Seq(C), top : Nat \ {0}, drawn : SUBSET C]

\* When n cards have been drawn of those in C, of which s is the pile, the pile
\* lists the others.  Either none of the names put back has been drawn, and the
\* search goes on where the cards before have such names, or no others are
\* left.
IsDraw(r, n, s, C, names) ==
  /\ r \in Draws(C) /\ Lists(r.pile, C \ r.drawn) /\ Len(r.pile) = Len(s) - n
  /\ \/ \A c \in C \ r.drawn : name[c] \in names
     \/ /\ \A c \in r.drawn : name[c] \notin names
        /\ \A i \in 1..Len(r.pile) : i < r.top => name[r.pile[i]] \in names

\* The first card of another name, if there is one, from the position top on.
IsSkipped(at, s, top, names) ==
  /\ at \in 1..Len(s)
  /\ \/ at = 1 /\ \A i \in top..Len(s) : name[s[i]] \in names
     \/ /\ at >= top /\ name[s[at]] \notin names
        /\ \A i \in top..Len(s) : i < at => name[s[i]] \in names

\* Drawing goes on at the first card with another name, or at the top.
LEMMA SkippedFound ==
  ASSUME NEW C, NEW s \in Seq(C), Len(s) > 0, NEW top \in Nat \ {0}, NEW names
  PROVE  IsSkipped(Skipped(s, top, names), s, top, names)
<1>. DEFINE others == {i \in top..Len(s) : name[s[i]] \notin names}
            least  == CHOOSE i \in others : \A j \in others : i <= j
<1>1. Skipped(s, top, names) = IF others = {} THEN 1 ELSE least
  BY Zenon DEF Skipped
<1>2. Len(s) \in Nat
  OBVIOUS
<1>3. CASE others = {}
  <2>1. \A i \in top..Len(s) : name[s[i]] \in names
    BY <1>3
  <2>2. 1 \in 1..Len(s)
    BY <1>2
  <2>. QED BY <1>1, <1>3, <2>1, <2>2 DEF IsSkipped
<1>4. CASE others # {}
  <2>1. others \in SUBSET Nat
    BY <1>2
  <2>2. \E i \in others : \A j \in others : i <= j
    <3>. HIDE DEF others
    <3>. QED BY <1>4, <2>1, LeastElement
  <2>3. least \in others /\ \A j \in others : least <= j
    <3>. HIDE DEF others
    <3>. QED BY <2>2, Zenon
  <2>4. Skipped(s, top, names) = least
    BY <1>1, <1>4, Zenon
  <2>. HIDE DEF least
  <2>5. least \in top..Len(s) /\ name[s[least]] \notin names
    BY <2>3
  <2>6. ASSUME NEW i \in top..Len(s), i < least PROVE name[s[i]] \in names
    <3>1. i \notin others
      BY <2>3, <2>5, <2>6, <1>2
    <3>. QED BY <3>1
  <2>7. least \in 1..Len(s) /\ least >= top
    BY <2>5, <1>2
  <2>. QED BY <2>4, <2>5, <2>6, <2>7 DEF IsSkipped
<1>. QED BY <1>3, <1>4

\* A step leads from one such place to another.
LEMMA DrawNextIsDraw ==
  ASSUME NEW C, NEW s \in Seq(C), NEW n \in Nat, n < Len(s), NEW names, NEW r,
         IsDraw(r, n, s, C, names)
  PROVE  IsDraw(DrawNext(r, names), n + 1, s, C, names)
<1>1. PICK u : u = r.pile
  OBVIOUS
<1>2. PICK D : D = C \ r.drawn
  OBVIOUS
<1>3. PICK top : top = r.top
  OBVIOUS
<1>4. /\ Lists(u, D) /\ Len(u) = Len(s) - n /\ u \in Seq(C) /\ r.drawn \subseteq C
      /\ top \in Nat \ {0}
  BY <1>1, <1>2, <1>3 DEF IsDraw, Draws
<1>5. Len(s) \in Nat /\ Len(u) \in Nat /\ Len(u) > 0 /\ \A i \in 1..Len(u) : u[i] \in D
  BY <1>4 DEF Lists
<1>6. PICK at : at = Skipped(u, top, names)
  OBVIOUS
<1>7. IsSkipped(at, u, top, names)
  BY <1>4, <1>5, <1>6, SkippedFound, Zenon
<1>8. PICK c : c = u[at]
  OBVIOUS
<1>9. at \in 1..Len(u) /\ c \in D
  BY <1>5, <1>7, <1>8 DEF IsSkipped
<1>10. PICK v : v = RemoveAt(u, at)
  OBVIOUS
<1>11. PICK last : last = IF name[c] \in names THEN Len(u) ELSE at
  OBVIOUS
<1>12. PICK m : m = DrawNext(r, names)
  OBVIOUS
<1>13. m = [pile |-> v, top |-> last, drawn |-> r.drawn \union {c}]
  BY <1>1, <1>3, <1>6, <1>8, <1>10, <1>11, <1>12, Zenon DEF DrawNext
<1>14. m.pile = v /\ m.top = last /\ m.drawn = r.drawn \union {c}
  BY <1>13
<1>15. Lists(v, D \ {c})
  BY <1>4, <1>8, <1>9, <1>10, ListsRemove, Zenon
<1>16. IsRemoval(v, C, u, at)
  BY <1>4, <1>9, <1>10, RemoveAtElements, Zenon
<1>17. v \in Seq(C) /\ Len(v) = Len(s) - (n + 1) /\ \A i \in 1..at - 1 : v[i] = u[i]
  BY <1>4, <1>5, <1>16 DEF IsRemoval
<1>18. C \ m.drawn = D \ {c} /\ r.drawn \union {c} \subseteq C
  BY <1>2, <1>4, <1>9, <1>14
<1>19. last \in Nat \ {0}
  BY <1>5, <1>9, <1>11
<1>20. m \in Draws(C)
  BY <1>13, <1>17, <1>18, <1>19 DEF Draws
<1>21. \/ \A d \in D \ {c} : name[d] \in names
       \/ /\ \A d \in r.drawn \union {c} : name[d] \notin names
          /\ \A i \in 1..Len(v) : i < last => name[v[i]] \in names
  <2>1. CASE \A d \in D : name[d] \in names
    BY <2>1
  <2>2. CASE /\ \A d \in r.drawn : name[d] \notin names
             /\ \A i \in 1..Len(u) : i < top => name[u[i]] \in names
    <3>1. CASE at = 1 /\ \A i \in top..Len(u) : name[u[i]] \in names
      <4>1. \A i \in 1..Len(u) : name[u[i]] \in names
        BY <2>2, <3>1, <1>4, <1>5
      <4>2. \A d \in D : \E i \in 1..Len(u) : u[i] = d
        BY <1>4 DEF Lists
      <4>. QED BY <4>1, <4>2
    <3>2. CASE /\ at >= top /\ name[u[at]] \notin names
               /\ \A i \in top..Len(u) : i < at => name[u[i]] \in names
      <4>1. last = at /\ name[c] \notin names
        BY <3>2, <1>8, <1>11
      <4>2. ASSUME NEW i \in 1..Len(v), i < last PROVE name[v[i]] \in names
        <5>1. i \in 1..at - 1 /\ i \in 1..Len(u)
          BY <4>1, <4>2, <1>4, <1>5, <1>9, <1>17
        <5>2. v[i] = u[i] /\ (i < top \/ i \in top..Len(u))
          BY <5>1, <1>4, <1>17
        <5>. QED BY <5>1, <5>2, <4>1, <4>2, <2>2, <3>2
      <4>. QED BY <4>1, <4>2, <2>2
    <3>. QED BY <3>1, <3>2, <1>7 DEF IsSkipped
  <2>. QED BY <2>1, <2>2, <1>1, <1>2, <1>3, Zenon DEF IsDraw
<1>. QED BY <1>12, <1>14, <1>15, <1>17, <1>18, <1>20, <1>21, Zenon DEF IsDraw

\* Draws by which Drawn is defined.
Drawing(f, s, count, names) ==
  f = [k \in 0..count |->
         IF k = 0 THEN [pile |-> s, top |-> 1, drawn |-> {}] ELSE DrawNext(f[k - 1], names)]

\* What is drawn are count of the cards, and if any of them has one of the
\* names then all cards that are left have.
IsDrawn(drawn, s, C, count, names) ==
  /\ drawn \subseteq C /\ Cardinality(C \ drawn) = Len(s) - count
  /\ (\E c \in drawn : name[c] \in names) => \A c \in C \ drawn : name[c] \in names

\* Cards that are drawn in return come from the pile.
LEMMA DrawnCards ==
  ASSUME NEW C, NEW s, Lists(s, C), NEW count \in 0..Len(s), NEW names
  PROVE  IsDrawn(Drawn(s, count, names), s, C, count, names)
<1>. DEFINE first == [pile |-> s, top |-> 1, drawn |-> {}]
            next  == [k \in 1..count |-> [r \in Draws(C) |-> DrawNext(r, names)]]
            G     == [k \in 0..count |-> {r \in Draws(C) : IsDraw(r, k, s, C, names)}]
<1>1. s \in Seq(C) /\ Len(s) \in Nat /\ count \in Nat /\ count <= Len(s)
  BY ListsBasics DEF Lists
<1>2. IsDraw(first, 0, s, C, names)
  <2>1. first \in Draws(C) /\ first.pile = s /\ first.top = 1 /\ first.drawn = {}
    BY <1>1 DEF Draws
  <2>2. C \ {} = C /\ Len(s) = Len(s) - 0
    BY <1>1
  <2>3. \A i \in 1..Len(s) : ~(i < 1)
    BY <1>1
  <2>. HIDE DEF first
  <2>. QED BY <2>1, <2>2, <2>3 DEF IsDraw
<1>3. ASSUME NEW k \in 1..count, NEW r, IsDraw(r, k - 1, s, C, names)
      PROVE  IsDraw(DrawNext(r, names), k, s, C, names)
  <2>1. PICK m \in Nat : m = k - 1 /\ m < Len(s) /\ m + 1 = k
    BY <1>1
  <2>2. IsDraw(DrawNext(r, names), m + 1, s, C, names)
    BY <1>1, <1>3, <2>1, DrawNextIsDraw, Zenon
  <2>. QED BY <2>1, <2>2
<1>4. PICK g : Drawing(g, s, count, names)
  <2>1. G \in [0..count -> SUBSET Draws(C)] /\ \A k \in 0..count : G[k] = {r \in Draws(C) : IsDraw(r, k, s, C, names)}
    OBVIOUS
  <2>2. 0 \in 0..count /\ \A k \in 1..count : k \in 0..count /\ k - 1 \in 0..count
    BY <1>1
  <2>3. \A r, k : IsDraw(r, k, s, C, names) => r \in Draws(C)
    BY Zenon DEF IsDraw
  <2>4. \A k \in 1..count : \A r \in Draws(C) : next[k][r] = DrawNext(r, names)
    OBVIOUS
  <2>. HIDE DEF first, next, G
  <2>5. first \in G[0]
    BY <2>1, <2>2, <2>3, <1>2
  <2>6. ASSUME NEW k \in 1..count, NEW r \in G[k - 1] PROVE next[k][r] \in G[k]
    <3>1. r \in Draws(C) /\ IsDraw(r, k - 1, s, C, names)
      BY <2>1, <2>2
    <3>2. IsDraw(DrawNext(r, names), k, s, C, names)
      BY <1>3, <3>1, Zenon
    <3>. QED BY <2>1, <2>2, <2>3, <2>4, <3>1, <3>2, Zenon
  <2>7. PICK g : GoesWithin(g, G, count, first, next)
    BY <1>1, <2>1, <2>5, <2>6, GuardedRecursion, Zenon
  <2>8. ASSUME NEW k \in 1..count PROVE g[k] = DrawNext(g[k - 1], names)
    <3>1. g[k] = next[k][g[k - 1]] /\ g[k - 1] \in G[k - 1]
      BY <2>2, <2>7 DEF GoesWithin
    <3>2. g[k - 1] \in Draws(C)
      BY <2>1, <2>2, <3>1
    <3>. QED BY <2>4, <3>1, <3>2, Zenon
  <2>9. g[0] = first /\ g = [k \in 0..count |-> g[k]] /\ \A k \in 0..count : k = 0 \/ k \in 1..count
    BY <2>7, <1>1 DEF GoesWithin
  <2>10. Drawing(g, s, count, names)
    BY <2>8, <2>9, Zenon DEF Drawing, first
  <2>. QED BY <2>10, Zenon
<1>. DEFINE h == CHOOSE f : Drawing(f, s, count, names)
<1>5. Drawing(h, s, count, names)
  BY <1>4, Zenon
<1>6. Drawn(s, count, names) = h[count].drawn
  BY Zenon DEF Drawn, Drawing, DrawNext
<1>. HIDE DEF h, first
<1>7. h[0] = first /\ \A k \in 1..count : h[k] = DrawNext(h[k - 1], names)
  <2>. DEFINE f == [k \in 0..count |-> IF k = 0 THEN first ELSE DrawNext(h[k - 1], names)]
  <2>1. h = f
    BY <1>5, Zenon DEF Drawing, first
  <2>2. f[0] = first /\ \A k \in 1..count : f[k] = DrawNext(h[k - 1], names)
    BY <1>1
  <2>. HIDE DEF f
  <2>. QED BY <2>1, <2>2, Zenon
<1>. DEFINE T == {k \in 0..count : IsDraw(h[k], k, s, C, names)}
<1>8. 0 \in T
  BY <1>1, <1>2, <1>7
<1>9. ASSUME NEW k \in 0..count - 1, k \in T PROVE k + 1 \in T
  <2>1. PICK m : m = k + 1
    OBVIOUS
  <2>2. m \in 1..count /\ m \in 0..count /\ m - 1 = k
    BY <2>1, <1>1
  <2>3. IsDraw(h[m], m, s, C, names)
    BY <1>3, <1>7, <1>9, <2>2
  <2>. QED BY <2>1, <2>2, <2>3
<1>10. IsDraw(h[count], count, s, C, names)
  <2>. HIDE DEF T
  <2>1. \A k \in 0..count : k \in T
    BY <1>1, <1>8, <1>9, BoundedInduction, Zenon
  <2>. QED BY <2>1, <1>1 DEF T
<1>11. PICK r : r = h[count]
  OBVIOUS
<1>12. IsDraw(r, count, s, C, names) /\ Drawn(s, count, names) = r.drawn
  BY <1>6, <1>10, <1>11
<1>13. Cardinality(C \ r.drawn) = Len(s) - count
  BY <1>12, ListsBasics DEF IsDraw
<1>. QED BY <1>12, <1>13 DEF IsDraw, IsDrawn, Draws

\* In place of the cards removed from the hand count are drawn of them and those
\* of the pile.
IsSwitch(p, removed, count, drawn) ==
  /\ drawn \subseteq InPile(p) \union removed
  /\ hands' = [hands EXCEPT ![p] = (@ \ removed) \union drawn]
  /\ pile' = [r \in Player |-> pile'[r]] /\ pile'[Flip(p)] = pile[Flip(p)]
  /\ Lists(pile'[p], (InPile(p) \union removed) \ drawn)
  /\ Len(pile'[p]) = Len(pile[p]) + Cardinality(removed) - count
  /\ (\E c \in drawn : name[c] \in {name[d] : d \in removed}) =>
       \A c \in (InPile(p) \union removed) \ drawn : name[c] \in {name[d] : d \in removed}

\* How many cards come back for those removed and the ids repeated.
Back(p, removed, repeats) == Cardinality(removed) + Least(repeats, Len(pile[p]))

\* What is drawn for the cards put back; the switch fails only where the pile
\* ends.
LEMMA SwitchHandsDraws ==
  ASSUME Inv, NEW p \in Player, NEW removed, NEW repeats \in Nat,
         SwitchHands(p, removed, repeats)
  PROVE  /\ \E drawn : IsSwitch(p, removed, Back(p, removed, repeats), drawn)
         /\ failed' => failed \/ repeats > Len(pile[p])
<1>1. PICK X : X = InPile(p)
  OBVIOUS
<1>2. PICK s : s = pile[p]
  OBVIOUS
<1>3. PICK names : names = {name[c] : c \in removed}
  OBVIOUS
<1>4. PICK cards : cards = SetToSeq(removed)
  OBVIOUS
<1>5. removed \subseteq hands[p] /\ IsFiniteSet(removed)
  <2>1. removed \subseteq hands[p]
    BY DEF SwitchHands
  <2>. QED BY <2>1, HandFinite, FS_Subset
<1>6. Lists(cards, removed)
  BY <1>4, <1>5, ListsSetToSeq
<1>7. Cardinality(removed) = Len(cards) /\ Len(cards) \in Nat
  BY <1>6, ListsBasics
<1>8. Lists(s, X) /\ Len(s) \in Nat /\ X \cap removed = {}
  <2>1. Lists(s, X) /\ Len(s) \in Nat
    BY <1>1, <1>2, PlacedOf, Zenon
  <2>2. Parts(Card, hands[p], hands[Flip(p)], InPile(p), InPile(Flip(p)), gone)
    BY PlacedOf, Zenon
  <2>. QED BY <2>1, <2>2, <1>1, <1>5 DEF Parts
<1>9. PICK mixed \in Mixed(s, cards) :
        LET drawn == Drawn(mixed, Least(Cardinality(removed) + repeats, Len(mixed)), names)
        IN  /\ hands' = [hands EXCEPT ![p] = (@ \ removed) \union drawn]
            /\ pile' = [pile EXCEPT ![p] = Without(mixed, drawn)]
            /\ failed' = (failed \/ Cardinality(removed) + repeats > Len(mixed))
  BY <1>2, <1>3, <1>4, Zenon DEF SwitchHands
<1>10. PICK index \in [1..Len(cards) -> Nat] : mixed = Spliced(s, cards, index)
  <2>1. PICK index \in [1..Len(cards) -> 0..Len(s) + Len(cards) - 1] :
          mixed = Spliced(s, cards, index)
    BY <1>9, Zenon DEF Mixed
  <2>2. \A i \in 1..Len(cards) : index[i] \in Nat
    BY <2>1, <1>7, <1>8
  <2>3. index \in [1..Len(cards) -> Nat]
    BY <2>1, <2>2
  <2>. QED BY <2>1, <2>3
<1>11. PICK C : C = X \union removed
  OBVIOUS
<1>12. Lists(mixed, C) /\ Len(mixed) = Len(s) + Len(cards)
  <2>1. ListsBoth(Spliced(s, cards, index), s, X, cards, removed)
    BY <1>6, <1>8, <1>10, SplicedLists, Zenon
  <2>. QED BY <2>1, <1>10, <1>11 DEF ListsBoth
<1>13. PICK count : count = Back(p, removed, repeats)
  OBVIOUS
<1>14. /\ count = Least(Cardinality(removed) + repeats, Len(mixed)) /\ count \in 0..Len(mixed)
       /\ Cardinality(removed) + repeats > Len(mixed) => repeats > Len(s)
  BY <1>2, <1>7, <1>8, <1>12, <1>13 DEF Back, Least
<1>15. PICK drawn : drawn = Drawn(mixed, count, names)
  OBVIOUS
<1>16. IsDrawn(drawn, mixed, C, count, names)
  BY <1>12, <1>15, <1>14, DrawnCards, Zenon
<1>17. /\ hands' = [hands EXCEPT ![p] = (@ \ removed) \union drawn]
       /\ pile' = [pile EXCEPT ![p] = Without(mixed, drawn)]
  BY <1>9, <1>15, <1>14, Zenon
<1>18. /\ pile'[p] = Without(mixed, drawn) /\ pile'[Flip(p)] = pile[Flip(p)]
       /\ pile' = [r \in Player |-> pile'[r]]
  BY <1>17, PlacedOf, Opponent, Zenon
<1>19. PICK t : t = Without(mixed, drawn)
  OBVIOUS
<1>20. Lists(t, C \ drawn)
  BY <1>12, <1>19, WithoutLists, Zenon
<1>21. Len(t) = Len(s) + Cardinality(removed) - count
  <2>1. Len(t) = Cardinality(C \ drawn)
    BY <1>20, ListsBasics
  <2>2. Cardinality(C \ drawn) = Len(mixed) - count
    BY <1>16, Zenon DEF IsDrawn
  <2>. QED BY <2>1, <2>2, <1>7, <1>8, <1>12, <1>14
<1>22. /\ drawn \subseteq C
       /\ (\E c \in drawn : name[c] \in names) => \A c \in C \ drawn : name[c] \in names
  BY <1>16, Zenon DEF IsDrawn
<1>23. IsSwitch(p, removed, count, drawn)
  BY <1>1, <1>2, <1>3, <1>11, <1>17, <1>18, <1>19, <1>20, <1>21, <1>22, Zenon DEF IsSwitch
<1>24. failed' => failed \/ repeats > Len(pile[p])
  BY <1>2, <1>9, <1>14, Zenon
<1>. QED BY <1>13, <1>23, <1>24, Zenon

\* Cards that are switched.
LEMMA SwitchHandsStep ==
  ASSUME Inv, NEW p \in Player, NEW removed, NEW repeats \in Nat,
         SwitchHands(p, removed, repeats)
  PROVE  Inv'
<1>1. PICK q : q = Flip(p)
  OBVIOUS
<1>2. PICK drawn : IsSwitch(p, removed, Back(p, removed, repeats), drawn)
  BY SwitchHandsDraws, Zenon
<1>3. PICK Y : Y = (InPile(p) \union removed) \ drawn
  OBVIOUS
<1>4. /\ p \in switching /\ removed \subseteq hands[p] /\ switching' = switching \ {p}
      /\ UNCHANGED <<gone, name, dealt>>
  BY Zenon DEF SwitchHands
<1>5. /\ drawn \subseteq InPile(p) \union removed
      /\ pile' = [r \in Player |-> pile'[r]] /\ pile'[q] = pile[q]
      /\ Lists(pile'[p], Y) /\ Len(pile'[p]) <= MaxPile
  <2>1. Len(pile[p]) <= MaxPile /\ Len(pile[p]) \in Nat
    BY PlacedOf, Zenon
  <2>2. Cardinality(removed) \in Nat
    BY <1>4, HandFinite, FS_Subset, FS_CardinalityType
  <2>3. Len(pile'[p]) = Len(pile[p]) + Cardinality(removed) - Back(p, removed, repeats)
    BY <1>2, Zenon DEF IsSwitch
  <2>4. Len(pile'[p]) <= MaxPile
    BY <2>1, <2>2, <2>3, PilesConstants DEF Back, Least
  <2>. QED BY <1>1, <1>2, <1>3, <2>4, Zenon DEF IsSwitch
<1>6. /\ hands'[p] = (hands[p] \ removed) \union drawn /\ hands'[q] = hands[q]
      /\ hands' = [r \in Player |-> hands'[r]]
  BY <1>1, <1>2, PlacedOf, Opponent, Zenon DEF IsSwitch
<1>7. Parts(Card', hands'[p], hands'[q], Y, InPile(q), gone')
  <2>1. Parts(Card, hands[p], hands[q], InPile(p), InPile(q), gone)
    BY <1>1, PlacedOf, Zenon
  <2>2. Card' = Card /\ gone' = gone
    BY <1>4 DEF Card
  <2>3. Card' = hands'[p] \union hands'[q] \union Y \union InPile(q) \union gone'
    BY <2>1, <2>2, <1>3, <1>4, <1>5, <1>6 DEF Parts
  <2>4. /\ hands'[p] \cap hands'[q] = {} /\ hands'[p] \cap Y = {}
        /\ hands'[p] \cap InPile(q) = {} /\ hands'[p] \cap gone' = {}
    BY <2>1, <2>2, <1>3, <1>4, <1>5, <1>6 DEF Parts
  <2>5. /\ hands'[q] \cap Y = {} /\ hands'[q] \cap InPile(q) = {} /\ hands'[q] \cap gone' = {}
        /\ Y \cap InPile(q) = {} /\ Y \cap gone' = {} /\ InPile(q) \cap gone' = {}
    BY <2>1, <2>2, <1>3, <1>4, <1>5, <1>6 DEF Parts
  <2>. QED BY <2>3, <2>4, <2>5, Zenon DEF Parts
<1>8. Typed' /\ Placed'
  <2>1. switching' \subseteq Player /\ dealt' \in BOOLEAN /\ name' \in Seq(Names)
    BY <1>4, PlacedOf
  <2>. QED BY <1>1, <1>5, <1>6, <1>7, <2>1, PlacedOf, PlacedNext, Zenon
<1>9. dealt
  BY <1>4, PlacedOf DEF Inv, Undealt
<1>. QED BY <1>4, <1>8, <1>9, Zenon DEF Inv, Undealt

-----------------------------------------------------------------------------
(* Every card is in one place. *)

\* A match begins with all cards in the piles.
LEMMA InitInv ==
  ASSUME Init
  PROVE  Inv
<1>1. /\ name \in Seq(Names) /\ Len(name) = 2 * Deck /\ Card = 1..2 * Deck
      /\ Deck \in Nat /\ Deck <= MaxPile
  BY PilesConstants DEF Init, Card
<1>2. ASSUME NEW p \in Player
      PROVE  /\ Lists(pile[p], p * Deck + 1..p * Deck + Deck)
             /\ hands[p] = {} /\ Len(pile[p]) = Deck
  <2>1. PICK base \in Nat : base = p * Deck
    BY <1>1 DEF Player
  <2>2. pile[p] = [i \in 1..Deck |-> base + i] /\ hands[p] = {}
    BY <2>1 DEF Init
  <2>3. PICK s : s = pile[p]
    OBVIOUS
  <2>4. s \in Seq(base + 1..base + Deck) /\ Len(s) = Deck /\ \A i \in 1..Deck : s[i] = base + i
    BY <2>2, <2>3, <1>1
  <2>5. ASSUME NEW x \in base + 1..base + Deck PROVE \E i \in 1..Deck : s[i] = x
    <3>1. x - base \in 1..Deck /\ base + (x - base) = x
      BY <1>1
    <3>. QED BY <3>1, <2>4
  <2>6. Lists(s, base + 1..base + Deck)
    BY <2>4, <2>5, <1>1 DEF Lists
  <2>. QED BY <2>1, <2>2, <2>3, <2>4, <2>6
<1>3. ASSUME NEW p \in Player PROVE InPile(p) = p * Deck + 1..p * Deck + Deck
  BY <1>2, ListsBasics, Zenon DEF InPile
<1>4. gone = {} /\ switching = {} /\ dealt = FALSE
  BY DEF Init
<1>5. ASSUME NEW p \in Player
      PROVE  /\ Lists(pile[p], InPile(p)) /\ Len(pile[p]) <= MaxPile
             /\ Parts(Card, hands[p], hands[Flip(p)], InPile(p), InPile(Flip(p)), gone)
  <2>1. Lists(pile[p], InPile(p)) /\ Len(pile[p]) <= MaxPile
    BY <1>1, <1>2, <1>3
  <2>2. hands[p] = {} /\ hands[Flip(p)] = {}
    BY <1>2, Opponent
  <2>3. \/ InPile(p) = 1..Deck /\ InPile(Flip(p)) = Deck + 1..2 * Deck
        \/ InPile(p) = Deck + 1..2 * Deck /\ InPile(Flip(p)) = 1..Deck
    <3>1. 0 \in Player /\ InPile(0) = 1..Deck
      <4>1. 0 \in Player /\ 0 * Deck + 1 = 1 /\ 0 * Deck + Deck = Deck
        BY <1>1 DEF Player
      <4>. QED BY <4>1, <1>3
    <3>2. 1 \in Player /\ InPile(1) = Deck + 1..2 * Deck
      <4>1. 1 \in Player /\ 1 * Deck + 1 = Deck + 1 /\ 1 * Deck + Deck = 2 * Deck
        BY <1>1 DEF Player
      <4>. QED BY <4>1, <1>3
    <3>3. (p = 0 /\ Flip(p) = 1) \/ (p = 1 /\ Flip(p) = 0)
      BY DEF Player, Flip
    <3>. QED BY <3>1, <3>2, <3>3
  <2>4. 1..2 * Deck = (1..Deck) \union (Deck + 1..2 * Deck) /\ (1..Deck) \cap (Deck + 1..2 * Deck) = {}
    BY <1>1
  <2>5. Parts(Card, hands[p], hands[Flip(p)], InPile(p), InPile(Flip(p)), gone)
    BY <1>1, <1>4, <2>2, <2>3, <2>4 DEF Parts
  <2>. QED BY <2>1, <2>5
<1>6. Placed
  BY <1>5, Zenon DEF Placed
<1>7. Typed
  <2>1. ASSUME NEW p \in Player PROVE pile[p] \in Seq(Card) /\ hands[p] \in SUBSET Card
    <3>1. InPile(p) \subseteq Card /\ pile[p] \in Seq(InPile(p))
      BY <1>5 DEF Parts, Lists
    <3>2. \A S, T, s : S \subseteq T /\ s \in Seq(S) => s \in Seq(T)
      OBVIOUS
    <3>. QED BY <3>1, <3>2, <1>2, Zenon
  <2>2. hands = [p \in Player |-> hands[p]] /\ pile = [p \in Player |-> pile[p]]
    BY DEF Init
  <2>3. hands \in [Player -> SUBSET Card] /\ pile \in [Player -> Seq(Card)]
    BY <2>1, <2>2, Zenon
  <2>. QED BY <1>1, <1>4, <2>3 DEF Typed
<1>. QED BY <1>2, <1>4, <1>6, <1>7, Zenon DEF Inv, Undealt

\* Every action keeps the invariant.
LEMMA NextInv ==
  ASSUME Inv, [Next]_vars
  PROVE  Inv'
<1>1. CASE UNCHANGED vars
  BY <1>1 DEF vars, Inv, Typed, Placed, Undealt, InPile, Card
<1>2. CASE InitHands
  BY <1>2, InitHandsStep
<1>3. CASE SwapPlayerHandCards
  BY <1>3, SwapPlayerHandCardsStep
<1>4. ASSUME NEW p \in Player, RequestSwitchHands(p)
      PROVE  Inv'
  <2>1. /\ dealt /\ switching' = {p} /\ UNCHANGED <<hands, pile, gone, name, dealt>>
    BY <1>4 DEF RequestSwitchHands, Ready
  <2>. QED BY <2>1 DEF Inv, Typed, Placed, Undealt, InPile, Card
<1>5. ASSUME NEW p \in Player, SwitchFails(p)
      PROVE  Inv'
  <2>1. switching' \subseteq switching /\ UNCHANGED <<hands, pile, gone, name, dealt>>
    BY <1>5 DEF SwitchFails
  <2>. QED BY <2>1 DEF Inv, Typed, Placed, Undealt, InPile, Card
<1>6. ASSUME NEW p \in Player, NEW removed, NEW repeats \in 0..MaxRepeats,
             SwitchHands(p, removed, repeats)
      PROVE  Inv'
  <2>1. repeats \in Nat
    BY PilesConstants
  <2>. QED BY <1>6, <2>1, SwitchHandsStep
<1>. QED
  BY <1>1, <1>2, <1>3, <1>4, <1>5, <1>6, DrawCardsPlainStep, DrawCardStep, RemoveCardStep,
     StealHandCardStep, CreateHandCardStep, RequestPlayCardStep, CreatePileCardsStep,
     UndrawCardsStep, Zenon DEF Next

\* Every card is in one place once: in one hand, at one position of one pile,
\* or gone.
LEMMA InvConserves ==
  ASSUME Inv
  PROVE  CardsConserved
<1>1. ASSUME NEW c \in Card
      PROVE  Cardinality({p \in Player : c \in hands[p]})
               + Cardinality({at \in Player \X (1..MaxPile) :
                                at[2] <= Len(pile[at[1]]) /\ pile[at[1]][at[2]] = c})
               + (IF c \in gone THEN 1 ELSE 0) = 1
  <2>. DEFINE holders == {p \in Player : c \in hands[p]}
              places  == {at \in Player \X (1..MaxPile) :
                            at[2] <= Len(pile[at[1]]) /\ pile[at[1]][at[2]] = c}
  <2>1. \A p \in Player : Parts(Card, hands[p], hands[Flip(p)], InPile(p), InPile(Flip(p)), gone)
    BY PlacedOf, Zenon
  <2>2. ASSUME NEW p \in Player, NEW i \in 1..MaxPile
        PROVE  <<p, i>> \in places <=> i <= Len(pile[p]) /\ pile[p][i] = c
    OBVIOUS
  <2>3. ASSUME NEW p \in Player, NEW i \in 1..MaxPile, <<p, i>> \in places
        PROVE  c \in InPile(p)
    <3>1. i \in 1..Len(pile[p]) /\ pile[p][i] = c
      BY <2>2, <2>3, PlacedOf, PilesConstants
    <3>. QED BY <3>1, PlacedOf DEF Lists
  <2>4. CASE \E p \in Player : c \in hands[p]
    <3>1. PICK p \in Player : c \in hands[p]
      BY <2>4
    <3>2. /\ holders = {p} /\ c \notin gone
          /\ \A r \in Player : c \notin InPile(r)
      BY <3>1, <2>1, Opponent DEF Parts
    <3>3. places = {}
      BY <3>2, <2>3
    <3>4. Cardinality(holders) = 1 /\ Cardinality(places) = 0
      BY <3>2, <3>3, FS_EmptySet, FS_Singleton
    <3>. QED BY <3>2, <3>4
  <2>5. CASE \E p \in Player : c \in InPile(p)
    <3>1. PICK p \in Player : c \in InPile(p)
      BY <2>5
    <3>2. /\ holders = {} /\ c \notin gone /\ c \notin InPile(Flip(p))
      BY <3>1, <2>1, Opponent DEF Parts
    <3>3. PICK i \in 1..Len(pile[p]) : pile[p][i] = c
      BY <3>1, PlacedOf DEF Lists
    <3>4. i \in 1..MaxPile
      BY <3>3, PlacedOf, PilesConstants
    <3>5. places = {<<p, i>>}
      <4>1. <<p, i>> \in places
        BY <3>3, <3>4, <2>2
      <4>2. ASSUME NEW r \in Player, NEW j \in 1..MaxPile, <<r, j>> \in places
            PROVE  r = p /\ j = i
        <5>1. r = p
          BY <4>2, <2>3, <3>2, Opponent
        <5>2. j \in 1..Len(pile[p]) /\ pile[p][j] = c
          BY <4>2, <5>1, <2>2, PlacedOf
        <5>. QED BY <5>1, <5>2, <3>3, PlacedOf DEF Lists
      <4>3. \A at \in places : \E r \in Player, j \in 1..MaxPile : at = <<r, j>>
        OBVIOUS
      <4>. HIDE DEF places
      <4>4. places \subseteq {<<p, i>>}
        BY <4>2, <4>3
      <4>. QED BY <4>1, <4>4
    <3>6. Cardinality(holders) = 0 /\ Cardinality(places) = 1
      BY <3>2, <3>5, FS_EmptySet, FS_Singleton
    <3>. QED BY <3>2, <3>6
  <2>6. CASE c \in gone
    <3>1. holders = {} /\ \A r \in Player : c \notin InPile(r)
      BY <2>6, <2>1, Opponent DEF Parts
    <3>2. places = {}
      BY <3>1, <2>3
    <3>3. Cardinality(holders) = 0 /\ Cardinality(places) = 0
      BY <3>1, <3>2, FS_EmptySet
    <3>. QED BY <2>6, <3>3
  <2>7. \/ \E p \in Player : c \in hands[p]
        \/ \E p \in Player : c \in InPile(p)
        \/ c \in gone
    <3>1. PICK p \in Player : TRUE
      BY DEF Player
    <3>. QED BY <2>1, <3>1, Opponent DEF Parts
  <2>. QED BY <2>4, <2>5, <2>6, <2>7
<1>2. \A p \in Player : Len(pile[p]) <= MaxPile
  BY PlacedOf, Zenon
<1>. QED BY <1>1, <1>2, Zenon DEF CardsConserved

\* Every card is in one place once, whatever operations move it, and no pile is
\* ever too large: for all sizes of hands, piles and decks.
THEOREM NoCardLost == Spec => []CardsConserved
<1>1. Init => Inv
  BY InitInv
<1>2. Inv /\ [Next]_vars => Inv'
  BY NextInv
<1>3. Inv => CardsConserved
  BY InvConserves
<1>. QED BY <1>1, <1>2, <1>3, PTL DEF Spec

-----------------------------------------------------------------------------
(* The sizes of hands. *)

\* Whoever switches cards gets count in return, none of which he has kept.
LEMMA SwitchCounts ==
  ASSUME Inv, NEW p \in Player, NEW removed, removed \subseteq hands[p], NEW drawn,
         NEW count \in Nat, IsSwitch(p, removed, count, drawn)
  PROVE  /\ drawn \cap (hands[p] \ removed) = {}
         /\ hands'[p] = (hands[p] \ removed) \union drawn
         /\ Cardinality(hands'[p]) = Cardinality(hands[p]) - Cardinality(removed) + count
<1>1. PICK X : X = InPile(p)
  OBVIOUS
<1>2. PICK C : C = X \union removed
  OBVIOUS
<1>3. Parts(Card, hands[p], hands[Flip(p)], X, InPile(Flip(p)), gone)
  BY <1>1, PlacedOf, Zenon
<1>4. X \cap removed = {} /\ drawn \subseteq C
  BY <1>1, <1>2, <1>3 DEF Parts, IsSwitch
<1>5. drawn \cap (hands[p] \ removed) = {}
  BY <1>2, <1>3, <1>4 DEF Parts
<1>6. hands'[p] = (hands[p] \ removed) \union drawn
  BY PlacedOf, Zenon DEF IsSwitch
<1>7. /\ IsFiniteSet(X) /\ Cardinality(X) = Len(pile[p])
      /\ IsFiniteSet(C \ drawn) /\ Cardinality(C \ drawn) = Len(pile'[p])
      /\ Len(pile'[p]) = Len(pile[p]) + Cardinality(removed) - count
  <2>1. /\ Lists(pile[p], X) /\ Lists(pile'[p], C \ drawn)
        /\ Len(pile'[p]) = Len(pile[p]) + Cardinality(removed) - count
    BY <1>1, <1>2, PlacedOf, Zenon DEF IsSwitch
  <2>. QED BY <2>1, ListsBasics, Zenon
<1>8. IsFiniteSet(hands[p]) /\ IsFiniteSet(removed) /\ IsFiniteSet(hands[p] \ removed)
  BY HandFinite, FS_Subset, FS_Difference
<1>9. IsFiniteSet(C) /\ Cardinality(C) = Cardinality(X) + Cardinality(removed)
  <2>1. Cardinality(X \cap removed) = 0
    BY <1>4, FS_EmptySet
  <2>2. /\ IsFiniteSet(X \union removed)
        /\ Cardinality(X \union removed) =
             Cardinality(X) + Cardinality(removed) - Cardinality(X \cap removed)
    BY <1>7, <1>8, FS_Union
  <2>. QED BY <2>1, <2>2, <1>2, <1>7, <1>8, FS_CardinalityType
<1>10. IsFiniteSet(drawn) /\ Cardinality(drawn) = count
  <2>1. IsFiniteSet(drawn) /\ C \cap drawn = drawn
    BY <1>4, <1>9, FS_Subset
  <2>2. Cardinality(C \ drawn) = Cardinality(C) - Cardinality(C \cap drawn)
    BY <1>9, FS_Difference
  <2>3. /\ Cardinality(drawn) \in Nat /\ Cardinality(removed) \in Nat
        /\ Cardinality(X) \in Nat /\ Cardinality(C) \in Nat
    BY <2>1, <1>7, <1>8, <1>9, FS_CardinalityType
  <2>4. Cardinality(C \ drawn) = Cardinality(X) + Cardinality(removed) - count
    BY <1>7
  <2>5. Cardinality(C \cap drawn) = Cardinality(drawn)
    BY <2>1
  <2>6. Cardinality(C \ drawn) = Cardinality(C) - Cardinality(drawn)
    BY <2>2, <2>5
  <2>7. Cardinality(C) = Cardinality(X) + Cardinality(removed)
    BY <1>9
  <2>8. Cardinality(drawn) = count
    <3>1. PICK d \in Nat, r \in Nat, x \in Nat, c \in Nat :
            d = Cardinality(drawn) /\ r = Cardinality(removed)
              /\ x = Cardinality(X) /\ c = Cardinality(C)
      BY <2>3, Zenon
    <3>2. PICK b : b = Cardinality(C \ drawn)
      OBVIOUS
    <3>3. b = x + r - count /\ b = c - d /\ c = x + r
      BY <2>4, <2>6, <2>7, <3>1, <3>2, Zenon
    <3>4. d = count
      BY <3>3
    <3>. QED BY <3>1, <3>4, Zenon
  <2>. QED BY <2>1, <2>8
<1>11. Cardinality(hands'[p]) = Cardinality(hands[p]) - Cardinality(removed) + count
  <2>1. PICK rest : rest = hands[p] \ removed
    OBVIOUS
  <2>2. IsFiniteSet(rest) /\ hands[p] \cap removed = removed
    BY <1>8, <2>1
  <2>3. Cardinality(rest) = Cardinality(hands[p]) - Cardinality(removed)
    BY <1>8, <2>1, <2>2, FS_Difference
  <2>4. rest \cap drawn = {} /\ hands'[p] = rest \union drawn
    BY <1>5, <1>6, <2>1
  <2>5. Cardinality(rest \union drawn) = Cardinality(rest) + Cardinality(drawn) - Cardinality(rest \cap drawn)
    BY <2>2, <1>10, FS_Union
  <2>6. Cardinality(rest \cap drawn) = 0
    BY <2>4, FS_EmptySet
  <2>7. /\ Cardinality(rest) \in Nat /\ Cardinality(drawn) \in Nat
        /\ Cardinality(removed) \in Nat /\ Cardinality(hands[p]) \in Nat
    BY <2>2, <1>8, <1>10, FS_CardinalityType
  <2>. QED BY <2>3, <2>4, <2>5, <2>6, <2>7, <1>10
<1>. QED BY <1>5, <1>6, <1>11

\* What inserted cards leave of the limit: it is kept, or the hand stays as it is.
LEMMA InsertedCount ==
  ASSUME Inv, NEW p \in Player, NEW cards, NEW a, NEW b, IsInserted(p, cards, a, b)
  PROVE  /\ hands'[p] = hands[p] \union a /\ hands'[Flip(p)] = hands[Flip(p)]
         /\ \/ Cardinality(hands'[p]) <= MaxHands
            \/ hands'[p] = hands[p]
<1>1. hands'[p] = hands[p] \union a /\ hands'[Flip(p)] = hands[Flip(p)]
  BY PlacedOf, Opponent, Zenon DEF IsInserted
<1>2. /\ IsFiniteSet(a) /\ Cardinality(a) \in Nat /\ Cardinality(a) <= Room(p)
      /\ IsFiniteSet(hands[p]) /\ Cardinality(hands[p]) \in Nat
  BY HandFinite, FS_CardinalityType DEF IsInserted
<1>3. CASE Cardinality(hands[p]) > MaxHands
  <2>1. Cardinality(a) = 0
    BY <1>2, <1>3 DEF Room
  <2>2. a = {}
    BY <1>2, <2>1, FS_EmptySet
  <2>. QED BY <1>1, <2>2
<1>4. CASE ~(Cardinality(hands[p]) > MaxHands)
  <2>1. Cardinality(hands[p] \union a) =
          Cardinality(hands[p]) + Cardinality(a) - Cardinality(hands[p] \cap a)
    BY <1>2, FS_Union
  <2>2. Cardinality(hands[p] \cap a) \in Nat
    BY <1>2, FS_Intersection, FS_CardinalityType
  <2>3. Cardinality(a) <= MaxHands - Cardinality(hands[p])
    BY <1>2, <1>4 DEF Room
  <2>. QED BY <1>1, <1>2, <2>1, <2>2, <2>3, PilesConstants
<1>. QED BY <1>1, <1>3, <1>4

\* No hand is larger than the limit or than one that was there.
Bounded ==
  \A p \in Player : \/ Cardinality(hands'[p]) <= MaxHands
                   \/ \E r \in Player : Cardinality(hands'[p]) <= Cardinality(hands[r])

\* The size of the larger hand.
LEMMA BoundedLarger ==
  ASSUME Inv, Inv', Bounded
  PROVE  Larger(hands') <= MaxHands \/ Larger(hands') <= Larger(hands)
<1>1. \A p \in Player : Cardinality(hands[p]) \in Nat
  BY HandFinite
<1>2. \A p \in Player : Cardinality(hands'[p]) \in Nat
  <2>1. \A p \in Player : hands'[p] \subseteq Card' /\ IsFiniteSet(Card')
    <3>1. Len(name') \in Nat
      BY DEF Inv, Typed
    <3>2. \A p \in Player : hands'[p] \subseteq Card'
      BY DEF Inv, Typed
    <3>. QED BY <3>1, <3>2, FS_Interval DEF Card
  <2>. QED BY <2>1, FS_Subset, FS_CardinalityType
<1>3. MaxHands \in Nat
  BY PilesConstants
<1>. QED BY <1>1, <1>2, <1>3 DEF Bounded, Larger, Player

\* An insertion takes no hand beyond its limit.
LEMMA InsertBounded ==
  ASSUME Inv, NEW p \in Player, NEW cards, NEW a, NEW b, IsInserted(p, cards, a, b)
  PROVE  Bounded
<1>1. /\ hands'[Flip(p)] = hands[Flip(p)]
      /\ Cardinality(hands'[p]) <= MaxHands \/ hands'[p] = hands[p]
  BY InsertedCount
<1>2. \A r \in Player : Cardinality(hands[r]) \in Nat
  BY HandFinite
<1>. QED BY <1>1, <1>2, Opponent DEF Bounded

\* Hands from which cards are taken.
LEMMA ShrunkBounded ==
  ASSUME Inv, \A p \in Player : hands'[p] \subseteq hands[p]
  PROVE  Bounded
<1>1. ASSUME NEW p \in Player PROVE Cardinality(hands'[p]) <= Cardinality(hands[p])
  BY HandFinite, FS_Subset
<1>. QED BY <1>1 DEF Bounded

\* Hands that stay as they are.
LEMMA SameBounded ==
  ASSUME Inv, UNCHANGED hands
  PROVE  Bounded
BY ShrunkBounded, Zenon

\* Nor does a swap of hands,
LEMMA SwapBounded ==
  ASSUME Inv, SwapPlayerHandCards
  PROVE  Bounded
<1>1. ASSUME NEW p \in Player
      PROVE  Flip(p) \in Player /\ Cardinality(hands'[p]) <= Cardinality(hands[Flip(p)])
  <2>1. Flip(p) \in Player /\ hands'[p] = hands[Flip(p)]
    BY Opponent, Zenon DEF SwapPlayerHandCards
  <2>. QED BY <2>1, HandFinite
<1>. QED BY <1>1 DEF Bounded

\* nor the deal,
LEMMA InitHandsBounded ==
  ASSUME Inv, InitHands
  PROVE  Bounded
<1>1. ASSUME NEW p \in Player PROVE Cardinality(hands'[p]) <= MaxHands
  <2>1. PICK n : n = Least(InitialHands, Deck)
    OBVIOUS
  <2>2. Len(pile[p]) = Deck /\ Lists(pile[p], InPile(p)) /\ hands'[p] = {pile[p][i] : i \in 1..n}
    BY <2>1, PlacedOf, Zenon DEF InitHands, Inv, Undealt
  <2>3. n \in 0..Len(pile[p]) /\ n <= MaxHands
    BY <2>1, <2>2, PilesConstants DEF Least
  <2>4. Lists(SubSeq(pile[p], 1, n), hands'[p]) /\ Len(SubSeq(pile[p], 1, n)) = n
    BY <2>2, <2>3, ListsPart
  <2>5. Cardinality(hands'[p]) = n
    BY <2>4, ListsBasics
  <2>. QED BY <2>3, <2>5
<1>. QED BY <1>1 DEF Bounded

\* nor a switch of cards that are named once.
LEMMA SwitchBounded ==
  ASSUME Inv, NEW p \in Player, NEW removed, SwitchHands(p, removed, 0)
  PROVE  Bounded
<1>1. PICK n : n = Back(p, removed, 0)
  OBVIOUS
<1>2. PICK drawn : IsSwitch(p, removed, n, drawn)
  BY <1>1, SwitchHandsDraws
<1>3. removed \subseteq hands[p]
  BY DEF SwitchHands
<1>4. Cardinality(removed) \in Nat /\ Len(pile[p]) \in Nat
  BY <1>3, HandFinite, FS_Subset, FS_CardinalityType, PlacedOf
<1>5. n \in Nat /\ n = Cardinality(removed)
  BY <1>1, <1>4 DEF Back, Least
<1>6. Cardinality(hands'[p]) = Cardinality(hands[p]) - Cardinality(removed) + n
  BY <1>2, <1>3, <1>5, SwitchCounts
<1>7. hands'[Flip(p)] = hands[Flip(p)]
  BY <1>2, PlacedOf, Opponent, Zenon DEF IsSwitch
<1>8. \A r \in Player : Cardinality(hands[r]) \in Nat
  BY HandFinite
<1>. QED BY <1>4, <1>5, <1>6, <1>7, <1>8, Opponent DEF Bounded

\* Cards drawn or created are inserted; whatever is left of an operation only
\* takes cards from the hands.
LEMMA OperationBounded ==
  ASSUME Inv, NEW p \in Player,
         \/ \E count \in 1..MaxCount : DrawCardsPlain(p, count)
         \/ \E c \in Card : DrawCard(p, c) \/ RemoveCard(p, c)
         \/ \E n \in Names :
              \/ CreateHandCard(p, n) \/ RequestPlayCard(n)
              \/ \E count \in 1..MaxCount, strategy \in Strategies :
                   CreatePileCards(p, n, count, strategy)
         \/ \E chosen \in HandChoices(p), strategy \in Strategies :
              UndrawCards(p, chosen, strategy)
  PROVE  Bounded
<1>1. ASSUME NEW cards, NEW X, Lists(cards, X), Insert(p, cards) PROVE Bounded
  BY <1>1, InsertParts, InsertBounded, Zenon
<1>2. ASSUME NEW count \in 1..MaxCount, DrawCardsPlain(p, count) PROVE Bounded
  <2>1. PICK n : n = Least(count, Len(pile[p]))
    OBVIOUS
  <2>2. n \in 0..Len(pile[p]) /\ Lists(pile[p], InPile(p))
    BY <2>1, PlacedOf DEF Least
  <2>3. Lists(SubSeq(pile[p], 1, n), {pile[p][i] : i \in 1..n})
    BY <2>2, ListsPart
  <2>4. Insert(p, SubSeq(pile[p], 1, n))
    BY <1>2, <2>1, Zenon DEF DrawCardsPlain
  <2>. QED BY <1>1, <2>3, <2>4, Zenon
<1>3. ASSUME NEW c, DrawCard(p, c) PROVE Bounded
  BY <1>1, <1>3, OneCard, Zenon DEF DrawCard
<1>4. ASSUME NEW c, RemoveCard(p, c) PROVE Bounded
  <2>1. \A r \in Player : hands'[r] \subseteq hands[r]
    BY <1>4, PlacedOf DEF RemoveCard
  <2>. QED BY <2>1, ShrunkBounded
<1>5. ASSUME NEW n, CreateHandCard(p, n) PROVE Bounded
  BY <1>1, <1>5, OneCard, Zenon DEF CreateHandCard
<1>6. ASSUME NEW n, RequestPlayCard(n) PROVE Bounded
  BY <1>6, SameBounded DEF RequestPlayCard
<1>7. ASSUME NEW n, NEW count, NEW strategy, CreatePileCards(p, n, count, strategy) PROVE Bounded
  BY <1>7, SameBounded DEF CreatePileCards
<1>8. ASSUME NEW chosen, NEW strategy, UndrawCards(p, chosen, strategy) PROVE Bounded
  <2>1. PICK Y : hands' = [hands EXCEPT ![p] = @ \ Y]
    BY <1>8, Zenon DEF UndrawCards
  <2>2. \A r \in Player : hands'[r] \subseteq hands[r]
    BY <2>1, PlacedOf
  <2>. QED BY <2>2, ShrunkBounded
<1>. QED BY <1>2, <1>3, <1>4, <1>5, <1>6, <1>7, <1>8, Zenon

\* The hand of p gets the card c from the other one.
Stolen(p, c) ==
  hands'[p] = hands[p] \union {c} /\ hands'[Flip(p)] = hands[Flip(p)] \ {c}

\* Stealing alone lets the larger hand grow beyond it.
LEMMA StealHandCardOnly ==
  ASSUME Inv, NEW p \in Player, NEW c, StealHandCard(p, c)
  PROVE  Bounded \/ (c \in hands[Flip(p)] /\ Stolen(p, c))
<1>1. CASE Cardinality(hands[Flip(p)] \ {c}) > MaxHands
  <2>1. \A r \in Player : hands'[r] \subseteq hands[r]
    BY <1>1 DEF StealHandCard
  <2>. QED BY <2>1, ShrunkBounded
<1>2. CASE ~(Cardinality(hands[Flip(p)] \ {c}) > MaxHands)
  <2>1. /\ c \in hands[Flip(p)]
        /\ hands' = [q \in Player |-> IF q = p THEN hands[q] \union {c} ELSE hands[q] \ {c}]
    BY <1>2 DEF StealHandCard
  <2>. QED BY <2>1, Opponent DEF Stolen
<1>. QED BY <1>1, <1>2

\* A switch whose answer names a card more than once.
Repeated ==
  \E p \in switching : \E removed \in SUBSET hands[p], repeats \in 1..MaxRepeats :
    SwitchHands(p, removed, repeats)

\* The larger hand grows beyond the limit by a stolen card, or by a switch whose
\* answer names a card twice, for all sizes of hands and piles: drawing,
\* creating and swapping cards, dealing the first ones and switching cards that
\* are named once never take it there or further.
THEOREM OverflowsExplained == Spec => OverflowHasCause
<1>1. Init => Inv
  BY InitInv
<1>2. Inv /\ [Next]_vars => Inv'
  BY NextInv
<1>3. ASSUME Inv, [Next]_vars
      PROVE  \/ Bounded \/ Repeated
             \/ \E p \in Player : \E c \in hands[Flip(p)] : Stolen(p, c)
  <2>1. CASE UNCHANGED vars
    BY <1>3, <2>1, SameBounded DEF vars
  <2>2. CASE InitHands \/ SwapPlayerHandCards
    BY <1>3, <2>2, InitHandsBounded, SwapBounded
  <2>3. ASSUME NEW p \in Player, RequestSwitchHands(p) \/ SwitchFails(p) PROVE Bounded
    BY <1>3, <2>3, SameBounded DEF RequestSwitchHands, SwitchFails
  <2>4. ASSUME NEW p \in Player, NEW c, StealHandCard(p, c)
        PROVE  Bounded \/ (c \in hands[Flip(p)] /\ Stolen(p, c))
    BY <1>3, <2>4, StealHandCardOnly
  <2>5. ASSUME NEW p \in Player, NEW removed \in SUBSET hands[p],
               NEW repeats \in 0..MaxRepeats, SwitchHands(p, removed, repeats)
        PROVE  Bounded \/ Repeated
    <3>1. CASE repeats = 0
      BY <1>3, <2>5, <3>1, SwitchBounded, Zenon
    <3>2. CASE repeats # 0
      <4>1. repeats \in 1..MaxRepeats
        BY <3>2, PilesConstants
      <4>2. p \in switching
        BY <2>5 DEF SwitchHands
      <4>. QED BY <2>5, <4>1, <4>2, Zenon DEF Repeated
    <3>. QED BY <3>1, <3>2
  <2>. QED BY <1>3, <2>1, <2>2, <2>3, <2>4, <2>5, OperationBounded, Zenon DEF Next
<1>4. Inv /\ Inv' /\ [Next]_vars =>
        \/ Larger(hands') <= MaxHands \/ Larger(hands') <= Larger(hands)
        \/ \E p \in Player : \E c \in hands[Flip(p)] :
             hands'[p] = hands[p] \union {c} /\ hands'[Flip(p)] = hands[Flip(p)] \ {c}
        \/ Repeated
  BY <1>3, BoundedLarger, Zenon DEF Stolen
<1>. QED BY <1>1, <1>2, <1>4, PTL DEF Spec, OverflowHasCause, Repeated

\* What a switch puts back and draws.
LEMMA SwitchFair ==
  ASSUME Inv, NEW p \in Player, NEW removed, NEW repeats \in Nat,
         removed \subseteq hands[p], SwitchHands(p, removed, repeats)
  PROVE  FairSwitch(p, removed, repeats)
<1>1. PICK n : n = Back(p, removed, repeats)
  OBVIOUS
<1>2. /\ \E drawn : IsSwitch(p, removed, n, drawn)
      /\ failed' => failed \/ repeats > Len(pile[p])
  BY <1>1, SwitchHandsDraws, Zenon
<1>3. PICK drawn : IsSwitch(p, removed, n, drawn)
  BY <1>2
<1>4. PICK C : C = InPile(p) \union removed
  OBVIOUS
<1>5. /\ Cardinality(removed) \in Nat /\ Len(pile[p]) \in Nat
      /\ Cardinality(hands[p]) \in Nat
  BY HandFinite, FS_Subset, FS_CardinalityType, PlacedOf
<1>6. n \in Nat /\ n = Cardinality(removed) + Least(repeats, Len(pile[p]))
      /\ Least(repeats, Len(pile[p])) \in Nat
  BY <1>1, <1>5 DEF Back, Least
<1>7. /\ drawn \cap (hands[p] \ removed) = {}
      /\ hands'[p] = (hands[p] \ removed) \union drawn
      /\ Cardinality(hands'[p]) = Cardinality(hands[p]) - Cardinality(removed) + n
  BY <1>3, <1>6, SwitchCounts
<1>8. Cardinality(hands'[p]) = Cardinality(hands[p]) + Least(repeats, Len(pile[p]))
  BY <1>5, <1>6, <1>7
<1>9. hands'[p] \ (hands[p] \ removed) = drawn
  BY <1>7
<1>10. PICK names : names = {name[c] : c \in removed}
  OBVIOUS
<1>11. /\ Lists(pile'[p], C \ drawn)
       /\ (\E c \in drawn : name[c] \in names) => \A c \in C \ drawn : name[c] \in names
  BY <1>3, <1>4, <1>10, Zenon DEF IsSwitch
<1>12. ToSet(pile'[p]) = C \ drawn
  BY <1>11, ListsBasics, Zenon
<1>13. (\E c \in hands'[p] \ (hands[p] \ removed) : name[c] \in names) =>
         \A c \in ToSet(pile'[p]) : name[c] \in names
  BY <1>9, <1>11, <1>12
<1>. QED BY <1>2, <1>8, <1>10, <1>13, Zenon DEF FairSwitch

\* Who switches cards gets as many back, and one more for each id he repeats
\* while the pile lasts; cards of a name he put back come only when all others
\* in the pile have been drawn: for all piles and answers, and wherever the
\* cards are put into the pile.
THEOREM SwitchingIsFair == Spec => SwitchIsFair
<1>1. Init => Inv
  BY InitInv
<1>2. Inv /\ [Next]_vars => Inv'
  BY NextInv
<1>3. Inv => \A p \in switching \ switching' :
               \A removed \in SUBSET hands[p], repeats \in 0..MaxRepeats :
                  FairSwitch(p, removed, repeats) \/ ~SwitchHands(p, removed, repeats)
  <2>1. ASSUME Inv, NEW p \in switching \ switching', NEW removed \in SUBSET hands[p],
               NEW repeats \in 0..MaxRepeats, SwitchHands(p, removed, repeats)
        PROVE  FairSwitch(p, removed, repeats)
    <3>1. p \in Player /\ repeats \in Nat
      BY <2>1, PilesConstants DEF Inv, Typed
    <3>. QED BY <2>1, <3>1, SwitchFair
  <2>. QED BY <2>1, Zenon
<1>. QED BY <1>1, <1>2, <1>3, PTL DEF Spec, SwitchIsFair

-----------------------------------------------------------------------------
(* Cards put into the pile all around. *)

\* place[k] is where the card k is of n put into a pile of this length, 0 and
\* n + 1 for the ends of the pile: from one to the next there are step cards or
\* one more.
Spaced(place, length, n, step) ==
  /\ place \in [0..n + 1 -> Nat] /\ step \in Nat
  /\ place[0] = 0 /\ place[n + 1] = length + n + 1
  /\ \A k \in 0..n : \/ place[k + 1] = place[k] + 1 + step
                      \/ place[k + 1] = place[k] + 1 + step + 1

\* These are the places that SpaceAround computes.
LEMMA SpaceAroundSpaced ==
  ASSUME NEW length \in Nat, NEW n \in Nat
  PROVE  \E place, step : /\ Spaced(place, length, n, step)
                          /\ SpaceAround(length, n) = [k \in 1..n |-> place[k] - 1]
<1>1. PICK d \in Nat \ {0} : d = n + 1
  OBVIOUS
<1>2. PICK step, rest : step = length \div d /\ rest = length % d
  OBVIOUS
<1>3. step \in Nat /\ rest \in 0..n
  BY <1>1, <1>2
<1>4. length = d * step + rest
  BY <1>1, <1>2
<1>5. PICK of : of = [k \in 0..n + 1 |-> k * step]
  OBVIOUS
<1>6. PICK more : more = [k \in 0..n + 1 |-> Least(k, rest)]
  OBVIOUS
<1>7. \A k \in 0..n + 1 : of[k] = k * step /\ more[k] = Least(k, rest)
  BY <1>5, <1>6
<1>8. \A k \in 0..n + 1 : of[k] \in Nat /\ more[k] \in Nat
  BY <1>3, <1>7 DEF Least
<1>9. ASSUME NEW k \in 0..n
      PROVE  /\ of[k + 1] = of[k] + step
             /\ more[k + 1] = more[k] \/ more[k + 1] = more[k] + 1
  <2>1. PICK m \in 0..n + 1 : m = k + 1
    OBVIOUS
  <2>2. k \in 0..n + 1
    OBVIOUS
  <2>3. of[m] = m * step /\ of[k] = k * step
    BY <2>1, <2>2, <1>7
  <2>4. of[m] = of[k] + step
    BY <2>1, <2>3, <1>3
  <2>5. more[m] = Least(m, rest) /\ more[k] = Least(k, rest)
    BY <2>1, <2>2, <1>7
  <2>6. more[m] = more[k] \/ more[m] = more[k] + 1
    BY <2>1, <2>5, <1>3 DEF Least
  <2>. QED BY <2>1, <2>4, <2>6
<1>10. of[0] = 0 /\ more[0] = 0 /\ of[n + 1] + more[n + 1] = length
  <2>1. of[0] = 0
    BY <1>3, <1>7
  <2>2. more[0] = 0 /\ more[n + 1] = rest
    BY <1>3, <1>7 DEF Least
  <2>3. of[n + 1] = d * step
    BY <1>1, <1>7
  <2>. QED BY <2>1, <2>2, <2>3, <1>4
<1>11. PICK place : place = [k \in 0..n + 1 |-> k + of[k] + more[k]]
  OBVIOUS
<1>12. \A k \in 0..n + 1 : place[k] = k + of[k] + more[k] /\ place[k] \in Nat
  BY <1>8, <1>11
<1>13. place \in [0..n + 1 -> Nat]
  BY <1>11, <1>12
<1>14. place[0] = 0 /\ place[n + 1] = length + n + 1
  <2>1. place[0] = 0 + of[0] + more[0] /\ place[n + 1] = n + 1 + of[n + 1] + more[n + 1]
    BY <1>12
  <2>2. of[n + 1] \in Nat /\ more[n + 1] \in Nat
    BY <1>8
  <2>. QED BY <2>1, <2>2, <1>10
<1>15. ASSUME NEW k \in 0..n
       PROVE  place[k + 1] = place[k] + 1 + step \/ place[k + 1] = place[k] + 1 + step + 1
  <2>1. k \in 0..n + 1 /\ k + 1 \in 0..n + 1
    OBVIOUS
  <2>2. /\ place[k] = k + of[k] + more[k] /\ place[k + 1] = k + 1 + of[k + 1] + more[k + 1]
        /\ of[k] \in Nat /\ more[k] \in Nat
    BY <2>1, <1>8, <1>12
  <2>. QED BY <2>2, <1>3, <1>9
<1>16. SpaceAround(length, n) = [k \in 1..n |-> place[k] - 1]
  <2>1. SpaceAround(length, n) = [k \in 1..n |-> k - 1 + k * step + Least(k, rest)]
    BY <1>1, <1>2 DEF SpaceAround
  <2>2. ASSUME NEW k \in 1..n PROVE k - 1 + k * step + Least(k, rest) = place[k] - 1
    <3>1. k \in 0..n + 1
      OBVIOUS
    <3>2. k - 1 + k * step + Least(k, rest) = k - 1 + of[k] + more[k]
      BY <3>1, <1>7
    <3>3. place[k] = k + of[k] + more[k] /\ of[k] \in Nat /\ more[k] \in Nat
      BY <3>1, <1>8, <1>12
    <3>. QED BY <3>2, <3>3
  <2>. QED BY <2>1, <2>2, Zenon
<1>17. Spaced(place, length, n, step)
  BY <1>3, <1>13, <1>14, <1>15 DEF Spaced
<1>. QED BY <1>16, <1>17

\* The places are in the order of the cards.
LEMMA SpacedBefore ==
  ASSUME NEW place, NEW length \in Nat, NEW n \in Nat, NEW step,
         Spaced(place, length, n, step), NEW k \in 0..n + 1, NEW j \in 0..n + 1, j < k
  PROVE  place[j] < place[k]
<1>1. \A i \in 0..n + 1 : place[i] \in Nat
  BY DEF Spaced
<1>2. \A i \in 0..n : place[i] < place[i + 1]
  BY <1>1 DEF Spaced
<1>3. PICK m \in Nat : m = n + 1
  OBVIOUS
<1>. DEFINE T == {i \in 0..m : j < i => place[j] < place[i]}
<1>4. 0 \in T
  BY <1>3
<1>5. ASSUME NEW i \in 0..m - 1, i \in T PROVE i + 1 \in T
  <2>1. PICK h : h = i + 1
    OBVIOUS
  <2>2. h \in 0..m /\ place[i] < place[h] /\ place[i] \in Nat /\ place[h] \in Nat
        /\ place[j] \in Nat
    BY <1>1, <1>2, <1>3, <2>1
  <2>3. j < h => place[j] < place[h]
    <3>1. CASE j = i
      BY <2>2, <3>1
    <3>2. CASE j < i
      BY <2>2, <3>2, <1>5
    <3>. QED BY <3>1, <3>2, <2>1
  <2>. QED BY <2>1, <2>2, <2>3
<1>6. k \in T
  <2>. HIDE DEF T
  <2>1. \A i \in 0..m : i \in T
    BY <1>4, <1>5, BoundedInduction, Zenon
  <2>. QED BY <2>1, <1>3
<1>. QED BY <1>6

\* Each place is in the pile that the cards before leave.
LEMMA SpacedWithin ==
  ASSUME NEW place, NEW length \in Nat, NEW n \in Nat, NEW step,
         Spaced(place, length, n, step), NEW k \in 0..n + 1
  PROVE  place[k] <= length + k
<1>1. \A i \in 0..n + 1 : place[i] \in Nat
  BY DEF Spaced
<1>2. ASSUME NEW i \in 0..n PROVE place[i] + 1 <= place[i + 1]
  <2>1. place[i] \in Nat /\ place[i + 1] \in Nat /\ step \in Nat
    BY <1>1 DEF Spaced
  <2>2. place[i + 1] = place[i] + 1 + step \/ place[i + 1] = place[i] + 1 + step + 1
    BY DEF Spaced
  <2>. QED BY <2>1, <2>2
<1>3. PICK m \in Nat : m = n + 1
  OBVIOUS
<1>. DEFINE T == {i \in 0..m : place[m - i] <= length + (m - i)}
<1>4. 0 \in T
  BY <1>3 DEF Spaced
<1>5. ASSUME NEW i \in 0..m - 1, i \in T PROVE i + 1 \in T
  <2>1. PICK h \in Nat : h = m - (i + 1)
    OBVIOUS
  <2>2. h + 1 = m - i /\ h \in 0..n /\ h \in 0..n + 1 /\ h + 1 \in 0..n + 1
    BY <1>3, <2>1
  <2>3. place[h + 1] <= length + h + 1
    BY <1>5, <2>2
  <2>4. place[h] <= length + h
    BY <1>1, <1>2, <2>2, <2>3
  <2>. QED BY <2>1, <2>4
<1>6. m - k \in T
  <2>. HIDE DEF T
  <2>1. \A i \in 0..m : i \in T
    BY <1>4, <1>5, BoundedInduction, Zenon
  <2>2. m - k \in 0..m
    BY <1>3
  <2>. QED BY <2>1, <2>2
<1>7. m - (m - k) = k
  BY <1>3
<1>. QED BY <1>6, <1>7

\* The cards are in t at the places.
AtPlaces(t, cards, place) == \A k \in 1..Len(cards) : t[place[k]] = cards[k]

\* Each card is at its place in the end: those that come later are put behind
\* it.
LEMMA SplicedAtPlaces ==
  ASSUME NEW X, NEW s, Lists(s, X), NEW Y, NEW cards, Lists(cards, Y), NEW place, NEW step,
         Spaced(place, Len(s), Len(cards), step), NEW index,
         index = [k \in 1..Len(cards) |-> place[k] - 1]
  PROVE  AtPlaces(Spliced(s, cards, index), cards, place)
<1>1. PICK C : C = X \union Y
  OBVIOUS
<1>2. PICK n : n = Len(cards)
  OBVIOUS
<1>3. /\ s \in Seq(C) /\ cards \in Seq(C) /\ n \in Nat /\ Len(s) \in Nat
      /\ \A k \in 1..n : cards[k] \in C
  BY <1>1, <1>2 DEF Lists
<1>4. Spaced(place, Len(s), n, step)
  BY <1>2
<1>5. \A k \in 1..n : k \in 0..n + 1 /\ 0 \in 0..n + 1 /\ 0 < k
  BY <1>3
<1>6. ASSUME NEW k \in 1..n
      PROVE  place[k] \in Nat /\ place[k] <= Len(s) + k /\ place[k] > 0
  <2>1. place[k] \in Nat /\ place[0] = 0
    BY <1>4, <1>5 DEF Spaced
  <2>2. place[k] <= Len(s) + k /\ place[0] < place[k]
    BY <1>3, <1>4, <1>5, SpacedWithin, SpacedBefore
  <2>. QED BY <2>1, <2>2
<1>7. \A k \in 1..n : index[k] + 1 = place[k] /\ index[k] = place[k] - 1 /\ index[k] \in Nat
  BY <1>2, <1>6
<1>8. index \in [1..Len(cards) -> Nat]
  BY <1>2, <1>7
<1>9. PICK f : Puts(f, s, cards, index) /\ Spliced(s, cards, index) = f[n]
  BY <1>2, <1>3, <1>8, SplicedRecursion, Zenon
<1>10. f[0] = s /\ \A k \in 1..n :
        f[k] = IF index[k] > Len(f[k - 1]) THEN Append(f[k - 1], cards[k])
               ELSE InsertAt(f[k - 1], index[k] + 1, cards[k])
  BY <1>2, <1>9, Zenon DEF Puts
<1>. DEFINE T == {k \in 0..n : /\ f[k] \in Seq(C) /\ Len(f[k]) = Len(s) + k
                               /\ \A j \in 1..k : f[k][place[j]] = cards[j]}
<1>11. 0 \in T
  BY <1>3, <1>10
<1>12. ASSUME NEW k \in 0..n - 1, k \in T PROVE k + 1 \in T
  <2>1. PICK m : m = k + 1
    OBVIOUS
  <2>2. /\ m \in 1..n /\ m \in 0..n /\ m - 1 = k /\ cards[m] \in C
        /\ index[m] + 1 = place[m] /\ index[m] = place[m] - 1
        /\ place[m] \in Nat /\ place[m] <= Len(s) + m /\ place[m] > 0
    BY <1>3, <1>6, <1>7, <2>1
  <2>3. f[k] \in Seq(C) /\ Len(f[k]) = Len(s) + k /\ \A j \in 1..k : f[k][place[j]] = cards[j]
    BY <1>12
  <2>. HIDE DEF T
  <2>4. place[m] \in 1..Len(f[k]) + 1
    BY <2>1, <2>2, <2>3, <1>3
  <2>5. f[m] = InsertAt(f[k], place[m], cards[m])
    <3>1. f[m] = IF index[m] > Len(f[k]) THEN Append(f[k], cards[m])
                 ELSE InsertAt(f[k], index[m] + 1, cards[m])
      BY <1>10, <2>2, Zenon
    <3>2. ~(index[m] > Len(f[k]))
      BY <2>1, <2>2, <2>3, <1>3
    <3>. QED BY <3>1, <3>2, <2>2, Zenon
  <2>6. IsInsertion(f[m], C, f[k], place[m], cards[m])
    BY <2>2, <2>3, <2>4, <2>5, InsertAtElements, Zenon
  <2>7. f[m] \in Seq(C) /\ Len(f[m]) = Len(s) + m /\ f[m][place[m]] = cards[m]
    BY <2>1, <2>3, <2>6, <1>3 DEF IsInsertion
  <2>8. ASSUME NEW j \in 1..k PROVE f[m][place[j]] = cards[j]
    <3>1. j \in 1..n /\ j < m
      BY <2>1, <2>2, <1>3
    <3>2. place[j] < place[m]
      BY <3>1, <2>2, <1>3, <1>4, <1>5, SpacedBefore
    <3>3. place[j] \in 1..place[m] - 1
      BY <3>1, <3>2, <2>2, <1>6
    <3>. QED BY <3>3, <2>3, <2>6 DEF IsInsertion
  <2>9. \A j \in 1..m : j = m \/ j \in 1..k
    BY <2>1
  <2>. QED BY <2>1, <2>2, <2>7, <2>8, <2>9, Zenon DEF T
<1>13. n \in T
  <2>. HIDE DEF T
  <2>1. \A k \in 0..n : k \in T
    BY <1>3, <1>11, <1>12, BoundedInduction, Zenon
  <2>. QED BY <2>1, <1>3
<1>. QED BY <1>2, <1>9, <1>13 DEF AtPlaces

\* What CreatePileCards puts into the pile when it is spread.
LEMMA SpreadPlaces ==
  ASSUME Inv, NEW p \in Player, NEW n \in Names, NEW count \in 1..MaxCount,
         CreatePileCards(p, n, count, <<"spaceAround", 0>>)
  PROVE  \E place, step, m :
           /\ m \in Nat /\ Spaced(place, Len(pile[p]), m, step)
           /\ Len(pile'[p]) = Len(pile[p]) + m
           /\ \A i \in 1..Len(pile'[p]) :
                pile'[p][i] \notin InPile(p) <=> \E k \in 1..m : i = place[k]
<1>1. PICK s, X : s = pile[p] /\ X = InPile(p)
  OBVIOUS
<1>2. PICK h \in Nat : h = Len(name) /\ Card = 1..h
  BY DEF Inv, Typed, Card
<1>3. PICK new : new = [i \in 1..count |-> h + i]
  OBVIOUS
<1>4. Lists(new, h + 1..h + count)
  <2>1. Len(new) = count /\ new \in Seq(h + 1..h + count) /\ \A i \in 1..count : new[i] = h + i
    BY <1>3
  <2>2. ASSUME NEW x \in h + 1..h + count PROVE \E i \in 1..count : new[i] = x
    <3>1. x - h \in 1..count /\ h + (x - h) = x
      OBVIOUS
    <3>. QED BY <2>1, <3>1
  <2>. QED BY <2>1, <2>2 DEF Lists
<1>5. PICK m : IsFitting(p, new, m)
  BY <1>4, FittingLists, Zenon
<1>6. PICK cards, Y : cards = Fitting(p, new) /\ Y = {new[i] : i \in 1..m}
  OBVIOUS
<1>7. m \in 0..count /\ Lists(cards, Y) /\ Len(cards) = m
  <2>1. Len(new) = count
    BY <1>3
  <2>. QED BY <2>1, <1>5, <1>6, Zenon DEF IsFitting
<1>8. m \in Nat /\ Len(s) \in Nat /\ Lists(s, X)
  BY <1>1, <1>7, PlacedOf
<1>9. Y \subseteq h + 1..h + count
  <2>1. \A i \in 1..m : new[i] \in h + 1..h + count
    BY <1>3, <1>7
  <2>. QED BY <2>1, <1>6
<1>10. X \cap Y = {}
  <2>1. Parts(Card, hands[p], hands[Flip(p)], X, InPile(Flip(p)), gone)
    BY <1>1, PlacedOf, Zenon
  <2>2. X \subseteq 1..h
    BY <2>1, <1>2 DEF Parts
  <2>. QED BY <2>2, <1>9
<1>11. InsertPileCards(p, cards, <<"spaceAround", 0>>)
  BY <1>2, <1>3, <1>6, Zenon DEF CreatePileCards
<1>12. PICK index : /\ index \in Indices(<<"spaceAround", 0>>, Len(s), m)
                    /\ pile' = [pile EXCEPT ![p] = Spliced(s, cards, index)]
  BY <1>1, <1>7, <1>11, Zenon DEF InsertPileCards
<1>13. index = SpaceAround(Len(s), m)
  BY <1>12 DEF Indices
<1>14. PICK place, step : /\ Spaced(place, Len(s), m, step)
                          /\ SpaceAround(Len(s), m) = [k \in 1..m |-> place[k] - 1]
  BY <1>8, SpaceAroundSpaced
<1>15. PICK t : t = Spliced(s, cards, index)
  OBVIOUS
<1>16. pile'[p] = t
  BY <1>12, <1>15, PlacedOf
<1>17. ASSUME NEW k \in 1..m
       PROVE  place[k] \in 1..Len(s) + m /\ place[k] \in Nat
  <2>1. place[k] \in Nat /\ place[0] = 0 /\ k \in 0..m + 1 /\ 0 \in 0..m + 1 /\ 0 < k
    BY <1>8, <1>14 DEF Spaced
  <2>2. place[k] <= Len(s) + k /\ place[0] < place[k]
    BY <2>1, <1>8, <1>14, SpacedWithin, SpacedBefore
  <2>. QED BY <2>1, <2>2, <1>8
<1>18. index \in [1..Len(cards) -> Nat]
  <2>1. \A k \in 1..m : place[k] - 1 \in Nat
    BY <1>17
  <2>. QED BY <2>1, <1>7, <1>13, <1>14
<1>19. Lists(t, X \union Y) /\ Len(t) = Len(s) + m
  <2>1. ListsBoth(t, s, X, cards, Y)
    BY <1>7, <1>8, <1>10, <1>15, <1>18, SplicedLists, Zenon
  <2>. QED BY <2>1, <1>7 DEF ListsBoth
<1>20. \A k \in 1..m : t[place[k]] = cards[k]
  <2>1. index = [k \in 1..Len(cards) |-> place[k] - 1] /\ Spaced(place, Len(s), Len(cards), step)
    BY <1>7, <1>13, <1>14, Zenon
  <2>2. AtPlaces(Spliced(s, cards, index), cards, place)
    BY <2>1, <1>7, <1>8, SplicedAtPlaces, Zenon
  <2>. QED BY <2>2, <1>7, <1>15 DEF AtPlaces
<1>21. ASSUME NEW i \in 1..Len(t)
       PROVE  t[i] \notin X <=> \E k \in 1..m : i = place[k]
  <2>1. ASSUME NEW k \in 1..m, i = place[k] PROVE t[i] \notin X
    <3>1. cards[k] \in Y
      BY <1>7 DEF Lists
    <3>. QED BY <2>1, <3>1, <1>10, <1>20
  <2>2. ASSUME t[i] \notin X PROVE \E k \in 1..m : i = place[k]
    <3>1. t[i] \in Y
      BY <2>2, <1>19 DEF Lists
    <3>2. PICK k \in 1..m : cards[k] = t[i]
      BY <3>1, <1>7 DEF Lists
    <3>3. place[k] \in 1..Len(t) /\ t[place[k]] = t[i]
      BY <3>2, <1>17, <1>19, <1>20
    <3>4. i = place[k]
      BY <3>3, <1>19 DEF Lists
    <3>. QED BY <3>4
  <2>. QED BY <2>1, <2>2
<1>. QED BY <1>1, <1>8, <1>14, <1>16, <1>19, <1>21

\* Between two places that are next to each other there are step cards or one
\* more, so no two gaps differ by more than one.
LEMMA SpreadEven ==
  ASSUME Inv, NEW p \in Player, NEW n \in Names, NEW count \in 1..MaxCount,
         CreatePileCards(p, n, count, <<"spaceAround", 0>>)
  PROVE  Even(p)
<1>1. PICK place, step, m :
        /\ m \in Nat /\ Spaced(place, Len(pile[p]), m, step)
        /\ Len(pile'[p]) = Len(pile[p]) + m
        /\ \A i \in 1..Len(pile'[p]) :
             pile'[p][i] \notin InPile(p) <=> \E k \in 1..m : i = place[k]
  BY SpreadPlaces, Zenon
<1>2. PICK at : at = {i \in 1..Len(pile'[p]) : pile'[p][i] \notin ToSet(pile[p])}
  OBVIOUS
<1>3. PICK length \in Nat : length = Len(pile[p])
  BY PlacedOf
<1>4. Len(pile'[p]) + 1 = length + m + 1
  BY <1>1, <1>3
<1>5. Spaced(place, length, m, step)
  BY <1>1, <1>3
<1>6. ASSUME NEW k \in 1..m PROVE place[k] \in at
  <2>1. place[k] \in Nat /\ place[0] = 0 /\ k \in 0..m + 1 /\ 0 \in 0..m + 1 /\ 0 < k
    BY <1>1, <1>5 DEF Spaced
  <2>2. place[k] <= length + k /\ place[0] < place[k]
    BY <2>1, <1>1, <1>5, SpacedWithin, SpacedBefore
  <2>3. place[k] \in 1..Len(pile'[p])
    BY <2>1, <2>2, <1>1, <1>3
  <2>. QED BY <2>3, <1>1, <1>2 DEF InPile
<1>7. ASSUME NEW i \in at \union {0} PROVE \E k \in 0..m : i = place[k]
  <2>1. CASE i = 0
    BY <2>1, <1>1, <1>5 DEF Spaced
  <2>2. CASE i \in at
    <3>1. \E k \in 1..m : i = place[k]
      BY <2>2, <1>1, <1>2 DEF InPile
    <3>. QED BY <3>1, <1>1
  <2>. QED BY <2>1, <2>2
<1>8. ASSUME NEW j \in at \union {Len(pile'[p]) + 1} PROVE \E k \in 1..m + 1 : j = place[k]
  <2>1. CASE j = Len(pile'[p]) + 1
    BY <2>1, <1>1, <1>4, <1>5 DEF Spaced
  <2>2. CASE j \in at
    <3>1. \E k \in 1..m : j = place[k]
      BY <2>2, <1>1, <1>2 DEF InPile
    <3>. QED BY <3>1, <1>1
  <2>. QED BY <2>1, <2>2
<1>9. ASSUME NEW a \in Gaps(pile[p], pile'[p])
      PROVE  a = step \/ a = step + 1
  <2>1. PICK i \in at \union {0}, j \in at \union {Len(pile'[p]) + 1} :
          a = j - i - 1 /\ i < j /\ \A k \in at : k <= i \/ k >= j
    BY <1>2, <1>9 DEF Gaps
  <2>2. PICK k \in 0..m : i = place[k]
    BY <1>7
  <2>3. PICK l \in 1..m + 1 : j = place[l]
    BY <1>8
  <2>4. /\ k \in 0..m + 1 /\ l \in 0..m + 1 /\ k + 1 \in 0..m + 1
        /\ place[k] \in Nat /\ place[l] \in Nat /\ place[k + 1] \in Nat
    <3>1. k \in 0..m + 1 /\ l \in 0..m + 1 /\ k + 1 \in 0..m + 1
      BY <1>1
    <3>2. \A h \in 0..m + 1 : place[h] \in Nat
      BY <1>5 DEF Spaced
    <3>. QED BY <3>1, <3>2, Zenon
  <2>5. k < l
    <3>1. ASSUME l < k PROVE FALSE
      <4>1. place[l] < place[k]
        BY <3>1, <2>4, <1>1, <1>5, SpacedBefore
      <4>. QED BY <4>1, <2>1, <2>2, <2>3, <2>4
    <3>2. l # k
      BY <2>1, <2>2, <2>3, <2>4
    <3>. QED BY <3>1, <3>2, <2>4
  <2>6. l = k + 1
    <3>1. ASSUME k + 1 < l PROVE FALSE
      <4>1. k + 1 \in 1..m
        BY <3>1, <1>1
      <4>2. place[k + 1] <= i \/ place[k + 1] >= j
        BY <4>1, <1>6, <2>1
      <4>3. PICK h \in 0..m + 1 : h = k + 1 /\ k < h /\ h < l
        BY <3>1, <2>4
      <4>4. place[k] < place[h] /\ place[h] < place[l]
        BY <4>3, <2>4, <1>1, <1>5, SpacedBefore
      <4>. QED BY <4>2, <4>3, <4>4, <2>2, <2>3, <2>4
    <3>. QED BY <3>1, <2>4, <2>5, <1>1
  <2>7. place[k + 1] = place[k] + 1 + step \/ place[k + 1] = place[k] + 1 + step + 1
    BY <1>5 DEF Spaced
  <2>8. step \in Nat
    BY <1>5 DEF Spaced
  <2>9. PICK u \in Nat, v \in Nat : u = place[k] /\ v = place[k + 1]
    BY <2>4, Zenon
  <2>10. a = v - u - 1
    BY <2>1, <2>2, <2>3, <2>6, <2>9, Zenon
  <2>11. v = u + 1 + step \/ v = u + 1 + step + 1
    BY <2>7, <2>9, Zenon
  <2>. QED BY <2>8, <2>10, <2>11
<1>10. step \in Nat
  BY <1>5 DEF Spaced
<1>. QED BY <1>9, <1>10 DEF Even

\* Cards put into a pile all around are as far apart as they can be: for all
\* sizes of piles and numbers of cards.
THEOREM SpreadingIsEven == Spec => SpreadEvenly
<1>1. Init => Inv
  BY InitInv
<1>2. Inv /\ [Next]_vars => Inv'
  BY NextInv
<1>3. Inv => (name' # name => \A p \in Player, n \in Names, count \in 1..MaxCount :
               Even(p) \/ ~CreatePileCards(p, n, count, <<"spaceAround", 0>>))
  BY SpreadEven, Zenon
<1>. QED BY <1>1, <1>2, <1>3, PTL DEF Spec, SpreadEvenly
=============================================================================
