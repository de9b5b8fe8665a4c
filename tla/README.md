# Verification of the PPOAI / gi-tcg engine

The repository is a simulator of a two-player card game (`packages/core`), the
cards written for it (`packages/data`), a match server (`packages/server`),
bindings for C, Python and C# and several web clients.  This directory holds
TLA+ models of the parts that decide how a match runs, how skills are settled and
cards move, what actions cost, how a host steps through a match, and how the
server keeps its rooms and asks its players; the TLC configurations that check
them; and proofs about them.

Run inside this directory:

    tlc -workers 2 -config GameFlow_prompt.cfg GameFlow    # one run
    tlapm GameFlowProofs.tla                               # the proofs

## 1. Inventory

| component | state | operations | interacts with |
|---|---|---|---|
| Game loop, `core/src/game.ts` `Game` | phase, currentTurn, roundNumber, winner, `_terminated`, `finishResolvers` | `start`, the five phase handlers, `rpc*`, `gotWinner`, `giveUp`, `terminate` | awaits the players' `io.rpc` and the host's `onPause`; calls the skill executor |
| State mutator, `core/src/mutator.ts` | the immutable `GameState`, two queues of mutations not yet notified | `mutate`, `notify`, `notifyAndPause`, damage, heal, auras, cards, `reroll`, `switchHands`, `selectCard`, `chooseActive` | calls back into `Game` (`onPause`, `howTo...`) |
| Skill executor, `core/src/skill_executor.ts` | none of its own | `executeSkill`, `finalizeSkill`, `handleEvent` | recursive; writes through the mutator |
| Costs and dice, `core/src/utils.ts`, `core/src/base/skill.ts`, `utils/src/dice.ts` | attachments of hand cards, the cost of the action at hand, the dice | `applyAttachmentModifications`, the `modifyAction` events, `chooseDice`, `checkDice` | called by `Game.actionPhase` and the cards |
| State, mutations, reactions, skill context, query, preview (`core/src`) | pure data and functions | `applyMutation`, `getReaction`, the builder language | used by the cards |
| Server rooms, `server/src/rooms/rooms.service.ts` `RoomsService`, `Room` | `roomIdPool`, `rooms`, `shutdownResolvers`; per room host, participant, game, `terminated`, stop handlers, an idle timer | create, join, delete, stop, keep, remove, shut down | redis, the database, `Game` |
| Server player, same file, `Player` | the open rpc, its clock, the guest's count of timeouts | `rpc`, `receiveResponse`, `timeoutRpc` | answers `Game.rpc` |
| C binding `cbinding/js/main.ts` | status, two resolvers, the pending pause | `step`, `giveUp`, `#onPause` | a synchronous host of `Game` |
| card data, accounts, clients, tools, learning pipeline | - | - | see PROJECT.json for why they are left out |

What is hard here:

- *suspension*: the loop of `start()` is suspended in an rpc or in `onPause`,
  and `giveUp`, `terminate`, a failed answer or the other player's answer run in
  between; `Promise.all` leaves a second continuation alive when the first one
  fails; two calls of `gotWinner` are not awaited at all;
- *ends*: a defeat, the round limit, a giveUp, a bad answer and an error all end
  the match, and one of them must win;
- *handlers with awaits*: the server checks, awaits the database or redis, and
  then acts on what it checked;
- *clocks*: the timer of a request races the answer, answers come late or twice,
  and what is left of a round's time is read at one moment and written at another;
- *nesting*: settling a skill broadcasts events, each of which settles skills of its
  own; when the outer call goes on, characters have fallen, been saved or replaced;
- *costs*: a cost is a map that up to five events rewrite in turn, and the code
  that checks a payment relies on what the map may hold;
- *timers*: the idle timer and the time a finished room is kept outlive the
  room they were set for, and ids are reused.

What makes the components correct: the promise of `start()` tells the winner of
an ended match, the end is final, phases come in order, nobody is asked out of
turn, a granted turn is not lost, the loop ends; ids of rooms are neither lost
nor shared, a live room stays in the map, a stopped room starts no match, a
finished match is stored once, the process exits only without matches and does
exit; a request is settled once, by its own answer or by the clock, and time is
neither lost nor won; a payment covers every unit of the cost, and an action that
can be paid is offered; the game ends exactly when a player has nobody left, and
active characters are alive at rest; a card is in one place; a step of a host
returns, and a host that goes on stepping sees the end.

## 2. Modules

| module | what it is |
|---|---|
| `GameFlow` | `Game` with the suspensions of the mutator and the executor |
| `MatchSpec` | abstract: what a match promises to its host |
| `GameFlowProofs` | theorems about `GameFlow`: result, end, phases, refinement; turns, rounds, requests |
| `StepHost` | the C binding as a host: `GameFlow` composed with `step()` and `giveUp()` |
| `StepHostProofs` | theorems about `StepHost`: `step()` returns; the match that the program sees |
| `Settlement` | `finalizeSkill()` with damage, wards, defeat and replacement |
| `SettlementProofs` | theorems about `Settlement` |
| `Filtering` | the elements of a sequence that are in a set, in their order |
| `Piles` | hands and piles: drawing, creating, stealing, switching, putting back |
| `MCPiles` | `Piles` with the symmetry of its names |
| `PilesProofs` | theorems about `Piles` |
| `ActionCost` | attachments, modifiers, the choice and the check of dice, payment |
| `MCActionCost` | printed costs of the shapes used by `packages/data` |
| `ActionCostProofs` | theorems about `ActionCost` |
| `DataLemmas` | induction, recursion, sequences and finite sets, for the proofs about cards and dice |
| `PlayerRpc` | `Player` of the match server: one request at a time and its clock |
| `PlayerRpcProofs` | theorems about `PlayerRpc` |
| `Rooms` | `RoomsService` and `Room` |
| `RoomsProofs` | theorems about `Rooms` |
| `MCRooms` | instances of `Rooms` for TLC |

### GameFlow

`pc` names the segment of the asynchronous loop that runs next; the code between
two suspensions is one action.  `waiting` holds the players whose rpc the loop
awaits, `held` the `onPause` it awaits, and `At(l)` says the loop is at `l` and
awaits nothing.  The state passed to `onPause` is recorded in `held` (is it an
end, who won) because `mutatorPauseHandler` looks at that state afterwards.
`verdicts` are the calls of `gotWinner` suspended in their own `onPause`.

`settle`/`damage` stand for `handleEvent`/`finalizeSkill`: any number of skills up
to a bound, each with its pauses, with or without a defeat, a grant of another
turn, a request to a player, a replacement of fallen characters or an error;
`ret` is where the loop goes on.  Which cards cause which of these is data.  One thing
about the data is assumed: `continueNextTurn()` (builder/context/skill.ts:1730) can skip either player at any
time, if only he has not declared the end; `RunSkill` skips the one whose turn it is
not, from the action phase on.  The four places in `packages/data` that call it (heizou, mavuika,
`FreshWindOfFreedom` and its old version) do so for a player in his own turn, in effects that
his skills or the falls in his turn set off.  A card that granted the opponent a turn in
`onBeforeAction` would break `TurnDiscipline`, as the check of the flag comes before that event.

Inputs are tasks of their own: a JavaScript engine never starts one while the
loop is runnable, hence `InputReady`.  `PromptPause` distinguishes hosts: the
match server's `onPause` (rooms.service.ts:501) returns without waiting for an
input, so no input is ever seen while a pause is open; the C binding and the
stand-alone client keep a pause open and may call `giveUp` meanwhile.

`Mutated` is the check of `Game.mutate`; where the code writes through the
mutator (defeats, drawn cards, rerolls, grants) there is none.

`canCharged`, `canPlunging`, `legendUsed` and `hasDefeated` steer no suspension and
are left out; dice and hands are kept as stages (none, rolled, rerolled / none,
drawn, changed) so that a change after the end can be seen.  The draws of both
players in `initHands` and `endPhase`, whose events settle one after the other,
are one segment.  `errorLevel: "skipPhase"`, a test setting, and a second call of
`start()`, which throws, are left out.

### StepHost

`StepHost` EXTENDS `GameFlow`: its actions are those of `GameFlow` joined with what
`cbinding/js/main.ts` does in the same step.  `status` and `stepping` are `#status` and
"somebody awaits `#stepResolvers`".  The binding keeps one `#stepDoneResolvers`
for all pauses: `newest` is the pause that awaits the present one, `released` the pause
whose resolver has been resolved and that has not gone on.  A pause that opens while
another is open takes `newest` over, and the older one never returns.  This
happens after `giveUp` at a pause, and at the round limit, where the verdict is not
awaited.  `OnPause` reads off the step which pause it has opened.

The engine runs all microtasks before a call of the program returns, so the program
acts only when `Idle` holds.  Requests are answered inside the callback, without an
`Idle`.  `CallbackGiveUp` allows `giveUp()` inside such a callback.  `Report` is the then and
the catch of `start()`.  The state readers, the card constants and the glue to V8 are
left out.

### Settlement

`stack` holds the calls of `finalizeSkill()`, the outermost first; `at` is where a call
is: in the loop over its damage, handling the `modifyZeroHealth` of those to be saved,
broadcasting its events, waiting for the players to choose, or broadcasting the
switches.  `Strike` and `Mend` execute a skill and append a call; they are enabled at the
bottom and wherever the innermost call broadcasts events.  `deadly`, `saved`, `critical`,
`asked` and `chosen` are the local variables of the call.  An error drops all calls
(`thrown`).

What skills do is data: any skill hits any set of living characters, or mends one; one
that hits a single character, or none, may also make a living character the active
one (`SwitchesWith`), as the reaction Overloaded and many cards do, be it the one that
has just been hit.
Wards are data as well; the two kinds in the model are `ElectroCrystalCore`, which is used up,
and `OdeOfResurrection`, which costs dice that wards share.  `CheckImmune` is asked
for all fallen characters first, `Immune` acts for one after the other and looks
at the state anew.  Energy, auras, shields, element and piercing are left out, as no
path of `finalizeSkill()` branches on them.  The hits of a skill are a set because
`preprocessEventList()` (builder/context/skill.ts:245) makes one event of all the damage that a skill does
to one character, so that it is asked for its ward once.

### Piles

Cards are numbers in order of creation, `name` gives their definition; a hand is a set,
a pile a sequence.  One action per operation of the mutator and the skill context:
`drawCardsPlain`, `drawCards` with a condition, `createHandCard`, `disposeCard`,
`stealHandCard`, `swapPlayerHandCards`, `createPileCards`, `undrawCards`, `initHands`, `switchHands`.
`requestPlayCard` creates a card and has it played before anything else runs, so it is
gone in the same action.  The strategies of insertion are kept with what the code does:
all indices are computed from the length of the pile before the first card is in, also
for `random`.  `SwitchHands` is the loop of `switchHands()` after its await; the cards put back
may be anywhere.  An answer is a set of cards of the hand, `removed`, with a number of
`repeats`: nothing on its way (io.ts:159-167, game.ts:1093-1106, mutator.ts:1230-1253) looks whether
its ids are distinct.  An answer with an id that is not in the hand, or none at all, is
`SwitchFails`; after an error, `failed`, no operation starts any more, but the other
player's switch may still go on.

Skills that move cards run one at a time, so `Ready` is all they wait for; `initHands`
asks both players at once, and their answers come in any order.

### ActionCost

A `DiceRequirement` is a JavaScript `Map`, whose order of insertion `chooseDice` goes
by: a sequence of entries.  The state is a hand card with its attachments, the
dice, and the action that is offered, with its cost on its way through
`modifyAction0` to `modifyAction3`.  Which card modifies what is data: any modifier
that the filters of the code admit may apply, up to `MaxModifiers` for an action.
The cost is normalized after each modifier because the getter `cost`, which all
filters go through, normalizes the map in place.  `Pays` is the reference: dice
pay a cost when they can be dealt out to its units one by one.

The code sorts dice by the elements of the characters; `Sorted` leaves that order
open.  Left out: the energy an action costs (kept in the map, as `chooseDice` skips
it, but not spent), modifiers on kinds of actions that no card puts them on (the
code checks no kind), `allowTuningAnyDice` (a test setting), cards that cannot be
tuned, and costs that put `Void` before a colour: no card does, and the greedy
choice would fail on them.

### PlayerRpc

`resolver` is `_rpcResolver`; its field `free` is what the request was given besides
the time of the round.  Seconds are ticks of `setInterval`.  `Notify` stands for one
mutation, half a second.  The continuation of a settled request runs before any
other task, so clearing the resolver is part of `Resolve` and `Tick`.  The browser
posts any answer to a request it has been shown, at any time and as often as it
likes.  `granted`, `overspent`, `timeouts` and `outcomes` are history: what the
round's time was, what was used beyond the free time (each request is given back
one second), and how requests ended.  The infinite time of a room without a clock
is left out.

### Rooms

One action per stretch between two awaits; `req[q]` is a handler in flight and
what it carries.  `room[q]` is the `Room` that request q made; the service knows it
only by `rooms[id]`.  A removal acts on `rooms[id]` whatever room is there, as the
code does.  `Redis` decides whether the awaits on redis exist.  Kinds are the
private/allowGuest settings.  `Fails` stands for every failure of an await of a request.
The stop handler of a room is awaited by nobody: `RemoveFails` is redis rejecting in it, after
which the room stays in the map and nobody tries again.  `failed`, `stops` and `shared` of a room are
history: a failed removal, the calls of `stop()`, and whether the id was taken by
another room before this one took it.

Two things confuse ids and rooms in the code, a second stop of a room and an id that
two requests have read (section 4).  `Orderly` says that neither has happened, and the properties
of ids are stated up to there: `Orderly => ...`, with redis, its failures, deletions and
failing decks switched on.

## 3. Runs

| run | bounds | what it shows |
|---|---|---|
| match_prompt | limit 2 (one round), 2 rerolls, 1 action, 2 effects | a prompt host: the result, the end, requests, granted turns, refinement of `MatchSpec`, the loop ends |
| match_slow | limit 3 (two rounds), 1 reroll, 1 action, 1 effect | a slow host with any input at any pause: phases, turns, rounds |
| step_host | limit 3 (two rounds), 1 reroll, 1 action, 1 effect | the C binding: `step()` returns, the end is seen, refinement of `MatchSpec` |
| settlement | 2 characters each, health 2, 1 die, 1 Ode each, 2 wards, 3 skills | ends, errors, active characters and saved characters in nested calls |
| settle_odes | the same, 2 Odes of a player | violation: a heal that throws |
| piles | 2 names, decks of 1, hands of 2, piles of 3, 4 cards, 2 at a time, 2 repeats | cards are conserved, hands overflow by stolen cards and repeated ids only, switching and spreading |
| cost_one_way | 2 colours, 3 dice, 2 layers, 2 modifiers; a card carries increases or reductions, not both | costs stay well formed, checks and choices of dice are exact |
| cost_both_ways | the same, with both | violation: an increase that makes a card cheaper |
| player_rpc | 4 requests, 1 mutation, 1 round, times of 1 or 2 s | answers, timeouts, round time, reconnection; every request ends |
| rooms_ids | 3 requests, 2 ids, 1 user, 1 guest, rooms stopped twice are not deleted again | ids, map and shutdown with everything switched on, while `Orderly` |
| rooms_full | 3 requests, 1 id, 2 users, stopped rooms are not deleted again | single rooms with everything switched on; rooms are removed, a shutdown ends |
| rooms_two_rooms | 3 requests | violation: a user in two rooms |

Why the bounds are enough.  The code ends the match when the number of the round has
reached the limit, so a limit of 2 plays one round and 3 plays two.  A second round with
a first one behind it is needed for flags that survive a round: match_slow and step_host
play it, and
`GameFlowProofs` proves the discipline of turns and rounds for every limit.  One
action beside declareEnd lets a player act, lets him declare the end and the other
act on.  Two effects in one event are a skill followed by critical
damage, a request or a second skill.  Two rerolls give a continuation that asks
again after the other player's has failed.  In the code actions are bounded by dice
and hand cards and effects by the cards; the bounds stand for that and the
liveness properties rest on it.

Three skills are one that fells, one nested in its events and one nested in that, or
three in a row; two characters let a player lose one and then the other; with health 2 a
strike wounds or fells; two wards are enough for what saves one character to be missing
for another, and their places are all tried.  Two cards drawn or created at once are enough for one of
them to overflow, two for the second insertion to count the first; a pile of three
can be full while a card is in hand, and lets one card be put between two or two beside one
(with more to spread, `SpreadEvenly` rests on its proof); two names tell apart what may and what may
not be drawn in return; two repeats overfill a hand of two or empty a pile.

Three requests and one or two ids let an id be reused while a
timer of its former room is pending.  With `Redis` TRUE an await on redis may be over at
once, so the behaviour of a server without redis is among those checked; what it
has alone, the removal in `stop()` itself, is proved.  Two colours, omni dice and hands of up to
three dice tell apart every case of the choice and the check of dice; two layers let an
attachment be raised, two modifiers let one find what the other has left in the
map.  Four requests let a guest miss two, answer one and miss another, or miss
three and one more be withheld from him.

`CHECK_DEADLOCK FALSE` is set in the runs of `Rooms` because a server whose requests
are used up, or that has exited, stops; for `StepHost` because the program stops
calling when its match is over; for `Settlement` and `Piles` because skills and cards
are bounded and a match that has ended settles no more; for `ActionCost` because an
answer that is not legal ends the match; and for `PlayerRpc` because the game may
stop asking.  A match of `GameFlow` does not stop: `giveUp` and `terminate` can always be
called after it.

Fairness.  `WF(Loop)`: microtasks of the engine.  `WF(ResumeLoop)`,
`WF(ResumeVerdict)`: the host's `onPause` returns.  `WF(Answer(p))`: the io of a player
answers or fails; the server's clock does it for him.  Nothing is assumed of
`giveUp` or `terminate`.  In `StepHost` no `onPause` is assumed to return: `WF(Microtask)` is the
engine, and `WF(CallStep)` a program that goes on calling `step()`; that pauses return is
what the binding makes of it.  `WF(Tick)` of `PlayerRpc`: `setInterval` fires; it is this alone
that `WF(Answer(p))` rests on, nothing being assumed of browsers.  In `Rooms`: timers fire, redis and the database answer or
fail, and matches end, which `GameFlow` shows.

Symmetry is used for requests and users of `Rooms` and for names of `Piles`, in runs that
check no liveness.

## 4. Findings

Three runs end in a counterexample; PROJECT.json quotes the lines.

1. "already in a room" is checked before the awaits only, and `joinRoom` looks only at
   listed rooms (rooms_two_rooms).
2. A `CostIncrease` attached after a `CostReduction` can make a card cheaper: the
   reduction leaves `Aligned` with 0 in the map, the increase raises that entry,
   and a requirement with `Aligned` is paid without looking at its other entries
   (cost_both_ways).  `FrostmoonEnclave` of one player and a `CostIncrease` by the other
   bring both to one card.  In cost_one_way, where cards carry one of the two, every
   property of costs holds, and is proved.  With both, only `PaidExactly` is left: what is
   paid is still what `checkDice` has taken the cost for.
3. `checkImmune()` is asked for all fallen characters before any ward acts.  Two characters
   whose wards are paid from the same dice are both found immune; the second is left
   alive with no health, and the next heal of it is an internal error (settle_odes).
   With at most one such ward a player, `AliveHasHealth` and `HealAccepted` hold, and are
   proved.

Observations made while modelling, which need other settings than the runs have:

- `stealHandCard()` compares the hand the card came from with the limit, so the hand it
  goes to may keep one card too many (`HandsWithinLimit` of `Piles`); the steal of
  `CanopyHunterRidingHigh` (data/src/characters/dendro/kinich.ts:133) checks no limit
  of its own.
- `terminate()` does not freeze the state: an answer to an outstanding rpc, and skills being
  settled, write through the mutator (`FrozenAfterTerminate` of `GameFlow`).
- With a slow `onPause` (`PromptPause` FALSE) and a program that answers between the
  pauses, the promise of `start()` may name a player other than `state.winner`: two causes
  of the end while the first is paused (`ResultIsWinner`).
- `giveUp()` called inside a callback of the C binding (`CallbackGiveUp` TRUE) opens a
  verdict while the loop awaits the answer; the loop then goes on and writes the phase
  over it: a match may go on with a winner set (`WinnerOnlyAtEnd`), and if the answer is
  a bad one, a `step()` never returns (`StepReturns`).
  `gitcg.h:265` does not exclude the call.
- The idle timer of a room that was deleted, or whose match failed to start, stops it again,
  and the second run of its stop handler removes the room that has its id by then and
  returns the id twice (`OnlyStoppedRemoved` of `Rooms`, with `HostDeletes` and two ids).  With redis two
  creations can share an id, the await of `createRoom` lying between the reading of the
  id and its removal from the pool.  These are what `Orderly` excludes; rooms_ids and the
  theorems of `RoomsProofs` show that nothing else confuses ids and rooms, and `QuietIsOrderly` that
  neither happens on a server without redis, deletions and failing decks.
- Redis may reject in the stop handler (rooms.service.ts:743 and :756), an async callback nobody
  awaits.  The room is then in the map for ever, its id is not returned, and a shutdown
  waits for it for ever: the exceptions in `RoomsRemoved` and `ShutdownEnds`.
- The answer to `switchHands` may name a card twice.  The card is moved once and counted
  twice: `[c, c]` puts one card away and draws two, beyond the limit of the hand if need be,
  and when the pile has no card left, `switchHands()` fails on an undefined card
  (mutator.ts:1272).  `SwitchIsFair` says how far this goes and `OverflowHasCause` that it and
  a steal are all that overfills a hand.
- `OdeOfResurrection` says it heals to 2 (its description); its definition saves with `.immune(1)`.
- The strategy `random` computes the index of each card from the length of the pile before
  the first one is in it, so later cards never go to the very end.

## 5. Proofs

All of them are from the named assumptions on the constants of their modules; what
else a theorem assumes is an `ASSUME` of its statement.

`GameFlowProofs`, for every round limit and every bound:

- `TypeCorrect`: `Spec => []TypeOK`.
- `FlowInvariant`: with a prompt host, `Spec => []FlowInv`.  `ResultIsWinner` is not
  inductive: when the game ends, the promise is settled only after a pause.
  `EndUnderWay` says where the settlement is then: the loop's own pause is open and
  shows the end, or a verdict is pending while the loop is where it cannot touch
  the phase, or the game is terminated.  The other conjuncts say that every
  pending verdict and every open pause that shows an end carries the winner of the
  state.
- `ResultCorrect`, `EndCorrect`: what follows from it for the result and the end.
- `HomeInvariant`: for prompt and slow hosts, every segment runs in the phase of
  its handler or in an ended game.
- `Refinement`: a prompt game implements `MatchSpec`; one lemma per group of actions
  says which abstract step each takes, or that it stutters.

And for prompt and slow hosts alike:

- `AsksCorrect`: who is asked for an action is the one the loop awaits, in his turn
  (`ActionAsk`), and a request the loop does not await outlives only a finished loop
  (`Awaited`).  `TurnDiscipline` speaks of requests and does not say where the loop is, so it needs
  both.
- `RoundsCorrect`: `RoundInv`.  The flags of a player are set in one segment and relied on
  several pauses later; `InTurn`, `AllEnded`, `AllIn` and `SkipInRound` say what holds
  from there to there, in terms of the place of the loop and not of the phase, which
  `giveUp` may change in between.
- `TurnCorrect`, `RoundCorrect`, `AskedOnceCorrect`, `SkipCorrect`: the properties that match_slow
  and match_prompt check.

`StepHostProofs`, for every round limit and every bound:

- `HostRunsGame`: `HostSpec => Spec`, so that every theorem of `GameFlow` that does not need a
  prompt host holds of the match in the binding.
- `HostCorrect`, `StepCorrect`: a `step()` returns, if `giveUp()` is not called inside a
  callback.  Of two open pauses one is abandoned; the argument is that it never is
  the one that matters.  While a verdict is open the loop is on its way out or in a
  pause whose successor is the verdict (`VerdictHolds`), so the newest pause is the one
  whose release ends the match; whenever the match cannot go on by itself some pause
  can be released (`CanStep`), and while `step()` waits something is left to run (`StepRuns`).

- `SeenInvariant`, `HostRefinement`, under the same assumption: the match that the program reads off the binding implements
  `MatchSpec`.  The argument for `Refinement` does not carry over, as it needs a prompt host:
  here the end may come while the loop pauses in the midst of a skill, and a defeat in the
  rest of that skill would give the ended match another winner.  `DamageStops` says that such a
  pause is never released (the verdict is the newer one); `EndShown` that an ended match
  is on its way to the program.

`SettlementProofs`, for any number of characters, skills and wards:

- `CallsNest`: only the innermost call is anywhere but in the middle of its events, and
  an error leaves all of them.  All other arguments are about the innermost call, and
  `Nesting` is what lets them.
- `EndIsTheFall`, `ErrorsComeLate`: the game ends exactly when a player has nobody left, and
  only skills settled after the end can fail to choose.
- `SwitchIsDue`: where an active character has fallen, some call on the stack still owes
  the choice of another; it may be one far out.  `Choosing` is its local part: while
  choices are pending, whoever has lost his active character is asked or has chosen.
- `ActivesLive`: at rest no call is left, so nothing is owed.
- `WardsHold`, `SavedLive`, `HealsAccepted`: with at most one ward a player that is paid in dice,
  a character without health is in the innermost call, which is about to save it, and
  its ward will still act then (`ZeroInv`).  settle_odes shows why the assumption is
  needed.

`PlayerRpcProofs`, for every configuration of the room's times and any number
of requests, mutations and rounds:

- `TypeCorrect`, with the limits of the timer (-1 to what the request was given) and
  the numbering of requests.
- `RoundTimeCorrect`: `RoundTimeIsAccounted` is inductive together with the types.  An
  answer keeps the sum of `roundTimeout` and `overspent`, a timeout raises it by one or
  two seconds.
- `AnswersFitCorrect`, `GivenUpCorrect`: from the invariant `IInv`.  `GivenUpAfterThree`
  speaks of the last three requests and is not inductive; `Trail` says that the
  code's counter is the length of the row of timeouts that the history ends with,
  that a guest is given up exactly when it has reached three, and that no request
  is open for him then.
- `ConnectedIsShownCorrect`.

All of them use one lemma on how a request is settled (`SettledParts`): `Resolve` and the
last `Tick` are one step there, told apart by `late`.

`RoomsProofs`, for any number of rooms, ids, users and guests:

- `RoomInvariant`, `SavedCorrect`, `RunningCorrect`, `StartCorrect`: what a single room is promised
  holds with redis, deletions and failing decks.  Every step writes one room at most,
  and a sound one (`RoomWritten`), so that the invariant of rooms is shown once and not
  for each handler.
- `IdInvariant`, `IdsCorrect`, `LiveCorrect`, `ExitCorrect`: with redis, its failures, deletions and failing
  decks, ids and rooms stay `Matched` while the server is `Orderly`.  The argument is that a
  room which is not stopped is under its id and its stop handler runs at most once, so what a
  removal finds under an id is the room it was set for.  What is out of order remains so
  (`OrderlyBefore`), so a step into an orderly state comes from one.
- `QuietIsOrderly`: a server without redis, deletions and failing decks is always orderly.  A room is
  stopped before its match by its timer alone, which is then used up.

`DataLemmas` makes induction over data possible.  The induction theorems of the library
take an operator as a parameter, which the provers cannot instantiate; that `<` is
well-founded on `Nat` is a fact about a set, and `SetInduction` follows from it for a
set of numbers in the place of a predicate.  `Recursion` gives the equations of a
recursive function over an interval by the same argument.  The models therefore write
their loops as recursive functions (`Kept` of `Filtering`, `covered`, `costAfter`, `taken`,
`without`, the insertions of `Piles`), and a proof about one is an induction
over the set of the numbers of turns after which a claim holds.

`PilesProofs`, for any decks, names, and sizes of hands and piles:

- `NoCardLost`: from the invariant `Inv`.  `CardsConserved` counts the places of every card, which
  says little about an operation on many cards: `Placed` says that the two hands, the two
  piles and the cards that are gone part the cards that exist, and that a pile lists
  each of its cards once.  Every operation then moves a set of cards from one part to
  another.  `Undealt` adds that hands are empty until the first cards are dealt.
- `OverflowsExplained`: but for a steal and an answer with repeated ids, every operation leaves
  the larger hand no larger, or within its limit.
- `SwitchingIsFair`: a card of a name that was put back is drawn only when no other is left,
  and the cards run out only by repeated ids, as those that were put back can be drawn again.
- `SpreadingIsEven`: that the insertions of `spaceAround`, each of which counts the cards put in
  before it, leave gaps that are even up to one card (`SpacedBefore`, `SpacedWithin`).

`ActionCostProofs`, for any number of dice, colours, layers and modifiers, and any costs as
in `PrintedCosts`:

- `CostInvariant`: `Spec => []CostInv`.  The cost in force is one in which each type
  is asked for once, aligned dice stand alone, and no zero is left but in the cost
  of nothing.  `CostsAreNormal`, `ModifiersDoAsTheySay` and `AttachmentsDoAsTheySay` follow from it and from
  what `appendCost` and `deductCost` do to such a cost.
- `ChecksArePayments`: `checkDice` counts, `Pays` asks for dice dealt out to units.  For one
  direction, the dice of a colour are dealt to its units, the omni dice to the units that
  lack one and the rest to the units of any type; for the other, the units that lack a
  die of their colour are dealt omni dice, so there are no more of them.
- `ChoicesAreComplete`: the greedy choice is right because the colours come first in every cost
  in force (`OrderInvariant`); a colour that comes after `Void` might find its dice taken.
  `Served` says what the dice taken for the entries so far are, and `AllServed` that no
  entry fails when the player holds `Enough`; who can pay does (`PayableIsEnough`), and
  what is taken then pays (`ChosenPays`).  Aligned dice are an argument of their own, on
  the last colour that suffices (`ChosenAligned`).
- `PaymentsAreExact`: from the weaker invariant `HandInv`, and so for cards with both kinds of
  attachments as well.

- `TypeCorrect`: from `MapInv`, for cards with both kinds of attachments as well: the cost
  in force may then mislead `checkDice`, but it stays a map that names a type once.

All but the last two assume `~BothWays`: with both attachments on a card they are
false, by finding 2.  A reduction leaves `Aligned` with 0 in a cost of other types, and
an increase raises it there.  `PrintedCosts` is what the cards have: the builders keep a type once,
`costSame` stands alone or with `costEnergy`, no card of `packages/data` names a colour after
`costVoid`, and switching and tuning cost `VOID_1_DICE_REQUIREMENT` (game.ts:212).

Model-checked only: liveness under fairness (`Settles`, `LoopEnds`, `MatchEnds`, `RoomsRemoved`,
`ShutdownEnds`), which is beyond the prover.  Every invariant, action property and refinement that a
passing run checks is also a theorem.

## 6. Plan

Done, in this order: `GameFlow`, `MatchSpec` and their proofs; `Rooms`; `PlayerRpc` and its
proofs; `ActionCost`; `StepHost` as a host composed with `GameFlow`; `Settlement` for the detail of
`finalizeSkill()`; `Piles`; the proofs about turns, the host, settlement, rooms, piles and costs.

Left:

1. `Settlement` with entities that leave the stage (`dispose()`) while their events are
   settled.
2. The composition of `Rooms` with `PlayerRpc`: a guest given up while his room is deleted.
3. `PlayerRpc` as an implementation of an abstract request (asked once, settled once).

Not modelled, and why:

- *Card data* (`packages/data`, more than four lines of ten): definitions in the builder language.
  They are the data of the engine; the models let a skill do anything of the kinds they have, in
  place of the cards.  Checking a card against its text needs the text, not a model.
- *Clients* (`web-client`, `web-ui-core`, `standalone`): user interfaces.
  What they ask of the engine and the server is an input of `GameFlow`, `PlayerRpc`
  and `Rooms`.
- *Reactions, query language, preview, expose, state mutations*: pure functions of their
  input without suspension or state, which tests over their small inputs reach.
- *Accounts, decks and games of the server*: single requests to the database, with no state
  of their own.
- *Python and C# bindings*: wrappers around the C binding that call its functions one to one.
- *Learning pipeline*: numerical code and experiments.
- *Generated code, build and editor tools.*

For this reason the models cover a small share of the repository's lines: what a protocol,
a loop or a clock decides is in a few files of `packages/core/src`, `packages/server/src` and
`packages/cbinding/js`, and those are modelled.
