# StreetsEmpire: TLA+ specifications

StreetsEmpire is an online strategy game: a Fastify server (`apps/server`) over
PostgreSQL through Prisma (`prisma/schema.prisma`), pure pricing and combat
formulas (`packages/rules-engine`), rules pinned per round (`packages/rulesets`),
a Discord bot and several clients. Everything that can go wrong between two
requests goes wrong in the database rows they share, so the specifications are
about those: who reads what, when it is locked, and what is written back.

    PlayerBoard.tla        the escrow market between players ("the Board")
    BoardMarket.tla        what the Board promises, without escrow, locks or clocks
    PlayerBoardProofs.tla  theorems about PlayerBoard: types and escrow
    BoardTradeProofs.tla   theorems about PlayerBoard: trades, locks, retries, pauses, the market
    StashWriters.tla       the writers of one player's parts, cash, caches and generator
    StashProofs.tla        theorems about StashWriters
    CrownEconomy.tla       the premium currency: wallet, packs paid through Stripe, shop, awards, staff
    CrownBook.tla          what the Crown wallet promises: a book of events, each at most once
    CrownProofs.tla        theorems about CrownEconomy
    Sportsbook.tla         wagers, settlements, the odds feed, the staff desk, the casino's cage
    SportsbookProofs.tla   theorems about Sportsbook
    SupporterMembership.tla  subscriptions: Stripe's events, rewards, the monthly sweep
    SupporterProofs.tla    theorems about SupporterMembership
    BlockWars.tla          wars over blocks: squads, sieges, corners, late settlement
    BlockWarsProofs.tla    theorems about BlockWars
    Sums.tla               lemmas about sums over finite sets, for the proofs
    MC*.tla, *.cfg         instances for TLC
    PROJECT.json           runs, mutants, theorems, hazards, and the source lines of each definition

Run `tlc -config Race.cfg MCPlayerBoard.tla`, `tlapm PlayerBoardProofs.tla`.
Paths below are relative to the repository; services are in `apps/server/src/services`.

## 1. The system

| Part | State it keeps | Operations | How it touches the others | What makes it correct |
|---|---|---|---|---|
| The Board (`player-board.service.ts`, `board-keeper-goods.ts`) | offers, fills, escrow and tag columns of the player row | post, cancel, fill, mine, book, expireDue | moves cash and holdings of two players; reads the round's pause; action ids | nothing lost or sold twice; escrow equals open offers; a retry charges once; listings outlive pauses |
| Stash, scavenging, generator, Salvage Yard | parts, caches, fuel, levels in the player row | open, addFinds, update, trade, saveLayout | same columns as the Board and every action | requests serialise: no write undoes another |
| Action pipeline (`action.service.ts`, `player-state.service.ts`) | the whole player row, receipts | run, settle | settles every other part's clock first | one id, one execution; clocks settled before reading |
| Crown wallet, packs, The Drop | wallet, ledger, pack orders, unlocks | apply, hold, webhooks, purchase, earn | Stripe events; shared entitlements in another database | a reference moves Crowns once; balance never negative; paid means credited |
| Supporter billing | memberships, processed webhook ids | handleEvent, checkout, trial | Stripe, Google Play; queues Discord roles | late and repeated events never undo newer ones |
| Casino and sportsbook | city wallets, sessions, hands, tickets | deal, bet, settle, void, reset | chips in and out of the player row | stakes settle exactly once; no deadlock between settlements |
| Due-settle and pollers (`utils/poller.ts`) | none of their own | sweep | settle players nobody looks at | one bad owner never stops the others; no overlap |
| Round lifecycle (`admin-round.service.ts`, `round*.service.ts`) | the Round row | schedule, pause, resume, archive, aftermath | read at the start of every request | no action outside play; rewards once |
| Turf, block wars, outposts | blocks, squads, battles | push, defend, settle | two players' rows, clocks | a battle lands once, whoever looks first |
| Runs, convoys, trips, relocation | trips with an arrival time | start, settle, credit | settled inside actions | goods on the road come home once |
| Combat and recovery | wounds, items, cash of two players | attack, settle | both rows locked in id order | spoils conserved |
| Alliances, contracts, wires | treasury, transfers | join, fund, wire | two rows | transfers conserve cash |
| Armory, vehicles | item rows under a capacity | buy, repair, move | the Board's keeper goods | item rows agree with the columns |
| Business and supply | stock, properties, pickups | order, pick up, settle | player cash, clocks | each period paid once |
| Law, factions, crew, hideout, quests, events | counters and timers of one player | many | inside the action transaction | one-time rewards once |
| Accounts, admission, notifications, Discord, forum, support, admin, metrics, clients | sessions, queues, messages | CRUD and delivery | outside the economy | authorised, delivered at most once |

Most writers follow one discipline (`utils/db.ts`): open a transaction, lock the
player row (`SELECT ... FOR UPDATE`), then read. The isolation level is
PostgreSQL's default, READ COMMITTED. What makes the system hard is everything
around that discipline: rows read before the lock is granted (the round, the
offer's seller), clocks that are settled lazily by whoever looks, two rows locked
by one request, requests retried by clients, webhooks delivered late and twice,
and the few writers that take no lock at all. `PROJECT.json` lists these hazards
with their lines; each names the properties that cover it or the module planned
for it.

## 2. Plan

1. `PlayerBoard`, `BoardMarket`, `PlayerBoardProofs` - done: the busiest place
   where two players' rows, a clock, a pause and retries meet.
2. `StashWriters` - done: what the writers without a lock do to the locked ones.
3. `CrownEconomy`, `CrownBook` - done: the wallet row with its ledger; Stripe
   events delivered at least once in any order; purchases in The Drop, awards and
   staff adjustments; the abstract book that they implement. Open: Google Play
   packs, Street Pass skips, the entitlement store shared between deployments.
4. `ActionPipeline`: one locked, idempotent transaction that settles due clocks
   first, with pollers settling the same player. Abstract specification: each
   action id has one outcome, computed on settled state.
5. `Sportsbook`, `SportsbookProofs` - done: tickets, settlement by poller, recheck
   and staff; the order in which games and ticket holders' rows are locked.
6. `SupporterMembership`, `SupporterProofs` - done: Stripe's events about old and new subscriptions in
   any order, rewards, drops and badges. Then the table games of the casino and
   `DueSettle`.
7. `BlockWars`, `BlockWarsProofs` - done: wars settled lazily by whoever comes by, and the people in
   them, who come home later still.

Proved, component by component below: every invariant, action property and
refinement that the passing runs check. Only model-checked are the four liveness
properties (`PaidIsCredited`, `TicketsGraded`, `PaymentsApplied`, `TenureCatchesUp`), which
are out of the prover's reach. Next are the theorems of `ActionPipeline`, once it is
modelled.

## 3. PlayerBoard

**State.** `db` is the committed rows: cash, holdings (`held`), the escrow column,
found-in-raid tags of both, offers, fills, processed action ids. `crowded[p]` is
the set of two-cell goods for which p's stash grid has no gap: one-cell parts
always find a cell (a level-0 stash has 60, every stack of one-cell goods
together fewer), drugs take none. `round` is the Round row, `clock` the time.
`req[h]` is the request a handler serves and what it has read so far: the round
row as of `requirePlayer`, then the time of the call. `lock[p]` is the row lock.
`idle` (history) is the ticks that passed while paused; a fill also remembers its
action id and commit time.

**Steps.** `Ask*` is the route: it reads the round and waits, in the code, for a
settle of the player. `Call` takes `now`, makes the checks before the transaction
(`assertPlayable`, the form, not your own offer) and, for a book, finds the
sellers with something due. `Lock` takes the next row in id order. `PostTx`,
`CancelTx`, `FillTx`, `MineTx` and `SweepTx` are the transaction bodies, each
beginning with `settleSeller`; they run once every row they need is held, and end
in commit or rollback. A body holds the locks of all rows it writes, so it is one
step. `Abort` is a timeout or a lost connection. `Pause` and `Resume` are
`admin-round.service.ts`, `Purge` is the purge of expired receipts, `Rearrange`
is everything else that changes what fits in a stash.

A transaction body is an operator from rows to rows (`Settled`, `WithPost`,
`WithCancel`, `WithFill`), guarded by `CanPost`, `CanCancel`, `CanFill`. A refusal
throws and rolls back, including the expiries just settled; only a purchase of an
offer found closed commits them (`fill` returns CLOSED first).

**Abstractions.** Cents and hours are small numbers; a listing form is one of
`Listings`. The gun and vehicle capacities are one (`Armory`). Offers are stored
under the next free id; the reputation that opens slots is the constant
`OfferSlots`. The rate of tax is what the code charges now, none. Names, activity
rows, ledgers and the DTOs are left out. An action id is only used for purchases,
so the refusal of an id used for something else does not arise. Guns and cars
that are hot or damaged are not counted as held. Two things a reader may expect
are not claimed: a post or cancel that read the round before a pause may commit
during it (the pause is judged once, on the row read when the request arrived),
and a barter takes goods but leaves their tags, so tags may exceed holdings.

**BoardMarket** has cash, goods and stalls. `Withdraw`, `List` and `Buy` are its
only steps; each may close other stalls of the same seller, as `settleSeller`
does on the way. `PlayerBoard` refines it: goods are holdings plus escrow, a stall
is an open offer, a closed one is `Closed` whatever happened to it.

### Runs

| Run | Instance | Shows |
|---|---|---|
| `board_race` | 2 players, each with an offer of the other's good out and both requests at once, clock to 1 | escrow reconciles, tags stay within escrow, cash accounted for, requests never wait in a circle, a closed offer stays as it is and comes back once, and every step is one of the market |
| `board_swap` | barter of a gun, a part and a drug, crowded stash, armory of 2 | nobody's armory is taken past its capacity by a trade |
| `board_pause` | two pause instants, minutes of 2 ticks, season end within reach, one action id used again and again, receipts kept a while | a request whose view of the round is current never expires an offer before it had its time of play; two fills under one id lie the retention apart |

Two handlers are what a race needs, and two players what a trade does; a third of
either adds only another copy of a pair. Two offers are enough for one to be
settled while the other is sold. The clock needs to pass the shortest listing
(1), and in `board_pause` to pass a pause and a listing (4). `MaxUnits` 1 with a
stack of two gives partial and full sales; 0 means all that is left, which is what a
race for one unit needs. Deadlock is not checked, since a Board whose offers are used
up at `MaxClock` stops; `NoLockCircle` says that no requests wait for each other.

### What is proved

For every set of players, goods, listings and handlers, from `BoardAssumption`
(finite players, goods and ids; amounts are naturals), `NoneAssumption` (the null
value is none of the values) and `StallAssumption` (the market's name for a closed
stall is no stall):

| Theorem | Property |
|---|---|
| `TypeCorrect`, `EscrowAlwaysReconciles` (`PlayerBoardProofs`) | `TypeOK`, `EscrowReconciles` |
| `TagsAlwaysWithinEscrow`, `CashAlwaysAccounted` | `TagsWithinEscrow`, `CashAccounted` |
| `NeverALockCircle` | `NoLockCircle` |
| `FilledOnceAlways`, `FullTimeOnSaleAlways` | `FilledOncePerAction`, `FullTimeOnSale` |
| `ClosedForGoodAlways`, `ArmoryAlwaysRespected` | `ClosedForGood`, `ArmoryRespected` |
| `BoardImplementsMarket` | `ImplementsMarket` |

`EscrowReconciles` is not inductive alone. A cancel names an offer chosen earlier,
so it must still be a posted one; a post carries a form from the time of the
request; the pause minutes must not be negative. The invariant is

    IInv == TypeOK /\ EscrowReconciles /\ RequestsOK /\ PauseBegan

`LeftIn`, the units left in a set of offers, is the cardinality of a set of pairs,
so that it can be reasoned about without recursion; the `LeftIn...` lemmas make it
a sum (of one offer, of a difference, of a set with one more). `SettledInv`,
`PostInv`, `CancelInv` and `FillInv` say what each transaction body preserves, and
there is one lemma per action above them. `Settled` is the hard one: it returns,
item by item, exactly the units of the offers it takes out of escrow, so the
column can never be cut at zero by `AtLeastZero`.

The rest (`BoardTradeProofs`) stands on

    BoardInv == IInv /\ NotOwn /\ Rested /\ Ordered /\ TagsWithinEscrow /\ Receipted
                /\ FilledOncePerAction /\ CashAccounted /\ PausesCredited

Each part is there because a step needs it. A fill moves goods between two different
rows only because its offer is another's (`NotOwn`). Requests without a lock wait for
none and those with locks hold the lower ones (`Rested`, `Ordered`): whoever waits in a
circle would wait for a row above his own, all the way round. A retry finds its
receipt as long as it counts (`Receipted`). Every idle tick is booked on the round or
still running, and a request that has read the round knows the ticks up to its own
time (`PausesCredited`): so no listing is judged by a shorter pause than it had.

Instead of one proof per action and property, the steps are sorted once by what they
do to the rows (`StepCases`): an offer is put up, taken down, sold, settled, or nothing
of the kind happens (`PutsUp`, `TakesDown`, `Sells`, `Settles`, `Quiet`), and each property is
carried over each kind. Money is a sum over the players (`Sums`). The refinement maps
an open offer to a stall and goods to holdings plus escrow; a step that settles on the
way lets the stalls of the offers it lapsed go, and the market's goods that are not on
a stall are the holdings because escrow reconciles (`HeldUnpromised`).

`Sums` proves what the community module's sum over a set does: it is defined there by
recursion over the subsets of a set. The library's induction theorems take an operator
as a parameter, which none of the provers can instantiate; a set of counterexamples,
however, has a smallest member, and that is how these lemmas go.

## 4. StashWriters

`row` is one player's committed row, `req[h]` an unlocked request with the row it
read. `Post`, `TakeBack`, `Trade`, `Scout` and `SpendTurns` lock first and are
atomic. `ReadOpen`/`WriteOpen` and `ReadGenerator`/`WriteGenerator` are two steps:
the write puts back whole columns computed from what was read, exactly those the
code puts in its `data` (`Merged`; each upgrade's level is a column of its own).
`books` (history) adds up the answers given: cash and parts, cans poured, charges
burned, and `drift`, by how much refuels without a lock put the tank off because
others had written it since they read it. Any charge, price or level is a constant; a
scout finds one part, which one varies.

| Run | Shows |
|---|---|
| `stash` | with two unlocked requests at a time among locked ones: nothing goes negative; fuel, burned or left, was paid for in cans, but for the drift |
| `stash_race` (violated) | what the player owns is not what his answers add up to: opening a cache or refuelling undoes a trade, a post or a find committed between its read and its write |

Bounds: `MaxServed` commits, up to `MaxCans` cans and `MaxTurns` turns at once, two
levels of capacity and one of efficiency. In `stash` there are 4 commits, because the
drift that gives charges away takes as many: a can is poured, the generator switched on,
a turn spent, and then a refuel lands that had read the full tank. A tank of 3 and cans
of 2 make the second can round. In `stash_race` 2 are enough: another's commit between
a read and a write. The handlers are interchangeable (`SYMMETRY`), and `VIEW` leaves out
the books' cash and parts, which no guard and neither invariant of that run reads. A process that
reached `MaxServed` stops, so deadlock is not checked there.

### What is proved

From `StashAssumption` (amounts are naturals, a can holds something), for any parts,
prices, levels and caches. `StashTypeCorrect` (`Spec => []TypeOK`) is for any number of
handlers: no race takes anything below zero, since a request without a lock writes
only columns computed from one row it read, on which it was let through
(`LetThrough`).

`FuelAlwaysPaidFor` (`Spec => []FuelPaidFor`) is for any number of handlers too:

    row.fuel + books.burned <= CanCharges * books.cans + books.drift

A refuel that read the tank before a turn was spent puts the burned charges back, and one
that read it before another refuel throws that one's charges away; without `drift` the
inequality is false of the code for that reason. The theorem says that this is the whole
leak: rounding cans, a full or overfull tank (two upgrades at once can leave one), the
switch and an upgrade paid in the same request never give a charge away. `FuelInv` only
adds that the books are integers. The argument (`WritesFuel`): what a request pours is
covered by the cans it takes, on the row it read (`PaidInCans`), and the difference between
that row's tank and the one it writes over is the drift.

## 5. CrownEconomy

**State.** `db` is the committed rows: balance and hold of each wallet, the ledger
(`book`, a set of entries whose `ref` is the unique `externalRef`), pack orders
with what is recorded of Stripe's ids, shop orders (`bought`), owned items, the
state of staff adjustments, processed webhook ids (`seen`). `stripe[o]` is the
checkout session at Stripe, `sent` the events Stripe has made; an event stays
there and is delivered again and again until it is in `seen`. `req[h]` is a
transaction under way with what it has read: the pack order when it began, the
wallet when it got its lock, what the round cap leaves. `lock[row]` holds wallet,
pack, player and adjustment rows. An entry's `ref` is one of `Refs`: the event, order or
action id that the code builds its `externalRef` from.

**Steps.** `Deliver`, `Reconcile`, `Buy`, `Earn`, `Adjust`, `Decide` and `Release`
begin a request; `Reread` is the order read again after Stripe answered a
reconcile. `Lock` takes the next row of `RowsOf`, the rows in the order the code's
statements touch them: `Awaited` is the first one not held, `WaitsFor` asks whether it
is another's, and a body runs when the request has them all (`HasAll`). `EventTx`, `ReconcileTx`, `BuyTx`, `EarnTx`, `AdjustTx` and
`ReleaseTx` commit or roll back. What an event does is `AfterEvent`, from the order
*as it was read* and the wallet *as it was locked*; that difference is the point
of the module. `Victim` is the transaction PostgreSQL fails in a deadlock, which
does happen: a first completion updates the order and then locks the wallet, a
later one locks the wallet first. `OpenOrder`, `OpenSession` and `RecordSession` are
`startCheckout`, which may die between them. `Checkout` and `Charge` are Stripe.

**CrownBook** is two variables and one step, `Move`: an entry of an event the book
has not seen, and the balance with it, never below zero.

| Run | Instance | Shows |
|---|---|---|
| `crown_shop` | two handlers, a bundle and an item of it, two action ids, two awards under a cap of 3, a Street Pass reward, a small and a large adjustment | no item is paid for twice, a retry is charged once, no award under the cap passes it |
| `crown_packs` | fair, two handlers, one pack of 2 Crowns, a full refund and a dispute, a purchase, one failure | Crowns only for a payment made, a held wallet spends nothing, the wallet implements its book, a paid pack is credited or its payment comes back |
| `crown_race` (violated) | two handlers, part refunds too | the refund that read the order before a completion commits leaves the Crowns on a refunded order |

One account, since nothing joins two wallets; one pack, since orders meet only in
the wallet, which the purchase, the awards and the staff move as well. Two
handlers make every race of a pair; `MaxAborts` is 1, one transaction lost for no
reason of its own. Prices of 1 and 2 Crowns with a discount of 50 percent reach
both roundings and the floor of one Crown. Each thing is bought, awarded, asked
for and paid once, so the system stops and deadlock is not checked: waiting for
one another is `Victim`, and `PaidIsCredited` says that it ends.

**Fairness** (`FairSpec`): Stripe retries the news of a payment until it is
acknowledged (`SF` of `Deliver`: a handler must be free; nothing is asked of other
events), a started transaction goes on (`WF`), row locks
are handed to waiters in turn (`SF` of `Lock`), and PostgreSQL notices a deadlock
(`WF` of `Victim`). Nothing makes players, staff or Stripe's sessions move. An
abort is bounded: a database that fails for ever credits nothing.

**Abstractions.** An account, amount and currency that do not match the order are
left out (the code leaves such an event alone), and so is a missing account. The
wallet is local: with the shared entitlement store the same steps run against
another database. Offers are always on sale. An award is capped or not by the path
that pays it: a Street Pass reward is not (`reward-grant.service.ts:134`), so the
round's earnings can pass the cap, though no award that looks at it takes them
there. A dispute that finds no order is acknowledged (`Matches`), so the hold it
should set is never set if the payment was not recorded yet; a dispute of an order that
was never credited makes it look credited, and a refund then takes Crowns earned in play. The self-approval ban is a matter of who decides, not of when.

### What is proved

`CrownTypeCorrect`, `GrantedOnlyWhenPaidAlways`, `NothingBoughtTwiceAlways`, `ChargedOnceAlways`,
`HoldStopsSpendingAlways`, `CapAlwaysRespected` and `CrownImplementsBook` (`CrownProofs`): the
safety properties of the three passing questions, for every set of accounts, packs,
purchases, awards and handlers, from `CrownAssumption` (finite sets of items, prices
that are naturals) and `NoneAssumption`. The invariant is

    CrownInv == Typed /\ Fitting /\ AtWork /\ WalletFresh /\ CutFresh /\ Paid /\ Made /\ Charged /\ Granted

`Typed` is the types of rows and requests, `Fitting` that a request holds only rows its
kind touches, each held by one; `AtWork` that a handler without a request holds none.
`WalletFresh` is the heart: a wallet read with its lock *is* the row until the request
ends, because every writer of a wallet holds it. From it come the balance that never
goes below zero, the hold that stops a purchase begun before it, and the refinement.
`CutFresh` is the same for what the round cap leaves, under the lock of the player's
row. `Paid` and `Made`: events and requests speak of payments that were made and of orders
that exist, however late they are. `Charged` and `Granted` tie the ledger to the orders.

What a commit does is one of four effects (`Effect`): it works beside the wallet, sets
the hold, enters an event in the book, or sells. One lemma says which effect each
transaction has; one per part says that every effect keeps it. Steps that know nothing of
the rows (`StartKeeps`, `RereadKeeps`, `LockKeeps`, `ClipKeeps`) and those of Stripe and the staff
(`Worldly`) are dealt with together. `CrownImplementsBook` reads the same effects as
`Move` or a stutter.

Only model-checked: `PaidIsCredited`, which is liveness.

## 6. Sportsbook

**State.** `game` is the game rows (PULLED stands for a line that is off the
board), `started` the games whose start time has passed, `final` those whose source
row holds a final score that was checked. `tickets` are the bets with the payout
and the casino session they pinned. `chips[p]` is a player's cash, casino wallet
and session, `ledger` the action ids the casino has seen, `favor[p]` the game of
the favor p works for Vic. `task[h]` is what a handler is doing: the rows it has
locked, the row it waits for, and what it read. `reopened` (history) is the
settled games the feed wrote over.

**Steps.** What a transaction writes is seen when it commits, and it locks one row
per step:

| Transaction | Code | Rows, in order | Steps |
|---|---|---|---|
| wager | `placeBet` | game, player | `SubmitWager` (takes `now`), `LockGame`, `JudgeWager`, `PlaceWager` |
| settlement | `settleSportsbookEventTx`, `resolveSportsInfluencesForEventTx` | game, then each holder of an open ticket as the database lists them, then each player with a favor on the game | `Void`, `Resolve` or `Evaluate`, then `SettleGame`, `LockHolder`, which end in `Settles` |
| listing | `storeSnapshot` | game | `ListGame` (reads), `WriteListing` (writes by id) |
| favor | `accept`, `persistSportsInfluenceContract` | player, then game through the contract's foreign key | `AskFavor`, `PickFavor`, `AcceptFavor` |
| cage | `CasinoService.mutate` | player | `BuyChips`, `RedeemChips`, `StartSession`, `CloseSession` |

A settlement resolves the favors on its game last (`Favored`). The contract's verdict is
read only when the quest is turned in, which is not modelled, and the quest goes on naming
its game to `placeBet`, so `favor` stays as it is. What counts here is that the activity
written for the player refers to his row, so that the settlement waits for whoever has it
locked, holding the game and every ticket holder.

`Poll` and `Recheck` record a checked score, `Evaluate` begins the settlement it
asks for. `PullLine` takes a game off the board. `Lose` is a transaction that
fails or a wager refused for a reason that is not modelled; `BreakDeadlock` is the
one PostgreSQL fails in a deadlock. `MaxRequests` bounds requests and losses
together; the feed is not bounded.

| Run | Instance | Shows |
|---|---|---|
| `book` | two games at +150 and -200, one listed and one begun, one player with tickets on both and one with a ticket on the begun one, one more slip each, limits of one slip more | the limit on a side holds whoever bets; chips add up through retries, races, lost transactions and sessions that close in between; a wager judged under its locks can be written; wagers and settlements never wait for each other; tickets of a started game are graded in the end |

Two games are what a deadlock of settlements needs. The second player comes to the
settlement of the listed game by a wager or by a favor, and then each settlement has two
rows to lock, in different orders. A win, a tie and a void are all
graded; +150 and -200 take both branches of `Profit`. `MaxRequests` 2 is one race of
two requests, or a request and its loss, against the feed and its settlements,
which are free. There is one feed handler because the feed runs under a lease
(`sportsbook-feed.service.ts:655-668`). Deadlock is not checked: a book with
nothing left to settle stops.

**Fairness** (`FairSpec`): row locks are granted in turn and transactions go on (`SF`
of `Advance`), PostgreSQL notices a deadlock (`WF` of `BreakDeadlock`), and the
poller, whose runs end with the results that are due, gets to each of them (`SF`
of `Poll`). Players and staff need not move, and no game need start.

**What the code does and no property claims.** `WriteListing` writes a game it
read as unsettled without asking again (`sportsbook-feed.service.ts:309`). If it was
settled since, the game is open for betting with `settledAt` set: it takes wagers,
and no settlement will touch their tickets. `StrandedOnlyByFeed` says that this is
the only way a ticket is stranded, and `TicketsGraded` leaves out games already
settled. It runs against `sportsbook.service.ts:247-251`, which calls settlement the
single owner of a game's end. A wager's time is taken before it waits for the game's
row, so one that waits past the start is still taken (`inTime`). The favor's order
of locks is the reverse of everyone else's and does deadlock; `WagerNeverDeadlocks`
is about sets of transactions without one.

**Abstractions.** A moneyline is fixed for each game: a changed price, its age, the
feed's freshness, the venue and the ruleset only refuse a wager (`Lose`). The
model's day never ends, so every ticket counts in the daily limit. One casino
city; tickets from before chips were used are left out. The one provider the
server configures never disagrees with itself and reports no cancellation, so
disputes and the 72-hour review do not arise. A favor picks any game to come and
is not given up. A check that finds no score changes nothing and is left out.

### What is proved

`JudgedStandsAlways` (`Spec => []JudgedStands`) and `WagersNeverDeadlock`
(`Spec => []WagerNeverDeadlocks`), for every set of players, games and handlers,
every odds and limits, from `SportsbookAssumption`. The invariant is

    IInv == TasksOK /\ RowsOK /\ JudgedStands

`TasksOK`: every task holds rows in the order of its kind, and waits for a row it
does not hold. `RowsOK`: a row has one holder. `JudgedStands` then keeps itself: a judged
wager holds its game and its player, and everything that could change the ledger,
the player's tickets, chips or favor, the status of the game or the tickets on it
holds one of these rows. The delicate step is a settlement of another game: it
grades tickets of players it locked, so none of this player's; and a wager of another player
on this game would need the game's row. That no cycle has a wager follows from the
order of the locks: a wager that waits for its player holds its game and nothing
else, and whoever else waits for a game (a wager, a settlement at its start, the
feed) holds nothing yet that another could wait for.

`BookTypeCorrect`, `SideAlwaysWithinLimit`, `ChipsAlwaysAccounted` and `StrandedOnlyByTheFeed`
(`[]TypeOK`, `[]SideWithinLimit`, `[]ChipsAccounted`, `[]StrandedOnlyByFeed`) stand on a second
invariant over the first, with `PlacedAssumption` (the tickets a behaviour starts with
respect the limits and are not the same bet twice):

    BookInv == IInv /\ TypeOK /\ IsFiniteSet(tickets) /\ KeyedOnce /\ WorthTheStake
               /\ ListCurrent /\ ClosedUnlessReopened /\ SideWithinLimit /\ ChipsAccounted
               /\ StrandedOnlyByFeed

Tickets are a set: a graded copy never meets another ticket because a key is used once
(`KeyedOnce`). Grading takes tickets out of what a side promises, which lowers it because
no ticket promises less than its stake (`WorthTheStake`). A settlement pays exactly the
tickets that are open: the list it made when it got the game is the game's open tickets
as long as it holds the game (`ListCurrent`). A game that was settled takes no wager
unless the feed wrote over it (`ClosedUnlessReopened`). As on the Board, the steps are
sorted once (`BookCases`): a ticket is placed, a game graded, chips exchanged, a game
overwritten, or the book stays the same (`Places`, `Grades`, `Exchanges`, `Overwrites`,
`SameBook`). The chips are the hard part: returns and stakes are sums over the tickets
of a player, and a grading changes many terms of both at once.

Only model-checked: `TicketsGraded`, which is liveness.

## 7. SupporterMembership

**State.** `subs`, `carts` and `sent` are Stripe's: subscriptions, open checkout pages,
and the events it has made in the order of their creation. `membership`, `payments`
and `unlocks` are the rows, `seen` the events recorded as handled (by index in
`sent`). `task[h]` is a transaction under way with the membership it read and the
rewards it found missing.

**Steps.** `Deliver` begins `handleEvent` for any event not handled, in any order and
by two handlers at once; one that changes the membership reads it, without a lock.
`Write` is `applyMembership`, which locks the row by writing it, chooses the columns
by the row it *read*, and then reads what the account lacks. `CommitEvent` makes all
of it seen, or rolls it back if the event's id or one of the rewards was inserted
meanwhile (`Commits`); Stripe then delivers again. An event that pays for nothing has
nothing to read and ends with `Write`. `StartSweep` lists the accounts that count as
paid and lack something, `SweepNext` and `CommitGrant` are one account's transaction.
`Abort` is a failure or a crash, at most `MaxAborts` of them.

| Run | Instance | Shows |
|---|---|---|
| `supporter` | one player on trial with a second page open, who may also open a third; a gift to another; two months, the second with a drop, a badge for two paid months; four events of Stripe, refunds among them; two handlers, one lost transaction | an event handled is handled whole; badges are earned by months, drops by payments or (see below) trials; a membership goes back only by one race; every payment is applied, and no supporter waits for ever for a badge |

Four events are a whole checkout (three) and one more, or two paid months of two
events each, or a paid month, a gift and a refund. Two months tell months from
payments. Dispute and refund do the same to different words, so the instance has
refunds. Deadlock is not checked: Stripe stops at `MaxEvents`.

**Fairness** (`FairSpec`): some handler goes on while one can. Deliveries repeat until
acknowledged and the sweep is hourly, so this is what a running server does; no
single handler or event is favoured, for every failed attempt is another's success.

**What the code does and no property claims.** A trial's first invoice is for nothing,
and `invoice.paid` makes the membership `active` before it looks at the amount
(`supporter-billing.service.ts:348`): the sweep then gives the month's drop to an
account that never paid, which `supporter-drop.service.ts:22` and
`active-supporter.service.ts:4` do not want. `UnpaidDropOnlyByTrialInvoice` says that
this is the only way. The membership is read without a lock, so of two events at
once the older may be written last, against `prisma/schema.prisma:447`;
`OlderOnlyByRace` says that nothing else sets a membership back. Events of one second
are applied in the order they come. A newer event of an older subscription takes the
membership over. Two refunds at once may mark the same payment. A badge that two
payments both missed is made up for by the sweep, but only while the account is
active, and only in a month that has a drop.

**Abstractions.** A customer is an account. Statuses that no step here leads to are
left out, and so are period ends. A bundle is one item and the fixed rewards are
one. A checkout always begins a trial, as `startCheckout` asks for. Google Play's
subscriptions, cosmetics of the trial, season stamps and erasure are left out.

### What is proved

`TypeCorrect` (`Spec => []TypeOK`), `HandledWholeAlways` (`Spec => []HandledWhole`),
`DropsAccountedFor` (`Spec => []UnpaidDropOnlyByTrialInvoice`), `TenureAlwaysEarned`
(`Spec => []TenureEarned`) and `OlderOnlyByRaceAlways` (`Spec => OlderOnlyByRace`), for every set of
accounts, subscriptions, gifts, months with a drop and handlers, whatever Stripe has
to say in whatever order, from `SupporterAssumption` and `NoneAssumption`. The
invariant is

    IInv == RowsOK /\ TasksOK

`RowsOK` is the three properties and two facts they need: a payment is of an event
and of its account (`PaymentsOK`), and who counts as a paying supporter paid or
began a trial (`ActivePaidFor`), which is why the sweep gives its drop to nobody
else. `TasksOK` says what a transaction under way will commit: the rewards it adds
and those already there together are all its event pays for (`Served`), and the drops
among them are paid for. That survives whatever commits meanwhile because events,
handled events, unlocks and memberships only grow (`Grows`, `TaskStays`). The
delicate step is a refund beside a payment: the payment it marks keeps its id and its
account, so an event handled keeps its payment.

`TenureInv` carries the other two. A badge is earned if *some* finite set of months of
that size is among the account's (`AtLeast`), which only grows with the months; its
cardinality is looked at twice, when a badge is found due and in the theorem. A
transaction under way may count the month of its own payment, which is not in the table
yet: `BadgesEarnedWith` adds that month, and `CommitsTenured` shows that it arrives with
the badge, whether the payment is new or was recorded before. A refund keeps a
payment's date, so no month is lost (`MonthsGrow`). For `OlderOnlyByRace` a transaction that
is to write a membership must not have found it newer and of another subscription
(`CommitTenured`): then what it writes over the row it read, if older, is the row itself.

Only model-checked: `PaymentsApplied` and `TenureCatchesUp`, which are liveness.

## 8. BlockWars

**State.** `db` is the committed rows as one record: `crew` (thugs, of them hurt, busy and
posted, and home guns), `block` (holder, corner, truce, last supplies), `war`, and
`squads`, the people of a crew in a war. `req[p]` is the request of player p with the wars
it still has to settle. `over` is the end of the round. `cast` says which operations a
behaviour uses, so that one run can hold several casts.

**Steps.** A transaction is an operator from rows to the set of rows it may leave; random
outcomes are that set. `Advanced` is `advanceIn`: the war's clock (`Ticked`), the fight that
was due (`Fought`, with any winner and any wounded it could have), and its end (`Finished`,
`Ended`, `Taken`), each at the time it was due. `AskWar` and `AskBlock` take the time;
a request on a war settles that war first (`upToDate`), `SettleOne` the others on its list
(`settleDueFor`), `Check` and `End` are concede and withdraw, which read and end in two
transactions, and `Run` is the request's own: credit the squads (`Credited`), let
unsupplied corners walk out (`WalkedOut`), heal, assert the crew adds up (`Sound`), then
the body (`Declare`, `Defend`, `BreakSiege`, `Assault`, `CallAlly`, `Answer`, `Claim`, `Post`, `Pull`,
`Scout`). `Sweep` is the minute sweep, `CloseRound` the cutoff: every war, then every player,
one after another in some order (`InTurn`).

**Constants.** `WarAssumption` asks that no more thugs stand on corners at the start than the
crew has (`StartPosted`), which the code asserts of every player it writes
(`invariant.service.ts:186`); that a tick of siege gains something (`Pace`), a corner needs
somebody and a fight takes time to muster; that the warning is shorter than the war; and
that `None` is no player, row or request. The rest is types.

| Run | Instance | Shows |
|---|---|---|
| `wars` | three crews, one block, two wars one after the other; one cast with allies, sieges and breaks, one that claims, posts, pulls and scouts | no gun or thug is lost or made; nobody is out for a war that is over; a war ends within its time, whoever looks when, and looking late makes no difference; a block changes hands only by a war won |
| `wars_return` (violated) | one war, squads of two | a scout settles a corner whose crew is not credited yet; the late credit posts people who walked out, and the crew's actions are refused |

Bounds: squads are numbered (`NextSquad`), and `MaxSquads` 4 has numbers for a declarer, a
holder, an ally and one sent again; one whose people are all credited is forgotten, so its
number may serve again. A war of 3 ticks has room for an opening fight, a siege and a break; `Horizon` 5
lets a second war begin in the truce's shadow and the round end in the middle of it.
`MaxLag` lets a concession take a tick, between its check and its end; other requests
are over within the tick they began, and the wars they list are read with the step
before, since a list only shrinks. One request is under way at a time besides the sweep
and the close, which come between any two of its steps. Requests that are certain to
be refused are left out. Wounds of one thug and squads of one or two reach every outcome
of a fight. Deadlock is not checked: the clock stops at `Horizon`.

**Abstractions.** Ammunition, torching and businesses, loot, heat and allies' cuts,
outposts, fatigue, the clock of how long a block was held, presence and turn costs, the
cap on squads, replay of action ids, recovery times (a hurt thug heals at any time), the
crackdown and the limit of ten wars listed are left out.

**What the code does and no property claims.** A declarer whose first squad was wounded to
the last may send a second; when the block is taken, only the first is posted and the
second stays active for a war that is over (`block-war-settle.service.ts:613`, `:723`), the
exception in `NobodyLeftBehind`. A squad wounded to the last that wins leaves a block taken
with nobody on it. A claim during a Take war may take its crew past the block cap, which
counts only blocks held. Concede asks for a siege outside the transaction that ends the
war, so a war conceded may have left it. One war that fails to settle stops the sweep for
the others, which have no try of their own.

### What is proved

Everything the run `wars` checks, for every set of players, blocks and wars and all numbers
of the ruleset that `WarAssumption` allows, however many squads, wounds, requests and ticks:

| Theorem (`BlockWarsProofs`) | Property |
|---|---|
| `Types`, `Accounting`, `NobodyIsLeft` | `TypeOK`, `CrewsAccounted`, `NobodyLeftBehind` |
| `WarsEndInTime`, `LookingLate` | `EndsInTime`, `LateIsOnTime` |
| `BlocksChangeHandsByWar` | `HandsChangeByWar` |

The inductive invariant is

    Inv     == TypeOK /\ Rightful(db) /\ \A p : req[p] # None => Asked(req[p])
    Rightful(d) == Typed(d) /\ OneWarEach(d) /\ Accounts(d) /\ NoneBehind(d) /\ EndedInTime(d)

about any rows `d`, not only the committed ones, because a transaction passes through many.
`Accounts`, `NoneBehind` and `EndedInTime` are the properties themselves. `Typed` adds to the
types what they rest on: a squad's thugs, wounded and posted are never more than were sent,
nobody is with a squad that was released and nobody of an active one is posted yet, no more
is credited than came home (`SquadSound`), a declarer's squad is the attacker's, Control is
never past full, and a break is fought only in a siege. Without these the subtractions of a
credit or of a capture could go below zero. `OneWarEach`, at most one live war for a block,
is what `HandsChangeByWar` needs: when a round's end walks several wars forward in one
step, a block that one war takes must not be credited to another.

The argument goes by two relations between rows. `Settles(d, x)`: what settling does - no
war that is over changes, none begins, blocks pass only as `Passed` says, and each part of
`Rightful` is kept. `Acts(d, x, p)`: what a body of p's does to rows already settled. Every
operator from rows to rows is shown to be one of these, from the bottom up (`TickedSettles`,
`FoughtSettles`, `ClosedSettles`, `AdvancedIs`, `CreditedIs`, ...; `SentIs`, `DeclareActs`,
`GarrisonActs`, ...), settling composes (`SettlesOn`), and every step is then `Moved`
(`StepMoved`). Sums over squads and blocks are changed one term at a time with the lemmas
of `Sums`. `InTurn` is a recursion over the subsets of a finite set, whose induction the
library states with an operator parameter; `ReachesExists` and `ReachesUnique` unfold it
by a smallest counterexample instead.

`LookingLate` compares two ways of looking at a war, directly and with a look in between
(`AdvancedOn`). Control taken on in two steps is Control taken on in one (`TickedTwice`),
and looking before it is full does not move the tick at which it will be
(`TickedFull`), which is a fact about rounding up a division. So a war that has run out stays
as it ended (`RunOutStays`), one that has not is as it was (`StillRunning`), and a fight that
was due is fought on the same rows in both.

## 9. Not modelled

The parts marked `not_modelled` in `PROJECT.json`, each with its reason: planned
above, pure formulas (combat, odds, pricing tables), I/O (delivery, Discord,
Stripe itself), user interfaces, and single-row bookkeeping inside the action
transaction. The stash grid's geometry is replaced by a set of goods without
room; random draws are nondeterministic choices.
