------------------------------ MODULE StashWriters ------------------------------
(***************************************************************************)
(* The requests that write one player's row: cash, the parts of his stash, *)
(* his Board escrow, his unopened caches and his hideout generator.        *)
(* Most of them lock the row before they read it (utils/db.ts), so reading *)
(* and writing are one step.  Opening a cache (scavenging.service.ts) and  *)
(* the generator panel (generator.service.ts) take no lock: they read the  *)
(* row, and later write whole columns computed from what they read.  At    *)
(* READ COMMITTED, PostgreSQL's default, nothing rejects that write.       *)
(***************************************************************************)
EXTENDS Integers, FiniteSets

CONSTANTS
  Parts,      \* keys of stackable parts
  FuelCan,    \* the part that refuels the generator
  Caches,     \* ids of the caches a scout may find
  Handlers,   \* request handlers running at once
  Price,      \* Price[k]: cash and parts the Salvage Yard asks for one k
  Fee,        \* the Board's posting fee
  CanCharges, \* fuel charges in one can
  BaseCapacity, CapacityStep,
  MaxLevel,   \* MaxLevel[u]: levels of generator upgrade u
  UpgradeCash, UpgradeParts, \* price of one level; level n costs n times as much
  StartCash, StartParts,
  MaxServed, MaxCans, MaxTurns, \* bounds: writes committed, cans poured and turns spent at once
  None

VARIABLES
  row,    \* the player's committed row
  req,    \* req[h]: the unlocked request h is serving and the row it read, or None
  served, \* writes committed so far
  books   \* what the answers given to the player add up to (a history variable)

vars == <<row, req, served, books>>

Upgrades == {"CAPACITY", "EFFICIENCY"}
Bag == [Parts -> Nat]

Row == [cash: Nat, parts: Bag, escrow: Bag, caches: SUBSET Caches, found: SUBSET Caches,
        fuel: Nat, powered: BOOLEAN, level: [Upgrades -> Nat]]

\* What a generator request asks for: any of a switch, cans to pour in, an upgrade.
Inputs == [powered: BOOLEAN \cup {None}, cans: Nat \cup {None}, upgrade: Upgrades \cup {None}]

Request == [op: {"open"}, cache: Caches, seen: Row]
             \cup [op: {"generator"}, cache: {None}, input: Inputs, seen: Row]

ASSUME StashAssumption ==
  /\ FuelCan \in Parts
  /\ Price \in [Parts -> [cash: Nat, parts: Bag]]
  /\ {CanCharges, BaseCapacity, CapacityStep, Fee, StartCash, MaxServed, MaxCans, MaxTurns} \subseteq Nat
  /\ CanCharges > 0
  /\ MaxLevel \in [Upgrades -> Nat] /\ UpgradeCash \in [Upgrades -> Nat]
  /\ UpgradeParts \in [Upgrades -> Bag]
  /\ StartParts \in Bag

-----------------------------------------------------------------------------
(* Helpers *)

Lesser(a, b) == IF a <= b THEN a ELSE b
With(bag, k, n) == [bag EXCEPT ![k] = @ + n]
Covers(bag, needed) == \A k \in Parts : bag[k] >= needed[k]
Without(bag, needed) == [k \in Parts |-> bag[k] - needed[k]]
Times(n, bag) == [k \in Parts |-> n * bag[k]]

Capacity(level) == BaseCapacity + CapacityStep * level["CAPACITY"]
FuelPerTurn(level) == IF level["EFFICIENCY"] = 0 THEN 2 ELSE 1

\* Charges the cans add: never past the tank the row had.
Added(r, cans) == Lesser(cans * CanCharges, Capacity(r.level) - r.fuel)

\* Mutant: a can that is not emptied is not used up.
CansUsedDown(added) == added \div CanCharges

CansUsed(added) == (added + CanCharges - 1) \div CanCharges

-----------------------------------------------------------------------------
(* What each request makes of the row it read *)

Switched(r, input) ==
  IF input.powered = None THEN r ELSE [r EXCEPT !.powered = input.powered /\ r.fuel > 0]

Refueled(r, input) ==
  LET added == Added(r, input.cans)
  IN  IF input.cans = None THEN r
      ELSE [r EXCEPT !.fuel = @ + added, !.parts = With(@, FuelCan, -CansUsed(added))]

\* Mutant: the parts of an upgrade are not counted first.
CanUpgradeShort(r, u) ==
  LET next == r.level[u] + 1
  IN  next <= MaxLevel[u] /\ r.cash >= next * UpgradeCash[u]

\* An upgrade is priced by the level it reaches; its parts come out after the cans.
CanUpgrade(r, u) ==
  LET next == r.level[u] + 1
  IN  /\ next <= MaxLevel[u]
      /\ r.cash >= next * UpgradeCash[u]
      /\ Covers(r.parts, Times(next, UpgradeParts[u]))

Upgraded(r, u) ==
  LET next == r.level[u] + 1
  IN  [r EXCEPT !.cash = @ - next * UpgradeCash[u],
                !.parts = Without(@, Times(next, UpgradeParts[u])),
                !.level[u] = next]

GeneratorAllows(r, input) ==
  /\ input.cans # None => r.parts[FuelCan] >= input.cans
  /\ input.upgrade # None => CanUpgrade(Refueled(r, input), input.upgrade)

\* The switch is set by the fuel read, before the cans go in.
GeneratorUpdated(r, input) ==
  LET refueled == Refueled(Switched(r, input), input)
  IN  IF input.upgrade = None THEN refueled ELSE Upgraded(refueled, input.upgrade)

\* The cache goes from the list; one part, or two of a common kind, come out.
Opened(r, c, k, n) == [r EXCEPT !.parts = With(@, k, n), !.caches = @ \ {c}]

\* The row r with some columns of new; each upgrade's level is a column of its own.
Merged(r, new, columns) ==
  [column \in DOMAIN r |->
     IF column = "level" THEN [u \in Upgrades |-> IF u \in columns THEN new.level[u] ELSE r.level[u]]
     ELSE IF column \in columns THEN new[column] ELSE r[column]]

-----------------------------------------------------------------------------
(* Commits *)

Owned(r, k) == r.parts[k] + r.escrow[k]

\* The player is told that his row went from old to new; the write puts the tank off
\* by drift, what others did to it since old was read.
Told(old, new, drift) ==
  books' = [cash |-> books.cash + new.cash - old.cash,
            parts |-> [k \in Parts |-> books.parts[k] + Owned(new, k) - Owned(old, k)],
            cans |-> books.cans + (IF new.fuel > old.fuel THEN old.parts[FuelCan] - new.parts[FuelCan] ELSE 0),
            burned |-> books.burned + (IF new.fuel < old.fuel THEN old.fuel - new.fuel ELSE 0),
            drift |-> books.drift + drift]

Serve == served < MaxServed /\ served' = served + 1

\* A request that locks the row first: read and write are one step.
Locked(new) ==
  /\ \E h \in Handlers : req[h] = None
  /\ Serve /\ row' = new /\ Told(row, new, 0) /\ UNCHANGED req

\* player-board.service.ts: a unit goes up for sale, or comes back.
Post(k) ==
  /\ row.parts[k] > 0 /\ row.cash >= Fee
  /\ Locked([row EXCEPT !.cash = @ - Fee, !.parts = With(@, k, -1), !.escrow = With(@, k, 1)])
TakeBack(k) == row.escrow[k] > 0 /\ Locked([row EXCEPT !.parts = With(@, k, 1), !.escrow = With(@, k, -1)])

\* salvage-yard.service.ts: a part for cash or for other parts.
Trade(k) ==
  /\ row.cash >= Price[k].cash /\ Covers(row.parts, Price[k].parts)
  /\ Locked([row EXCEPT !.cash = @ - Price[k].cash, !.parts = With(Without(@, Price[k].parts), k, 1)])

\* scavenging.service.ts addFinds, inside a scout: parts and perhaps new caches.
Scout(k, caches) ==
  /\ caches \cap row.found = {}
  /\ Locked([row EXCEPT !.parts = With(@, k, 1), !.caches = @ \cup caches, !.found = @ \cup caches])

\* action.service.ts: turns spent under power burn fuel.
SpendTurns(turns) ==
  LET used == Lesser(row.fuel, turns * FuelPerTurn(row.level))
  IN  row.powered /\ Locked([row EXCEPT !.fuel = @ - used, !.powered = row.fuel > used])

-----------------------------------------------------------------------------
(* Requests that take no lock *)

ReadOpen(h, c) ==
  /\ req[h] = None /\ c \in row.caches
  /\ req' = [req EXCEPT ![h] = [op |-> "open", cache |-> c, seen |-> row]]
  /\ UNCHANGED <<row, served, books>>

ReadGenerator(h, input) ==
  /\ req[h] = None /\ GeneratorAllows(row, input)
  /\ req' = [req EXCEPT ![h] = [op |-> "generator", cache |-> None, input |-> input, seen |-> row]]
  /\ UNCHANGED <<row, served, books>>

Writes(h, new, columns) ==
  /\ Serve
  /\ row' = Merged(row, new, columns)
  /\ Told(req[h].seen, new, IF "fuel" \in columns THEN req[h].seen.fuel - row.fuel ELSE 0)
  /\ req' = [req EXCEPT ![h] = None]

WriteOpen(h, k, n) ==
  /\ req[h] # None /\ req[h].op = "open"
  /\ Writes(h, Opened(req[h].seen, req[h].cache, k, n), {"parts", "caches"})

WriteGenerator(h) ==
  /\ req[h] # None /\ req[h].op = "generator"
  /\ LET input == req[h].input
         columns == (IF input.powered = None THEN {} ELSE {"powered"})
                      \cup (IF input.cans = None THEN {} ELSE {"fuel", "parts"})
                      \cup (IF input.upgrade = None THEN {} ELSE {"cash", "parts", input.upgrade})
     IN  Writes(h, GeneratorUpdated(req[h].seen, input), columns)

-----------------------------------------------------------------------------

Init ==
  /\ row = [cash |-> StartCash, parts |-> StartParts, escrow |-> [k \in Parts |-> 0],
            caches |-> {}, found |-> {}, fuel |-> 0, powered |-> FALSE,
            level |-> [u \in Upgrades |-> 0]]
  /\ req = [h \in Handlers |-> None]
  /\ served = 0
  /\ books = [cash |-> StartCash, parts |-> StartParts, cans |-> 0, burned |-> 0, drift |-> 0]

LocksRow ==
  \/ \E k \in Parts : Post(k) \/ TakeBack(k) \/ Trade(k) \/ \E caches \in SUBSET Caches : Scout(k, caches)
  \/ \E turns \in 1..MaxTurns : SpendTurns(turns)

TakesNoLock(h) ==
  \/ \E c \in Caches : ReadOpen(h, c)
  \/ \E powered \in BOOLEAN \cup {None}, cans \in 0..MaxCans \cup {None}, upgrade \in Upgrades \cup {None} :
       ReadGenerator(h, [powered |-> powered, cans |-> cans, upgrade |-> upgrade])
  \/ \E k \in Parts, n \in 1..2 : WriteOpen(h, k, n)
  \/ WriteGenerator(h)

Next == LocksRow \/ \E h \in Handlers : TakesNoLock(h)

Spec == Init /\ [][Next]_vars

-----------------------------------------------------------------------------
(* Properties *)

\* Every row read or written keeps its type: no sequence of trades, refuels,
\* upgrades and openings takes cash, a part or the fuel below zero.
TypeOK ==
  /\ row \in Row /\ served \in 0..MaxServed
  /\ req \in [Handlers -> Request \cup {None}]

\* Fuel is bought with cans, ten charges each, and only the turns spent burn it, whatever
\* requests overlap: an unlocked refuel (generator.service.ts:107) that writes over what
\* others did to the tank since it read it puts it off by just that, never by more.
FuelPaidFor == row.fuel + books.burned <= CanCharges * books.cans + books.drift

\* utils/db.ts:9 "Every resource-changing path runs inside a transaction that starts
\* here, so two requests racing each other ... serialise": the player owns what the
\* answers to his requests add up to, escrow included.
Serialised ==
  /\ row.cash = books.cash
  /\ \A k \in Parts : Owned(row, k) = books.parts[k]

=============================================================================
