------------------------------ MODULE StashProofs ------------------------------
(***************************************************************************)
(* The player's row, for every set of parts, prices, upgrades and caches   *)
(* and any number of requests at once: what no race of them can do to it,  *)
(* and how far a race can put the tank off.                                *)
(***************************************************************************)
EXTENDS StashWriters, TLAPS

-----------------------------------------------------------------------------
(* Charges and cans *)

LEMMA TimesGrows ==
  ASSUME NEW c \in Nat, NEW x \in Int, NEW y \in Int, x <= y
  PROVE  c * x <= c * y
  OBVIOUS

LEMMA DivBounds ==
  ASSUME NEW a \in Int, NEW c \in Nat, c > 0
  PROVE  a \div c \in Int /\ c * (a \div c) <= a /\ a < c * (a \div c) + c
  OBVIOUS

\* The cans used up hold what was added, and are no more than were poured.
LEMMA CansBounds ==
  ASSUME NEW added \in Int, NEW cans \in Nat, added <= cans * CanCharges
  PROVE  /\ CansUsed(added) \in Int /\ added <= CanCharges * CansUsed(added)
         /\ CansUsed(added) <= cans
<1>1. CanCharges \in Nat /\ CanCharges > 0
  BY StashAssumption
<1>2. PICK q : q = CansUsed(added)
  OBVIOUS
<1>3. q \in Int /\ CanCharges * q <= added + CanCharges - 1 /\ added + CanCharges - 1 < CanCharges * q + CanCharges
  BY <1>1, <1>2, DivBounds DEF CansUsed
<1>4. q <= cans
  <2>1. SUFFICES ASSUME cans + 1 <= q PROVE FALSE
    BY <1>3
  <2>2. CanCharges * (cans + 1) <= CanCharges * q
    BY <1>1, <1>3, <2>1, TimesGrows
  <2>3. CanCharges * (cans + 1) = cans * CanCharges + CanCharges
    BY <1>1
  <2>4. /\ CanCharges * (cans + 1) \in Int /\ CanCharges * q \in Int /\ cans * CanCharges \in Int
    BY <1>1, <1>3
  <2>. QED  BY <1>1, <1>3, <2>2, <2>3, <2>4
<1>5. CanCharges * q \in Int
  BY <1>1, <1>3
<1>. QED  BY <1>1, <1>2, <1>3, <1>4, <1>5

LEMMA TimesNat == ASSUME NEW a \in Nat, NEW b \in Nat PROVE a * b \in Nat
  OBVIOUS

-----------------------------------------------------------------------------
(* Rows stay rows *)

LEMMA BagWith ==
  ASSUME NEW bag \in Bag, NEW k \in Parts, NEW n \in Int, bag[k] + n >= 0
  PROVE  With(bag, k, n) \in Bag
  BY DEF With, Bag

LEMMA BagWithout ==
  ASSUME NEW bag \in Bag, NEW needed \in Bag, Covers(bag, needed)
  PROVE  Without(bag, needed) \in Bag
  BY DEF Without, Covers, Bag

LEMMA BagTimes ==
  ASSUME NEW n \in Nat, NEW bag \in Bag
  PROVE  Times(n, bag) \in Bag
  BY TimesNat DEF Times, Bag

LEMMA CapacityNat == ASSUME NEW r \in Row PROVE Capacity(r.level) \in Nat
<1>1. r.level["CAPACITY"] \in Nat
  BY DEF Row, Upgrades
<1>2. CapacityStep * r.level["CAPACITY"] \in Nat
  BY <1>1, TimesNat, StashAssumption
<1>. QED  BY <1>2, StashAssumption DEF Capacity

\* The cans never take the tank below empty, even if it held more than it should.
LEMMA AddedBounds ==
  ASSUME NEW r \in Row, NEW cans \in Nat
  PROVE  /\ Added(r, cans) \in Int /\ Added(r, cans) <= cans * CanCharges
         /\ r.fuel + Added(r, cans) \in Nat
<1>1. cans * CanCharges \in Nat /\ Capacity(r.level) \in Nat /\ r.fuel \in Nat
  BY TimesNat, CapacityNat, StashAssumption DEF Row
<1>. QED  BY <1>1 DEF Added, Lesser

LEMMA SwitchedTyped ==
  ASSUME NEW r \in Row, NEW input \in Inputs
  PROVE  /\ Switched(r, input) \in Row
         /\ Switched(r, input).fuel = r.fuel /\ Switched(r, input).parts = r.parts
         /\ Switched(r, input).cash = r.cash /\ Switched(r, input).level = r.level
<1>1. PICK b : b = (input.powered /\ r.fuel > 0)
  OBVIOUS
<1>2. b \in BOOLEAN
  BY <1>1
<1>3. [r EXCEPT !.powered = b] \in Row
  BY <1>2 DEF Row
<1>. QED  BY <1>1, <1>3 DEF Switched, Row

LEMMA RefueledTyped ==
  ASSUME NEW r \in Row, NEW input \in Inputs, input.cans # None => r.parts[FuelCan] >= input.cans
  PROVE  /\ Refueled(r, input) \in Row
         /\ Refueled(r, input).cash = r.cash /\ Refueled(r, input).level = r.level
<1>1. CASE input.cans = None
  BY <1>1 DEF Refueled
<1>2. CASE input.cans # None
  <2>1. PICK cans, added : cans = input.cans /\ added = Added(r, input.cans)
    OBVIOUS
  <2>2. cans \in Nat
    BY <1>2, <2>1 DEF Inputs
  <2>3. added \in Int /\ added <= cans * CanCharges /\ r.fuel + added \in Nat
    BY <2>1, <2>2, AddedBounds
  <2>4. CansUsed(added) \in Int /\ CansUsed(added) <= cans
    BY <2>2, <2>3, CansBounds
  <2>5. r.parts \in Bag /\ FuelCan \in Parts /\ r.parts[FuelCan] \in Nat
    BY StashAssumption DEF Row, Bag
  <2>6. With(r.parts, FuelCan, -CansUsed(added)) \in Bag
    BY <1>2, <2>1, <2>2, <2>4, <2>5, BagWith
  <2>7. Refueled(r, input) = [r EXCEPT !.fuel = r.fuel + added, !.parts = With(r.parts, FuelCan, -CansUsed(added))]
    BY <1>2, <2>1 DEF Refueled, Row
  <2>. QED  BY <2>3, <2>6, <2>7 DEF Row
<1>. QED  BY <1>1, <1>2

LEMMA UpgradedTyped ==
  ASSUME NEW r \in Row, NEW u \in Upgrades, CanUpgrade(r, u)
  PROVE  Upgraded(r, u) \in Row
<1>1. PICK next, needed : next = r.level[u] + 1 /\ needed = Times(next, UpgradeParts[u])
  OBVIOUS
<1>2. next \in Nat /\ next * UpgradeCash[u] \in Nat /\ r.cash \in Nat
  <2>1. next \in Nat /\ UpgradeCash[u] \in Nat
    BY <1>1, StashAssumption DEF Row
  <2>. QED  BY <2>1, TimesNat DEF Row
<1>3. needed \in Bag
  BY <1>1, <1>2, BagTimes, StashAssumption
<1>4. Without(r.parts, needed) \in Bag
  BY <1>1, <1>3, BagWithout DEF CanUpgrade, Row
<1>5. r.cash - next * UpgradeCash[u] \in Nat
  BY <1>1, <1>2 DEF CanUpgrade
<1>6. [r.level EXCEPT ![u] = next] \in [Upgrades -> Nat]
  BY <1>2 DEF Row
<1>7. Upgraded(r, u) = [r EXCEPT !.cash = r.cash - next * UpgradeCash[u],
                                 !.parts = Without(r.parts, needed),
                                 !.level = [r.level EXCEPT ![u] = next]]
  BY <1>1 DEF Upgraded, Row
<1>. QED  BY <1>4, <1>5, <1>6, <1>7 DEF Row

\* The row the generator panel computes, from a row it let the request through on.
LEMMA GeneratorTyped ==
  ASSUME NEW r \in Row, NEW input \in Inputs, GeneratorAllows(r, input)
  PROVE  /\ GeneratorUpdated(r, input) \in Row
         /\ Refueled(Switched(r, input), input) \in Row
         /\ input.upgrade # None => /\ input.upgrade \in Upgrades
                                    /\ CanUpgrade(Refueled(Switched(r, input), input), input.upgrade)
<1>1. PICK s : s = Switched(r, input)
  OBVIOUS
<1>2. s \in Row /\ s.fuel = r.fuel /\ s.parts = r.parts /\ s.cash = r.cash /\ s.level = r.level
  BY <1>1, SwitchedTyped
<1>3. Refueled(s, input) \in Row /\ Refueled(s, input).cash = s.cash /\ Refueled(s, input).level = s.level
  BY <1>2, RefueledTyped DEF GeneratorAllows
<1>4. Refueled(r, input) \in Row /\ Refueled(r, input).cash = r.cash /\ Refueled(r, input).level = r.level
  BY RefueledTyped DEF GeneratorAllows
<1>5. Refueled(s, input).parts = Refueled(r, input).parts
  BY <1>2 DEF Refueled, Added, Row
<1>6. input.upgrade # None => /\ input.upgrade \in Upgrades
                              /\ CanUpgrade(Refueled(s, input), input.upgrade)
  <2>1. input.upgrade # None => input.upgrade \in Upgrades
    BY DEF Inputs
  <2>. QED  BY <2>1, <1>2, <1>3, <1>4, <1>5 DEF GeneratorAllows, CanUpgrade
<1>7. GeneratorUpdated(r, input) \in Row
  BY <1>1, <1>3, <1>6, UpgradedTyped DEF GeneratorUpdated
<1>. QED  BY <1>1, <1>3, <1>6, <1>7

\* Columns of one row and of another make a row.
LEMMA ColumnsTyped ==
  ASSUME NEW r \in Row, NEW s \in Row, NEW columns
  PROVE  Merged(r, s, columns) \in Row
<1>1. PICK levels : levels = [u \in Upgrades |-> IF u \in columns THEN s.level[u] ELSE r.level[u]]
  OBVIOUS
<1>2. levels \in [Upgrades -> Nat]
  BY <1>1 DEF Row
<1>3. Merged(r, s, columns) =
        [column \in DOMAIN r |-> IF column = "level" THEN levels
                                 ELSE IF column \in columns THEN s[column] ELSE r[column]]
  BY <1>1 DEF Merged
<1>. QED  BY <1>2, <1>3 DEF Row

-----------------------------------------------------------------------------
(* Types, whatever races *)

\* A request under way was let through on the row it read.
LetThrough == \A h \in Handlers : req[h] # None /\ req[h].op = "generator" => GeneratorAllows(req[h].seen, req[h].input)

StashInv == TypeOK /\ LetThrough

LEMMA InitOK == Init => StashInv
<1>1. SUFFICES ASSUME Init PROVE StashInv
  OBVIOUS
<1>2. row \in Row
  BY <1>1, StashAssumption DEF Init, Row, Bag
<1>. QED  BY <1>1, <1>2, StashAssumption DEF Init, StashInv, TypeOK, LetThrough

LEMMA ServeTyped == ASSUME TypeOK, Serve PROVE served' \in 0..MaxServed
  BY StashAssumption DEF TypeOK, Serve

\* A request that locks the row may burn fuel; none pours.
LocksInto(new) == Locked(new) /\ new.fuel <= row.fuel

\* What a request that locks the row makes of it.
LEMMA LockedTyped ==
  ASSUME StashInv, LocksRow
  PROVE  \E new \in Row : LocksInto(new)
<1>1. row \in Row /\ row.parts \in Bag /\ row.escrow \in Bag /\ row.fuel \in Nat
  BY DEF StashInv, TypeOK, Row
<1>2. \A k \in Parts : row.parts[k] \in Nat /\ row.escrow[k] \in Nat
  BY <1>1 DEF Bag
<1>3. ASSUME NEW k \in Parts, Post(k) PROVE \E new \in Row : LocksInto(new)
  <2>1. With(row.parts, k, -1) \in Bag /\ With(row.escrow, k, 1) \in Bag
    BY <1>1, <1>2, <1>3, BagWith DEF Post
  <2>8. PICK new : new = [row EXCEPT !.cash = @ - Fee, !.parts = With(@, k, -1), !.escrow = With(@, k, 1)]
    OBVIOUS
  <2>2. new \in Row
    <3>1. row.cash - Fee \in Nat
      BY <1>1, <1>3, StashAssumption DEF Post, Row
    <3>. QED  BY <1>1, <2>1, <2>8, <3>1 DEF Row
  <2>9. new.fuel <= row.fuel
    BY <1>1, <2>8 DEF Row
  <2>10. Locked(new)
    BY <1>3, <2>8 DEF Post
  <2>. QED  BY <2>2, <2>9, <2>10 DEF LocksInto
<1>4. ASSUME NEW k \in Parts, TakeBack(k) PROVE \E new \in Row : LocksInto(new)
  <2>1. With(row.parts, k, 1) \in Bag /\ With(row.escrow, k, -1) \in Bag
    BY <1>1, <1>2, <1>4, BagWith DEF TakeBack
  <2>8. PICK new : new = [row EXCEPT !.parts = With(@, k, 1), !.escrow = With(@, k, -1)]
    OBVIOUS
  <2>2. new \in Row
    BY <1>1, <2>1, <2>8 DEF Row
  <2>9. new.fuel <= row.fuel
    BY <1>1, <2>8 DEF Row
  <2>10. Locked(new)
    BY <1>4, <2>8 DEF TakeBack
  <2>. QED  BY <2>2, <2>9, <2>10 DEF LocksInto
<1>5. ASSUME NEW k \in Parts, Trade(k) PROVE \E new \in Row : LocksInto(new)
  <2>1. Price[k].parts \in Bag /\ Price[k].cash \in Nat
    BY StashAssumption
  <2>2. PICK rest : rest = Without(row.parts, Price[k].parts)
    OBVIOUS
  <2>3. rest \in Bag /\ rest[k] \in Nat
    BY <1>1, <1>5, <2>1, <2>2, BagWithout DEF Trade, Bag
  <2>4. With(rest, k, 1) \in Bag
    BY <2>3, BagWith
  <2>8. PICK new : new = [row EXCEPT !.cash = @ - Price[k].cash, !.parts = With(Without(@, Price[k].parts), k, 1)]
    OBVIOUS
  <2>5. new \in Row
    <3>1. row.cash - Price[k].cash \in Nat
      BY <1>1, <1>5, <2>1 DEF Trade, Row
    <3>. QED  BY <1>1, <2>2, <2>4, <2>8, <3>1 DEF Row
  <2>9. new.fuel <= row.fuel
    BY <1>1, <2>8 DEF Row
  <2>10. Locked(new)
    BY <1>5, <2>8 DEF Trade
  <2>. QED  BY <2>5, <2>9, <2>10 DEF LocksInto
<1>6. ASSUME NEW k \in Parts, NEW caches \in SUBSET Caches, Scout(k, caches) PROVE \E new \in Row : LocksInto(new)
  <2>1. With(row.parts, k, 1) \in Bag
    BY <1>1, <1>2, BagWith
  <2>8. PICK new : new = [row EXCEPT !.parts = With(@, k, 1), !.caches = @ \cup caches, !.found = @ \cup caches]
    OBVIOUS
  <2>2. new \in Row
    BY <1>1, <2>1, <2>8 DEF Row
  <2>9. new.fuel <= row.fuel
    BY <1>1, <2>8 DEF Row
  <2>10. Locked(new)
    BY <1>6, <2>8 DEF Scout
  <2>. QED  BY <2>2, <2>9, <2>10 DEF LocksInto
<1>7. ASSUME NEW turns \in 1..MaxTurns, SpendTurns(turns) PROVE \E new \in Row : LocksInto(new)
  <2>1. PICK used : used = Lesser(row.fuel, turns * FuelPerTurn(row.level))
    OBVIOUS
  <2>2. used \in Nat /\ used <= row.fuel /\ row.fuel \in Nat
    <3>1. turns \in Nat /\ FuelPerTurn(row.level) \in Nat /\ row.fuel \in Nat
      BY <1>1, StashAssumption DEF FuelPerTurn, Row
    <3>2. turns * FuelPerTurn(row.level) \in Nat
      BY <3>1, TimesNat
    <3>. QED  BY <2>1, <3>1, <3>2 DEF Lesser
  <2>3. PICK on : on = (row.fuel > used)
    OBVIOUS
  <2>4. on \in BOOLEAN
    BY <2>3
  <2>8. PICK new : new = [row EXCEPT !.fuel = @ - used, !.powered = on]
    OBVIOUS
  <2>5. new \in Row
    <3>1. row.fuel - used \in Nat
      BY <2>2
    <3>. QED  BY <1>1, <2>4, <2>8, <3>1 DEF Row
  <2>9. new.fuel <= row.fuel
    BY <1>1, <2>2, <2>8 DEF Row
  <2>10. Locked(new)
    BY <1>7, <2>1, <2>3, <2>8 DEF SpendTurns
  <2>. QED  BY <2>5, <2>9, <2>10 DEF LocksInto
<1>. QED  BY <1>3, <1>4, <1>5, <1>6, <1>7 DEF LocksRow

LEMMA ReqSet ==
  ASSUME StashInv, NEW h \in Handlers, NEW new, req' = [req EXCEPT ![h] = new],
         \/ new = None
         \/ new \in Request /\ (new.op = "generator" => GeneratorAllows(new.seen, new.input))
  PROVE  req' \in [Handlers -> Request \cup {None}] /\ LetThrough'
  BY DEF StashInv, TypeOK, LetThrough

\* The row an open request writes.
LEMMA OpenedTyped ==
  ASSUME NEW r \in Row, NEW c \in Caches, NEW k \in Parts, NEW n \in 1..2
  PROVE  Opened(r, c, k, n) \in Row
<1>1. r.parts \in Bag /\ r.parts[k] \in Nat
  BY DEF Row, Bag
<1>2. With(r.parts, k, n) \in Bag
  BY <1>1, BagWith
<1>. QED  BY <1>2 DEF Opened, Row

LEMMA WritesKeep ==
  ASSUME StashInv, NEW h \in Handlers, NEW new \in Row, NEW columns, Writes(h, new, columns)
  PROVE  StashInv'
<1>1. row' \in Row
  BY ColumnsTyped DEF Writes, StashInv, TypeOK
<1>2. served' \in 0..MaxServed
  BY ServeTyped DEF Writes, StashInv
<1>3. req' \in [Handlers -> Request \cup {None}] /\ LetThrough'
  BY ReqSet DEF Writes
<1>. QED  BY <1>1, <1>2, <1>3 DEF StashInv, TypeOK

\* What a request under way has read, and asks for.
LEMMA RequestOf ==
  ASSUME StashInv, NEW h \in Handlers, req[h] # None
  PROVE  /\ req[h].seen \in Row
         /\ req[h].op = "open" => req[h].cache \in Caches
         /\ req[h].op = "generator" => /\ req[h].input \in Inputs
                                       /\ GeneratorAllows(req[h].seen, req[h].input)
<1>1. req[h] \in Request
  BY DEF StashInv, TypeOK
<1>. QED  BY <1>1 DEF Request, StashInv, LetThrough

LEMMA UnlockedStep ==
  ASSUME StashInv, NEW h \in Handlers, TakesNoLock(h)
  PROVE  StashInv'
<1>1. ASSUME NEW c \in Caches, ReadOpen(h, c) PROVE StashInv'
  <2>1. PICK new : new = [op |-> "open", cache |-> c, seen |-> row]
    OBVIOUS
  <2>2. new \in Request /\ new.op # "generator"
    BY <2>1 DEF Request, StashInv, TypeOK
  <2>3. req' \in [Handlers -> Request \cup {None}] /\ LetThrough'
    BY <1>1, <2>1, <2>2, ReqSet DEF ReadOpen
  <2>. QED  BY <1>1, <2>3 DEF ReadOpen, StashInv, TypeOK
<1>2. ASSUME NEW input \in Inputs, ReadGenerator(h, input) PROVE StashInv'
  <2>1. PICK new : new = [op |-> "generator", cache |-> None, input |-> input, seen |-> row]
    OBVIOUS
  <2>2. new \in Request /\ GeneratorAllows(new.seen, new.input)
    BY <1>2, <2>1 DEF Request, StashInv, TypeOK, ReadGenerator
  <2>3. req' \in [Handlers -> Request \cup {None}] /\ LetThrough'
    BY <1>2, <2>1, <2>2, ReqSet DEF ReadGenerator
  <2>. QED  BY <1>2, <2>3 DEF ReadGenerator, StashInv, TypeOK
<1>3. ASSUME NEW k \in Parts, NEW n \in 1..2, WriteOpen(h, k, n) PROVE StashInv'
  <2>1. Opened(req[h].seen, req[h].cache, k, n) \in Row
    BY <1>3, RequestOf, OpenedTyped DEF WriteOpen
  <2>. QED  BY <1>3, <2>1, WritesKeep DEF WriteOpen
<1>4. ASSUME WriteGenerator(h) PROVE StashInv'
  <2>1. GeneratorUpdated(req[h].seen, req[h].input) \in Row
    BY <1>4, RequestOf, GeneratorTyped DEF WriteGenerator
  <2>. QED  BY <1>4, <2>1, WritesKeep DEF WriteGenerator
<1>5. ASSUME NEW powered \in BOOLEAN \cup {None}, NEW cans \in 0..MaxCans \cup {None},
             NEW upgrade \in Upgrades \cup {None}
      PROVE  [powered |-> powered, cans |-> cans, upgrade |-> upgrade] \in Inputs
  BY <1>5, StashAssumption DEF Inputs
<1>. QED  BY <1>1, <1>2, <1>3, <1>4, <1>5 DEF TakesNoLock

LEMMA NextOK == StashInv /\ [Next]_vars => StashInv'
<1>1. SUFFICES ASSUME StashInv, [Next]_vars PROVE StashInv'
  OBVIOUS
<1>2. CASE UNCHANGED vars
  BY <1>1, <1>2 DEF vars, StashInv, TypeOK, LetThrough
<1>3. CASE LocksRow
  <2>1. PICK new \in Row : Locked(new)
    BY <1>1, <1>3, LockedTyped DEF LocksInto
  <2>2. served' \in 0..MaxServed
    BY <1>1, <2>1, ServeTyped DEF Locked, StashInv
  <2>. QED  BY <1>1, <2>1, <2>2 DEF Locked, StashInv, TypeOK, LetThrough
<1>4. CASE \E h \in Handlers : TakesNoLock(h)
  BY <1>1, <1>4, UnlockedStep
<1>. QED  BY <1>1, <1>2, <1>3, <1>4 DEF Next

LEMMA InvariantHolds == Spec => []StashInv
  BY InitOK, NextOK, PTL DEF Spec

\* No race takes the cash, a part, the fuel or an upgrade of a row below zero: each
\* unlocked request writes columns that were covered by the row it read, stale or not
\* (scavenging.service.ts open, generator.service.ts update).
THEOREM StashTypeCorrect == Spec => []TypeOK
<1>1. StashInv => TypeOK
  BY DEF StashInv
<1>. QED  BY <1>1, InvariantHolds, PTL

-----------------------------------------------------------------------------
(* Fuel, whatever races *)

\* What was burned and what is left was poured from cans, but for the drift.
FuelInv ==
  /\ books.burned \in Int /\ books.cans \in Int /\ books.drift \in Int
  /\ FuelPaidFor

LEMMA TimesPlus ==
  ASSUME NEW c \in Nat, NEW x \in Int, NEW y \in Int
  PROVE  c * (x + y) = c * x + c * y /\ c * x \in Int /\ c * y \in Int
  OBVIOUS

\* The cans pay for what going from old to new pours into the tank.
PaidInCans(old, new) ==
  new.fuel > old.fuel => new.fuel - old.fuel <= CanCharges * (old.parts[FuelCan] - new.parts[FuelCan])

\* Cans pay for what they add, burned charges for themselves, and the drift is the rest.
LEMMA ToldFuel ==
  ASSUME FuelInv, NEW old \in Row, NEW new \in Row, NEW drift \in Int, Told(old, new, drift),
         PaidInCans(old, new), row \in Row,
         row'.fuel = row.fuel + (new.fuel - old.fuel) + drift
  PROVE  FuelInv'
<1>1. /\ old.fuel \in Nat /\ new.fuel \in Nat /\ row.fuel \in Nat
      /\ old.parts[FuelCan] \in Nat /\ new.parts[FuelCan] \in Nat /\ CanCharges \in Nat
  BY StashAssumption DEF Row, Bag
<1>2. /\ books.burned \in Int /\ books.cans \in Int /\ books.drift \in Int
      /\ row.fuel + books.burned <= CanCharges * books.cans + books.drift
  BY DEF FuelInv, FuelPaidFor
<1>3. PICK d : d = old.parts[FuelCan] - new.parts[FuelCan]
  OBVIOUS
<1>4. d \in Int
  BY <1>1, <1>3
<1>5. /\ books'.cans = books.cans + (IF new.fuel > old.fuel THEN d ELSE 0)
      /\ books'.burned = books.burned + (IF new.fuel < old.fuel THEN old.fuel - new.fuel ELSE 0)
      /\ books'.drift = books.drift + drift
  BY <1>3 DEF Told
<1>6. CanCharges * books.cans \in Int /\ CanCharges * d \in Int
      /\ CanCharges * (books.cans + d) = CanCharges * books.cans + CanCharges * d
  BY <1>1, <1>2, <1>4, TimesPlus
<1>7. CASE new.fuel > old.fuel
  <2>1. new.fuel - old.fuel <= CanCharges * d
    BY <1>3, <1>7 DEF PaidInCans
  <2>2. books'.cans = books.cans + d /\ books'.burned = books.burned
    BY <1>1, <1>2, <1>5, <1>7
  <2>3. row'.fuel + books'.burned <= CanCharges * books'.cans + books'.drift
    BY <1>1, <1>2, <1>5, <1>6, <2>1, <2>2
  <2>. QED  BY <1>2, <1>4, <1>5, <2>2, <2>3 DEF FuelInv, FuelPaidFor
<1>8. CASE ~(new.fuel > old.fuel)
  <2>1. books'.cans = books.cans /\ books'.burned = books.burned + (old.fuel - new.fuel)
    BY <1>1, <1>2, <1>5, <1>8
  <2>2. row'.fuel + books'.burned <= CanCharges * books'.cans + books'.drift
    BY <1>1, <1>2, <1>5, <1>6, <2>1
  <2>. QED  BY <1>1, <1>2, <1>5, <2>1, <2>2 DEF FuelInv, FuelPaidFor
<1>. QED  BY <1>7, <1>8

\* What the generator panel pours, it takes from the cans, rounding up.
LEMMA GeneratorFuel ==
  ASSUME NEW r \in Row, NEW input \in Inputs, GeneratorAllows(r, input),
         NEW new, new = GeneratorUpdated(r, input)
  PROVE  PaidInCans(r, new) /\ (input.cans = None => new.fuel = r.fuel)
<1>1. PICK s, f : s = Switched(r, input) /\ f = Refueled(s, input)
  OBVIOUS
<1>2. s \in Row /\ s.fuel = r.fuel /\ s.parts = r.parts
  BY <1>1, SwitchedTyped
<1>3. f \in Row
  BY <1>1, <1>2, RefueledTyped DEF GeneratorAllows
<1>4. /\ r.fuel \in Nat /\ f.fuel \in Nat /\ r.parts[FuelCan] \in Nat /\ f.parts[FuelCan] \in Nat
      /\ CanCharges \in Nat /\ FuelCan \in Parts
  BY <1>3, StashAssumption DEF Row, Bag
<1>5. PaidInCans(r, f) /\ (input.cans = None => f.fuel = r.fuel)
  <2>1. CASE input.cans = None
    BY <1>1, <1>2, <1>4, <2>1 DEF Refueled, PaidInCans
  <2>2. CASE input.cans # None
    <3>1. PICK cans, added : cans = input.cans /\ added = Added(s, input.cans)
      OBVIOUS
    <3>2. cans \in Nat
      BY <2>2, <3>1 DEF Inputs
    <3>3. added \in Int /\ added <= cans * CanCharges
      BY <1>2, <3>1, <3>2, AddedBounds
    <3>4. CansUsed(added) \in Int /\ added <= CanCharges * CansUsed(added)
      BY <3>2, <3>3, CansBounds
    <3>5. f = [s EXCEPT !.fuel = s.fuel + added, !.parts = With(s.parts, FuelCan, -CansUsed(added))]
      BY <1>1, <1>2, <2>2, <3>1 DEF Refueled, Row
    <3>6. f.fuel = r.fuel + added /\ f.parts = With(s.parts, FuelCan, -CansUsed(added))
      BY <1>2, <3>5 DEF Row
    <3>7. f.parts[FuelCan] = r.parts[FuelCan] - CansUsed(added)
      BY <1>2, <1>4, <3>4, <3>6 DEF With, Row, Bag
    <3>8. r.parts[FuelCan] - f.parts[FuelCan] = CansUsed(added) /\ f.fuel - r.fuel = added
      BY <1>4, <3>3, <3>4, <3>6, <3>7
    <3>. QED  BY <2>2, <3>4, <3>8 DEF PaidInCans
  <2>. QED  BY <2>1, <2>2
<1>6. CASE input.upgrade = None
  BY <1>1, <1>5, <1>6 DEF GeneratorUpdated
<1>7. CASE input.upgrade # None
  <2>1. PICK u : u = input.upgrade
    OBVIOUS
  <2>2. u \in Upgrades /\ CanUpgrade(f, u) /\ new = Upgraded(f, u)
    BY <1>1, <1>7, <2>1, GeneratorTyped DEF GeneratorUpdated
  <2>3. PICK next, needed : next = f.level[u] + 1 /\ needed = Times(next, UpgradeParts[u])
    OBVIOUS
  <2>4. next \in Nat
    BY <1>3, <2>2, <2>3 DEF Row
  <2>5. needed \in Bag
    BY <2>2, <2>3, <2>4, BagTimes, StashAssumption
  <2>6. new.fuel = f.fuel /\ new.parts = Without(f.parts, needed)
    BY <1>3, <2>2, <2>3 DEF Upgraded, Row
  <2>7. new.parts[FuelCan] <= f.parts[FuelCan] /\ new.parts[FuelCan] \in Int
    BY <1>4, <2>5, <2>6 DEF Without, Bag
  <2>8. CanCharges * (r.parts[FuelCan] - f.parts[FuelCan]) <= CanCharges * (r.parts[FuelCan] - new.parts[FuelCan])
    BY <1>4, <2>7, TimesGrows
  <2>9. /\ CanCharges * (r.parts[FuelCan] - f.parts[FuelCan]) \in Int
        /\ CanCharges * (r.parts[FuelCan] - new.parts[FuelCan]) \in Int
    BY <1>4, <2>7
  <2>. QED  BY <1>4, <1>5, <2>6, <2>8, <2>9 DEF PaidInCans
<1>. QED  BY <1>6, <1>7

\* A request that took no lock writes columns it computed from the row it read: what it
\* pours is paid for, and what it writes over is drift.
LEMMA WritesFuel ==
  ASSUME StashInv, FuelInv, NEW h \in Handlers, NEW new \in Row, NEW columns,
         req[h] # None, Writes(h, new, columns), PaidInCans(req[h].seen, new),
         "fuel" \in columns \/ new.fuel = req[h].seen.fuel
  PROVE  FuelInv'
<1>1. row \in Row /\ req[h].seen \in Row
  BY RequestOf DEF StashInv, TypeOK
<1>2. PICK seen, drift : seen = req[h].seen /\ drift = IF "fuel" \in columns THEN seen.fuel - row.fuel ELSE 0
  OBVIOUS
<1>3. seen.fuel \in Nat /\ row.fuel \in Nat /\ new.fuel \in Nat
  BY <1>1, <1>2 DEF Row
<1>4. drift \in Int
  BY <1>2, <1>3
<1>5. Told(seen, new, drift)
  BY <1>2 DEF Writes
<1>6. row'.fuel = IF "fuel" \in columns THEN new.fuel ELSE row.fuel
  BY <1>1 DEF Writes, Merged, Row
<1>7. row'.fuel = row.fuel + (new.fuel - seen.fuel) + drift
  BY <1>2, <1>3, <1>6
<1>. QED  BY <1>1, <1>2, <1>4, <1>5, <1>7, ToldFuel

LEMMA FuelStep ==
  ASSUME StashInv, FuelInv, [Next]_vars
  PROVE  FuelInv'
<1>1. row \in Row
  BY DEF StashInv, TypeOK
<1>2. CASE UNCHANGED vars
  BY <1>2 DEF vars, FuelInv, FuelPaidFor
<1>3. CASE LocksRow
  <2>1. PICK new \in Row : LocksInto(new)
    BY <1>3, LockedTyped
  <2>2. row' = new /\ Told(row, new, 0) /\ new.fuel <= row.fuel
    BY <2>1 DEF LocksInto, Locked
  <2>3. row.fuel \in Nat /\ new.fuel \in Nat
    BY <1>1 DEF Row
  <2>4. PaidInCans(row, new)
    BY <2>2, <2>3 DEF PaidInCans
  <2>5. row'.fuel = row.fuel + (new.fuel - row.fuel) + 0
    BY <2>2, <2>3
  <2>. QED  BY <1>1, <2>2, <2>4, <2>5, ToldFuel
<1>4. ASSUME NEW h \in Handlers, NEW c \in Caches, ReadOpen(h, c) PROVE FuelInv'
  BY <1>4 DEF ReadOpen, FuelInv, FuelPaidFor
<1>5. ASSUME NEW h \in Handlers, NEW input, ReadGenerator(h, input) PROVE FuelInv'
  BY <1>5 DEF ReadGenerator, FuelInv, FuelPaidFor
<1>6. ASSUME NEW h \in Handlers, NEW k \in Parts, NEW n \in 1..2, WriteOpen(h, k, n) PROVE FuelInv'
  <2>1. req[h] # None /\ req[h].seen \in Row /\ req[h].cache \in Caches
    BY <1>6, RequestOf DEF WriteOpen
  <2>2. PICK new : new = Opened(req[h].seen, req[h].cache, k, n)
    OBVIOUS
  <2>3. new \in Row
    BY <2>1, <2>2, OpenedTyped
  <2>4. new.fuel = req[h].seen.fuel /\ new.fuel \in Nat
    BY <2>1, <2>2 DEF Opened, Row
  <2>5. PaidInCans(req[h].seen, new)
    BY <2>4 DEF PaidInCans
  <2>6. Writes(h, new, {"parts", "caches"})
    BY <1>6, <2>2 DEF WriteOpen
  <2>. QED  BY <2>1, <2>3, <2>4, <2>5, <2>6, WritesFuel
<1>7. ASSUME NEW h \in Handlers, WriteGenerator(h) PROVE FuelInv'
  <2>1. /\ req[h] # None /\ req[h].seen \in Row /\ req[h].input \in Inputs
        /\ GeneratorAllows(req[h].seen, req[h].input)
    BY <1>7, RequestOf DEF WriteGenerator
  <2>2. PICK input, new : input = req[h].input /\ new = GeneratorUpdated(req[h].seen, input)
    OBVIOUS
  <2>3. new \in Row
    BY <2>1, <2>2, GeneratorTyped
  <2>4. PaidInCans(req[h].seen, new) /\ (input.cans = None => new.fuel = req[h].seen.fuel)
    BY <2>1, <2>2, GeneratorFuel
  <2>5. PICK columns : Writes(h, new, columns) /\ (input.cans # None => "fuel" \in columns)
    BY <1>7, <2>2 DEF WriteGenerator
  <2>. QED  BY <2>1, <2>3, <2>4, <2>5, WritesFuel
<1>8. CASE \E h \in Handlers : TakesNoLock(h)
  BY <1>4, <1>5, <1>6, <1>7, <1>8 DEF TakesNoLock
<1>. QED  BY <1>2, <1>3, <1>8 DEF Next

LEMMA FuelInit == Init => FuelInv
  BY StashAssumption DEF Init, FuelInv, FuelPaidFor

\* Every charge in the tank or burned was poured from a can, ten a can, but for what an
\* unlocked refuel wrote over: with any number of requests at once, rounding, a full
\* tank and upgrades in between never give a charge away (generator.service.ts update).
THEOREM FuelAlwaysPaidFor == Spec => []FuelPaidFor
<1>1. Init => FuelInv
  BY FuelInit
<1>2. StashInv /\ FuelInv /\ [Next]_vars => FuelInv'
  BY FuelStep
<1>3. FuelInv => FuelPaidFor
  BY DEF FuelInv
<1>. QED  BY <1>1, <1>2, <1>3, InvariantHolds, PTL DEF Spec

===============================================================================
