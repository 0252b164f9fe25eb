------------------------------ MODULE PlayerBoard ------------------------------
(***************************************************************************)
(* The Board: the escrow market of apps/server/src/services/               *)
(* player-board.service.ts.  A player posts a stack out of his holdings    *)
(* into escrow; other players buy units of it for cash or a basket of      *)
(* goods; a cancel or an expiry brings what is left back.                  *)
(*                                                                         *)
(* The committed rows of the database are the record db.  The body of a    *)
(* transaction is an operator from rows to rows, so a refusal (a throw     *)
(* inside the transaction) is simply no change of db.  Around the bodies,  *)
(* a request handler first reads the round row, later takes the time of    *)
(* the call, then waits for the row locks of the players it touches, one   *)
(* at a time, and only then runs its body and commits.                     *)
(***************************************************************************)
EXTENDS Integers, Sequences, FiniteSets, Functions

CONSTANTS
  Players,     \* ids of the round's players; rows are locked in id order
  Items,       \* listable item keys: parts, drugs and keeper goods
  Bulky,       \* two-cell goods, which a crowded stash grid may refuse
  Armory,      \* goods kept as individual items under a capacity
  ArmoryCap,
  OfferIds,    \* ids of the offers the model may post, in creation order
  Handlers,    \* request handlers running at once
  ActionIds,   \* action ids clients attach to a purchase
  Listings,    \* listing forms submitted
  MaxUnits,    \* largest quantity a buyer asks for (0: all that is left)
  OfferSlots,  \* OfferSlots[p]: open offers p's Board reputation allows
  MaxAskItems, \* ruleset playerBoard.maxAskItems
  Book,        \* Book[k]: book value of one unit, in cents
  FeePercent, FeeMin,
  Minute,      \* clock ticks in a minute: pauses are credited in whole minutes
  Retention,   \* how long a completed action id answers with its receipt
  MaxClock,    \* bound on the clock
  PauseTimes,  \* bound on pauses: the instants at which staff may pause the round
  SeasonEnd,   \* the round's first end date
  StartCash, StartHeld, StartTagged,
  None,        \* a missing row or column
  Closed       \* a stall that is over, in the market the Board implements

VARIABLES
  clock,  \* wall-clock time
  round,  \* the Round row: pausedAt, pausedMinutesTotal, endsAt
  db,     \* the committed player, offer, fill and processed-action rows
  req,    \* req[h]: the request handler h is serving, or None
  lock,   \* lock[p]: the handler whose transaction holds p's row, or None
  idle    \* the ticks that passed while the round was paused (a history variable)

vars == <<clock, round, db, req, lock, idle>>

-----------------------------------------------------------------------------
(* Types *)

Goods == [Items -> Nat]
NoGoods == [k \in Items |-> 0]

Listing == [item: Items, quantity: Nat \ {0}, price: Nat, ask: Goods, lasts: Nat \ {0}]

Round == [pausedAt: Nat \cup {None}, pausedMinutes: Nat, endsAt: Nat]

OfferStatus == {"OPEN", "SOLD", "CANCELLED", "EXPIRED"}

Offer == [seller: Players, item: Items, quantity: Nat \ {0}, left: Nat, price: Nat,
          ask: Goods, fee: Nat, postedAt: Nat, expiresAt: Nat, pausedAtPost: Nat,
          status: OfferStatus, returnedAt: Nat \cup {None}]

\* "action" and "at", the client's action id and the time of the commit, are
\* kept for the properties; the row itself has createdAt.
Fill == [offer: OfferIds, buyer: Players, units: Nat \ {0}, paid: Nat,
         createdAt: Nat, action: ActionIds \cup {None}, at: Nat]

Receipt == [offer: OfferIds, units: Nat \ {0}, paid: Nat, expiresAt: Nat]

Rows == [cash: [Players -> Nat], held: [Players -> Goods], escrow: [Players -> Goods],
         tagged: [Players -> Goods], escrowTagged: [Players -> Goods],
         crowded: [Players -> SUBSET Items],
         offers: [OfferIds -> Offer \cup {None}], fills: Seq(Fill),
         processed: [Players -> [ActionIds -> Receipt \cup {None}]]]

Ops == {"post", "cancel", "fill", "mine", "book"}

Request == [step: {"routed", "called"}, op: Ops, who: Players,
            offer: OfferIds \cup {None}, form: Listings \cup {None}, units: Nat,
            action: ActionIds \cup {None}, round: Round, now: Nat, due: SUBSET Players]

ASSUME BoardAssumption ==
  /\ Players \subseteq Nat
  /\ OfferIds \subseteq Nat /\ IsFiniteSet(OfferIds)
  /\ IsFiniteSet(Players) /\ IsFiniteSet(Items)
  /\ Bulky \subseteq Items /\ Armory \subseteq Items
  /\ Listings \subseteq Listing
  /\ OfferSlots \in [Players -> Nat] /\ Book \in Goods
  /\ {ArmoryCap, MaxAskItems, FeePercent, FeeMin, Retention, MaxClock, SeasonEnd, MaxUnits}
       \subseteq Nat
  /\ Minute \in Nat \ {0}
  /\ StartCash \in [Players -> Nat] /\ StartHeld \in [Players -> Goods]
  /\ StartTagged \in [Players -> Goods]

\* None stands for a missing row or column and is none of the values it is tested against.
ASSUME NoneAssumption ==
  /\ None \notin Offer /\ None \notin Receipt /\ None \notin Request
  /\ None \notin Players /\ None \notin Handlers /\ None \notin Nat
  /\ None \notin ActionIds /\ None \notin OfferIds /\ None \notin Listings

-----------------------------------------------------------------------------
(* Helpers *)

Least(a, b) == IF a <= b THEN a ELSE b
AtLeastZero(n) == IF n >= 0 THEN n ELSE 0

\* A bag of goods holding n of item k.
Only(k, n) == [i \in Items |-> IF i = k THEN n ELSE 0]

\* A bag of goods with n more of item k.
Plus(goods, k, n) == [goods EXCEPT ![k] = @ + n]

\* The units the offers in S still hold, one pair for each unit.
UnitsIn(offers, S) == UNION {{o} \X (1..offers[o].left) : o \in S}
LeftIn(offers, S) == Cardinality(UnitsIn(offers, S))

IsBarter(x) == x.ask # NoGoods

PostingFee(form) ==
  LET percent == (Book[form.item] * form.quantity * FeePercent + 99) \div 100
  IN  IF percent >= FeeMin THEN percent ELSE FeeMin

\* A form the Board takes: a cash price of at least one cent, or a basket of
\* few enough other goods.
Acceptable(form) ==
  IF IsBarter(form)
  THEN /\ form.ask[form.item] = 0
       /\ Cardinality({k \in Items : form.ask[k] > 0}) <= MaxAskItems
  ELSE form.price >= 1

\* Mutant: forgets the pause still running.
ExpiresAtBookedPauses(offer, r, now) ==
  offer.expiresAt + Minute * AtLeastZero(r.pausedMinutes - offer.pausedAtPost)

\* The instant an offer closes: its wall-clock expiry pushed back by the whole
\* minutes paused since it was posted and by a pause still running.
ExpiresAt(offer, r, now) ==
  offer.expiresAt
    + Minute * AtLeastZero(r.pausedMinutes - offer.pausedAtPost)
    + (IF r.pausedAt = None THEN 0 ELSE AtLeastZero(now - r.pausedAt))

Playable(r, now) == r.endsAt > now /\ r.pausedAt = None

Posted(d) == {o \in OfferIds : d.offers[o] # None}
OffersOf(d, p) == {o \in Posted(d) : d.offers[o].seller = p}
OpenOffersOf(d, p) == {o \in OffersOf(d, p) : d.offers[o].status = "OPEN"}

\* Offers whose stack is in escrow: open, or expired and not yet handed back.
InEscrow(offer) == offer.status = "OPEN" \/ (offer.status = "EXPIRED" /\ offer.returnedAt = None)
HeldOffers(d, p, k) == {o \in OffersOf(d, p) : d.offers[o].item = k /\ InEscrow(d.offers[o])}

\* Drugs take no stash cell and a one-cell part always finds one; a two-cell
\* good lands on its own stack or in a free gap of the grid.
NeedsGap(d, p, k) == k \in Bulky /\ d.held[p][k] = 0
HasRoom(d, p, k) == NeedsGap(d, p, k) => k \notin d.crowded[p]

ArmoryUnits(goods) == SumFunctionOnSet(goods, Armory)

-----------------------------------------------------------------------------
(* Transaction bodies: operators from rows to rows *)

\* Mutant: the stack comes back but stays in the escrow column.
ReturnStacksTwice(d, p, back) ==
  [d EXCEPT !.held[p] = [k \in Items |-> @[k] + back[k]]]

\* Mutant: the tags come back but stay on the escrow.
ReturnStacksRetagged(d, p, back) ==
  [d EXCEPT
    !.held[p]   = [k \in Items |-> @[k] + back[k]],
    !.escrow[p] = [k \in Items |-> AtLeastZero(@[k] - back[k])],
    !.tagged[p] = [k \in Items |-> @[k] + Least(back[k], d.escrowTagged[p][k])]]

\* returnStack: escrow back to the seller, found-in-raid tags first.
ReturnStacks(d, p, back) ==
  LET tags == [k \in Items |-> Least(back[k], d.escrowTagged[p][k])]
  IN  [d EXCEPT
        !.held[p]         = [k \in Items |-> @[k] + back[k]],
        !.escrow[p]       = [k \in Items |-> AtLeastZero(@[k] - back[k])],
        !.tagged[p]       = [k \in Items |-> @[k] + tags[k]],
        !.escrowTagged[p] = [k \in Items |-> @[k] - tags[k]]]

DueOffers(d, p, r, now) ==
  {o \in OpenOffersOf(d, p) : d.offers[o].expiresAt <= now /\ ExpiresAt(d.offers[o], r, now) <= now}

\* The seller's expired stacks, those expiring now included.
Lapsed(d, p, r, now) ==
  DueOffers(d, p, r, now)
    \cup {o \in OffersOf(d, p) : d.offers[o].status = "EXPIRED" /\ d.offers[o].returnedAt = None}

\* settleSeller hands stacks back oldest first, each into whatever gap the ones
\* before it left: of the two-cell goods that need one, the oldest that fits
\* lands, and whether a later one still fits depends on the grid.
Landings(d, p, r, now) ==
  LET fits == {o \in Lapsed(d, p, r, now) :
                 NeedsGap(d, p, d.offers[o].item) /\ HasRoom(d, p, d.offers[o].item)}
      kinds == {d.offers[o].item : o \in fits}
  IN  {L \in SUBSET kinds :
         fits # {} => \E o \in fits : /\ d.offers[o].item \in L
                                      /\ \A x \in fits : d.offers[o].postedAt <= d.offers[x].postedAt}

\* settleSeller: expire what is due and hand back every lapsed stack that fits.
Settled(d, p, r, now, landing) ==
  LET lapsed == Lapsed(d, p, r, now)
      home == {o \in lapsed : NeedsGap(d, p, d.offers[o].item) => d.offers[o].item \in landing}
      back == [k \in Items |-> LeftIn(d.offers, {o \in home : d.offers[o].item = k})]
  IN  [ReturnStacks(d, p, back) EXCEPT
        !.offers = [o \in OfferIds |->
                      IF o \in lapsed
                      THEN [d.offers[o] EXCEPT !.status = "EXPIRED",
                                                !.returnedAt = IF o \in home THEN now ELSE None]
                      ELSE d.offers[o]]]

\* Mutant: no look at the cash the fee comes out of.
CanPostOnCredit(d, p, form) ==
  /\ Cardinality(OpenOffersOf(d, p)) < OfferSlots[p]
  /\ d.held[p][form.item] >= form.quantity

CanPost(d, p, form) ==
  /\ Cardinality(OpenOffersOf(d, p)) < OfferSlots[p]
  /\ d.held[p][form.item] >= form.quantity
  /\ d.cash[p] >= PostingFee(form)

NewOffer(p, form, r, now) ==
  [seller |-> p, item |-> form.item, quantity |-> form.quantity, left |-> form.quantity,
   price |-> form.price, ask |-> form.ask, fee |-> PostingFee(form), postedAt |-> now,
   expiresAt |-> now + form.lasts, pausedAtPost |-> r.pausedMinutes,
   status |-> "OPEN", returnedAt |-> None]

WithPost(d, p, o, form, r, now) ==
  LET tags == Least(form.quantity, d.tagged[p][form.item])
  IN  [d EXCEPT
        !.cash[p]         = @ - PostingFee(form),
        !.held[p]         = Plus(@, form.item, -form.quantity),
        !.tagged[p]       = Plus(@, form.item, -tags),
        !.escrowTagged[p] = Plus(@, form.item, tags),
        !.escrow[p]       = Plus(@, form.item, form.quantity),
        !.offers[o]       = NewOffer(p, form, r, now)]

\* Mutant: any offer of the caller's, closed ones too.
CanCancelAny(d, p, o) ==
  /\ o \in OffersOf(d, p)
  /\ HasRoom(d, p, d.offers[o].item)

CanCancel(d, p, o) ==
  /\ o \in OpenOffersOf(d, p)
  /\ HasRoom(d, p, d.offers[o].item)

\* Mutant: the posting fee comes back with the stack.
WithCancelRefunded(d, p, o, now) ==
  LET offer == d.offers[o]
  IN  [ReturnStacks(d, p, Only(offer.item, offer.left)) EXCEPT
        !.cash[p] = @ + offer.fee,
        !.offers[o] = [offer EXCEPT !.status = "CANCELLED", !.returnedAt = now]]

WithCancel(d, p, o, now) ==
  LET offer == d.offers[o]
  IN  [ReturnStacks(d, p, Only(offer.item, offer.left)) EXCEPT
        !.offers[o] = [offer EXCEPT !.status = "CANCELLED", !.returnedAt = now]]

UnitsWanted(offer, units) == IF units = 0 THEN offer.left ELSE units

\* Mutant: an offer stays open when its last unit goes.
AfterSaleOpen(offer, units) == [offer EXCEPT !.left = @ - units]

AfterSale(offer, units) ==
  LET left == offer.left - units
  IN  [offer EXCEPT !.left = left, !.status = IF left = 0 THEN "SOLD" ELSE @]

\* Holdings after a trade of units of an offer's item for its basket.
BuyerGoods(goods, offer, units) ==
  [k \in Items |-> goods[k] - offer.ask[k] + (IF k = offer.item THEN units ELSE 0)]
SellerGoods(goods, offer) == [k \in Items |-> goods[k] + offer.ask[k]]

\* Mutant: the capacity is checked against what was held before the trade.
WithinArmoryBefore(acquired, goods) ==
  (\E k \in Armory : acquired[k] > 0) =>
    ArmoryUnits([k \in Items |-> goods[k] - acquired[k]]) <= ArmoryCap

\* Only goods a player takes in the trade are held to the armory's capacity.
WithinArmory(acquired, goods) ==
  (\E k \in Armory : acquired[k] > 0) => ArmoryUnits(goods) <= ArmoryCap

CanFill(d, b, o, units) ==
  LET offer == d.offers[o]
      s == offer.seller
  IN  /\ units >= 1 /\ units <= offer.left
      /\ IsBarter(offer) => units = offer.quantity
      /\ d.cash[b] >= offer.price * units
      /\ \A k \in Items : d.held[b][k] >= offer.ask[k]
      /\ HasRoom(d, b, offer.item)
      /\ \A k \in Items : offer.ask[k] > 0 => HasRoom(d, s, k)
      /\ WithinArmory(Only(offer.item, units), BuyerGoods(d.held[b], offer, units))
      /\ WithinArmory(offer.ask, SellerGoods(d.held[s], offer))

\* Cash, holdings and receipts after the trade; a drained balance stays at zero.
Paid(cash, b, s, paid) ==
  [p \in Players |-> cash[p] - (IF p = b THEN paid ELSE 0) + (IF p = s THEN paid ELSE 0)]
Traded(held, b, offer, units) ==
  [p \in Players |-> IF p = b THEN BuyerGoods(held[p], offer, units)
                     ELSE IF p = offer.seller THEN SellerGoods(held[p], offer)
                     ELSE held[p]]
Minus(goods, k, n) == [goods EXCEPT ![k] = AtLeastZero(@ - n)]
Recorded(receipts, action, receipt) ==
  [a \in ActionIds |-> IF a = action THEN receipt ELSE receipts[a]]

\* The trade, the fill row and, when the client sent an action id, its receipt.
WithFill(d, b, o, units, action, called, at) ==
  LET offer == d.offers[o]
      s == offer.seller
      paid == offer.price * units
      tags == Least(units, d.escrowTagged[s][offer.item])
      fill == [offer |-> o, buyer |-> b, units |-> units, paid |-> paid,
               createdAt |-> called, action |-> action, at |-> at]
      receipt == [offer |-> o, units |-> units, paid |-> paid, expiresAt |-> called + Retention]
  IN  [d EXCEPT
        !.cash            = Paid(@, b, s, paid),
        !.held            = Traded(@, b, offer, units),
        !.escrow[s]       = Minus(@, offer.item, units),
        !.escrowTagged[s] = Plus(@, offer.item, -tags),
        !.offers[o]       = AfterSale(offer, units),
        !.fills           = Append(@, fill),
        !.processed[b]    = Recorded(@, action, receipt)]

-----------------------------------------------------------------------------
(* Requests: the round row is read first, the time of the call taken later *)

Blank(op, p) ==
  [step |-> "routed", op |-> op, who |-> p, offer |-> None, form |-> None, units |-> 0,
   action |-> None, round |-> round, now |-> 0, due |-> {}]

Arrives(h, r) ==
  /\ req[h] = None
  /\ req' = [req EXCEPT ![h] = r]
  /\ UNCHANGED <<clock, round, db, lock, idle>>

AskPost(h, p, form) == Arrives(h, [Blank("post", p) EXCEPT !.form = form])

AskCancel(h, p, o) ==
  /\ o \in Posted(db)
  /\ Arrives(h, [Blank("cancel", p) EXCEPT !.offer = o])

AskFill(h, p, o, units, action) ==
  /\ o \in Posted(db)
  /\ Arrives(h, [Blank("fill", p) EXCEPT !.offer = o, !.units = units, !.action = action])

AskMine(h, p) == Arrives(h, Blank("mine", p))
AskBook(h, p) == Arrives(h, Blank("book", p))

Answered(h) ==
  /\ req' = [req EXCEPT ![h] = None]
  /\ lock' = [p \in Players |-> IF lock[p] = h THEN None ELSE lock[p]]

\* Checks made before the transaction opens, on the round row read earlier.
Refused(h) ==
  LET r == req[h]
  IN  \/ r.op \in {"post", "cancel", "fill"} /\ ~Playable(r.round, clock)
      \/ r.op = "post" /\ ~Acceptable(r.form)
      \/ r.op = "fill" /\ db.offers[r.offer].seller = r.who

\* expireDue reads, without a lock, which sellers have a lapsed offer.
SellersDue(r, now) == {p \in Players : Lapsed(db, p, r, now) # {}}

Call(h) ==
  LET r == req[h]
      due == IF r.op = "book" THEN SellersDue(r.round, clock) ELSE {}
  IN  /\ r # None /\ r.step = "routed"
      /\ IF Refused(h)
         THEN Answered(h)
         ELSE /\ req' = [req EXCEPT ![h] = [r EXCEPT !.step = "called", !.now = clock, !.due = due]]
              /\ UNCHANGED lock
      /\ UNCHANGED <<clock, round, db, idle>>

Locked(h) == {p \in Players : lock[p] = h}

\* The rows the open transaction must hold: buyer and seller for a fill, one
\* due seller at a time for the sweep of expireDue, else the caller's own.
Needs(h) ==
  LET r == req[h]
  IN  CASE r.op = "fill" -> {{r.who, db.offers[r.offer].seller}}
        [] r.op = "book" /\ r.due # {} -> {{s} : s \in r.due}
        [] OTHER -> {{r.who}}

\* Mutant: rows locked in no particular order.
LockAnyhow(h, p) ==
  /\ req[h] # None /\ req[h].step = "called"
  /\ lock[p] = None
  /\ \E need \in Needs(h) : Locked(h) \subseteq need /\ p \in need \ Locked(h)
  /\ lock' = [lock EXCEPT ![p] = h]
  /\ UNCHANGED <<clock, round, db, req, idle>>

\* SELECT ... FOR UPDATE on the next row, in id order.
Lock(h, p) ==
  /\ req[h] # None /\ req[h].step = "called"
  /\ lock[p] = None
  /\ \E need \in Needs(h) : /\ Locked(h) \subseteq need
                            /\ p \in need \ Locked(h)
                            /\ \A x \in need \ Locked(h) : p <= x
  /\ lock' = [lock EXCEPT ![p] = h]
  /\ UNCHANGED <<clock, round, db, req, idle>>

Ready(h, op) ==
  /\ req[h] # None /\ req[h].step = "called" /\ req[h].op = op
  /\ Locked(h) \in Needs(h)

Commit(h, d) == db' = d /\ Answered(h) /\ UNCHANGED <<clock, round, idle>>
Rollback(h) == Commit(h, db)

PostTx(h) ==
  LET r == req[h]
      free == OfferIds \ Posted(db)
  IN  /\ Ready(h, "post")
      /\ \E landing \in Landings(db, r.who, r.round, r.now) :
           LET d == Settled(db, r.who, r.round, r.now, landing)
           IN  IF CanPost(d, r.who, r.form) /\ free # {}
               THEN \E o \in free : /\ \A x \in free : o <= x
                                    /\ Commit(h, WithPost(d, r.who, o, r.form, r.round, r.now))
               ELSE Rollback(h)

CancelTx(h) ==
  LET r == req[h]
  IN  /\ Ready(h, "cancel")
      /\ \E landing \in Landings(db, r.who, r.round, r.now) :
           LET d == Settled(db, r.who, r.round, r.now, landing)
           IN  IF CanCancel(d, r.who, r.offer)
               THEN Commit(h, WithCancel(d, r.who, r.offer, r.now))
               ELSE Rollback(h)

\* The receipt of an action id that already ran and is still kept.
Replayed(p, action) ==
  /\ action # None
  /\ db.processed[p][action] # None
  /\ db.processed[p][action].expiresAt > clock

\* An expired receipt not yet purged still occupies its unique key.
CanRecord(p, action) == action = None \/ db.processed[p][action] = None

FillTx(h) ==
  LET r == req[h]
      s == db.offers[r.offer].seller
  IN  /\ Ready(h, "fill")
      /\ IF Replayed(r.who, r.action)
         THEN Rollback(h)
         ELSE \E landing \in Landings(db, s, r.round, r.now) :
                LET d == Settled(db, s, r.round, r.now, landing)
                    units == UnitsWanted(d.offers[r.offer], r.units)
                IN  IF d.offers[r.offer].status # "OPEN"
                    THEN Commit(h, d)
                    ELSE IF CanFill(d, r.who, r.offer, units) /\ CanRecord(r.who, r.action)
                    THEN Commit(h, WithFill(d, r.who, r.offer, units, r.action, r.now, clock))
                    ELSE Rollback(h)

MineTx(h) ==
  LET r == req[h]
  IN  /\ Ready(h, "mine") \/ (Ready(h, "book") /\ r.due = {})
      /\ \E landing \in Landings(db, r.who, r.round, r.now) :
           Commit(h, Settled(db, r.who, r.round, r.now, landing))

\* One seller of the sweep: settle, commit, release, go on to the next.
SweepTx(h) ==
  LET r == req[h]
  IN  /\ Ready(h, "book")
      /\ \E s \in r.due :
           /\ Locked(h) = {s}
           /\ \E landing \in Landings(db, s, r.round, r.now) :
                db' = Settled(db, s, r.round, r.now, landing)
           /\ req' = [req EXCEPT ![h].due = @ \ {s}]
           /\ lock' = [lock EXCEPT ![s] = None]
      /\ UNCHANGED <<clock, round, idle>>

\* A transaction that times out or loses its connection leaves no trace.
Abort(h) ==
  /\ req[h] # None /\ req[h].step = "called"
  /\ Rollback(h)

-----------------------------------------------------------------------------
(* The world around the Board *)

Tick ==
  /\ clock < MaxClock
  /\ clock' = clock + 1
  /\ idle' = IF round.pausedAt = None THEN idle ELSE idle \cup {clock}
  /\ UNCHANGED <<round, db, req, lock>>

Pause ==
  /\ clock \in PauseTimes
  /\ round.pausedAt = None /\ round.endsAt > clock
  /\ round' = [round EXCEPT !.pausedAt = clock]
  /\ UNCHANGED <<clock, db, req, lock, idle>>

\* Lifting a pause books it in whole minutes, rounded up.
Resume(extend) ==
  /\ round.pausedAt # None
  /\ LET minutes == (clock - round.pausedAt + Minute - 1) \div Minute
     IN  round' = [pausedAt |-> None, pausedMinutes |-> round.pausedMinutes + minutes,
                   endsAt |-> round.endsAt + (IF extend THEN Minute * minutes ELSE 0)]
  /\ UNCHANGED <<clock, db, req, lock, idle>>

\* Stacks come and go and are dragged about: which two-cell goods the grid has
\* no gap for may change at any time.
Rearrange(p, kinds) ==
  /\ db' = [db EXCEPT !.crowded[p] = kinds]
  /\ UNCHANGED <<clock, round, req, lock, idle>>

\* Mutant: the receipts that still count go, the others stay.
PurgeLive ==
  /\ db' = [db EXCEPT !.processed = [p \in Players |-> [a \in ActionIds |->
               IF @[p][a] # None /\ @[p][a].expiresAt > clock THEN None ELSE @[p][a]]]]
  /\ UNCHANGED <<clock, round, req, lock, idle>>

Purge ==
  /\ db' = [db EXCEPT !.processed = [p \in Players |-> [a \in ActionIds |->
               IF @[p][a] # None /\ @[p][a].expiresAt <= clock THEN None ELSE @[p][a]]]]
  /\ UNCHANGED <<clock, round, req, lock, idle>>

-----------------------------------------------------------------------------

Init ==
  /\ clock = 0
  /\ round = [pausedAt |-> None, pausedMinutes |-> 0, endsAt |-> SeasonEnd]
  /\ db = [cash |-> StartCash, held |-> StartHeld,
           escrow |-> [p \in Players |-> NoGoods],
           tagged |-> StartTagged, escrowTagged |-> [p \in Players |-> NoGoods],
           crowded |-> [p \in Players |-> {}],
           offers |-> [o \in OfferIds |-> None], fills |-> <<>>,
           processed |-> [p \in Players |-> [a \in ActionIds |-> None]]]
  /\ req = [h \in Handlers |-> None]
  /\ lock = [p \in Players |-> None]
  /\ idle = {}

Asks(h) ==
  \E p \in Players :
    \/ \E form \in Listings : AskPost(h, p, form)
    \/ \E o \in OfferIds : \/ AskCancel(h, p, o)
                           \/ \E units \in 0..MaxUnits, action \in ActionIds \cup {None} :
                                AskFill(h, p, o, units, action)
    \/ AskMine(h, p)
    \/ AskBook(h, p)

Serves(h) ==
  \/ Call(h)
  \/ \E p \in Players : Lock(h, p)
  \/ PostTx(h) \/ CancelTx(h) \/ FillTx(h) \/ MineTx(h) \/ SweepTx(h)

World ==
  \/ Tick \/ Pause \/ Purge
  \/ \E extend \in BOOLEAN : Resume(extend)
  \/ \E p \in Players, kinds \in SUBSET Bulky : Rearrange(p, kinds)

Next == World \/ \E h \in Handlers : Asks(h) \/ Serves(h) \/ Abort(h)

Spec == Init /\ [][Next]_vars

-----------------------------------------------------------------------------
(* Properties *)

\* Every row, request and lock keeps its type; no balance goes below zero.
TypeOK ==
  /\ clock \in Nat /\ round \in Round
  /\ db \in Rows
  /\ req \in [Handlers -> Request \cup {None}]
  /\ lock \in [Players -> Handlers \cup {None}]
  /\ idle \subseteq Nat

\* The staff ledger's reconciliation (admin-player-board.service.ts): a seller's
\* escrow column holds exactly the units left in his open offers and in his
\* expired offers not yet handed back, item by item.
EscrowReconciles ==
  \A p \in Players, k \in Items :
    db.escrow[p][k] = LeftIn(db.offers, HeldOffers(db, p, k))

\* Found-in-raid tags in escrow never outnumber the units there, so the
\* PROVENANCE_ERROR branch of adjustProvenance is never reached.
TagsWithinEscrow ==
  \A p \in Players, k \in Items : db.escrowTagged[p][k] <= db.escrow[p][k]

\* qa/board-sim: all cash plus the posting fees the Board deleted stays constant.
CashAccounted ==
  SumFunction(db.cash) + SumFunction([o \in Posted(db) |-> db.offers[o].fee]) = SumFunction(StartCash)

\* Requests never wait in a circle for each other's rows: everybody locks in id order.
\* The rows h waits for: the next ones in that order, if it has not all it needs.
NextRows(h) ==
  IF req[h] = None \/ req[h].step # "called" THEN {}
  ELSE {p \in Players : \E need \in Needs(h) :
          /\ Locked(h) \subseteq need /\ p \in need \ Locked(h)
          /\ \A x \in need \ Locked(h) : p <= x}
NoLockCircle ==
  \A S \in SUBSET Handlers :
    (\A h \in S : \E p \in NextRows(h) : lock[p] \in S) => S = {}

\* A retried purchase charges nothing more: two fills under one action id of one
\* buyer lie at least the retention of its receipt apart.
FilledOncePerAction ==
  \A i, j \in DOMAIN db.fills :
    /\ i < j
    /\ db.fills[i].buyer = db.fills[j].buyer
    /\ db.fills[i].action = db.fills[j].action
    /\ db.fills[i].action # None
    => db.fills[j].at >= db.fills[i].createdAt + Retention

\* A closed offer is settled for good: it is never reopened, sold from or handed
\* back a second time, whatever request still holds its id.
ClosedForGood ==
  [][\A o \in Posted(db) :
       db.offers[o].status # "OPEN" =>
         /\ db'.offers[o].status = db.offers[o].status
         /\ db'.offers[o].left = db.offers[o].left
         /\ db.offers[o].returnedAt # None => db'.offers[o].returnedAt = db.offers[o].returnedAt]_vars

\* The ticks of play an offer has been up for, pauses not counted.
TimeOnSale(offer, now) == Cardinality({t \in offer.postedAt..now - 1 : t \notin idle})

\* A paused round never eats a listing: a request that read the round row as it
\* still is expires an offer only after the hours of play its seller paid for.
FullTimeOnSale ==
  [][\A h \in Handlers, o \in Posted(db) :
       /\ db.offers[o].status = "OPEN" /\ db'.offers[o].status = "EXPIRED"
       /\ req'[h] # req[h] /\ req[h].round = round
       => TimeOnSale(db.offers[o], req[h].now) >= db.offers[o].expiresAt - db.offers[o].postedAt]_vars

\* A trade never takes a player past the capacity of his armory: if the guns and
\* cars he owns, escrow included, become more, those he holds fit.
ArmoryRespected ==
  [][\A p \in Players :
       LET owned(d) == ArmoryUnits(d.held[p]) + ArmoryUnits(d.escrow[p])
       IN  owned(db') > owned(db) => ArmoryUnits(db'.held[p]) <= ArmoryCap]_vars

-----------------------------------------------------------------------------
(* The Board implements the market it promises *)

Market == INSTANCE BoardMarket WITH
  StartGoods <- StartHeld,
  cash <- db.cash,
  goods <- [p \in Players |-> [k \in Items |-> db.held[p][k] + db.escrow[p][k]]],
  stalls <- [o \in OfferIds |->
               IF db.offers[o] = None THEN None
               ELSE IF db.offers[o].status # "OPEN" THEN Closed
               ELSE [seller |-> db.offers[o].seller, item |-> db.offers[o].item,
                     quantity |-> db.offers[o].quantity, left |-> db.offers[o].left,
                     price |-> db.offers[o].price, ask |-> db.offers[o].ask]]

\* The marks of a stall not yet promised and of one that is over are no promises.
ASSUME StallAssumption == {None, Closed} \cap Market!Promise = {}

\* Every step of the Board is a step of the market or changes nothing in it: an
\* offer is a promise of goods that are there, sold at its price, once; no goods
\* are made or lost, as qa/board-sim adds up.
ImplementsMarket == Market!Spec

=============================================================================
