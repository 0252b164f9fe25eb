----------------------------- MODULE CrownEconomy -----------------------------
(***************************************************************************)
(* Crowns, the premium currency: the account's wallet and its ledger       *)
(* (crown-wallet.service.ts), Crown packs paid through Stripe              *)
(* (crown-pack.service.ts), purchases in The Drop (drop-purchase.service), *)
(* Crowns earned from play (crown-earn.service.ts) and staff adjustments   *)
(* (drop-admin.service.ts).                                                *)
(*                                                                         *)
(* A transaction reads the rows it decides on, then waits for row locks in *)
(* the order its statements touch the rows, and commits.  What it read     *)
(* before a lock (an order's status) it still believes after it; the       *)
(* wallet it reads with the lock (SELECT ... FOR UPDATE).  Stripe sends    *)
(* its events in any order, again and again until one is acknowledged.     *)
(***************************************************************************)
EXTENDS Integers, Sequences, FiniteSets, Functions, FiniteSetsExt

CONSTANTS
  Accounts,
  Packs,        \* pack orders that may be made
  Owner,        \* Owner[o]: the account that orders pack o
  Crowns,       \* Crowns[o]: the Crowns pack o sells
  Items,        \* cosmetics sold in The Drop
  ListPrice,    \* ListPrice[k]: catalog price of one item
  Offers,       \* shop offers: one item or a bundle
  Keys,         \* Keys[f]: the items offer f grants
  OfferPrice,   \* OfferPrice[f]: its price, in Crowns
  Discounts,    \* percentages an account's discount may have
  ActionIds,    \* action ids clients attach to a purchase
  Awards,       \* awards of one round that play may earn
  Award,        \* Award[w]: who earns w, how much, and whether the round cap clips it
  RoundCap,     \* Crowns an account may earn from play in the round
  Adjustments,  \* adjustments staff may ask for
  Adjustment,   \* Adjustment[d]: whose wallet d moves, by how much, and whether it is large
  Charges,      \* what may become of a payment made: refunds in part or in full, a dispute
  Handlers,     \* transactions running at once
  MaxAborts,    \* bound on transactions that fail for no reason of their own
  None

VARIABLES
  db,      \* the committed rows
  stripe,  \* stripe[o]: the checkout session of pack order o, at Stripe
  sent,    \* webhook events Stripe keeps sending until they are acknowledged
  req,     \* req[h]: what handler h is doing, or None
  lock,    \* lock[row]: the handler whose transaction holds the row, or None
  aborts   \* transactions that failed so far

vars == <<db, stripe, sent, req, lock, aborts>>

-----------------------------------------------------------------------------
(* Types *)

Status == {"pending", "credited", "refunded", "refund_review", "disputed", "failed", "expired"}
\* "session" and "payment": Stripe's ids of the session and the payment are recorded.
Order == [status: Status, session: BOOLEAN, payment: BOOLEAN]

Kinds == {"EARN", "PAID_GRANT", "SPEND", "ADJUSTMENT", "REVERSAL"}
Wallet == [balance: Nat, held: BOOLEAN]

\* A checkout session completed, paid at once or later, or over; a charge given
\* back in part or in full; a charge disputed.
EventTypes == {"paid", "unpaid", "async_succeeded", "async_failed", "expired",
               "refund_part", "refund_full", "dispute"}
Event == EventTypes \X Packs

Bought == [account: Accounts, action: ActionIds, offer: Offers, price: Nat, grants: SUBSET Items]

Decisions == {"NONE", "PENDING", "APPLIED", "REJECTED"}

\* The event an entry of the ledger is for.
Refs == ({"pack", "refund"} \X Packs) \cup ({"order"} \X Accounts \X ActionIds)
          \cup ({"earn"} \X Awards) \cup ({"admin"} \X Adjustments)

Entry == [ref: Refs, account: Accounts, kind: Kinds, delta: Int]

Rows == {<<"player", a>> : a \in Accounts} \cup {<<"wallet", a>> : a \in Accounts}
          \cup {<<"pack", o>> : o \in Packs} \cup {<<"adjust", d>> : d \in Adjustments}

ASSUME CrownAssumption ==
  /\ Owner \in [Packs -> Accounts] /\ Crowns \in [Packs -> Nat \ {0}]
  /\ ListPrice \in [Items -> Nat \ {0}]
  /\ Keys \in [Offers -> (SUBSET Items) \ {{}}] /\ OfferPrice \in [Offers -> Nat \ {0}]
  /\ Discounts \subseteq 0..99 /\ RoundCap \in Nat /\ MaxAborts \in Nat
  /\ Award \in [Awards -> [account: Accounts, crowns: Nat \ {0}, capped: BOOLEAN]]
  /\ Adjustment \in [Adjustments -> [account: Accounts, delta: Int \ {0}, large: BOOLEAN]]
  /\ Charges \subseteq {"refund_part", "refund_full", "dispute"}
  /\ IsFiniteSet(Items)

-----------------------------------------------------------------------------
(* The wallet *)

WalletOf(a) == [balance |-> db.balance[a], held |-> db.held[a]]

Booked(d, ref) == \E e \in d.book : e.ref = ref

\* Mutant: no look at the balance.
CanApplyOnCredit(d, w, e, allowHeld) == Booked(d, e.ref) \/ (e.delta < 0 /\ ~allowHeld => ~w.held)

\* CrownWalletService.apply throws: a spend from a held wallet, or more than is there.
CanApply(d, w, e, allowHeld) ==
  \/ Booked(d, e.ref)
  \/ /\ e.delta < 0 /\ ~allowHeld => ~w.held
     /\ w.balance + e.delta >= 0

\* Mutant: no look for an entry of the same event.
ApplyAgain(d, w, e) ==
  [d EXCEPT !.balance[e.account] = w.balance + e.delta, !.book = @ \cup {e}]

\* An event already in the ledger changes nothing; else the balance read with
\* the lock moves, and the ledger with it.
Apply(d, w, e) ==
  IF Booked(d, e.ref) THEN d
  ELSE [d EXCEPT !.balance[e.account] = w.balance + e.delta, !.book = @ \cup {e}]

-----------------------------------------------------------------------------
(* Crown packs: what an event does to an order as it was when it was read *)

Grant(o) == [ref |-> <<"pack", o>>, account |-> Owner[o], kind |-> "PAID_GRANT", delta |-> Crowns[o]]
Reversal(o) == [ref |-> <<"refund", o>>, account |-> Owner[o], kind |-> "REVERSAL", delta |-> -Crowns[o]]

\* Mutant: a completed session counts as paid.
IsPaidOnCompletion(type) == type \in {"paid", "async_succeeded", "unpaid"}

IsPaid(type) == type \in {"paid", "async_succeeded"}
IsSession(type) == type \in {"paid", "unpaid", "async_succeeded"}
IsRefund(type) == type \in {"refund_part", "refund_full"}

\* The event's payment finds the order: by metadata, except for a dispute,
\* which names nothing but a payment the order must already know.
Matches(type, order) == type = "dispute" => order.payment

Creditable(order) == order.status \in {"pending", "failed", "expired"}

WasCredited(order) == order.status \in {"credited", "disputed", "refund_review"}

\* The rows the transaction updates or locks, in order.
PackRows(type, o, order) ==
  LET pack == <<"pack", o>>
      wallet == <<"wallet", Owner[o]>>
      recording == IF order.payment THEN <<>> ELSE <<pack>>
  IN  CASE IsSession(type) -> recording \o (IF IsPaid(type) /\ Creditable(order)
                                            THEN <<wallet, pack>> ELSE <<>>)
        [] type \in {"async_failed", "expired"} -> IF order.status = "pending" THEN <<pack>> ELSE <<>>
        [] IsRefund(type) -> recording \o (IF order.status = "refunded" THEN <<>>
                                           ELSE IF WasCredited(order) THEN <<wallet, pack>> ELSE <<pack>>)
        [] type = "dispute" -> IF Matches(type, order) THEN <<wallet, pack>> ELSE <<>>

WithStatus(d, o, status) == [d EXCEPT !.packs[o].status = status]
WithPayment(d, o) == [d EXCEPT !.packs[o].payment = TRUE]
WithHold(d, a) == [d EXCEPT !.held[a] = TRUE]

\* creditSession: Crowns for a paid session of an order not credited yet.
Credited(d, type, o, order, w) ==
  IF IsPaid(type) /\ Creditable(order)
  THEN WithStatus(Apply(WithPayment(d, o), w, Grant(o)), o, "credited")
  ELSE WithPayment(d, o)

\* refund: the Crowns back if they are there, else a hold for support.
Refunded(d, type, o, order, w) ==
  CASE order.status = "refunded" -> WithPayment(d, o)
    [] ~WasCredited(order) /\ order.status # "refunded" -> WithStatus(WithPayment(d, o), o, "refunded")
    [] WasCredited(order) /\ type = "refund_full" /\ w.balance >= Crowns[o] ->
         WithStatus(Apply(WithPayment(d, o), w, Reversal(o)), o, "refunded")
    [] OTHER -> WithStatus(WithHold(WithPayment(d, o), Owner[o]), o, "refund_review")

\* applyStripeEvent.
AfterEvent(d, type, o, order, w) ==
  CASE IsSession(type) -> Credited(d, type, o, order, w)
    [] type = "async_failed" -> IF order.status = "pending" THEN WithStatus(d, o, "failed") ELSE d
    [] type = "expired" -> IF order.status = "pending" THEN WithStatus(d, o, "expired") ELSE d
    [] IsRefund(type) -> Refunded(d, type, o, order, w)
    [] type = "dispute" -> IF Matches(type, order)
                           THEN WithStatus(WithHold(d, Owner[o]), o, "disputed") ELSE d

-----------------------------------------------------------------------------
(* The Drop *)

PricesOf(keys) == SumFunctionOnSet(ListPrice, keys)

\* A bundle costs the share of it that is missing, rounded up, at least one Crown.
BasePrice(offer, missing) ==
  IF missing = Keys[offer] THEN OfferPrice[offer]
  ELSE Max({1, (OfferPrice[offer] * PricesOf(missing) + PricesOf(Keys[offer]) - 1) \div PricesOf(Keys[offer])})

Price(offer, missing, percent) == Max({1, (BasePrice(offer, missing) * (100 - percent)) \div 100})

\* Mutant: the whole offer, items already owned included.
MissingAll(d, a, offer) == Keys[offer]

Missing(d, a, offer) == Keys[offer] \ d.owned[a]

Spend(a, action, price) ==
  [ref |-> <<"order", a, action>>, account |-> a, kind |-> "SPEND", delta |-> -price]

\* Mutant: no look for an order under the action id.
OrderedNever(d, a, action) == FALSE

Ordered(d, a, action) == \E b \in d.bought : b.account = a /\ b.action = action

WithPurchase(d, a, action, offer, percent, w) ==
  LET missing == Missing(d, a, offer)
      price == Price(offer, missing, percent)
  IN  [Apply(d, w, Spend(a, action, price)) EXCEPT
        !.bought = @ \cup {[account |-> a, action |-> action, offer |-> offer,
                            price |-> price, grants |-> missing]},
        !.owned[a] = @ \cup missing]

-----------------------------------------------------------------------------
(* Crowns from play, and from staff *)

EarnedInRound(d, a) ==
  LET earned == {e \in d.book : e.account = a /\ e.kind = "EARN"}
  IN  MapThenSumSet(LAMBDA e : e.delta, earned)

Earning(award, crowns) ==
  [ref |-> <<"earn", award>>, account |-> Award[award].account, kind |-> "EARN", delta |-> crowns]

\* What the round cap leaves of an award; a Street Pass reward is not clipped.
Clipped(d, award) ==
  IF Award[award].capped
  THEN Min({Award[award].crowns, RoundCap - EarnedInRound(d, Award[award].account)})
  ELSE Award[award].crowns

Adjusting(d) ==
  [ref |-> <<"admin", d>>, account |-> Adjustment[d].account, kind |-> "ADJUSTMENT",
   delta |-> Adjustment[d].delta]

-----------------------------------------------------------------------------
(* Transactions *)

\* "order" is the pack order as the transaction read it, "wallet" what it read
\* with the lock, "crowns" what the cap left of an award when it was asked for.
Request == [op: {"event", "ask", "reconcile", "buy", "earn", "adjust", "release"},
            account: Accounts, pack: Packs \cup {None}, type: EventTypes \cup {None},
            action: ActionIds \cup {None}, offer: Offers \cup {None},
            award: Awards \cup {None}, adjust: Adjustments \cup {None}, yes: BOOLEAN,
            order: Order \cup {None}, wallet: Wallet \cup {None}, crowns: Int \cup {None}]

ASSUME NoneAssumption == None \notin Handlers \cup Request

Blank(op, a) ==
  [op |-> op, account |-> a, pack |-> None, type |-> None, action |-> None, offer |-> None,
   award |-> None, adjust |-> None, yes |-> TRUE, order |-> None, wallet |-> None, crowns |-> None]

Idle(h) == req[h] = None

Starts(h, r) ==
  /\ req' = [req EXCEPT ![h] = r]
  /\ UNCHANGED <<db, stripe, sent, lock, aborts>>

\* handleEvent: a recorded event is a duplicate; else its order is read, unlocked.
Deliver(h, e) ==
  /\ Idle(h) /\ e \in sent /\ e \notin db.seen
  /\ Starts(h, [Blank("event", Owner[e[2]]) EXCEPT !.type = e[1], !.pack = e[2],
                                                   !.order = db.packs[e[2]]])

\* Staff ask Stripe for the session of an order.  One not completed changes nothing.
Reconcile(h, o) ==
  /\ Idle(h) /\ db.packs[o] # None /\ db.packs[o].session
  /\ stripe[o] \in {"processing", "paid", "failed"}
  /\ Starts(h, [Blank("ask", Owner[o]) EXCEPT
                  !.pack = o, !.type = IF stripe[o] = "paid" THEN "paid" ELSE "unpaid"])

\* With Stripe's answer in hand, the order is read anew.
Reread(h) ==
  /\ req[h] # None /\ req[h].op = "ask"
  /\ req' = [req EXCEPT ![h].op = "reconcile", ![h].order = db.packs[req[h].pack]]
  /\ UNCHANGED <<db, stripe, sent, lock, aborts>>

Buy(h, a, action, offer) ==
  Idle(h) /\ Starts(h, [Blank("buy", a) EXCEPT !.action = action, !.offer = offer])
Earn(h, award) == Idle(h) /\ Starts(h, [Blank("earn", Award[award].account) EXCEPT !.award = award])

\* A small adjustment is asked for and made at once, a large one decided by
\* staff who see it pending.
Adjust(h, d) ==
  /\ Idle(h) /\ db.asked[d] = "NONE" /\ ~Adjustment[d].large
  /\ \A g \in Handlers : req[g] # None => req[g].adjust # d
  /\ Starts(h, [Blank("adjust", Adjustment[d].account) EXCEPT !.adjust = d])
Decide(h, d, yes) ==
  /\ Idle(h) /\ db.asked[d] = "PENDING"
  /\ Starts(h, [Blank("adjust", Adjustment[d].account) EXCEPT !.adjust = d, !.yes = yes])

Release(h, a) == Idle(h) /\ db.held[a] /\ Starts(h, Blank("release", a))

WalletRow(r) == <<<<"wallet", r.account>>>>
AdjustRows(r) ==
  (IF Adjustment[r.adjust].large THEN <<<<"adjust", r.adjust>>>> ELSE <<>>) \o (IF r.yes THEN WalletRow(r) ELSE <<>>)

\* Mutant: an award takes no lock on its player.
RowsOfUnlocked(r) ==
  CASE r.op \in {"event", "reconcile"} -> PackRows(r.type, r.pack, r.order)
    [] r.op = "adjust" -> AdjustRows(r)
    [] r.op = "earn" -> IF r.crowns = None THEN <<>> ELSE WalletRow(r)
    [] OTHER -> WalletRow(r)

\* The rows a transaction locks, in order.  The earner's player row is locked
\* before the ledger is read for the cap, his wallet after.
RowsOf(r) ==
  CASE r.op \in {"event", "reconcile"} -> PackRows(r.type, r.pack, r.order)
    [] r.op = "adjust" -> AdjustRows(r)
    [] r.op = "earn" -> <<<<"player", r.account>>>> \o (IF r.crowns = None THEN <<>> ELSE WalletRow(r))
    [] OTHER -> WalletRow(r)

Running(h) == req[h] # None /\ req[h].op # "ask"

HasAll(h) == LET rows == RowsOf(req[h]) IN \A i \in DOMAIN rows : lock[rows[i]] = h

\* The first of its rows that the transaction does not hold yet, if there is one.
Awaited(h) ==
  LET rows == RowsOf(req[h])
      first == {i \in DOMAIN rows : lock[rows[i]] # h /\ \A j \in 1..(i - 1) : lock[rows[j]] = h}
  IN  {rows[i] : i \in first}

Ready(h, op) == Running(h) /\ req[h].op = op /\ HasAll(h)

\* Mutant: the wallet is read first and locked later.
LockAfterRead(h) ==
  /\ Running(h)
  /\ \E row \in Awaited(h) :
       IF row[1] = "wallet" /\ req[h].wallet = None
       THEN req' = [req EXCEPT ![h].wallet = WalletOf(row[2])] /\ UNCHANGED lock
       ELSE lock[row] = None /\ lock' = [lock EXCEPT ![row] = h] /\ UNCHANGED req
  /\ UNCHANGED <<db, stripe, sent, aborts>>

\* The next row lock; the wallet row is read with its lock.
Lock(h) ==
  /\ Running(h)
  /\ \E row \in Awaited(h) :
       /\ lock[row] = None
       /\ lock' = [lock EXCEPT ![row] = h]
       /\ req' = IF row[1] = "wallet"
                 THEN [req EXCEPT ![h].wallet = WalletOf(row[2])] ELSE req
  /\ UNCHANGED <<db, stripe, sent, aborts>>

\* CrownEarnService.award: what the cap leaves is read before the wallet is locked.
Clip(h) ==
  /\ Ready(h, "earn") /\ req[h].crowns = None
  /\ req' = [req EXCEPT ![h].crowns = Clipped(db, req[h].award)]
  /\ UNCHANGED <<db, stripe, sent, lock, aborts>>

Finish(h, d) ==
  /\ db' = d
  /\ req' = [req EXCEPT ![h] = None]
  /\ lock' = [row \in Rows |-> IF lock[row] = h THEN None ELSE lock[row]]
  /\ UNCHANGED <<stripe, sent>>

Commit(h, d) == Finish(h, d) /\ UNCHANGED aborts
Rollback(h) == Commit(h, db)

\* The event is recorded with its changes; recorded meanwhile, it changes nothing.
EventTx(h) ==
  LET r == req[h]
      e == <<r.type, r.pack>>
      d == AfterEvent(db, r.type, r.pack, r.order, r.wallet)
  IN  /\ Ready(h, "event")
      /\ IF e \in db.seen
         THEN Rollback(h)
         ELSE Commit(h, [d EXCEPT !.seen = @ \cup {e}])

ReconcileTx(h) ==
  LET r == req[h]
  IN  /\ Ready(h, "reconcile")
      /\ Commit(h, Credited(db, r.type, r.pack, r.order, r.wallet))

\* An action id that was used answers with its order; nothing to grant, no
\* Crowns or a held wallet refuse the purchase.
BuyTx(h) ==
  LET r == req[h]
      missing == Missing(db, r.account, r.offer)
      Affords(percent) ==
        CanApply(db, r.wallet, Spend(r.account, r.action, Price(r.offer, missing, percent)), FALSE)
  IN  /\ Ready(h, "buy")
      /\ IF Ordered(db, r.account, r.action) \/ missing = {}
         THEN Rollback(h)
         ELSE \E percent \in Discounts :
                IF Affords(percent)
                THEN Commit(h, WithPurchase(db, r.account, r.action, r.offer, percent, r.wallet))
                ELSE Rollback(h)

EarnTx(h) ==
  LET r == req[h]
  IN  /\ Ready(h, "earn") /\ r.crowns # None
      /\ Commit(h, IF r.crowns > 0 THEN Apply(db, r.wallet, Earning(r.award, r.crowns)) ELSE db)

Undecided(d) == db.asked[d] \in {"NONE", "PENDING"}

\* A large adjustment is claimed under the lock of its row; staff may adjust a held wallet.
AdjustTx(h) ==
  LET r == req[h]
      e == Adjusting(r.adjust)
      decided == [db EXCEPT !.asked[r.adjust] = IF r.yes THEN "APPLIED" ELSE "REJECTED"]
  IN  /\ Ready(h, "adjust")
      /\ IF ~Undecided(r.adjust) \/ (r.yes /\ ~CanApply(db, r.wallet, e, TRUE))
         THEN Rollback(h)
         ELSE Commit(h, IF r.yes THEN Apply(decided, r.wallet, e) ELSE decided)

ReleaseTx(h) == Ready(h, "release") /\ Commit(h, [db EXCEPT !.held[req[h].account] = FALSE])

\* Mutant: the event is acknowledged though its transaction failed.
AbortAcknowledged(h) ==
  /\ Running(h) /\ aborts < MaxAborts
  /\ Finish(h, IF req[h].op = "event" THEN [db EXCEPT !.seen = @ \cup {<<req[h].type, req[h].pack>>}] ELSE db)
  /\ aborts' = aborts + 1

\* A transaction that loses its connection or runs out of time leaves no trace.
Abort(h) ==
  /\ Running(h) /\ aborts < MaxAborts
  /\ Finish(h, db) /\ aborts' = aborts + 1

\* Handlers that all wait for rows of one another: the database fails one of them.
WaitsFor(h, S) == Running(h) /\ \E row \in Awaited(h) : lock[row] \in S
Deadlocked(h) == \E S \in SUBSET Handlers : h \in S /\ \A g \in S : WaitsFor(g, S)
Victim(h) == Deadlocked(h) /\ Rollback(h)

-----------------------------------------------------------------------------
(* Checkout, Stripe and staff *)

\* startCheckout makes the order, then Stripe's session, then records it; only
\* then the player is sent to pay.  The call may die between any two.
OpenOrder(o) ==
  /\ db.packs[o] = None
  /\ db' = [db EXCEPT !.packs[o] = [status |-> "pending", session |-> FALSE, payment |-> FALSE]]
  /\ UNCHANGED <<stripe, sent, req, lock, aborts>>

OpenSession(o) ==
  /\ db.packs[o] # None /\ stripe[o] = "none"
  /\ stripe' = [stripe EXCEPT ![o] = "open"]
  /\ UNCHANGED <<db, sent, req, lock, aborts>>

RecordSession(o) ==
  /\ stripe[o] # "none" /\ ~db.packs[o].session /\ lock[<<"pack", o>>] = None
  /\ db' = [db EXCEPT !.packs[o].session = TRUE]
  /\ UNCHANGED <<stripe, sent, req, lock, aborts>>

Sends(type, o) == sent' = sent \cup {<<type, o>>} /\ UNCHANGED <<db, req, lock, aborts>>

\* A session goes from one state to the next and Stripe tells the webhook.
Session(o, from, to, type) ==
  /\ stripe[o] = from
  /\ stripe' = [stripe EXCEPT ![o] = to]
  /\ Sends(type, o)

Checkout(o) ==
  \/ db.packs[o] # None /\ db.packs[o].session
     /\ \/ Session(o, "open", "paid", "paid")
        \/ Session(o, "open", "processing", "unpaid")
  \/ Session(o, "open", "expired", "expired")
  \/ Session(o, "processing", "paid", "async_succeeded")
  \/ Session(o, "processing", "failed", "async_failed")

\* A charge paid is refunded or disputed.
Charge(o, type) ==
  /\ stripe[o] = "paid"
  /\ <<type, o>> \notin sent
  /\ type = "refund_part" => <<"refund_full", o>> \notin sent
  /\ UNCHANGED stripe
  /\ Sends(type, o)

RequestLarge(d) ==
  /\ Adjustment[d].large /\ db.asked[d] = "NONE"
  /\ db' = [db EXCEPT !.asked[d] = "PENDING"]
  /\ UNCHANGED <<stripe, sent, req, lock, aborts>>

-----------------------------------------------------------------------------

Init ==
  /\ db = [balance |-> [a \in Accounts |-> 0], held |-> [a \in Accounts |-> FALSE],
           book |-> {}, packs |-> [o \in Packs |-> None], bought |-> {},
           owned |-> [a \in Accounts |-> {}], asked |-> [d \in Adjustments |-> "NONE"],
           seen |-> {}]
  /\ stripe = [o \in Packs |-> "none"]
  /\ sent = {}
  /\ req = [h \in Handlers |-> None]
  /\ lock = [row \in Rows |-> None]
  /\ aborts = 0

Asks(h) ==
  \/ \E e \in sent : Deliver(h, e)
  \/ \E o \in Packs : Reconcile(h, o)
  \/ \E a \in Accounts, action \in ActionIds, offer \in Offers : Buy(h, a, action, offer)
  \/ \E award \in Awards : Earn(h, award)
  \/ \E d \in Adjustments : Adjust(h, d) \/ \E yes \in BOOLEAN : Decide(h, d, yes)
  \/ \E a \in Accounts : Release(h, a)

Ends(h) ==
  \/ EventTx(h) \/ ReconcileTx(h) \/ BuyTx(h) \/ EarnTx(h) \/ AdjustTx(h) \/ ReleaseTx(h)

Serves(h) == Reread(h) \/ Lock(h) \/ Clip(h) \/ Ends(h) \/ Victim(h)

World ==
  \/ \E o \in Packs : \/ OpenOrder(o) \/ OpenSession(o) \/ RecordSession(o) \/ Checkout(o)
                      \/ \E type \in Charges : Charge(o, type)
  \/ \E d \in Adjustments : RequestLarge(d)

Next == World \/ \E h \in Handlers : Asks(h) \/ Serves(h) \/ Abort(h)

Spec == Init /\ [][Next]_vars

-----------------------------------------------------------------------------
(* Properties *)

\* Every row, request and lock keeps its type; no balance goes below zero.
TypeOK ==
  /\ db.balance \in [Accounts -> Nat] /\ db.held \in [Accounts -> BOOLEAN]
  /\ db.book \subseteq Entry
  /\ db.packs \in [Packs -> Order \cup {None}]
  /\ db.bought \subseteq Bought /\ db.owned \in [Accounts -> SUBSET Items]
  /\ db.asked \in [Adjustments -> Decisions] /\ db.seen \subseteq Event
  /\ stripe \in [Packs -> {"none", "open", "processing", "paid", "failed", "expired"}]
  /\ sent \subseteq Event
  /\ req \in [Handlers -> Request \cup {None}]
  /\ lock \in [Rows -> Handlers \cup {None}]
  /\ aborts \in 0..MaxAborts

\* crown-wallet.service.ts:12 "The row lock serialises two spends against one
\* balance": whatever runs at once, a balance is the sum of a book that holds
\* every event once.
Book == INSTANCE CrownBook WITH balance <- db.balance, book <- db.book
ImplementsBook == Book!Spec

\* An item is paid for once: of the orders of one account, however its purchases
\* race, exactly one granted each item it owns.
NothingBoughtTwice ==
  \A a \in Accounts, k \in Items :
    Cardinality({b \in db.bought : b.account = a /\ k \in b.grants})
      = IF k \in db.owned[a] THEN 1 ELSE 0

\* A purchase retried under its action id is charged once, and what it charged
\* is in the book.
ChargedOnce ==
  \A a \in Accounts, action \in ActionIds :
    LET orders == {b \in db.bought : b.account = a /\ b.action = action}
    IN  /\ Cardinality(orders) <= 1
        /\ {e \in db.book : e.ref = <<"order", a, action>>} = {Spend(a, action, b.price) : b \in orders}

\* A wallet on hold spends nothing, though the purchase began before the hold.
HoldStopsSpending ==
  [][\A e \in db'.book \ db.book : e.kind = "SPEND" => ~db.held[e.account]]_vars

\* crown-pack.service.ts:17 "Crowns are credited once, and only from a signed
\* Stripe event" of a payment that was made.
GrantedOnlyWhenPaid ==
  \A o \in Packs : Grant(o) \in db.book => stripe[o] = "paid"

\* CrownEarnService.award, "clipped to what the round cap leaves": an award under
\* the cap never takes the round's earnings past it, whatever else is being
\* earned, Street Pass rewards that ignore the cap included.
CapRespected ==
  [][\A award \in Awards :
       /\ Award[award].capped
       /\ \E e \in db'.book \ db.book : e.ref = <<"earn", award>>
       => EarnedInRound(db', Award[award].account) <= RoundCap]_vars

\* docs/THE-DROP.md:196: an order is "refunded" once the Crowns it was credited
\* are taken back; while they are not, the order says so.
RefundedIsTakenBack ==
  \A o \in Packs :
    /\ db.packs[o] # None /\ db.packs[o].status = "refunded"
    /\ Grant(o) \in db.book
    => Reversal(o) \in db.book

-----------------------------------------------------------------------------
(* Liveness *)

\* Stripe sends the news of a payment until it is acknowledged; a transaction that can
\* go on does, and row locks are handed to their waiters in turn.
Fairness ==
  /\ \A e \in {"paid", "async_succeeded"} \X Packs : SF_vars(\E h \in Handlers : Deliver(h, e))
  /\ \A h \in Handlers : WF_vars(Reread(h) \/ Clip(h) \/ Victim(h) \/ Ends(h)) /\ SF_vars(Lock(h))

FairSpec == Spec /\ Fairness

\* A pack that was paid for is credited, or the payment comes back: whatever is
\* lost, late, repeated or deadlocked on the way.
PaidIsCredited ==
  \A o \in Packs :
    stripe[o] = "paid" ~> \/ Grant(o) \in db.book
                          \/ \E e \in db.seen : e[2] = o /\ e[1] \in {"refund_part", "refund_full", "dispute"}

=============================================================================
