--------------------------- MODULE SupporterMembership ---------------------------
(***************************************************************************)
(* Supporter subscriptions: supporter-billing.service.ts applies Stripe's  *)
(* events to the membership and grants rewards, supporter.service.ts says  *)
(* which, supporter-drop.service.ts gives the month's drop to everyone     *)
(* supporting.                                                             *)
(*                                                                         *)
(* An event is one transaction: it reads the membership without a lock,    *)
(* writes it (which locks the row to the end), records the payment, reads  *)
(* what the account holds, adds what is missing, and records the event's   *)
(* id.  A row that exists by then under one of the unique keys it inserts  *)
(* rolls everything back, and Stripe delivers the event again.             *)
(***************************************************************************)
EXTENDS Integers, FiniteSets, Sequences

CONSTANTS
  Accounts,
  Payers,        \* accounts that still go to checkout
  Subs,          \* ids of subscriptions at Stripe
  Gifts,         \* <<payer, recipient>> of gift checkouts players may make
  Marks,         \* what becomes of payments: "refunded", "disputed"
  Trying, Pages, \* <<account, subscription>> of trials that began before, and of open pages
  Handlers,      \* transactions the server runs at once
  MonthLength,   \* ticks of the clock in a month
  Bundles,       \* months with a drop
  Tiers,         \* paid months that earn a tenure badge
  MaxClock, MaxEvents, MaxAborts, \* bounds
  None

VARIABLES
  clock,
  subs,       \* subs[s]: account and status of the subscription at Stripe, or None
  carts,      \* checkout pages that are open: <<account, subscription it may start>>
  sent,       \* events Stripe has made, in the order of their creation
  seen,       \* indices of events recorded as handled
  membership, \* membership[a]: the SupporterMembership row, or None
  payments,   \* the SupporterPayment rows
  unlocks,    \* the supporter rows of AccountCosmeticUnlock
  task,       \* task[h]: the transaction h is in, or None
  aborts      \* how many transactions were lost

stripe == <<clock, subs, carts, sent>>
db == <<seen, membership, payments, unlocks>>
vars == <<stripe, db, task, aborts>>

Month(t) == t \div MonthLength

ASSUME SupporterAssumption ==
  /\ None \notin Accounts
  /\ MonthLength \in Nat \ {0}
  /\ Payers \subseteq Accounts
  /\ Gifts \subseteq Accounts \X Accounts /\ Trying \cup Pages \subseteq Accounts \X Subs
  /\ Marks \subseteq {"refunded", "disputed"}
  /\ Bundles \subseteq Nat /\ Tiers \subseteq Nat \ {0}
  /\ {MaxClock, MaxEvents, MaxAborts} \subseteq Nat

-----------------------------------------------------------------------------
(* Types *)

\* A membership change tells the status, if any, of a subscription; an invoice may
\* be for nothing; a mark is a full refund or a dispute.
Event ==
  [kind: {"checkout"}, account: Accounts, sub: Subs, at: Nat] \cup
  [kind: {"status"}, account: Accounts, sub: Subs, at: Nat,
   status: {"trialing", "active", "past_due", "canceled"}] \cup
  [kind: {"invoice"}, account: Accounts, sub: Subs, at: Nat, paid: BOOLEAN] \cup
  [kind: {"gift"}, account: Accounts, to: Accounts, at: Nat] \cup
  [kind: {"mark"}, account: Accounts, status: {"refunded", "disputed"}, at: Nat]

Membership == [sub: Subs, status: {"incomplete", "trialing", "active", "past_due", "canceled"},
               at: Nat]

\* Of a customer or, for a gift, of nobody who could be refunded by name.
Payment == [id: Nat, account: Accounts, at: Nat, gift: BOOLEAN,
            status: {"paid", "refunded", "disputed"}]

\* n is the month of a drop, or the tier of a tenure badge.
Unlock == [account: Accounts, key: {"rewards", "drop", "tenure"}, n: Nat]

\* The null value is no row.
ASSUME NoneAssumption == None \notin Membership

-----------------------------------------------------------------------------
(* Rewards: supporter.service.ts *)

Rewards(a) == [account |-> a, key |-> "rewards", n |-> 0]
Drop(a, m) == [account |-> a, key |-> "drop", n |-> m]
Badge(a, t) == [account |-> a, key |-> "tenure", n |-> t]

\* Mutant: payments are counted, not the months they fall in.
PaidMonthsEach(a, rows) == Cardinality({p \in rows : p.account = a /\ p.status = "paid"})

PaidMonths(a, rows) ==
  Cardinality({Month(p.at) : p \in {q \in rows : q.account = a /\ q.status = "paid"}})

\* Mutant: what the account holds is not looked at.
MissingAll(keys) == keys

Missing(keys) == keys \ unlocks

Drops(a, m) == {Drop(x, m) : x \in IF m \in Bundles THEN {a} ELSE {}}
Badges(a, rows) == {Badge(a, t) : t \in {u \in Tiers : PaidMonths(a, rows) >= u}}

-----------------------------------------------------------------------------
(* What an event does: supporter-billing.service.ts applyEvent *)

Changes(e) == e.kind \in {"checkout", "status", "invoice"}
Pays(e) == e.kind = "gift" \/ (e.kind = "invoice" /\ e.paid)

PaymentOf(i) ==
  [id |-> i, account |-> sent[i].account, at |-> sent[i].at, gift |-> sent[i].kind = "gift",
   status |-> "paid"]

\* upsert: a payment recorded before stays as it is.
Recorded(i, rows) ==
  IF Pays(sent[i]) /\ \A p \in rows : p.id # i THEN rows \cup {PaymentOf(i)} ELSE rows

\* What a payment entitles to: a gift's drop goes to the recipient, the month to the payer.
Entitled(i, rows) ==
  LET e == sent[i] IN
  IF ~Pays(e) THEN {}
  ELSE Badges(e.account, rows) \cup
       (IF e.kind = "gift" THEN Drops(e.to, Month(e.at))
        ELSE {Rewards(e.account)} \cup Drops(e.account, Month(e.at)))

\* An event of another subscription, older than the row, leaves the row alone.
OldOther(row, e) == row # None /\ row.sub # e.sub /\ row.at > e.at
Stale(row, e) == row # None /\ row.at > e.at

\* Mutant: an invoice leaves its own status on the membership.
StatusOfInvoice(row, e) == IF e.kind = "status" THEN e.status ELSE "paid"

Status(row, e) ==
  CASE e.kind = "status" -> e.status
    [] e.kind = "invoice" -> "active"
    [] OTHER -> IF row = None THEN "incomplete" ELSE row.status

\* Mutant: the row's stripeEventAt is not compared.
ChangedAlways(saw, row, e) == [sub |-> e.sub, status |-> Status(row, e), at |-> e.at]

\* The columns written are chosen by the row as it was read.
Changed(saw, row, e) ==
  IF Stale(saw, e) THEN [row EXCEPT !.sub = e.sub]
  ELSE [sub |-> e.sub, status |-> Status(row, e), at |-> e.at]

-----------------------------------------------------------------------------
(* Transactions *)

Idle(h) == task[h] = None
Does(h, op) == ~Idle(h) /\ task[h].op = op
Goes(h, new) == task' = [task EXCEPT ![h] = new] /\ UNCHANGED aborts
Done(h) == Goes(h, None)

\* The row of account a is written by a transaction under way.
Written(a) == \E h \in Handlers : Does(h, "commit") /\ task[h].row = a

\* The newest payment of a customer that counts as paid.
Latest(a) ==
  LET paid == {p \in payments : p.account = a /\ ~p.gift /\ p.status = "paid"}
  IN  {p \in paid : \A q \in paid : q.at <= p.at}

\* An event's transaction before it ends: the membership row it writes, if any, as it
\* was read; the rewards it adds and the payments it marks, which are read here.
Ready(i, row, saw) ==
  {[op |-> "commit", event |-> i, row |-> row, saw |-> saw,
    adds |-> Missing(Entitled(i, Recorded(i, payments))), marks |-> marks] :
   marks \in IF sent[i].kind = "mark" /\ Latest(sent[i].account) # {}
             THEN {{p} : p \in Latest(sent[i].account)} ELSE {{}}}

\* All of it is seen at once, unless an event or a reward is there already.
Commits(t) ==
  LET e == sent[t.event]
      kept == payments \ {p \in payments : \E q \in t.marks : q.id = p.id}
  IN  IF t.event \in seen \/ t.adds \cap unlocks # {}
      THEN UNCHANGED db
      ELSE /\ seen' = seen \cup {t.event}
           /\ membership' = IF t.row = None THEN membership
                            ELSE [membership EXCEPT ![t.row] = Changed(t.saw, @, e)]
           /\ payments' = Recorded(t.event, kept) \cup {[p EXCEPT !.status = e.status] : p \in t.marks}
           /\ unlocks' = unlocks \cup t.adds

Begun(i) == [op |-> "event", event |-> i, saw |-> membership[sent[i].account]]

\* Mutant: the event is recorded as handled before its changes are.
DeliverSeen(h, i) ==
  /\ Idle(h) /\ i \in DOMAIN sent \ seen
  /\ seen' = seen \cup {i}
  /\ Goes(h, Begun(i))
  /\ UNCHANGED <<stripe, membership, payments, unlocks>>

\* Stripe delivers an event that is not recorded as handled.  One that changes the
\* membership reads it.
Deliver(h, i) ==
  /\ Idle(h) /\ i \in DOMAIN sent \ seen
  /\ IF Changes(sent[i]) THEN Goes(h, Begun(i)) ELSE \E t \in Ready(i, None, None) : Goes(h, t)
  /\ UNCHANGED <<stripe, db>>

\* The membership row is written, and so locked to the end, unless the event leaves it
\* alone; a row that was created since it was read fails the transaction.  An event
\* that pays for nothing ends here.
Write(h) ==
  /\ Does(h, "event")
  /\ LET i == task[h].event
         saw == task[h].saw
         row == IF OldOther(saw, sent[i]) THEN None ELSE sent[i].account
     IN  /\ row # None => ~Written(row)
         /\ IF row # None /\ saw = None /\ membership[row] # None THEN Done(h) /\ UNCHANGED db
            ELSE \E t \in Ready(i, row, saw) :
                   IF Pays(sent[i]) THEN Goes(h, t) /\ UNCHANGED db ELSE Done(h) /\ Commits(t)
  /\ UNCHANGED stripe

CommitEvent(h) ==
  /\ Does(h, "commit")
  /\ Commits(task[h]) /\ Done(h)
  /\ UNCHANGED stripe

-----------------------------------------------------------------------------
(* The monthly drop: supporter-drop.service.ts sweep *)

\* Mutant: badges that are missing do not count.
OwedDrops(a, m) == Missing(Drops(a, m))

Owed(a, m) == Missing(Drops(a, m) \cup Badges(a, payments))

\* Mutant: accounts on trial count as paid.
SupportingOrTrial == {a \in Accounts : membership[a] # None /\ membership[a].status \in {"active", "trialing"}}

\* Accounts that count as paid supporters.
Supporting == {a \in Accounts : membership[a] # None /\ membership[a].status = "active"}

StartSweep(h) ==
  /\ Idle(h) /\ Month(clock) \in Bundles
  /\ LET todo == {a \in Supporting : Owed(a, Month(clock)) # {}}
     IN  todo # {} /\ Goes(h, [op |-> "sweep", todo |-> todo, month |-> Month(clock)])
  /\ UNCHANGED <<stripe, db>>

\* The next account, in a transaction of its own.
SweepNext(h) ==
  /\ Does(h, "sweep")
  /\ \E a \in task[h].todo :
       Goes(h, [op |-> "grant", todo |-> task[h].todo \ {a}, month |-> task[h].month,
                adds |-> Owed(a, task[h].month)])
  /\ UNCHANGED <<stripe, db>>

\* What somebody else granted meanwhile makes the sweep pass the account over.
CommitGrant(h) ==
  /\ Does(h, "grant")
  /\ unlocks' = IF task[h].adds \cap unlocks # {} THEN unlocks ELSE unlocks \cup task[h].adds
  /\ Goes(h, IF task[h].todo = {} THEN None
             ELSE [op |-> "sweep", todo |-> task[h].todo, month |-> task[h].month])
  /\ UNCHANGED <<stripe, seen, membership, payments>>

\* A transaction fails or its process dies.
Abort(h) ==
  /\ ~Idle(h) /\ aborts < MaxAborts
  /\ task' = [task EXCEPT ![h] = None] /\ aborts' = aborts + 1
  /\ UNCHANGED <<stripe, db>>

-----------------------------------------------------------------------------
(* Players and Stripe.  MaxEvents bounds what Stripe has to say. *)

Says(events) ==
  /\ Len(sent) + Len(events) <= MaxEvents
  /\ sent' = sent \o events

StatusEvent(s, status) ==
  [kind |-> "status", account |-> subs[s].account, sub |-> s, status |-> status, at |-> clock]

InvoiceEvent(a, s, paid) == [kind |-> "invoice", account |-> a, sub |-> s, paid |-> paid, at |-> clock]

\* startCheckout: one who supports already is sent to the billing portal instead.
OpenCheckout(a, s) ==
  /\ ~(membership[a] # None /\ membership[a].status \in {"trialing", "active", "past_due"})
  /\ subs[s] = None /\ \A x \in Accounts : <<x, s>> \notin carts
  /\ carts' = carts \cup {<<a, s>>}
  /\ UNCHANGED <<clock, subs, sent, db, task, aborts>>

\* The player completes the page: a trial begins, with an invoice for nothing.
Subscribe(a, s) ==
  /\ <<a, s>> \in carts
  /\ carts' = carts \ {<<a, s>>}
  /\ subs' = [subs EXCEPT ![s] = [account |-> a, status |-> "trialing"]]
  /\ Says(<<[kind |-> "checkout", account |-> a, sub |-> s, at |-> clock],
            [kind |-> "status", account |-> a, sub |-> s, status |-> "trialing", at |-> clock],
            InvoiceEvent(a, s, FALSE)>>)
  /\ UNCHANGED <<clock, db, task, aborts>>

Becomes(s, status) ==
  /\ subs' = [subs EXCEPT ![s].status = status]
  /\ UNCHANGED <<clock, carts, db, task, aborts>>

\* A subscription is paid once a month.
Bill(s) ==
  /\ subs[s] # None /\ subs[s].status # "canceled"
  /\ \A i \in DOMAIN sent : sent[i].kind = "invoice" /\ sent[i].sub = s /\ sent[i].paid
                            => Month(sent[i].at) # Month(clock)
  /\ Says(<<StatusEvent(s, "active"), InvoiceEvent(subs[s].account, s, TRUE)>>)
  /\ Becomes(s, "active")

BillFails(s) ==
  /\ subs[s] # None /\ subs[s].status \in {"trialing", "active"}
  /\ Says(<<StatusEvent(s, "past_due")>>)
  /\ Becomes(s, "past_due")

Cancel(s) ==
  /\ subs[s] # None /\ subs[s].status # "canceled"
  /\ Says(<<StatusEvent(s, "canceled")>>)
  /\ Becomes(s, "canceled")

\* startGiftCheckout, paid at once.
Gift(a, b) ==
  /\ <<a, b>> \in Gifts /\ a # b
  /\ ~ \E i \in DOMAIN sent : sent[i].kind = "gift" /\ sent[i].account = a /\ sent[i].to = b
  /\ Says(<<[kind |-> "gift", account |-> a, to |-> b, at |-> clock]>>)
  /\ UNCHANGED <<clock, subs, carts, db, task, aborts>>

\* A paid invoice is refunded in full, or disputed.
TakeBack(a, status) ==
  /\ Cardinality({i \in DOMAIN sent : sent[i].kind = "mark" /\ sent[i].account = a})
       < Cardinality({i \in DOMAIN sent : sent[i].kind = "invoice" /\ sent[i].account = a /\ sent[i].paid})
  /\ Says(<<[kind |-> "mark", account |-> a, status |-> status, at |-> clock]>>)
  /\ UNCHANGED <<clock, subs, carts, db, task, aborts>>

Tick ==
  /\ clock < MaxClock /\ clock' = clock + 1
  /\ UNCHANGED <<subs, carts, sent, db, task, aborts>>

-----------------------------------------------------------------------------

Init ==
  /\ clock = 0 /\ carts = Pages /\ sent = <<>>
  /\ subs = [s \in Subs |-> IF \E a \in Accounts : <<a, s>> \in Trying
                            THEN [account |-> CHOOSE a \in Accounts : <<a, s>> \in Trying, status |-> "trialing"]
                            ELSE None]
  /\ membership = [a \in Accounts |->
                     IF \E s \in Subs : <<a, s>> \in Trying
                     THEN [sub |-> CHOOSE s \in Subs : <<a, s>> \in Trying, status |-> "trialing", at |-> 0]
                     ELSE None]
  /\ seen = {} /\ payments = {} /\ unlocks = {}
  /\ task = [h \in Handlers |-> None] /\ aborts = 0

Serve(h) ==
  \/ \E i \in DOMAIN sent : Deliver(h, i)
  \/ Write(h) \/ CommitEvent(h)
  \/ StartSweep(h) \/ SweepNext(h) \/ CommitGrant(h)

Outside ==
  \/ \E a \in Payers, s \in Subs : OpenCheckout(a, s)
  \/ \E a \in Accounts, s \in Subs : Subscribe(a, s)
  \/ \E s \in Subs : Bill(s) \/ BillFails(s) \/ Cancel(s)
  \/ \E a, b \in Accounts : Gift(a, b)
  \/ \E a \in Accounts, status \in Marks : TakeBack(a, status)
  \/ Tick

Next == Outside \/ \E h \in Handlers : Serve(h) \/ Abort(h)

Spec == Init /\ [][Next]_vars

\* The server goes on while Stripe has something to deliver or the hourly sweep finds
\* something to give.  Nothing is asked of players, of Stripe's billing or of the clock.
FairSpec == Spec /\ WF_vars(\E h \in Handlers : Serve(h))

-----------------------------------------------------------------------------
(* Properties *)

\* Every variable keeps its type.
TypeOK ==
  /\ clock \in Nat
  /\ subs \in [Subs -> [account: Accounts, status: {"trialing", "active", "past_due", "canceled"}] \cup {None}]
  /\ carts \subseteq Accounts \X Subs
  /\ sent \in Seq(Event) /\ seen \subseteq DOMAIN sent
  /\ membership \in [Accounts -> Membership \cup {None}]
  /\ payments \subseteq Payment /\ unlocks \subseteq Unlock
  /\ \A p, q \in payments : p.id = q.id => p = q

\* An event that is recorded as handled has done all it does: its payment is there,
\* and the rewards and the drop it pays for are with the one they are for.  However
\* often it was delivered, and whatever failed on the way.
HandledWhole ==
  \A i \in seen :
    LET e == sent[i] IN
    /\ Pays(e) => \E p \in payments : p.id = i /\ p.account = e.account
    /\ e.kind = "invoice" /\ e.paid => Rewards(e.account) \in unlocks /\ Drops(e.account, Month(e.at)) \subseteq unlocks
    /\ e.kind = "gift" => Drops(e.to, Month(e.at)) \subseteq unlocks

\* Months in which a's payments fall, refunded since or not.
MonthsOf(a) == {Month(p.at) : p \in {q \in payments : q.account = a}}

\* A tenure badge is held by one who paid for as many different months.
TenureEarned ==
  \A u \in unlocks : u.key = "tenure" => Cardinality(MonthsOf(u.account)) >= u.n

\* A monthly drop is with somebody who paid Stripe or got a gift, except for one
\* way: the invoice a trial begins with is for nothing, yet makes the membership
\* active, and so the account counts as paid.
UnpaidDropOnlyByTrialInvoice ==
  \A u \in unlocks : u.key = "drop" =>
    \E i \in DOMAIN sent :
      \/ Pays(sent[i]) /\ u.account = IF sent[i].kind = "gift" THEN sent[i].to ELSE sent[i].account
      \/ i \in seen /\ sent[i].kind = "invoice" /\ sent[i].account = u.account

\* A membership is only ever changed by an event no older than the newest one
\* applied to it, except for one way: the older event had read the row before the
\* newer was committed.
OlderOnlyByRace ==
  [][\A a \in Accounts :
       membership[a] # None /\ membership'[a] # membership[a] =>
         \E h \in Handlers :
           /\ ~Idle(h) /\ task[h].op \in {"event", "commit"} /\ task'[h] = None
           /\ sent[task[h].event].account = a
           /\ sent[task[h].event].at >= membership[a].at \/ task[h].saw # membership[a]]_vars

\* Everything Stripe was paid for is applied in the end.
PaymentsApplied ==
  []<>(\A i \in DOMAIN sent : Pays(sent[i]) => i \in seen)

\* Two payments may each miss the other's month: the sweep makes up for it, so again
\* and again no supporting account waits for a badge it paid for.
TenureCatchesUp ==
  []<>(\A a \in Supporting, t \in Tiers : PaidMonths(a, payments) >= t => Badge(a, t) \in unlocks)

=============================================================================
