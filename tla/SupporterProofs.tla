---------------------------- MODULE SupporterProofs ----------------------------
(***************************************************************************)
(* What supporter billing owes for every event it recorded as handled, and *)
(* who may hold a month's drop, for every set of accounts, subscriptions,  *)
(* gifts and handlers, and whatever Stripe has to say in whatever order.   *)
(***************************************************************************)
EXTENDS SupporterMembership, Sums

-----------------------------------------------------------------------------
(* The inductive invariant *)

\* What an event pays for, badges aside, is among the unlocks S.
Served(e, S) ==
  /\ e.kind = "invoice" /\ e.paid => Rewards(e.account) \in S /\ Drops(e.account, Month(e.at)) \subseteq S
  /\ e.kind = "gift" => Drops(e.to, Month(e.at)) \subseteq S

\* Account a paid Stripe, got a gift, or had the invoice a trial begins with.
PaidFor(a) ==
  \E i \in DOMAIN sent :
    \/ Pays(sent[i]) /\ a = IF sent[i].kind = "gift" THEN sent[i].to ELSE sent[i].account
    \/ i \in seen /\ sent[i].kind = "invoice" /\ sent[i].account = a

DropsPaidFor(S) == \A u \in S : u.key = "drop" => PaidFor(u.account)

\* A row that was there when it was read still is.
StillThere(a, saw) == saw # None => membership[a] \in Membership

IsEvent(t) ==
  /\ t = [op |-> "event", event |-> t.event, saw |-> t.saw]
  /\ t.event \in DOMAIN sent /\ Changes(sent[t.event])
  /\ t.saw \in Membership \cup {None} /\ StillThere(sent[t.event].account, t.saw)

IsCommit(t) ==
  /\ DOMAIN t = {"op", "event", "row", "saw", "adds", "marks"} /\ t.op = "commit"
  /\ t.event \in DOMAIN sent
  /\ t.row # None => /\ t.row = sent[t.event].account /\ Changes(sent[t.event])
                     /\ t.saw \in Membership \cup {None} /\ StillThere(t.row, t.saw)
  /\ t.adds \subseteq Unlock /\ DropsPaidFor(t.adds) /\ Served(sent[t.event], t.adds \cup unlocks)
  /\ t.marks # {} => sent[t.event].kind = "mark"
  /\ \A p, q \in t.marks : p = q
  /\ \A p \in t.marks : p \in Payment /\ p.id \in DOMAIN sent /\ p.account = sent[p.id].account

IsSweep(t) ==
  /\ t = [op |-> "sweep", todo |-> t.todo, month |-> t.month]
  /\ t.todo \subseteq Accounts /\ \A a \in t.todo : PaidFor(a)

IsGrant(t) ==
  /\ t = [op |-> "grant", todo |-> t.todo, month |-> t.month, adds |-> t.adds]
  /\ t.todo \subseteq Accounts /\ \A a \in t.todo : PaidFor(a)
  /\ t.adds \subseteq Unlock /\ DropsPaidFor(t.adds)

IsTask(t) == IsEvent(t) \/ IsCommit(t) \/ IsSweep(t) \/ IsGrant(t)

TasksOK ==
  /\ task = [h \in Handlers |-> task[h]]
  /\ \A h \in Handlers : Idle(h) \/ IsTask(task[h])

\* A payment is of an event, and of the account the event names.
PaymentsOK == \A p \in payments : p.id \in DOMAIN sent /\ p.account = sent[p.id].account

\* Only who paid, or began a trial, counts as a paying supporter.
ActivePaidFor ==
  /\ \A a \in Accounts : membership[a] # None /\ membership[a].status = "active" => PaidFor(a)
  /\ \A i \in DOMAIN sent : sent[i].kind = "status" /\ sent[i].status = "active" => PaidFor(sent[i].account)

RowsOK == TypeOK /\ PaymentsOK /\ HandledWhole /\ ActivePaidFor /\ DropsPaidFor(unlocks)

IInv == RowsOK /\ TasksOK

-----------------------------------------------------------------------------
(* What only grows *)

\* Events, handled events, unlocks and memberships stay.
Grows ==
  /\ DOMAIN sent \subseteq DOMAIN sent' /\ \A i \in DOMAIN sent : sent'[i] = sent[i]
  /\ seen \subseteq seen' /\ unlocks \subseteq unlocks'
  /\ \A a \in Accounts : membership[a] \in Membership => membership'[a] \in Membership

\* What was paid for stays paid for.
LEMMA PaidForStays == ASSUME Grows, NEW a, PaidFor(a) PROVE PaidFor(a)'
  BY DEF Grows, PaidFor, Pays

LEMMA DropsPaidForStays == ASSUME Grows, NEW S, DropsPaidFor(S) PROVE DropsPaidFor(S)'
  BY PaidForStays DEF DropsPaidFor

LEMMA AccountOfEvent == ASSUME TypeOK, NEW i \in DOMAIN sent PROVE sent[i] \in Event /\ sent[i].account \in Accounts
  BY DEF TypeOK, Event

\* A transaction under way stays what it is while others commit.
LEMMA TaskStays == ASSUME TypeOK, Grows, NEW t, IsTask(t) PROVE IsTask(t)'
<1>1. CASE IsEvent(t)
  BY <1>1, AccountOfEvent DEF IsTask, IsEvent, Grows, StillThere, Changes
<1>2. CASE IsCommit(t)
  <2>1. DropsPaidFor(t.adds)'
    BY <1>2, DropsPaidForStays DEF IsCommit
  <2>2. Served(sent[t.event], t.adds \cup unlocks)'
    BY <1>2 DEF IsCommit, Served, Grows
  <2>3. t.row # None => StillThere(t.row, t.saw)'
    BY <1>2, AccountOfEvent DEF IsCommit, StillThere, Grows
  <2>4. t.event \in DOMAIN sent' /\ sent'[t.event] = sent[t.event]
    BY <1>2 DEF IsCommit, Grows
  <2>5. \A p \in t.marks : p.id \in DOMAIN sent' /\ p.account = sent'[p.id].account
    BY <1>2 DEF IsCommit, Grows
  <2>. QED  BY <1>2, <2>1, <2>2, <2>3, <2>4, <2>5 DEF IsTask, IsCommit, Changes
<1>3. CASE IsSweep(t)
  BY <1>3, PaidForStays DEF IsTask, IsSweep
<1>4. CASE IsGrant(t)
  BY <1>4, PaidForStays, DropsPaidForStays DEF IsTask, IsGrant
<1>. QED  BY <1>1, <1>2, <1>3, <1>4 DEF IsTask

-----------------------------------------------------------------------------
(* The rows, after an event *)

\* The columns an event writes make a row that is well typed.
LEMMA ChangedTyped ==
  ASSUME NEW e \in Event, Changes(e), NEW row \in Membership \cup {None},
         NEW saw \in Membership \cup {None}, saw # None => row \in Membership
  PROVE  Changed(saw, row, e) \in Membership
<1>1. CASE Stale(saw, e)
  BY <1>1 DEF Stale, Changed, Membership, Event, Changes
<1>2. CASE ~Stale(saw, e)
  <2>1. Status(row, e) \in {"incomplete", "trialing", "active", "past_due", "canceled"}
    BY DEF Status, Membership, Event, Changes
  <2>. QED  BY <1>2, <2>1 DEF Changed, Membership, Event, Changes
<1>. QED  BY <1>1, <1>2

\* A row an event leaves active was active, or the event says so.
LEMMA ChangedActive ==
  ASSUME NEW e \in Event, Changes(e), NEW row \in Membership \cup {None},
         NEW saw \in Membership \cup {None}, saw # None => row \in Membership,
         Changed(saw, row, e).status = "active"
  PROVE  \/ row # None /\ row.status = "active"
         \/ e.kind = "invoice"
         \/ e.kind = "status" /\ e.status = "active"
<1>1. CASE Stale(saw, e)
  <2>1. row \in Membership /\ Changed(saw, row, e) = [row EXCEPT !.sub = e.sub]
    BY <1>1 DEF Stale, Changed
  <2>2. row.status = "active" /\ row # None
    BY <2>1, NoneAssumption DEF Membership
  <2>. QED  BY <2>2
<1>2. CASE ~Stale(saw, e)
  BY <1>2 DEF Changed, Status
<1>. QED  BY <1>1, <1>2

\* Only an event that marks payments has payments to mark, and it pays for nothing.
LEMMA MarksPayNothing ==
  ASSUME NEW t, IsCommit(t), NEW p \in t.marks
  PROVE  ~Pays(sent[t.event]) /\ ~Changes(sent[t.event]) /\ t.row = None
  BY DEF IsCommit, Pays, Changes

\* A transaction that commits an event leaves the rows as they should be.
LEMMA CommitsKeepsRows ==
  ASSUME RowsOK, NEW t, IsCommit(t), Commits(t), UNCHANGED stripe
  PROVE  RowsOK' /\ Grows
<1> DEFINE e == sent[t.event]
           kept == payments \ {p \in payments : \E q \in t.marks : q.id = p.id}
           marked == {[p EXCEPT !.status = e.status] : p \in t.marks}
           still == t.event \in seen \/ t.adds \cap unlocks # {}
<1>1. CASE UNCHANGED db
  <2>1. Grows
    BY <1>1 DEF Grows, db, stripe
  <2>2. TypeOK' /\ PaymentsOK' /\ HandledWhole'
    BY <1>1 DEF RowsOK, TypeOK, PaymentsOK, HandledWhole, db, stripe, Pays
  <2>3. ActivePaidFor' /\ DropsPaidFor(unlocks)'
    BY <1>1 DEF RowsOK, ActivePaidFor, DropsPaidFor, PaidFor, db, stripe, Pays
  <2>. QED  BY <2>1, <2>2, <2>3 DEF RowsOK
<1>2. CASE ~still
  <2>a. /\ seen' = seen \cup {t.event}
        /\ membership' = IF t.row = None THEN membership
                         ELSE [membership EXCEPT ![t.row] = Changed(t.saw, @, e)]
        /\ payments' = Recorded(t.event, kept) \cup marked
        /\ unlocks' = unlocks \cup t.adds
        /\ UNCHANGED <<clock, subs, carts, sent>>
    BY <1>2 DEF Commits, stripe
  <2>b. e \in Event /\ e.account \in Accounts /\ t.event \in DOMAIN sent
    BY AccountOfEvent DEF RowsOK, IsCommit
  <2>c. t.event \in Nat
    BY <2>b DEF RowsOK, TypeOK
  <2>d. PaymentOf(t.event) \in Payment
    BY <2>b, <2>c DEF PaymentOf, Payment, Event
  <2>e. \A p \in t.marks : /\ [p EXCEPT !.status = e.status] \in Payment
                           /\ [p EXCEPT !.status = e.status].id = p.id
                           /\ [p EXCEPT !.status = e.status].account = p.account
    <3>1. TAKE p \in t.marks
    <3>2. p \in Payment /\ e.kind = "mark"
      BY <3>1 DEF IsCommit
    <3>3. e.status \in {"refunded", "disputed"}
      BY <2>b, <3>2 DEF Event
    <3>. QED  BY <3>2, <3>3 DEF Payment
  <2>f. Recorded(t.event, kept) = kept \/ Recorded(t.event, kept) = kept \cup {PaymentOf(t.event)}
    BY DEF Recorded
  <2>1. membership' \in [Accounts -> Membership \cup {None}]
    <3>1. CASE t.row = None
      BY <3>1, <2>a DEF RowsOK, TypeOK
    <3>2. CASE t.row # None
      <4>1. /\ t.row \in Accounts /\ Changes(e) /\ t.saw \in Membership \cup {None}
            /\ t.saw # None => membership[t.row] \in Membership
            /\ membership[t.row] \in Membership \cup {None}
        BY <3>2, <2>b DEF IsCommit, StillThere, RowsOK, TypeOK
      <4>2. Changed(t.saw, membership[t.row], e) \in Membership
        BY <4>1, <2>b, ChangedTyped
      <4>. QED  BY <3>2, <4>1, <4>2, <2>a DEF RowsOK, TypeOK
    <3>. QED  BY <3>1, <3>2
  <2>2. Grows
    <3>1. ASSUME NEW a \in Accounts, membership[a] \in Membership PROVE membership'[a] \in Membership
      <4>1. CASE t.row = a
        <5>1. Changes(e) /\ t.saw \in Membership \cup {None} /\ t.row # None
          BY <4>1, SupporterAssumption, <2>b DEF IsCommit
        <5>2. Changed(t.saw, membership[a], e) \in Membership
          BY <5>1, <3>1, <2>b, ChangedTyped
        <5>. QED  BY <4>1, <5>1, <5>2, <2>a, <3>1 DEF RowsOK, TypeOK
      <4>2. CASE t.row # a
        BY <4>2, <3>1, <2>a DEF RowsOK, TypeOK
      <4>. QED  BY <4>1, <4>2
    <3>. QED  BY <3>1, <2>a DEF Grows
  <2>3. payments' \subseteq Payment /\ PaymentsOK'
    <3>1. \A p \in kept : p \in Payment /\ p.id \in DOMAIN sent /\ p.account = sent[p.id].account
      BY DEF RowsOK, TypeOK, PaymentsOK
    <3>2. \A p \in marked : p \in Payment /\ p.id \in DOMAIN sent /\ p.account = sent[p.id].account
      <4>1. TAKE m \in marked
      <4>2. PICK p \in t.marks : m = [p EXCEPT !.status = e.status]
        BY <4>1
      <4>3. m \in Payment /\ m.id = p.id /\ m.account = p.account
        BY <4>2, <2>e
      <4>4. p.id \in DOMAIN sent /\ p.account = sent[p.id].account
        BY DEF IsCommit
      <4>. QED  BY <4>3, <4>4
    <3>3. PaymentOf(t.event).id \in DOMAIN sent
          /\ PaymentOf(t.event).account = sent[PaymentOf(t.event).id].account
      BY <2>b DEF PaymentOf
    <3>. QED  BY <3>1, <3>2, <3>3, <2>a, <2>d, <2>f DEF PaymentsOK
  <2>4. \A p, q \in payments' : p.id = q.id => p = q
    <3>1. \A p, q \in kept : p.id = q.id => p = q
      BY DEF RowsOK, TypeOK
    <3>2. \A p, q \in marked : p = q
      BY DEF IsCommit
    <3>3. \A p \in kept, q \in marked : p.id # q.id
      BY <2>e
    <3>4. CASE t.marks = {}
      <4>1. marked = {}
        BY <3>4
      <4>2. \A p, q \in Recorded(t.event, kept) : p.id = q.id => p = q
        BY <3>1 DEF Recorded, PaymentOf
      <4>. QED  BY <4>1, <4>2, <2>a
    <3>5. CASE t.marks # {}
      <4>1. Recorded(t.event, kept) = kept
        BY <3>5, MarksPayNothing DEF Recorded
      <4>. QED  BY <4>1, <3>1, <3>2, <3>3, <2>a
    <3>. QED  BY <3>4, <3>5
  <2>5. TypeOK'
    BY <2>1, <2>3, <2>4, <2>a, <2>b DEF RowsOK, TypeOK, IsCommit
  <2>6. \A i \in seen' : Pays(sent[i]) => \E p \in payments' : p.id = i
    <3>1. ASSUME NEW i \in seen, Pays(sent[i]) PROVE \E p \in payments' : p.id = i
      <4>1. PICK p \in payments : p.id = i
        BY <3>1 DEF RowsOK, HandledWhole
      <4>2. CASE p \in kept
        BY <4>1, <4>2, <2>a, <2>f
      <4>3. CASE p \notin kept
        BY <4>1, <4>3, <2>a, <2>e
      <4>. QED  BY <4>2, <4>3
    <3>2. Pays(e) => \E p \in payments' : p.id = t.event
      <4>1. CASE \A p \in kept : p.id # t.event
        <5>1. Pays(e) => PaymentOf(t.event) \in payments'
          BY <4>1, <2>a DEF Recorded
        <5>2. PaymentOf(t.event).id = t.event
          BY DEF PaymentOf
        <5>. QED  BY <5>1, <5>2
      <4>2. CASE ~ \A p \in kept : p.id # t.event
        <5>1. kept \subseteq payments'
          BY <2>a, <2>f
        <5>. QED  BY <4>2, <5>1
      <4>. QED  BY <4>1, <4>2
    <3>. QED  BY <3>1, <3>2, <2>a
  <2>7. HandledWhole'
    <3>1. \A i \in seen' : Pays(sent[i]) => \E p \in payments' : p.id = i /\ p.account = sent[i].account
      <4>1. SUFFICES ASSUME NEW i \in seen', Pays(sent[i])
                     PROVE  \E p \in payments' : p.id = i /\ p.account = sent[i].account
        OBVIOUS
      <4>2. PICK p \in payments' : p.id = i
        BY <4>1, <2>6
      <4>3. p.account = sent'[p.id].account
        BY <2>3 DEF PaymentsOK
      <4>. QED  BY <4>2, <4>3, <2>a
    <3>2. ASSUME NEW i \in seen' PROVE Served(sent[i], unlocks')
      <4>1. CASE i \in seen
        BY <4>1, <2>a DEF RowsOK, HandledWhole, Served
      <4>2. CASE i = t.event
        <5>1. t.adds \cup unlocks = unlocks'
          BY <2>a
        <5>. QED  BY <4>2, <5>1 DEF IsCommit
      <4>. QED  BY <4>1, <4>2, <3>2, <2>a
    <3>. QED  BY <3>1, <3>2, <2>a DEF HandledWhole, Served, Pays
  <2>8. DropsPaidFor(unlocks)'
    <3>1. DropsPaidFor(unlocks \cup t.adds)
      BY DEF RowsOK, IsCommit, DropsPaidFor
    <3>. QED  BY <3>1, <2>2, <2>a, PaidForStays DEF DropsPaidFor
  <2>9. ActivePaidFor'
    <3>1. ASSUME NEW a \in Accounts, membership'[a] # None, membership'[a].status = "active"
          PROVE  PaidFor(a)'
      <4>1. CASE membership[a] # None /\ membership[a].status = "active"
        BY <4>1, <2>2, PaidForStays DEF RowsOK, ActivePaidFor
      <4>2. CASE ~(membership[a] # None /\ membership[a].status = "active")
        <5>1. t.row = a /\ t.row # None /\ membership'[a] = Changed(t.saw, membership[a], e)
          BY <3>1, <4>2, <2>a DEF RowsOK, TypeOK
        <5>2. /\ Changes(e) /\ e.account = a /\ t.saw \in Membership \cup {None}
              /\ t.saw # None => membership[a] \in Membership
              /\ membership[a] \in Membership \cup {None}
          BY <5>1 DEF IsCommit, StillThere, RowsOK, TypeOK
        <5>3. e.kind = "invoice" \/ (e.kind = "status" /\ e.status = "active")
          BY <5>1, <5>2, <3>1, <4>2, <2>b, ChangedActive
        <5>4. CASE e.kind = "invoice"
          BY <5>4, <5>2, <2>a, <2>b DEF PaidFor
        <5>5. CASE e.kind = "status" /\ e.status = "active"
          BY <5>5, <5>2, <2>b, <2>2, PaidForStays DEF RowsOK, ActivePaidFor
        <5>. QED  BY <5>3, <5>4, <5>5
      <4>. QED  BY <4>1, <4>2
    <3>2. ASSUME NEW i \in DOMAIN sent, sent[i].kind = "status", sent[i].status = "active"
          PROVE  PaidFor(sent[i].account)'
      <4>1. PICK a : a = sent[i].account
        OBVIOUS
      <4>2. PaidFor(a)'
        BY <4>1, <3>2, <2>2, PaidForStays DEF RowsOK, ActivePaidFor
      <4>. QED  BY <4>1, <4>2, <2>a
    <3>. QED  BY <3>1, <3>2, <2>a DEF ActivePaidFor
  <2>. QED  BY <2>2, <2>3, <2>5, <2>7, <2>8, <2>9 DEF RowsOK
<1>. QED  BY <1>1, <1>2 DEF Commits

-----------------------------------------------------------------------------
(* The rows, when something else happens *)

LEMMA RowsStay ==
  ASSUME RowsOK, UNCHANGED <<sent, db>>, clock' \in Nat,
         (subs \in [Subs -> [account: Accounts, status: {"trialing", "active", "past_due", "canceled"}] \cup {None}])',
         (carts \subseteq Accounts \X Subs)'
  PROVE  RowsOK' /\ Grows
<1>1. Grows
  BY DEF Grows, db
<1>2. TypeOK' /\ PaymentsOK' /\ HandledWhole'
  BY DEF RowsOK, TypeOK, PaymentsOK, HandledWhole, db, Pays
<1>3. ActivePaidFor' /\ DropsPaidFor(unlocks)'
  BY DEF RowsOK, ActivePaidFor, DropsPaidFor, PaidFor, db, Pays
<1>. QED  BY <1>1, <1>2, <1>3 DEF RowsOK

\* What Stripe adds comes after what it had said.
LEMMA SaysMore ==
  ASSUME sent \in Seq(Event), NEW events \in Seq(Event), sent' = sent \o events
  PROVE  /\ sent' \in Seq(Event) /\ DOMAIN sent \subseteq DOMAIN sent'
         /\ \A i \in DOMAIN sent : sent'[i] = sent[i]
         /\ \A i \in DOMAIN sent' : i \in DOMAIN sent \/ \E k \in DOMAIN events : sent'[i] = events[k]
         /\ \A k \in DOMAIN events : \E i \in DOMAIN sent' : sent'[i] = events[k]
<1>1. /\ sent' \in Seq(Event) /\ Len(sent') = Len(sent) + Len(events)
      /\ DOMAIN sent = 1..Len(sent) /\ DOMAIN sent' = 1..Len(sent') /\ DOMAIN events = 1..Len(events)
      /\ Len(sent) \in Nat /\ Len(events) \in Nat
  OBVIOUS
<1>2. /\ \A i \in 1..Len(sent) : sent'[i] = sent[i]
      /\ \A k \in 1..Len(events) : sent'[Len(sent) + k] = events[k]
  OBVIOUS
<1>3. \A i \in DOMAIN sent' : i \in DOMAIN sent \/ \E k \in DOMAIN events : sent'[i] = events[k]
  <2>1. TAKE i \in DOMAIN sent'
  <2>2. CASE i > Len(sent)
    <3>1. i - Len(sent) \in 1..Len(events) /\ i = Len(sent) + (i - Len(sent))
      BY <1>1, <2>1, <2>2
    <3>. QED  BY <1>1, <1>2, <3>1
  <2>3. CASE ~(i > Len(sent))
    BY <1>1, <2>1, <2>3
  <2>. QED  BY <2>2, <2>3
<1>4. \A k \in DOMAIN events : \E i \in DOMAIN sent' : sent'[i] = events[k]
  <2>1. TAKE k \in DOMAIN events
  <2>2. Len(sent) + k \in DOMAIN sent'
    BY <1>1, <2>1
  <2>. QED  BY <1>1, <1>2, <2>1, <2>2
<1>. QED  BY <1>1, <1>2, <1>3, <1>4

\* Stripe tells an active status together with the invoice that was paid.
Backed(events) ==
  \A k \in DOMAIN events :
    events[k].kind = "status" /\ events[k].status = "active" =>
      \E m \in DOMAIN events : /\ events[m].kind = "invoice" /\ events[m].paid
                              /\ events[m].account = events[k].account

LEMMA NewsKeepsRows ==
  ASSUME RowsOK, NEW events \in Seq(Event), Backed(events), sent' = sent \o events,
         UNCHANGED <<clock, db>>,
         (subs \in [Subs -> [account: Accounts, status: {"trialing", "active", "past_due", "canceled"}] \cup {None}])',
         (carts \subseteq Accounts \X Subs)'
  PROVE  RowsOK' /\ Grows
<1>1. /\ sent' \in Seq(Event) /\ DOMAIN sent \subseteq DOMAIN sent'
      /\ \A i \in DOMAIN sent : sent'[i] = sent[i]
      /\ \A i \in DOMAIN sent' : i \in DOMAIN sent \/ \E k \in DOMAIN events : sent'[i] = events[k]
      /\ \A k \in DOMAIN events : \E i \in DOMAIN sent' : sent'[i] = events[k]
  BY SaysMore DEF RowsOK, TypeOK
<1>2. Grows
  BY <1>1 DEF Grows, db
<1>3. TypeOK'
  BY <1>1 DEF RowsOK, TypeOK, db
<1>4. PaymentsOK'
  BY <1>1 DEF RowsOK, PaymentsOK, db
<1>5. HandledWhole'
  <2>1. seen' = seen /\ payments' = payments /\ unlocks' = unlocks /\ \A i \in seen : sent'[i] = sent[i]
    BY <1>1 DEF RowsOK, TypeOK, db
  <2>2. ASSUME NEW i \in seen'
        PROVE  /\ Pays(sent[i])' => \E p \in payments' : p.id = i /\ p.account = sent'[i].account
               /\ Served(sent'[i], unlocks')
    <3>1. i \in seen /\ sent'[i] = sent[i]
      BY <2>1
    <3>. QED  BY <3>1, <2>1 DEF RowsOK, HandledWhole, Served, Pays
  <2>. QED  BY <2>2 DEF HandledWhole, Served, Pays
<1>6. DropsPaidFor(unlocks)'
  BY <1>2, PaidForStays DEF RowsOK, DropsPaidFor, db
<1>7. ActivePaidFor'
  <2>1. ASSUME NEW a \in Accounts, membership'[a] # None, membership'[a].status = "active" PROVE PaidFor(a)'
    BY <2>1, <1>2, PaidForStays DEF RowsOK, ActivePaidFor, db
  <2>2. ASSUME NEW i \in DOMAIN sent', sent'[i].kind = "status", sent'[i].status = "active"
        PROVE  PaidFor(sent[i].account)'
    <3>1. PICK a : a = sent'[i].account
      OBVIOUS
    <3>2. PaidFor(a)'
      <4>1. CASE i \in DOMAIN sent
        BY <4>1, <3>1, <2>2, <1>1, <1>2, PaidForStays DEF RowsOK, ActivePaidFor
      <4>2. CASE i \notin DOMAIN sent
        <5>1. PICK k \in DOMAIN events : sent'[i] = events[k]
          BY <4>2, <1>1
        <5>2. PICK m \in DOMAIN events : /\ events[m].kind = "invoice" /\ events[m].paid
                                       /\ events[m].account = a
          BY <5>1, <3>1, <2>2 DEF Backed
        <5>3. PICK j \in DOMAIN sent' : sent'[j] = events[m]
          BY <1>1
        <5>. QED  BY <5>2, <5>3 DEF PaidFor, Pays
      <4>. QED  BY <4>1, <4>2
    <3>. QED  BY <3>1, <3>2
  <2>. QED  BY <2>1, <2>2 DEF ActivePaidFor
<1>. QED  BY <1>2, <1>3, <1>4, <1>5, <1>6, <1>7 DEF RowsOK

-----------------------------------------------------------------------------
(* The transactions *)

LEMMA TasksWait == ASSUME IInv, Grows, task' = task PROVE TasksOK'
  BY TaskStays DEF IInv, RowsOK, TasksOK, Idle

LEMMA TaskSet ==
  ASSUME IInv, Grows, NEW h \in Handlers, NEW new, new = None \/ IsTask(new), task' = [task EXCEPT ![h] = new]
  PROVE  TasksOK'
<1>1. task' = [x \in Handlers |-> task'[x]]
  BY DEF IInv, TasksOK
<1>2. ASSUME NEW x \in Handlers PROVE Idle(x)' \/ IsTask(task[x])'
  <2>1. PICK t : t = task'[x]
    OBVIOUS
  <2>2. t = None \/ IsTask(t)
    BY <2>1 DEF IInv, TasksOK, Idle
  <2>3. t = None \/ IsTask(t)'
    BY <2>2, TaskStays DEF IInv, RowsOK
  <2>. QED  BY <2>1, <2>3 DEF Idle
<1>. QED  BY <1>1, <1>2 DEF TasksOK

\* The operation tells what kind of transaction a handler is in.
LEMMA TaskOfOp ==
  ASSUME IInv, NEW h \in Handlers, NEW t, t = task[h], NEW op, Does(h, op)
  PROVE  /\ op = "event" => IsEvent(t)
         /\ op = "commit" => IsCommit(t)
         /\ op = "sweep" => IsSweep(t)
         /\ op = "grant" => IsGrant(t)
<1>1. t.op = op /\ IsTask(t)
  BY DEF IInv, TasksOK, Does, Idle
<1>2. IsEvent(t) => t.op = "event"
  BY DEF IsEvent
<1>3. IsCommit(t) => t.op = "commit"
  BY DEF IsCommit
<1>4. IsSweep(t) => t.op = "sweep"
  BY DEF IsSweep
<1>5. IsGrant(t) => t.op = "grant"
  BY DEF IsGrant
<1>. QED  BY <1>1, <1>2, <1>3, <1>4, <1>5 DEF IsTask

\* The unlocks of a month's drop and of tenure badges.
LEMMA DropsTyped ==
  ASSUME NEW a \in Accounts, NEW m
  PROVE  Drops(a, m) \subseteq Unlock /\ \A u \in Drops(a, m) : u.key = "drop" /\ u.account = a
<1>1. \A u \in Drops(a, m) : u = Drop(a, m) /\ m \in Nat
  BY SupporterAssumption DEF Drops
<1>. QED  BY <1>1 DEF Drop, Unlock

LEMMA BadgesTyped ==
  ASSUME NEW a \in Accounts, NEW rows
  PROVE  Badges(a, rows) \subseteq Unlock /\ \A u \in Badges(a, rows) : u.key = "tenure"
<1>1. \A u \in Badges(a, rows) : \E t \in Nat : u = Badge(a, t)
  BY SupporterAssumption DEF Badges
<1>. QED  BY <1>1 DEF Badge, Unlock

\* What an event entitles to are unlocks, and drops among them are paid for.
LEMMA EntitledPaidFor ==
  ASSUME RowsOK, NEW i \in DOMAIN sent, NEW rows
  PROVE  /\ Entitled(i, rows) \subseteq Unlock /\ DropsPaidFor(Entitled(i, rows))
         /\ Served(sent[i], Entitled(i, rows))
<1>1. PICK e : e = sent[i]
  OBVIOUS
<1>2. e \in Event /\ e.account \in Accounts
  BY <1>1, AccountOfEvent DEF RowsOK
<1>3. CASE ~Pays(e)
  BY <1>1, <1>3 DEF Entitled, Pays, DropsPaidFor, Served
<1>4. CASE Pays(e)
  <2>1. CASE e.kind = "gift"
    <3>1. e.to \in Accounts
      BY <1>2, <2>1 DEF Event
    <3>2. Entitled(i, rows) = Badges(e.account, rows) \cup Drops(e.to, Month(e.at))
      BY <1>1, <1>4, <2>1 DEF Entitled
    <3>3. PaidFor(e.to)
      BY <1>1, <1>4, <2>1 DEF PaidFor
    <3>4. DropsPaidFor(Entitled(i, rows))
      BY <1>2, <3>1, <3>2, <3>3, DropsTyped, BadgesTyped DEF DropsPaidFor
    <3>. QED  BY <1>1, <1>2, <2>1, <3>1, <3>2, <3>4, DropsTyped, BadgesTyped DEF Served
  <2>2. CASE e.kind # "gift"
    <3>1. Entitled(i, rows) = Badges(e.account, rows) \cup {Rewards(e.account)} \cup Drops(e.account, Month(e.at))
      BY <1>1, <1>4, <2>2 DEF Entitled
    <3>2. PaidFor(e.account)
      BY <1>1, <1>4, <2>2 DEF PaidFor
    <3>3. Rewards(e.account) \in Unlock /\ Rewards(e.account).key = "rewards"
      BY <1>2 DEF Rewards, Unlock
    <3>4. DropsPaidFor(Entitled(i, rows))
      BY <1>2, <3>1, <3>2, <3>3, DropsTyped, BadgesTyped DEF DropsPaidFor
    <3>. QED  BY <1>1, <1>2, <2>2, <3>1, <3>3, <3>4, DropsTyped, BadgesTyped DEF Served
  <2>. QED  BY <2>1, <2>2
<1>. QED  BY <1>3, <1>4

\* A transaction that has done all but end.
LEMMA ReadyIsCommit ==
  ASSUME RowsOK, NEW i \in DOMAIN sent, NEW row, NEW saw, NEW t \in Ready(i, row, saw),
         row # None => /\ row = sent[i].account /\ Changes(sent[i])
                       /\ saw \in Membership \cup {None} /\ StillThere(row, saw)
  PROVE  IsCommit(t)
<1>1. PICK E, marks :
        /\ E = Entitled(i, Recorded(i, payments))
        /\ marks \in IF sent[i].kind = "mark" /\ Latest(sent[i].account) # {}
                     THEN {{p} : p \in Latest(sent[i].account)} ELSE {{}}
        /\ t = [op |-> "commit", event |-> i, row |-> row, saw |-> saw, adds |-> Missing(E), marks |-> marks]
  BY DEF Ready
<1>2. E \subseteq Unlock /\ DropsPaidFor(E) /\ Served(sent[i], E)
  BY <1>1, EntitledPaidFor
<1>3. Missing(E) \subseteq Unlock /\ DropsPaidFor(Missing(E)) /\ Missing(E) \cup unlocks = E \cup unlocks
  BY <1>2 DEF Missing, DropsPaidFor
<1>4. Served(sent[i], Missing(E) \cup unlocks)
  BY <1>2, <1>3 DEF Served
<1>5. /\ marks # {} => sent[i].kind = "mark"
      /\ \A p, q \in marks : p = q
      /\ marks \subseteq payments
  BY <1>1 DEF Latest
<1>6. \A p \in marks : p \in Payment /\ p.id \in DOMAIN sent /\ p.account = sent[p.id].account
  BY <1>5 DEF RowsOK, TypeOK, PaymentsOK
<1>. QED  BY <1>1, <1>3, <1>4, <1>5, <1>6 DEF IsCommit

\* What the sweep gives an account that counts as paid.
LEMMA OwedPaidFor ==
  ASSUME NEW a \in Accounts, PaidFor(a), NEW m
  PROVE  Owed(a, m) \subseteq Unlock /\ DropsPaidFor(Owed(a, m))
  BY DropsTyped, BadgesTyped DEF Owed, Missing, DropsPaidFor

\* What somebody is granted keeps the rows as they should be.
LEMMA GrantKeepsRows ==
  ASSUME RowsOK, NEW S \in SUBSET Unlock, DropsPaidFor(S), unlocks' = unlocks \cup S,
         UNCHANGED <<stripe, seen, membership, payments>>
  PROVE  RowsOK' /\ Grows
<1>1. Grows
  BY DEF Grows, stripe
<1>2. TypeOK' /\ PaymentsOK' /\ ActivePaidFor'
  BY DEF RowsOK, TypeOK, PaymentsOK, ActivePaidFor, PaidFor, Pays, stripe
<1>3. HandledWhole'
  BY DEF RowsOK, HandledWhole, Pays, stripe
<1>4. DropsPaidFor(unlocks)'
  <2>1. DropsPaidFor(unlocks \cup S)
    BY DEF RowsOK, DropsPaidFor
  <2>. QED  BY <1>1, <2>1, PaidForStays DEF DropsPaidFor
<1>. QED  BY <1>1, <1>2, <1>3, <1>4 DEF RowsOK

-----------------------------------------------------------------------------
(* Init, and every action *)

LEMMA InitOK == Init => IInv
<1>1. SUFFICES ASSUME Init PROVE IInv
  OBVIOUS
<1>2. ASSUME NEW s \in Subs, NEW a \in Accounts, <<a, s>> \in Trying
      PROVE  (CHOOSE x \in Accounts : <<x, s>> \in Trying) \in Accounts
  BY <1>2
<1>3. ASSUME NEW s \in Subs, NEW a \in Accounts, <<a, s>> \in Trying
      PROVE  (CHOOSE y \in Subs : <<a, y>> \in Trying) \in Subs
  BY <1>3
<1>4. subs \in [Subs -> [account: Accounts, status: {"trialing", "active", "past_due", "canceled"}] \cup {None}]
  BY <1>1, <1>2 DEF Init
<1>5. membership \in [Accounts -> Membership \cup {None}]
  BY <1>1, <1>3 DEF Init, Membership
<1>6. TypeOK
  <2>1. sent = <<>> /\ sent \in Seq(Event) /\ seen = {} /\ payments = {} /\ unlocks = {} /\ clock = 0
    BY <1>1 DEF Init
  <2>2. carts \subseteq Accounts \X Subs
    BY <1>1, SupporterAssumption DEF Init
  <2>. QED  BY <1>4, <1>5, <2>1, <2>2 DEF TypeOK
<1>7. \A a \in Accounts : membership[a] # None => membership[a].status = "trialing"
  BY <1>1 DEF Init
<1>8. RowsOK
  BY <1>1, <1>6, <1>7 DEF Init, RowsOK, PaymentsOK, HandledWhole, ActivePaidFor, DropsPaidFor
<1>9. TasksOK
  BY <1>1 DEF Init, TasksOK, Idle
<1>. QED  BY <1>8, <1>9 DEF IInv

LEMMA DeliverStep ==
  ASSUME IInv, NEW h \in Handlers, NEW i \in DOMAIN sent, Deliver(h, i)
  PROVE  IInv'
<1>1. UNCHANGED <<stripe, db>>
  BY DEF Deliver
<1>2. RowsOK' /\ Grows
  <2>1. UNCHANGED <<sent, db>> /\ UNCHANGED <<clock, subs, carts>>
    BY <1>1 DEF stripe
  <2>. QED  BY <2>1, RowsStay DEF IInv, RowsOK, TypeOK
<1>3. CASE Changes(sent[i])
  <2>1. PICK saw : saw = membership[sent[i].account]
    OBVIOUS
  <2>2. task' = [task EXCEPT ![h] = [op |-> "event", event |-> i, saw |-> saw]]
    BY <1>3, <2>1 DEF Deliver, Goes, Begun
  <2>3. IsEvent([op |-> "event", event |-> i, saw |-> saw])
    BY <1>3, <2>1, AccountOfEvent DEF IInv, RowsOK, TypeOK, IsEvent, StillThere
  <2>4. TasksOK'
    BY <1>2, <2>2, <2>3, TaskSet DEF IsTask
  <2>. QED  BY <1>2, <2>4 DEF IInv
<1>4. CASE ~Changes(sent[i])
  <2>1. PICK t \in Ready(i, None, None) : task' = [task EXCEPT ![h] = t]
    BY <1>4 DEF Deliver, Goes
  <2>2. IsCommit(t)
    BY <2>1, ReadyIsCommit DEF IInv
  <2>3. TasksOK'
    BY <1>2, <2>1, <2>2, TaskSet DEF IsTask
  <2>. QED  BY <1>2, <2>3 DEF IInv
<1>. QED  BY <1>3, <1>4

LEMMA WriteStep ==
  ASSUME IInv, NEW h \in Handlers, Write(h)
  PROVE  IInv'
<1>1. PICK w : w = task[h]
  OBVIOUS
<1>2. IsEvent(w)
  BY <1>1, TaskOfOp DEF Write
<1>3. PICK row : row = IF OldOther(w.saw, sent[w.event]) THEN None ELSE sent[w.event].account
  OBVIOUS
<1>4. row # None => /\ row = sent[w.event].account /\ Changes(sent[w.event])
                    /\ w.saw \in Membership \cup {None} /\ StillThere(row, w.saw)
  BY <1>2, <1>3 DEF IsEvent
<1>5. UNCHANGED stripe
  BY DEF Write
<1>6. CASE row # None /\ w.saw = None /\ membership[row] # None
  <2>1. task' = [task EXCEPT ![h] = None] /\ UNCHANGED db
    BY <1>1, <1>3, <1>6 DEF Write, Done, Goes
  <2>2. UNCHANGED <<sent, db>> /\ UNCHANGED <<clock, subs, carts>>
    BY <1>5, <2>1 DEF stripe
  <2>3. RowsOK' /\ Grows
    BY <2>2, RowsStay DEF IInv, RowsOK, TypeOK
  <2>4. TasksOK'
    BY <2>1, <2>3, TaskSet
  <2>. QED  BY <2>3, <2>4 DEF IInv
<1>7. CASE ~(row # None /\ w.saw = None /\ membership[row] # None)
  <2>1. PICK t \in Ready(w.event, row, w.saw) :
          IF Pays(sent[w.event]) THEN Goes(h, t) /\ UNCHANGED db ELSE Done(h) /\ Commits(t)
    BY <1>1, <1>3, <1>7 DEF Write
  <2>2. IsCommit(t)
    BY <1>2, <1>4, ReadyIsCommit DEF IInv, IsEvent
  <2>3. CASE Pays(sent[w.event])
    <3>1. UNCHANGED <<sent, db>> /\ UNCHANGED <<clock, subs, carts>>
      BY <1>5, <2>1, <2>3 DEF stripe
    <3>2. RowsOK' /\ Grows
      BY <3>1, RowsStay DEF IInv, RowsOK, TypeOK
    <3>3. TasksOK'
      BY <2>1, <2>2, <2>3, <3>2, TaskSet DEF Goes, IsTask
    <3>. QED  BY <3>2, <3>3 DEF IInv
  <2>4. CASE ~Pays(sent[w.event])
    <3>1. RowsOK' /\ Grows
      BY <1>5, <2>1, <2>2, <2>4, CommitsKeepsRows DEF IInv
    <3>2. TasksOK'
      BY <2>1, <2>4, <3>1, TaskSet DEF Done, Goes
    <3>. QED  BY <3>1, <3>2 DEF IInv
  <2>. QED  BY <2>3, <2>4
<1>. QED  BY <1>6, <1>7

LEMMA CommitStep ==
  ASSUME IInv, NEW h \in Handlers, CommitEvent(h)
  PROVE  IInv'
<1>1. PICK t : t = task[h]
  OBVIOUS
<1>2. IsCommit(t)
  BY <1>1, TaskOfOp DEF CommitEvent
<1>3. RowsOK' /\ Grows
  BY <1>1, <1>2, CommitsKeepsRows DEF IInv, CommitEvent
<1>4. TasksOK'
  BY <1>3, TaskSet DEF CommitEvent, Done, Goes
<1>. QED  BY <1>3, <1>4 DEF IInv

LEMMA StartSweepStep ==
  ASSUME IInv, NEW h \in Handlers, StartSweep(h)
  PROVE  IInv'
<1>1. PICK todo, m : /\ todo \subseteq Supporting
                     /\ task' = [task EXCEPT ![h] = [op |-> "sweep", todo |-> todo, month |-> m]]
  BY DEF StartSweep, Goes
<1>2. RowsOK' /\ Grows
  <2>1. UNCHANGED <<sent, db>> /\ UNCHANGED <<clock, subs, carts>>
    BY DEF StartSweep, stripe
  <2>. QED  BY <2>1, RowsStay DEF IInv, RowsOK, TypeOK
<1>3. IsSweep([op |-> "sweep", todo |-> todo, month |-> m])
  BY <1>1 DEF IInv, RowsOK, ActivePaidFor, Supporting, IsSweep
<1>4. TasksOK'
  BY <1>1, <1>2, <1>3, TaskSet DEF IsTask
<1>. QED  BY <1>2, <1>4 DEF IInv

LEMMA SweepNextStep ==
  ASSUME IInv, NEW h \in Handlers, SweepNext(h)
  PROVE  IInv'
<1>1. PICK t : t = task[h]
  OBVIOUS
<1>2. IsSweep(t)
  BY <1>1, TaskOfOp DEF SweepNext
<1>a. PICK a \in t.todo :
        task' = [task EXCEPT ![h] = [op |-> "grant", todo |-> t.todo \ {a}, month |-> t.month,
                                     adds |-> Owed(a, t.month)]]
  BY <1>1 DEF SweepNext, Goes
<1>3. PICK S :
        /\ S = Owed(a, t.month)
        /\ task' = [task EXCEPT ![h] = [op |-> "grant", todo |-> t.todo \ {a}, month |-> t.month, adds |-> S]]
  BY <1>a
<1>4. RowsOK' /\ Grows
  <2>1. UNCHANGED <<sent, db>> /\ UNCHANGED <<clock, subs, carts>>
    BY DEF SweepNext, stripe
  <2>. QED  BY <2>1, RowsStay DEF IInv, RowsOK, TypeOK
<1>5. S \subseteq Unlock /\ DropsPaidFor(S)
  BY <1>2, <1>3, OwedPaidFor DEF IsSweep
<1>6. IsGrant([op |-> "grant", todo |-> t.todo \ {a}, month |-> t.month, adds |-> S])
  BY <1>2, <1>5 DEF IsSweep, IsGrant
<1>7. TasksOK'
  BY <1>3, <1>4, <1>6, TaskSet DEF IsTask
<1>. QED  BY <1>4, <1>7 DEF IInv

LEMMA CommitGrantStep ==
  ASSUME IInv, NEW h \in Handlers, CommitGrant(h)
  PROVE  IInv'
<1>1. PICK t : t = task[h]
  OBVIOUS
<1>2. IsGrant(t)
  BY <1>1, TaskOfOp DEF CommitGrant
<1>3. PICK S : unlocks' = unlocks \cup S /\ (S = {} \/ S = t.adds)
  BY <1>1 DEF CommitGrant
<1>4. RowsOK' /\ Grows
  <2>1. S \in SUBSET Unlock /\ DropsPaidFor(S)
    BY <1>2, <1>3 DEF IsGrant, DropsPaidFor
  <2>. QED  BY <1>3, <2>1, GrantKeepsRows DEF IInv, CommitGrant
<1>5. PICK new : /\ task' = [task EXCEPT ![h] = new]
                 /\ new = None \/ new = [op |-> "sweep", todo |-> t.todo, month |-> t.month]
  BY <1>1 DEF CommitGrant, Goes
<1>6. new = None \/ IsTask(new)
  BY <1>2, <1>5 DEF IsTask, IsGrant, IsSweep
<1>7. TasksOK'
  BY <1>4, <1>5, <1>6, TaskSet
<1>. QED  BY <1>4, <1>7 DEF IInv

LEMMA AbortStep ==
  ASSUME IInv, NEW h \in Handlers, Abort(h)
  PROVE  IInv'
<1>1. RowsOK' /\ Grows
  <2>1. UNCHANGED <<sent, db>> /\ UNCHANGED <<clock, subs, carts>>
    BY DEF Abort, stripe
  <2>. QED  BY <2>1, RowsStay DEF IInv, RowsOK, TypeOK
<1>2. TasksOK'
  BY <1>1, TaskSet DEF Abort
<1>. QED  BY <1>1, <1>2 DEF IInv

\* What players and Stripe do leaves the tables and the transactions alone.
LEMMA OutsideStep ==
  ASSUME IInv, Outside
  PROVE  IInv' /\ Grows
<1>1. task' = task /\ UNCHANGED db
  BY DEF Outside, OpenCheckout, Subscribe, Bill, BillFails, Cancel, Becomes, Gift, TakeBack, Tick
<1>2. clock \in Nat /\ sent \in Seq(Event)
  BY DEF IInv, RowsOK, TypeOK
<1>3. SUFFICES RowsOK' /\ Grows
  BY <1>1, <1>3, TasksWait DEF IInv
<1>4. ASSUME NEW a \in Payers, NEW s \in Subs, OpenCheckout(a, s) PROVE RowsOK' /\ Grows
  <2>1. UNCHANGED <<sent, db>> /\ UNCHANGED <<clock, subs>> /\ carts' \subseteq Accounts \X Subs
    BY <1>4, SupporterAssumption DEF OpenCheckout, IInv, RowsOK, TypeOK
  <2>. QED  BY <2>1, RowsStay DEF IInv, RowsOK, TypeOK
<1>5. ASSUME NEW a \in Accounts, NEW s \in Subs, Subscribe(a, s) PROVE RowsOK' /\ Grows
  <2>1. PICK x, y, z :
          /\ x = [kind |-> "checkout", account |-> a, sub |-> s, at |-> clock]
          /\ y = [kind |-> "status", account |-> a, sub |-> s, status |-> "trialing", at |-> clock]
          /\ z = InvoiceEvent(a, s, FALSE)
    OBVIOUS
  <2>2. sent' = sent \o <<x, y, z>> /\ UNCHANGED <<clock, db>>
    BY <1>5, <2>1 DEF Subscribe, Says
  <2>3. x \in Event /\ y \in Event /\ z \in Event
    BY <1>2, <2>1 DEF Event, InvoiceEvent
  <2>4. <<x, y, z>> \in Seq(Event)
    BY <2>3
  <2>5. x.kind # "status" /\ y.status # "active" /\ z.kind # "status"
    BY <2>1 DEF InvoiceEvent
  <2>6. Backed(<<x, y, z>>)
    <3>1. \A k \in DOMAIN <<x, y, z>> : <<x, y, z>>[k] \in {x, y, z}
      OBVIOUS
    <3>. QED  BY <2>5, <3>1 DEF Backed
  <2>7. /\ subs' \in [Subs -> [account: Accounts, status: {"trialing", "active", "past_due", "canceled"}] \cup {None}]
        /\ carts' \subseteq Accounts \X Subs
    BY <1>5 DEF Subscribe, IInv, RowsOK, TypeOK
  <2>. QED  BY <2>2, <2>4, <2>6, <2>7, NewsKeepsRows DEF IInv
<1>6. ASSUME NEW s \in Subs, NEW status \in {"trialing", "active", "past_due", "canceled"}, subs[s] # None, Becomes(s, status)
      PROVE  /\ subs' \in [Subs -> [account: Accounts, status: {"trialing", "active", "past_due", "canceled"}] \cup {None}]
             /\ carts' \subseteq Accounts \X Subs /\ UNCHANGED <<clock, db>>
             /\ StatusEvent(s, status) \in Event /\ subs[s].account \in Accounts
  <2>1. subs[s] \in [account: Accounts, status: {"trialing", "active", "past_due", "canceled"}]
    BY <1>6 DEF IInv, RowsOK, TypeOK
  <2>2. StatusEvent(s, status) \in Event
    BY <1>2, <1>6, <2>1 DEF StatusEvent, Event
  <2>. QED  BY <1>6, <2>1, <2>2 DEF Becomes, IInv, RowsOK, TypeOK
<1>7. ASSUME NEW s \in Subs, Bill(s) PROVE RowsOK' /\ Grows
  <2>1. PICK x, y : x = StatusEvent(s, "active") /\ y = InvoiceEvent(subs[s].account, s, TRUE)
    OBVIOUS
  <2>2. sent' = sent \o <<x, y>>
    BY <1>7, <2>1 DEF Bill, Says
  <2>3. /\ subs' \in [Subs -> [account: Accounts, status: {"trialing", "active", "past_due", "canceled"}] \cup {None}]
        /\ carts' \subseteq Accounts \X Subs /\ UNCHANGED <<clock, db>>
        /\ x \in Event /\ subs[s].account \in Accounts
    BY <1>6, <1>7, <2>1 DEF Bill
  <2>4. y \in Event /\ y.kind = "invoice" /\ y.paid /\ y.account = x.account
    BY <1>2, <2>1, <2>3 DEF Event, InvoiceEvent, StatusEvent
  <2>5. <<x, y>> \in Seq(Event)
    BY <2>3, <2>4
  <2>6. Backed(<<x, y>>)
    <3>1. /\ \A k \in DOMAIN <<x, y>> : <<x, y>>[k] \in {x, y}
          /\ 2 \in DOMAIN <<x, y>> /\ <<x, y>>[2] = y
      OBVIOUS
    <3>. QED  BY <2>4, <3>1 DEF Backed
  <2>. QED  BY <2>2, <2>3, <2>5, <2>6, NewsKeepsRows DEF IInv
<1>8. ASSUME NEW e \in Event, e.kind = "status" => e.status # "active", sent' = sent \o <<e>>,
             subs' \in [Subs -> [account: Accounts, status: {"trialing", "active", "past_due", "canceled"}] \cup {None}],
             carts' \subseteq Accounts \X Subs, UNCHANGED <<clock, db>>
      PROVE  RowsOK' /\ Grows
  <2>1. <<e>> \in Seq(Event)
    OBVIOUS
  <2>2. Backed(<<e>>)
    <3>1. \A k \in DOMAIN <<e>> : <<e>>[k] = e
      OBVIOUS
    <3>. QED  BY <1>8, <3>1 DEF Backed
  <2>. QED  BY <1>8, <2>1, <2>2, NewsKeepsRows DEF IInv
<1>9. ASSUME NEW s \in Subs, BillFails(s) \/ Cancel(s) PROVE RowsOK' /\ Grows
  <2>1. PICK status \in {"past_due", "canceled"} :
          subs[s] # None /\ Becomes(s, status) /\ sent' = sent \o <<StatusEvent(s, status)>>
    BY <1>9 DEF BillFails, Cancel, Says
  <2>2. PICK e : e = StatusEvent(s, status)
    OBVIOUS
  <2>3. e \in Event /\ e.status # "active" /\ sent' = sent \o <<e>>
    BY <1>6, <2>1, <2>2 DEF StatusEvent
  <2>. QED  BY <1>6, <1>8, <2>1, <2>3
<1>10. ASSUME NEW a \in Accounts, NEW b \in Accounts, Gift(a, b) PROVE RowsOK' /\ Grows
  <2>1. PICK e : e = [kind |-> "gift", account |-> a, to |-> b, at |-> clock]
    OBVIOUS
  <2>2. e \in Event /\ e.kind # "status"
    BY <1>2, <2>1 DEF Event
  <2>. QED  BY <1>8, <1>10, <2>1, <2>2 DEF Gift, Says, IInv, RowsOK, TypeOK
<1>11. ASSUME NEW a \in Accounts, NEW status \in Marks, TakeBack(a, status) PROVE RowsOK' /\ Grows
  <2>1. PICK e : e = [kind |-> "mark", account |-> a, status |-> status, at |-> clock]
    OBVIOUS
  <2>2. e \in Event /\ e.kind # "status"
    BY <1>2, <2>1, SupporterAssumption DEF Event
  <2>. QED  BY <1>8, <1>11, <2>1, <2>2 DEF TakeBack, Says, IInv, RowsOK, TypeOK
<1>12. ASSUME Tick PROVE RowsOK' /\ Grows
  BY <1>2, <1>12, RowsStay DEF Tick, IInv, RowsOK, TypeOK
<1>. QED  BY <1>4, <1>5, <1>7, <1>9, <1>10, <1>11, <1>12 DEF Outside

LEMMA NextOK == IInv /\ [Next]_vars => IInv'
<1>1. SUFFICES ASSUME IInv, [Next]_vars PROVE IInv'
  OBVIOUS
<1>2. CASE UNCHANGED vars
  <2>1. UNCHANGED <<sent, db>> /\ UNCHANGED <<clock, subs, carts>> /\ task' = task
    BY <1>2 DEF vars, stripe
  <2>2. RowsOK' /\ Grows
    BY <1>1, <2>1, RowsStay DEF IInv, RowsOK, TypeOK
  <2>. QED  BY <1>1, <2>1, <2>2, TasksWait DEF IInv
<1>3. CASE Outside
  BY <1>1, <1>3, OutsideStep
<1>4. ASSUME NEW h \in Handlers, Serve(h) \/ Abort(h) PROVE IInv'
  BY <1>1, <1>4, DeliverStep, WriteStep, CommitStep, StartSweepStep, SweepNextStep,
     CommitGrantStep, AbortStep DEF Serve
<1>. QED  BY <1>1, <1>2, <1>3, <1>4 DEF Next

LEMMA InvariantHolds == Spec => []IInv
  BY InitOK, NextOK, PTL DEF Spec

-----------------------------------------------------------------------------
(* Theorems *)

\* The rows of the billing tables and Stripe's events keep their types, and no payment
\* is recorded twice (applyEvent of supporter-billing.service.ts, the upsert of payments).
THEOREM TypeCorrect == Spec => []TypeOK
<1>1. IInv => TypeOK
  BY DEF IInv, RowsOK
<1>. QED  BY <1>1, InvariantHolds, PTL

\* An event that is recorded as handled has its payment, its rewards and its drop in the
\* tables, however often it was delivered, whatever ran beside it and whatever died on
\* the way (applyEvent, grantMissing).
THEOREM HandledWholeAlways == Spec => []HandledWhole
<1>1. IInv => HandledWhole
  BY DEF IInv, RowsOK
<1>. QED  BY <1>1, InvariantHolds, PTL

\* Whoever holds a month's drop paid, got a gift, or had the invoice for nothing that a
\* trial begins with handled: the sweep gives it to nobody else (supporter-drop.service.ts).
THEOREM DropsAccountedFor == Spec => []UnpaidDropOnlyByTrialInvoice
<1>1. IInv => UnpaidDropOnlyByTrialInvoice
  BY DEF IInv, RowsOK, DropsPaidFor, PaidFor, UnpaidDropOnlyByTrialInvoice
<1>. QED  BY <1>1, InvariantHolds, PTL

-----------------------------------------------------------------------------
(* Tenure: the second invariant *)

\* At least n different months are in S.
AtLeast(n, S) == \E M \in SUBSET S : IsFiniteSet(M) /\ Cardinality(M) >= n

\* The month of event i, if a pays with it.
MonthPaidBy(i, a) == {Month(sent[j].at) : j \in {k \in {i} : Pays(sent[k]) /\ sent[k].account = a}}

\* The tenure badges in S are earned; those in T are once event i has its payment.
BadgesEarned(S) == \A u \in S : u.key = "tenure" => AtLeast(u.n, MonthsOf(u.account))
BadgesEarnedWith(T, i) ==
  \A u \in T : u.key = "tenure" => AtLeast(u.n, MonthsOf(u.account) \cup MonthPaidBy(i, u.account))

\* Payments tell when they were made.
Timed(rows) == \A p \in rows : p.at = sent[p.id].at

\* A transaction that ends an event earned what it adds, and writes no membership of
\* another subscription that was newer when it was read.
CommitTenured(t) ==
  /\ BadgesEarnedWith(t.adds, t.event) /\ Timed(t.marks)
  /\ t.row # None => ~OldOther(t.saw, sent[t.event])

TaskTenured(t) ==
  /\ t.op = "commit" => CommitTenured(t)
  /\ t.op = "grant" => BadgesEarned(t.adds)

TenureInv ==
  /\ IsFiniteSet(payments) /\ Timed(payments) /\ BadgesEarned(unlocks)
  /\ \A h \in Handlers : ~Idle(h) => TaskTenured(task[h])

-----------------------------------------------------------------------------
(* Months are only ever added *)

\* Events stay, and so do the months of every account.
MonthsGrow ==
  /\ DOMAIN sent \subseteq DOMAIN sent' /\ \A i \in DOMAIN sent : sent'[i] = sent[i]
  /\ \A a : MonthsOf(a) \subseteq MonthsOf(a)'

LEMMA AtLeastMore ==
  ASSUME NEW n, NEW S, NEW T, AtLeast(n, S), S \subseteq T
  PROVE  AtLeast(n, T)
<1>1. PICK M \in SUBSET S : IsFiniteSet(M) /\ Cardinality(M) >= n
  BY DEF AtLeast
<1>. QED  BY <1>1 DEF AtLeast

LEMMA EarnedStays ==
  ASSUME MonthsGrow, NEW S, BadgesEarned(S)
  PROVE  BadgesEarned(S)'
<1>1. SUFFICES ASSUME NEW u \in S, u.key = "tenure" PROVE AtLeast(u.n, MonthsOf(u.account)')
  BY DEF BadgesEarned, AtLeast
<1>2. AtLeast(u.n, MonthsOf(u.account)) /\ MonthsOf(u.account) \subseteq MonthsOf(u.account)'
  BY <1>1 DEF BadgesEarned, MonthsGrow
<1>. QED  BY <1>2, AtLeastMore

LEMMA EarnedWithStays ==
  ASSUME MonthsGrow, NEW T, NEW i \in DOMAIN sent, BadgesEarnedWith(T, i)
  PROVE  BadgesEarnedWith(T, i)'
<1>1. sent'[i] = sent[i]
  BY DEF MonthsGrow
<1>2. SUFFICES ASSUME NEW u \in T, u.key = "tenure"
               PROVE  AtLeast(u.n, MonthsOf(u.account)' \cup MonthPaidBy(i, u.account)')
  BY DEF BadgesEarnedWith, AtLeast
<1>3. MonthPaidBy(i, u.account)' = MonthPaidBy(i, u.account)
  BY <1>1 DEF MonthPaidBy, Pays
<1>4. /\ AtLeast(u.n, MonthsOf(u.account) \cup MonthPaidBy(i, u.account))
      /\ MonthsOf(u.account) \subseteq MonthsOf(u.account)'
  BY <1>2 DEF BadgesEarnedWith, MonthsGrow
<1>5. MonthsOf(u.account) \cup MonthPaidBy(i, u.account)
        \subseteq MonthsOf(u.account)' \cup MonthPaidBy(i, u.account)'
  BY <1>3, <1>4
<1>. QED  BY <1>4, <1>5, AtLeastMore

LEMMA TaskTenuredStays ==
  ASSUME MonthsGrow, NEW t, IsTask(t), TaskTenured(t)
  PROVE  TaskTenured(t)'
<1>1. t.op = "grant" => BadgesEarned(t.adds)'
  BY EarnedStays DEF TaskTenured
<1>2. ASSUME t.op = "commit" PROVE CommitTenured(t)'
  <2>1. IsCommit(t)
    BY <1>2 DEF IsTask, IsEvent, IsSweep, IsGrant
  <2>2. t.event \in DOMAIN sent /\ sent'[t.event] = sent[t.event] /\ CommitTenured(t)
    BY <1>2, <2>1 DEF IsCommit, MonthsGrow, TaskTenured
  <2>3. BadgesEarnedWith(t.adds, t.event)'
    BY <2>2, EarnedWithStays DEF CommitTenured
  <2>4. Timed(t.marks)'
    BY <2>1, <2>2 DEF CommitTenured, Timed, IsCommit, MonthsGrow
  <2>. QED  BY <2>2, <2>3, <2>4 DEF CommitTenured, OldOther
<1>. QED  BY <1>1, <1>2 DEF TaskTenured

\* The months that count as paid are months of payments.
LEMMA PaidMonthsWithin ==
  ASSUME NEW rows, IsFiniteSet(rows), NEW a, NEW n, PaidMonths(a, rows) >= n,
         NEW S, \A p \in rows : p.account = a => Month(p.at) \in S
  PROVE  AtLeast(n, S)
<1> DEFINE paid == {q \in rows : q.account = a /\ q.status = "paid"}
           m == [p \in rows |-> Month(p.at)]
           M == {Month(p.at) : p \in paid}
<1>1. IsFiniteSet(paid)
  BY FS_Subset
<1>2. IsFiniteSet({m[p] : p \in paid})
  BY <1>1, FiniteImage
<1>3. M = {m[p] : p \in paid}
  OBVIOUS
<1>4. IsFiniteSet(M) /\ M \in SUBSET S /\ Cardinality(M) >= n
  BY <1>2, <1>3 DEF PaidMonths
<1>. QED  BY <1>4 DEF AtLeast

\* What a transaction that has done all but end will add is earned once it ends.
LEMMA ReadyTenured ==
  ASSUME RowsOK, TenureInv, NEW i \in DOMAIN sent, NEW row, NEW saw, NEW t \in Ready(i, row, saw),
         row # None => ~OldOther(saw, sent[i])
  PROVE  TaskTenured(t) /\ t.op = "commit"
<1>1. PICK rows, marks :
        /\ rows = Recorded(i, payments)
        /\ marks \in IF sent[i].kind = "mark" /\ Latest(sent[i].account) # {}
                     THEN {{p} : p \in Latest(sent[i].account)} ELSE {{}}
        /\ t = [op |-> "commit", event |-> i, row |-> row, saw |-> saw,
                adds |-> Missing(Entitled(i, rows)), marks |-> marks]
  BY DEF Ready
<1>2. PICK e : e = sent[i]
  OBVIOUS
<1>3. rows = payments \/ (Pays(e) /\ rows = payments \cup {PaymentOf(i)})
  BY <1>1, <1>2 DEF Recorded
<1>4. IsFiniteSet(rows)
  BY <1>3, FS_AddElement DEF TenureInv
<1>5. /\ PaymentOf(i).account = e.account /\ PaymentOf(i).at = e.at
  BY <1>2 DEF PaymentOf
<1>6. BadgesEarnedWith(Missing(Entitled(i, rows)), i)
  <2>1. SUFFICES ASSUME NEW u \in Entitled(i, rows), u.key = "tenure"
                 PROVE  AtLeast(u.n, MonthsOf(u.account) \cup MonthPaidBy(i, u.account))
    BY DEF BadgesEarnedWith, Missing
  <2>2. Pays(e) /\ u \in Badges(e.account, rows)
    <3>1. Pays(e)
      BY <1>2, <2>1 DEF Entitled
    <3>2. \A a, m : \A v \in Drops(a, m) : v.key # "tenure"
      BY DEF Drops, Drop
    <3>3. Rewards(e.account).key # "tenure"
      BY DEF Rewards
    <3>. QED  BY <1>2, <2>1, <3>1, <3>2, <3>3 DEF Entitled
  <2>3. PaidMonths(e.account, rows) >= u.n /\ u.account = e.account
    BY <2>2 DEF Badges, Badge
  <2>4. PICK S : S = MonthsOf(u.account) \cup MonthPaidBy(i, u.account)
    OBVIOUS
  <2>5. ASSUME NEW p \in rows, p.account = e.account PROVE Month(p.at) \in S
    <3>1. CASE p \in payments
      BY <2>3, <2>4, <2>5, <3>1 DEF MonthsOf
    <3>2. CASE p = PaymentOf(i)
      BY <1>2, <1>5, <2>2, <2>3, <2>4, <3>2 DEF MonthPaidBy
    <3>. QED  BY <1>3, <2>5, <3>1, <3>2
  <2>6. AtLeast(u.n, S)
    BY <1>4, <2>3, <2>5, PaidMonthsWithin
  <2>. QED  BY <2>4, <2>6
<1>7. Timed(marks)
  <2>1. marks \subseteq payments
    BY <1>1 DEF Latest
  <2>. QED  BY <2>1 DEF Timed, TenureInv
<1>. QED  BY <1>1, <1>6, <1>7 DEF TaskTenured, CommitTenured

\* What the sweep gives is earned.
LEMMA OwedTenured ==
  ASSUME TenureInv, NEW a, NEW m
  PROVE  BadgesEarned(Owed(a, m))
<1>1. SUFFICES ASSUME NEW u \in Owed(a, m), u.key = "tenure" PROVE AtLeast(u.n, MonthsOf(u.account))
  BY DEF BadgesEarned
<1>2. u \in Badges(a, payments)
  BY <1>1 DEF Owed, Missing, Drops, Drop
<1>3. PaidMonths(a, payments) >= u.n /\ u.account = a
  BY <1>2 DEF Badges, Badge
<1>4. \A p \in payments : p.account = a => Month(p.at) \in MonthsOf(u.account)
  BY <1>3 DEF MonthsOf
<1>. QED  BY <1>3, <1>4, PaidMonthsWithin DEF TenureInv

\* The rows of the second invariant.
RowsTenured == IsFiniteSet(payments) /\ Timed(payments) /\ BadgesEarned(unlocks)

\* An event that commits takes no month away, and its own payment counts.
LEMMA CommitsTenured ==
  ASSUME RowsOK, TenureInv, NEW t, IsCommit(t), CommitTenured(t), Commits(t), UNCHANGED stripe
  PROVE  RowsTenured' /\ MonthsGrow
<1> DEFINE e == sent[t.event]
           kept == payments \ {p \in payments : \E q \in t.marks : q.id = p.id}
           marked == {[p EXCEPT !.status = e.status] : p \in t.marks}
           still == t.event \in seen \/ t.adds \cap unlocks # {}
<1>1. CASE UNCHANGED db
  BY <1>1 DEF db, stripe, RowsTenured, TenureInv, MonthsGrow, Timed, BadgesEarned, MonthsOf, AtLeast
<1>2. CASE ~still
  <2>1. /\ payments' = Recorded(t.event, kept) \cup marked
        /\ unlocks' = unlocks \cup t.adds /\ sent' = sent
    BY <1>2 DEF Commits, stripe
  <2>2. \A p \in t.marks : /\ [p EXCEPT !.status = e.status].id = p.id
                           /\ [p EXCEPT !.status = e.status].account = p.account
                           /\ [p EXCEPT !.status = e.status].at = p.at
                           /\ p.account = sent[p.id].account /\ p.at = sent[p.id].at
    BY DEF IsCommit, Payment, CommitTenured, Timed
  <2>3. Recorded(t.event, kept) = kept \/ Recorded(t.event, kept) = kept \cup {PaymentOf(t.event)}
    BY DEF Recorded
  <2>4. IsFiniteSet(payments')
    <3>1. IsFiniteSet(kept)
      BY FS_Subset DEF TenureInv
    <3>2. IsFiniteSet(Recorded(t.event, kept))
      <4> HIDE DEF kept
      <4>. QED  BY <2>3, <3>1, FS_AddElement
    <3>3. marked = {} \/ \E x : marked = {x}
      <4>1. t.marks = {} \/ \E p \in t.marks : t.marks = {p}
        BY DEF IsCommit
      <4>. QED  BY <4>1
    <3>. QED  BY <2>1, <3>2, <3>3, FS_AddElement
  <2>5. Timed(payments)'
    <3>1. \A p \in kept : p.at = sent[p.id].at
      BY DEF TenureInv, Timed
    <3>2. \A p \in marked : p.at = sent[p.id].at
      <4>1. TAKE p \in marked
      <4>2. PICK q \in t.marks : p = [q EXCEPT !.status = e.status]
        BY <4>1
      <4>3. p.id = q.id /\ p.at = q.at /\ q.at = sent[q.id].at
        BY <2>2, <4>2
      <4>. QED  BY <4>3
    <3>3. PaymentOf(t.event).at = sent[PaymentOf(t.event).id].at
      BY DEF PaymentOf
    <3>. QED  BY <2>1, <2>3, <3>1, <3>2, <3>3 DEF Timed
  <2>6. \A p \in payments : \E q \in payments' : q.account = p.account /\ q.at = p.at
    <3>1. TAKE p \in payments
    <3>2. CASE p \in kept
      BY <3>2, <2>1, <2>3
    <3>3. CASE p \notin kept
      <4>1. PICK q \in t.marks : q.id = p.id
        BY <3>1, <3>3
      <4>2. p.account = sent[p.id].account /\ p.at = sent[p.id].at
        BY <3>1 DEF RowsOK, PaymentsOK, TenureInv, Timed
      <4>3. PICK r \in payments' : r = [q EXCEPT !.status = e.status]
        BY <2>1
      <4>4. r.account = q.account /\ r.at = q.at /\ q.account = sent[q.id].account /\ q.at = sent[q.id].at
        BY <2>2, <4>3
      <4>. QED  BY <4>1, <4>2, <4>4
    <3>. QED  BY <3>2, <3>3
  <2>7. MonthsGrow
    <3>1. ASSUME NEW a PROVE MonthsOf(a) \subseteq MonthsOf(a)'
      BY <2>6 DEF MonthsOf
    <3>. QED  BY <2>1, <3>1 DEF MonthsGrow
  <2>8. BadgesEarned(t.adds)'
    <3>1. SUFFICES ASSUME NEW u \in t.adds, u.key = "tenure" PROVE AtLeast(u.n, MonthsOf(u.account)')
      BY DEF BadgesEarned, AtLeast
    <3>2. AtLeast(u.n, MonthsOf(u.account) \cup MonthPaidBy(t.event, u.account))
      BY <3>1 DEF CommitTenured, BadgesEarnedWith
    <3>3. MonthPaidBy(t.event, u.account) \subseteq MonthsOf(u.account)'
      <4>1. SUFFICES ASSUME Pays(e), e.account = u.account PROVE Month(e.at) \in MonthsOf(u.account)'
        BY DEF MonthPaidBy
      <4>2. \E p \in payments' : p.account = e.account /\ p.at = e.at
        <5>1. CASE \A p \in kept : p.id # t.event
          <6>1. PaymentOf(t.event) \in payments'
            BY <2>1, <4>1, <5>1 DEF Recorded
          <6>. QED  BY <6>1 DEF PaymentOf
        <5>2. CASE ~ \A p \in kept : p.id # t.event
          <6>1. PICK p \in kept : p.id = t.event
            BY <5>2
          <6>2. p.account = e.account /\ p.at = e.at
            BY <6>1 DEF RowsOK, PaymentsOK, TenureInv, Timed
          <6>. QED  BY <2>1, <2>3, <6>2
        <5>. QED  BY <5>1, <5>2
      <4>. QED  BY <4>1, <4>2 DEF MonthsOf
    <3>4. MonthsOf(u.account) \subseteq MonthsOf(u.account)'
      BY <2>7 DEF MonthsGrow
    <3>5. MonthsOf(u.account) \cup MonthPaidBy(t.event, u.account) \subseteq MonthsOf(u.account)'
      BY <3>3, <3>4
    <3>. QED  BY <3>2, <3>5, AtLeastMore
  <2>9. BadgesEarned(unlocks)'
    <3>1. \A u \in unlocks : u.key = "tenure" => AtLeast(u.n, MonthsOf(u.account)')
      <4>1. BadgesEarned(unlocks)
        BY DEF TenureInv
      <4>2. TAKE u \in unlocks
      <4>3. MonthsOf(u.account) \subseteq MonthsOf(u.account)'
        BY <2>7 DEF MonthsGrow
      <4>4. u.key = "tenure" => AtLeast(u.n, MonthsOf(u.account))
        BY <4>1 DEF BadgesEarned
      <4>. QED  BY <4>3, <4>4, AtLeastMore
    <3>2. \A u \in t.adds : u.key = "tenure" => AtLeast(u.n, MonthsOf(u.account)')
      BY <2>8 DEF BadgesEarned, AtLeast
    <3>. QED  BY <2>1, <3>1, <3>2 DEF BadgesEarned, AtLeast
  <2>. QED  BY <2>4, <2>5, <2>7, <2>9 DEF RowsTenured
<1>. QED  BY <1>1, <1>2 DEF Commits

-----------------------------------------------------------------------------
(* Tenure, step by step *)

\* Steps that neither record a payment nor unlock anything.
LEMMA RowsWait ==
  ASSUME IInv, TenureInv, Grows, payments' = payments, unlocks' = unlocks
  PROVE  RowsTenured' /\ MonthsGrow
<1>1. MonthsGrow
  BY DEF MonthsGrow, Grows, MonthsOf
<1>2. BadgesEarned(unlocks)'
  BY <1>1, EarnedStays DEF TenureInv, BadgesEarned
<1>3. Timed(payments)'
  BY DEF TenureInv, Timed, IInv, RowsOK, PaymentsOK, Grows
<1>. QED  BY <1>1, <1>2, <1>3 DEF RowsTenured, TenureInv

LEMMA TenuredWait ==
  ASSUME IInv, TenureInv, RowsTenured', MonthsGrow, task' = task
  PROVE  TenureInv'
<1>1. ASSUME NEW x \in Handlers, ~Idle(x)' PROVE TaskTenured(task[x])'
  <2>1. PICK t : t = task[x]
    OBVIOUS
  <2>2. IsTask(t) /\ TaskTenured(t)
    BY <1>1, <2>1 DEF IInv, TasksOK, TenureInv, Idle
  <2>3. TaskTenured(t)'
    BY <2>2, TaskTenuredStays
  <2>. QED  BY <2>1, <2>3
<1>. QED  BY <1>1 DEF TenureInv, RowsTenured

LEMMA TenuredSet ==
  ASSUME IInv, TenureInv, RowsTenured', MonthsGrow, NEW h \in Handlers,
         NEW new, new = None \/ (IsTask(new) /\ TaskTenured(new)), task' = [task EXCEPT ![h] = new]
  PROVE  TenureInv'
<1>1. ASSUME NEW x \in Handlers, ~Idle(x)' PROVE TaskTenured(task[x])'
  <2>1. PICK t : t = task'[x]
    OBVIOUS
  <2>2. IsTask(t) /\ TaskTenured(t)
    BY <1>1, <2>1 DEF IInv, TasksOK, TenureInv, Idle
  <2>3. TaskTenured(t)'
    BY <2>2, TaskTenuredStays
  <2>. QED  BY <2>1, <2>3
<1>. QED  BY <1>1 DEF TenureInv, RowsTenured

LEMMA InitTenured == Init => TenureInv
<1>1. SUFFICES ASSUME Init PROVE TenureInv
  OBVIOUS
<1>2. IsFiniteSet(payments)
  BY <1>1, FS_EmptySet DEF Init
<1>. QED  BY <1>1, <1>2 DEF Init, TenureInv, Timed, BadgesEarned, Idle

LEMMA DeliverTenured ==
  ASSUME IInv, TenureInv, NEW h \in Handlers, NEW i \in DOMAIN sent, Deliver(h, i)
  PROVE  TenureInv'
<1>1. RowsTenured' /\ MonthsGrow
  <2>1. UNCHANGED <<sent, db>>
    BY DEF Deliver, stripe
  <2>2. Grows
    BY <2>1 DEF Grows, db
  <2>. QED  BY <2>1, <2>2, RowsWait DEF db
<1>2. CASE Changes(sent[i])
  <2>1. PICK saw : saw = membership[sent[i].account]
    OBVIOUS
  <2>2. PICK new : new = [op |-> "event", event |-> i, saw |-> saw]
    OBVIOUS
  <2>3. task' = [task EXCEPT ![h] = new]
    BY <1>2, <2>1, <2>2 DEF Deliver, Goes, Begun
  <2>4. IsTask(new)
    <3>1. sent[i].account \in Accounts
      BY AccountOfEvent DEF IInv, RowsOK
    <3>2. saw \in Membership \cup {None} /\ StillThere(sent[i].account, saw)
      BY <2>1, <3>1 DEF IInv, RowsOK, TypeOK, StillThere
    <3>. QED  BY <1>2, <2>2, <3>2 DEF IsTask, IsEvent
  <2>5. TaskTenured(new)
    BY <2>2 DEF TaskTenured
  <2>. QED  BY <1>1, <2>3, <2>4, <2>5, TenuredSet
<1>3. CASE ~Changes(sent[i])
  <2>1. PICK t \in Ready(i, None, None) : task' = [task EXCEPT ![h] = t]
    BY <1>3 DEF Deliver, Goes
  <2>2. IsTask(t)
    BY <2>1, ReadyIsCommit DEF IInv, IsTask
  <2>3. TaskTenured(t)
    BY <2>1, ReadyTenured DEF IInv
  <2>. QED  BY <1>1, <2>1, <2>2, <2>3, TenuredSet
<1>. QED  BY <1>2, <1>3

\* An event's transaction at its membership row: what Write does.
LEMMA WriteCases ==
  ASSUME IInv, TenureInv, NEW h \in Handlers, Write(h)
  PROVE  \/ UNCHANGED <<stripe, db>> /\ task' = [task EXCEPT ![h] = None]
         \/ \E t : /\ IsCommit(t) /\ CommitTenured(t) /\ TaskTenured(t)
                   /\ t.event = task[h].event /\ t.saw = task[h].saw
                   /\ UNCHANGED stripe
                   /\ \/ UNCHANGED db /\ task' = [task EXCEPT ![h] = t]
                      \/ Commits(t) /\ task' = [task EXCEPT ![h] = None]
<1>1. PICK w : w = task[h]
  OBVIOUS
<1>2. IsEvent(w)
  BY <1>1, TaskOfOp DEF Write
<1>3. PICK row : row = IF OldOther(w.saw, sent[w.event]) THEN None ELSE sent[w.event].account
  OBVIOUS
<1>4. row # None => /\ row = sent[w.event].account /\ Changes(sent[w.event])
                    /\ w.saw \in Membership \cup {None} /\ StillThere(row, w.saw)
                    /\ ~OldOther(w.saw, sent[w.event])
  BY <1>2, <1>3 DEF IsEvent
<1>5. CASE row # None /\ w.saw = None /\ membership[row] # None
  BY <1>1, <1>3, <1>5 DEF Write, Done, Goes
<1>6. CASE ~(row # None /\ w.saw = None /\ membership[row] # None)
  <2>1. PICK t \in Ready(w.event, row, w.saw) :
          IF Pays(sent[w.event]) THEN Goes(h, t) /\ UNCHANGED db ELSE Done(h) /\ Commits(t)
    BY <1>1, <1>3, <1>6 DEF Write
  <2>2. IsCommit(t)
    BY <1>2, <1>4, ReadyIsCommit DEF IInv, IsEvent
  <2>3. TaskTenured(t) /\ t.op = "commit"
    BY <1>2, <1>4, ReadyTenured DEF IInv, IsEvent
  <2>4. t.event = w.event /\ t.saw = w.saw
    BY DEF Ready
  <2>5. UNCHANGED stripe
    BY DEF Write
  <2>. QED  BY <1>1, <2>1, <2>2, <2>3, <2>4, <2>5 DEF TaskTenured, Done, Goes
<1>. QED  BY <1>5, <1>6

LEMMA WriteTenured ==
  ASSUME IInv, TenureInv, NEW h \in Handlers, Write(h)
  PROVE  TenureInv'
<1>1. ASSUME UNCHANGED <<stripe, db>> PROVE RowsTenured' /\ MonthsGrow
  <2>1. Grows
    BY <1>1 DEF Grows, db, stripe
  <2>. QED  BY <1>1, <2>1, RowsWait DEF db
<1>2. CASE UNCHANGED <<stripe, db>> /\ task' = [task EXCEPT ![h] = None]
  BY <1>1, <1>2, TenuredSet
<1>3. ASSUME NEW t, IsCommit(t), CommitTenured(t), TaskTenured(t), UNCHANGED stripe,
             \/ UNCHANGED db /\ task' = [task EXCEPT ![h] = t]
             \/ Commits(t) /\ task' = [task EXCEPT ![h] = None]
      PROVE  TenureInv'
  <2>1. CASE UNCHANGED db /\ task' = [task EXCEPT ![h] = t]
    BY <1>1, <1>3, <2>1, TenuredSet DEF IsTask
  <2>2. CASE Commits(t) /\ task' = [task EXCEPT ![h] = None]
    <3>1. RowsTenured' /\ MonthsGrow
      BY <1>3, <2>2, CommitsTenured DEF IInv
    <3>. QED  BY <2>2, <3>1, TenuredSet
  <2>. QED  BY <1>3, <2>1, <2>2
<1>. QED  BY <1>2, <1>3, WriteCases

LEMMA CommitTenuredStep ==
  ASSUME IInv, TenureInv, NEW h \in Handlers, CommitEvent(h)
  PROVE  TenureInv'
<1>1. PICK t : t = task[h]
  OBVIOUS
<1>2. IsCommit(t) /\ CommitTenured(t)
  BY <1>1, TaskOfOp DEF CommitEvent, TenureInv, TaskTenured, Does
<1>3. RowsTenured' /\ MonthsGrow
  BY <1>1, <1>2, CommitsTenured DEF IInv, CommitEvent
<1>4. task' = [task EXCEPT ![h] = None]
  BY DEF CommitEvent, Done, Goes
<1>. QED  BY <1>3, <1>4, TenuredSet

LEMMA SweepsTenured ==
  ASSUME IInv, TenureInv, NEW h \in Handlers, StartSweep(h) \/ SweepNext(h) \/ Abort(h)
  PROVE  TenureInv'
<1>1. RowsTenured' /\ MonthsGrow
  <2>1. UNCHANGED <<sent, db>>
    BY DEF StartSweep, SweepNext, Abort, stripe
  <2>2. Grows
    BY <2>1 DEF Grows, db
  <2>. QED  BY <2>1, <2>2, RowsWait DEF db
<1>2. CASE Abort(h)
  BY <1>1, <1>2, TenuredSet DEF Abort
<1>3. CASE StartSweep(h)
  <2>1. PICK todo, m : /\ todo \subseteq Supporting
                       /\ task' = [task EXCEPT ![h] = [op |-> "sweep", todo |-> todo, month |-> m]]
    BY <1>3 DEF StartSweep, Goes
  <2>2. PICK new : new = [op |-> "sweep", todo |-> todo, month |-> m]
    OBVIOUS
  <2>3. IsTask(new)
    BY <2>1, <2>2 DEF IInv, RowsOK, ActivePaidFor, Supporting, IsTask, IsSweep
  <2>4. TaskTenured(new)
    BY <2>2 DEF TaskTenured
  <2>. QED  BY <1>1, <2>1, <2>2, <2>3, <2>4, TenuredSet
<1>4. CASE SweepNext(h)
  <2>1. PICK t : t = task[h]
    OBVIOUS
  <2>2. IsSweep(t)
    BY <1>4, <2>1, TaskOfOp DEF SweepNext
  <2>3. PICK a \in t.todo :
          task' = [task EXCEPT ![h] = [op |-> "grant", todo |-> t.todo \ {a}, month |-> t.month,
                                       adds |-> Owed(a, t.month)]]
    BY <1>4, <2>1 DEF SweepNext, Goes
  <2>4. PICK S : S = Owed(a, t.month)
    OBVIOUS
  <2>5. PICK new : new = [op |-> "grant", todo |-> t.todo \ {a}, month |-> t.month, adds |-> S]
    OBVIOUS
  <2>6. S \subseteq Unlock /\ DropsPaidFor(S)
    BY <2>2, <2>3, <2>4, OwedPaidFor DEF IsSweep
  <2>7. IsTask(new)
    BY <2>2, <2>5, <2>6 DEF IsTask, IsSweep, IsGrant
  <2>8. BadgesEarned(S)
    BY <2>4, OwedTenured
  <2>9. TaskTenured(new)
    BY <2>5, <2>8 DEF TaskTenured
  <2>. QED  BY <1>1, <2>3, <2>4, <2>5, <2>7, <2>9, TenuredSet
<1>. QED  BY <1>2, <1>3, <1>4

LEMMA GrantTenured ==
  ASSUME IInv, TenureInv, NEW h \in Handlers, CommitGrant(h)
  PROVE  TenureInv'
<1>1. PICK t : t = task[h]
  OBVIOUS
<1>2. IsGrant(t) /\ BadgesEarned(t.adds)
  BY <1>1, TaskOfOp DEF CommitGrant, TenureInv, TaskTenured, Does
<1>3. PICK new : /\ task' = [task EXCEPT ![h] = new]
                 /\ new = None \/ new = [op |-> "sweep", todo |-> t.todo, month |-> t.month]
  BY <1>1 DEF CommitGrant, Goes
<1>4. new = None \/ (IsTask(new) /\ TaskTenured(new))
  BY <1>2, <1>3 DEF IsTask, IsGrant, IsSweep, TaskTenured
<1>5. MonthsGrow
  BY DEF CommitGrant, stripe, MonthsGrow, MonthsOf
<1>6. RowsTenured'
  <2>1. unlocks' \subseteq unlocks \cup t.adds /\ payments' = payments /\ sent' = sent
    BY <1>1 DEF CommitGrant, stripe
  <2>2. BadgesEarned(unlocks)' 
    <3>1. BadgesEarned(unlocks \cup t.adds)
      BY <1>2 DEF TenureInv, BadgesEarned
    <3>. QED  BY <2>1, <3>1 DEF BadgesEarned, MonthsOf, AtLeast
  <2>. QED  BY <2>1, <2>2 DEF RowsTenured, TenureInv, Timed
<1>. QED  BY <1>3, <1>4, <1>5, <1>6, TenuredSet

LEMMA NextTenured == IInv /\ TenureInv /\ [Next]_vars => TenureInv'
<1>1. SUFFICES ASSUME IInv, TenureInv, [Next]_vars PROVE TenureInv'
  OBVIOUS
<1>2. CASE UNCHANGED vars
  <2>1. task' = task /\ payments' = payments /\ unlocks' = unlocks /\ Grows
    BY <1>2 DEF vars, stripe, db, Grows
  <2>. QED  BY <1>1, <2>1, RowsWait, TenuredWait
<1>3. CASE Outside
  <2>1. task' = task /\ payments' = payments /\ unlocks' = unlocks
    BY <1>3 DEF Outside, OpenCheckout, Subscribe, Bill, BillFails, Cancel, Becomes, Gift, TakeBack, Tick, db
  <2>2. Grows
    BY <1>1, <1>3, OutsideStep
  <2>. QED  BY <1>1, <2>1, <2>2, RowsWait, TenuredWait
<1>4. ASSUME NEW h \in Handlers, Serve(h) \/ Abort(h) PROVE TenureInv'
  BY <1>1, <1>4, DeliverTenured, WriteTenured, CommitTenuredStep, SweepsTenured, GrantTenured DEF Serve
<1>. QED  BY <1>1, <1>2, <1>3, <1>4 DEF Next

LEMMA TenureHolds == Spec => []TenureInv
<1>1. Init => TenureInv
  BY InitTenured
<1>2. IInv /\ TenureInv /\ [Next]_vars => TenureInv'
  BY NextTenured
<1>. QED  BY <1>1, <1>2, InvariantHolds, PTL DEF Spec

\* Whoever holds a tenure badge has payments in at least as many different months,
\* refunded since or not: no sweep, retried event or race of two events grants one that
\* was not earned (monthsPaid of supporter.service.ts, grantMissing).
THEOREM TenureAlwaysEarned == Spec => []TenureEarned
<1>1. IInv /\ TenureInv => TenureEarned
  <2>1. SUFFICES ASSUME TenureInv, NEW u \in unlocks, u.key = "tenure", IInv
                 PROVE  Cardinality(MonthsOf(u.account)) >= u.n
    BY DEF TenureEarned
  <2>2. PICK M \in SUBSET MonthsOf(u.account) : IsFiniteSet(M) /\ Cardinality(M) >= u.n
    BY <2>1 DEF TenureInv, BadgesEarned, AtLeast
  <2>3. IsFiniteSet(MonthsOf(u.account))
    <3> DEFINE mine == {q \in payments : q.account = u.account}
               m == [p \in payments |-> Month(p.at)]
    <3>1. IsFiniteSet(mine)
      BY <2>1, FS_Subset DEF TenureInv
    <3>2. IsFiniteSet({m[p] : p \in mine})
      BY <3>1, FiniteImage
    <3>3. MonthsOf(u.account) = {m[p] : p \in mine}
      BY DEF MonthsOf
    <3>. QED  BY <3>2, <3>3
  <2>4. /\ Cardinality(M) \in Nat /\ Cardinality(MonthsOf(u.account)) \in Nat
        /\ Cardinality(M) <= Cardinality(MonthsOf(u.account))
    BY <2>2, <2>3, FS_CardinalityType, FS_Subset
  <2>5. u.n \in Nat
    BY <2>1 DEF IInv, RowsOK, TypeOK, Unlock
  <2>. QED  BY <2>2, <2>4, <2>5
<1>. QED  BY <1>1, InvariantHolds, TenureHolds, PTL

\* A membership changes only when a transaction of its account ends.  The event it
\* applies is no older than the row, or the row was read before it became what it is
\* (applyMembership of supporter-billing.service.ts).
THEOREM OlderOnlyByRaceAlways == Spec => OlderOnlyByRace
<1> DEFINE Raced(a, h) == /\ ~Idle(h) /\ task[h].op \in {"event", "commit"} /\ task'[h] = None
                          /\ sent[task[h].event].account = a
                          /\ sent[task[h].event].at >= membership[a].at \/ task[h].saw # membership[a]
           Older == \A a \in Accounts :
                      membership[a] # None /\ membership'[a] # membership[a] => \E h \in Handlers : Raced(a, h)
<1>1. ASSUME IInv, TenureInv, NEW h \in Handlers, NEW t, IsCommit(t), CommitTenured(t), Commits(t),
             task[h].op \in {"event", "commit"}, ~Idle(h), task' = [task EXCEPT ![h] = None],
             t.event = task[h].event, t.saw = task[h].saw
      PROVE  Older
  <2>1. SUFFICES ASSUME NEW a \in Accounts, membership[a] # None, membership'[a] # membership[a],
                        t.saw = membership[a]
                 PROVE  sent[t.event].account = a /\ sent[t.event].at >= membership[a].at
    <3>1. task'[h] = None
      BY <1>1 DEF IInv, TasksOK
    <3>2. \A a \in Accounts : membership[a] # None /\ membership'[a] # membership[a] => sent[t.event].account = a
      <4>1. t.row = None => membership' = membership
        BY <1>1 DEF Commits, db
      <4>2. t.row # None => t.row = sent[t.event].account
        BY <1>1 DEF IsCommit
      <4>3. \A a \in Accounts : a # t.row => membership'[a] = membership[a]
        BY <1>1 DEF Commits, db, IInv, RowsOK, TypeOK
      <4>. QED  BY <4>1, <4>2, <4>3
    <3>. QED  BY <1>1, <2>1, <3>1, <3>2
  <2>2. PICK e, saw : e = sent[t.event] /\ saw = membership[a]
    OBVIOUS
  <2>3. /\ t.row = a /\ t.row # None /\ membership'[a] = Changed(saw, saw, e)
    BY <1>1, <2>1, <2>2 DEF Commits, db, IInv, RowsOK, TypeOK
  <2>4. /\ e.account = a /\ e \in Event /\ saw \in Membership /\ ~OldOther(saw, e) /\ Changes(e)
    BY <1>1, <2>1, <2>2, <2>3, AccountOfEvent DEF IsCommit, CommitTenured, IInv, RowsOK, TypeOK
  <2>5. e.at \in Nat /\ saw.at \in Nat
    BY <2>4 DEF Event, Membership
  <2>6. ASSUME saw.at > e.at PROVE FALSE
    <3>1. saw.sub = e.sub
      BY <2>1, <2>2, <2>4, <2>6 DEF OldOther
    <3>2. Changed(saw, saw, e) = [saw EXCEPT !.sub = e.sub]
      BY <2>1, <2>2, <2>6 DEF Changed, Stale
    <3>3. [saw EXCEPT !.sub = e.sub] = saw
      BY <2>4, <3>1 DEF Membership
    <3>. QED  BY <2>1, <2>2, <2>3, <3>2, <3>3
  <2>. QED  BY <2>2, <2>4, <2>5, <2>6
<1>2. ASSUME membership' = membership PROVE Older
  BY <1>2
<1>3. ASSUME IInv, TenureInv, [Next]_vars PROVE Older
  <2>1. CASE UNCHANGED vars
    BY <1>2, <2>1 DEF vars, db
  <2>2. CASE Outside
    <3>1. membership' = membership
      BY <2>2 DEF Outside, OpenCheckout, Subscribe, Bill, BillFails, Cancel, Becomes, Gift, TakeBack, Tick, db
    <3>. QED  BY <1>2, <3>1
  <2>3. ASSUME NEW h \in Handlers, CommitEvent(h) PROVE Older
    <3>1. PICK t : t = task[h]
      OBVIOUS
    <3>2. IsCommit(t) /\ CommitTenured(t) /\ t.op = "commit" /\ ~Idle(h)
      BY <1>3, <2>3, <3>1, TaskOfOp DEF CommitEvent, TenureInv, TaskTenured, Does
    <3>3. Commits(t) /\ task' = [task EXCEPT ![h] = None]
      BY <2>3, <3>1 DEF CommitEvent, Done, Goes
    <3>. QED  BY <1>1, <1>3, <3>1, <3>2, <3>3
  <2>4. ASSUME NEW h \in Handlers, Write(h) PROVE Older
    <3>1. CASE UNCHANGED db
      BY <1>2, <3>1 DEF db
    <3>2. CASE ~UNCHANGED db
      <4>1. PICK t : /\ IsCommit(t) /\ CommitTenured(t)
                     /\ t.event = task[h].event /\ t.saw = task[h].saw
                     /\ Commits(t) /\ task' = [task EXCEPT ![h] = None]
        BY <1>3, <2>4, <3>2, WriteCases
      <4>2. ~Idle(h) /\ task[h].op = "event"
        BY <2>4 DEF Write, Does
      <4>. QED  BY <1>1, <1>3, <4>1, <4>2
    <3>. QED  BY <3>1, <3>2
  <2>5. ASSUME NEW h \in Handlers, (\E i \in DOMAIN sent : Deliver(h, i)) \/ StartSweep(h) \/ SweepNext(h)
                                   \/ CommitGrant(h) \/ Abort(h)
        PROVE  Older
    <3>1. membership' = membership
      BY <2>5 DEF Deliver, StartSweep, SweepNext, CommitGrant, Abort, db
    <3>. QED  BY <1>2, <3>1
  <2>. QED  BY <1>3, <2>1, <2>2, <2>3, <2>4, <2>5 DEF Next, Serve
<1>4. IInv /\ TenureInv /\ [Next]_vars =>
        [\A a \in Accounts :
           membership[a] # None /\ membership'[a] # membership[a] =>
             \E h \in Handlers :
               /\ ~Idle(h) /\ task[h].op \in {"event", "commit"} /\ task'[h] = None
               /\ sent[task[h].event].account = a
               /\ sent[task[h].event].at >= membership[a].at \/ task[h].saw # membership[a]]_vars
  BY <1>3
<1>. QED  BY <1>4, InvariantHolds, TenureHolds, PTL DEF Spec, OlderOnlyByRace

=============================================================================
