------------------------------ MODULE CrownProofs ------------------------------
(***************************************************************************)
(* What holds of the Crown economy for every set of accounts, packs,       *)
(* offers, awards, staff adjustments and transactions: the wallet is the   *)
(* sum of its book, nothing is bought or charged twice, a pack is granted  *)
(* only for a payment, a hold stops spending, and the round cap holds.     *)
(***************************************************************************)
EXTENDS CrownEconomy, Sums, TLAPS

-----------------------------------------------------------------------------
(* The inductive invariant *)

DB == [balance: [Accounts -> Nat], held: [Accounts -> BOOLEAN], book: SUBSET Entry,
       packs: [Packs -> Order \cup {None}], bought: SUBSET Bought,
       owned: [Accounts -> SUBSET Items], asked: [Adjustments -> Decisions], seen: SUBSET Event]

Sessions == {"none", "open", "processing", "paid", "failed", "expired"}

Typed ==
  /\ db \in DB /\ IsFiniteSet(db.book)
  /\ stripe \in [Packs -> Sessions] /\ sent \subseteq Event
  /\ req \in [Handlers -> Request \cup {None}] /\ lock \in [Rows -> Handlers \cup {None}]
  /\ aborts \in 0..MaxAborts

OnPack(r) == r.op \in {"event", "ask", "reconcile"}

\* What a request of each kind carries.
Fits(r) ==
  /\ OnPack(r) => /\ r.pack \in Packs /\ r.type \in EventTypes /\ r.account = Owner[r.pack]
                  /\ r.op # "ask" => r.order \in Order
                  /\ r.op # "event" => IsSession(r.type)
  /\ r.op = "buy" => r.action \in ActionIds /\ r.offer \in Offers
  /\ r.op = "earn" => r.award \in Awards /\ r.account = Award[r.award].account
  /\ r.op = "adjust" => r.adjust \in Adjustments /\ r.account = Adjustment[r.adjust].account
Fitting == \A h \in Handlers : req[h] # None => Fits(req[h])

\* A lock is a running transaction's.
AtWork == \A row \in Rows : lock[row] \in Handlers => Running(lock[row])

HasWallet(h) == lock[<<"wallet", req[h].account>>] = h
HasPlayer(h) == lock[<<"player", req[h].account>>] = h

\* The wallet that was read with its lock is the wallet as it is.
WalletFresh ==
  \A h \in Handlers : Running(h) /\ HasWallet(h) => req[h].wallet = WalletOf(req[h].account)

\* What the cap was found to leave of an award, it still leaves.
CutFresh ==
  \A h \in Handlers :
    Running(h) /\ req[h].op = "earn" /\ req[h].crowns # None
    => HasPlayer(h) /\ req[h].crowns = Clipped(db, req[h].award)

\* Whatever knows of a payment was told of one that was made.
Paid ==
  /\ \A o \in Packs : \A type \in EventTypes : <<type, o>> \in sent /\ IsPaid(type) => stripe[o] = "paid"
  /\ \A h \in Handlers : req[h] # None /\ OnPack(req[h]) /\ IsPaid(req[h].type) => stripe[req[h].pack] = "paid"
  /\ GrantedOnlyWhenPaid

\* Stripe, its events and the requests about a pack speak of an order that was made.
Made ==
  /\ \A o \in Packs : stripe[o] # "none" => db.packs[o] \in Order
  /\ \A e \in sent : db.packs[e[2]] \in Order
  /\ \A h \in Handlers : req[h] # None /\ OnPack(req[h]) => db.packs[req[h].pack] \in Order

\* An account's action id stands for one purchase, and the purchase for one entry.
Charged ==
  /\ \A b, c \in db.bought : b.account = c.account /\ b.action = c.action => b = c
  /\ \A b \in db.bought : Spend(b.account, b.action, b.price) \in db.book
  /\ \A e \in db.book : \A a \in Accounts, action \in ActionIds :
       e.ref = <<"order", a, action>>
       => \E b \in db.bought : b.account = a /\ b.action = action /\ e = Spend(a, action, b.price)

\* What an account owns, one of its purchases granted, and only one.
Granted ==
  /\ \A b \in db.bought : b.grants \subseteq db.owned[b.account]
  /\ \A b, c \in db.bought : b.account = c.account /\ b # c => b.grants \cap c.grants = {}
  /\ \A a \in Accounts : \A k \in db.owned[a] : \E b \in db.bought : b.account = a /\ k \in b.grants

CrownInv == Typed /\ Fitting /\ AtWork /\ WalletFresh /\ CutFresh /\ Paid /\ Made /\ Charged /\ Granted

-----------------------------------------------------------------------------
(* Rows and locks *)

\* The rows a request about these keys may touch.
Own(r) ==
  {<<"wallet", r.account>>, <<"player", r.account>>, <<"pack", r.pack>>, <<"adjust", r.adjust>>} \cap Rows

LEMMA RequestTyped ==
  ASSUME NEW r \in Request
  PROVE  /\ r.account \in Accounts /\ r.yes \in BOOLEAN
         /\ r.op \in {"event", "ask", "reconcile", "buy", "earn", "adjust", "release"}
  BY DEF Request

LEMMA OwnWallet ==
  ASSUME NEW r \in Request
  PROVE  <<"wallet", r.account>> \in Own(r) /\ <<"player", r.account>> \in Own(r)
  BY RequestTyped DEF Own, Rows

LEMMA PackRowsOwn ==
  ASSUME NEW r \in Request, Fits(r), r.op \in {"event", "reconcile"}
  PROVE  PackRows(r.type, r.pack, r.order) \in Seq(Own(r))
<1> DEFINE pack == <<"pack", r.pack>>
           wallet == <<"wallet", r.account>>
           recording == IF r.order.payment THEN <<>> ELSE <<pack>>
<1>1. r.pack \in Packs /\ r.type \in EventTypes /\ r.account = Owner[r.pack] /\ r.order \in Order
  BY DEF Fits, OnPack
<1>2. wallet \in Own(r) /\ pack \in Own(r)
  BY <1>1, OwnWallet DEF Own, Rows
<1>3. recording \in Seq(Own(r)) /\ <<wallet, pack>> \in Seq(Own(r)) /\ <<pack>> \in Seq(Own(r)) /\ <<>> \in Seq(Own(r))
  BY <1>2
<1>4. wallet = <<"wallet", Owner[r.pack]>>
  BY <1>1
<1> HIDE DEF pack, wallet
<1> DEFINE credit == IF IsPaid(r.type) /\ Creditable(r.order) THEN <<wallet, pack>> ELSE <<>>
           failed == IF r.order.status = "pending" THEN <<pack>> ELSE <<>>
           refund == IF r.order.status = "refunded" THEN <<>>
                     ELSE IF WasCredited(r.order) THEN <<wallet, pack>> ELSE <<pack>>
           dispute == IF Matches(r.type, r.order) THEN <<wallet, pack>> ELSE <<>>
<1>5. /\ credit \in Seq(Own(r)) /\ failed \in Seq(Own(r)) /\ refund \in Seq(Own(r)) /\ dispute \in Seq(Own(r))
  BY <1>3
<1>6. PackRows(r.type, r.pack, r.order)
      = CASE IsSession(r.type) -> recording \o credit
          [] r.type \in {"async_failed", "expired"} -> failed
          [] IsRefund(r.type) -> recording \o refund
          [] r.type = "dispute" -> dispute
  BY <1>4 DEF PackRows, pack, wallet
<1> HIDE DEF recording, credit, failed, refund, dispute
<1>7. recording \o credit \in Seq(Own(r)) /\ recording \o refund \in Seq(Own(r))
  BY <1>3, <1>5
<1> QED
  BY <1>1, <1>5, <1>6, <1>7 DEF EventTypes, IsSession, IsRefund

LEMMA RowsOwn ==
  ASSUME NEW r \in Request, Fits(r), r.op # "ask"
  PROVE  RowsOf(r) \in Seq(Own(r))
<1>1. CASE r.op \in {"event", "reconcile"}
  BY <1>1, PackRowsOwn DEF RowsOf
<1>2. WalletRow(r) \in Seq(Own(r)) /\ <<<<"player", r.account>>>> \in Seq(Own(r))
  BY OwnWallet DEF WalletRow
<1>3. CASE r.op = "earn"
  <2>1. RowsOf(r) = <<<<"player", r.account>>>> \o (IF r.crowns = None THEN <<>> ELSE WalletRow(r))
    BY <1>3 DEF RowsOf
  <2>2. (IF r.crowns = None THEN <<>> ELSE WalletRow(r)) \in Seq(Own(r))
    BY <1>2
  <2> QED
    BY <1>2, <2>1, <2>2
<1>4. CASE r.op = "adjust"
  <2>1. <<"adjust", r.adjust>> \in Own(r)
    BY <1>4 DEF Fits, Own, Rows
  <2>2. /\ (IF Adjustment[r.adjust].large THEN <<<<"adjust", r.adjust>>>> ELSE <<>>) \in Seq(Own(r))
        /\ (IF r.yes THEN WalletRow(r) ELSE <<>>) \in Seq(Own(r))
    BY <1>2, <2>1
  <2>3. RowsOf(r) = (IF Adjustment[r.adjust].large THEN <<<<"adjust", r.adjust>>>> ELSE <<>>)
                      \o (IF r.yes THEN WalletRow(r) ELSE <<>>)
    BY <1>4 DEF RowsOf, AdjustRows
  <2> QED
    BY <2>2, <2>3
<1>5. CASE r.op \in {"buy", "release"}
  BY <1>2, <1>5 DEF RowsOf
<1> QED
  BY <1>1, <1>3, <1>4, <1>5, RequestTyped

\* Of the wallets and players, a request takes its account's only.
LEMMA AwaitedOwn ==
  ASSUME NEW h \in Handlers, req[h] \in Request, Fits(req[h]), Running(h), NEW row \in Awaited(h)
  PROVE  /\ row \in Rows /\ lock[row] # h
         /\ row[1] = "wallet" => row = <<"wallet", req[h].account>>
<1>1. RowsOf(req[h]) \in Seq(Own(req[h]))
  BY RowsOwn DEF Running
<1>2. PICK rows : rows = RowsOf(req[h])
  OBVIOUS
<1>3. PICK i \in DOMAIN rows : row = rows[i] /\ lock[rows[i]] # h
  BY <1>2 DEF Awaited
<1>4. row \in Own(req[h])
  BY <1>1, <1>2, <1>3
<1> QED
  BY <1>3, <1>4 DEF Own

\* A transaction that has all its rows has the wallet it pays into or out of.
TouchesWallet(r) ==
  \/ /\ r.op \in {"event", "reconcile"}
     /\ \/ IsSession(r.type) /\ IsPaid(r.type) /\ Creditable(r.order)
        \/ IsRefund(r.type) /\ r.order.status # "refunded" /\ WasCredited(r.order)
        \/ r.type = "dispute" /\ Matches(r.type, r.order)
  \/ r.op \in {"buy", "release"}
  \/ r.op = "earn" /\ r.crowns # None
  \/ r.op = "adjust" /\ r.yes

LEMMA SecondOfTwo ==
  ASSUME NEW R, NEW s \in Seq(R), NEW t \in Seq(R), NEW i \in 1..Len(t)
  PROVE  /\ Len(s) + i \in DOMAIN (s \o t)
         /\ (s \o t)[Len(s) + i] = t[i]
  OBVIOUS

LEMMA WalletTaken ==
  ASSUME NEW r \in Request, Fits(r), TouchesWallet(r)
  PROVE  \E i \in DOMAIN RowsOf(r) : RowsOf(r)[i] = <<"wallet", r.account>>
<1> DEFINE wallet == <<"wallet", r.account>>
           pack == <<"pack", r.pack>>
           recording == IF r.order.payment THEN <<>> ELSE <<pack>>
           change == IF Adjustment[r.adjust].large THEN <<<<"adjust", r.adjust>>>> ELSE <<>>
           all == Own(r) \cup {pack, <<"adjust", r.adjust>>}
<1>1. /\ recording \in Seq(all) /\ change \in Seq(all) /\ <<<<"player", r.account>>>> \in Seq(all)
      /\ <<wallet, pack>> \in Seq(all) /\ <<wallet>> \in Seq(all)
  BY OwnWallet
<1>2. /\ Len(<<wallet, pack>>) = 2 /\ <<wallet, pack>>[1] = wallet
      /\ Len(<<wallet>>) = 1 /\ <<wallet>>[1] = wallet
  OBVIOUS
<1>3. CASE r.op \in {"event", "reconcile"}
  <2>0. r.account = Owner[r.pack] /\ RowsOf(r) = PackRows(r.type, r.pack, r.order)
    BY <1>3 DEF Fits, OnPack, RowsOf
  <2>1. CASE r.type = "dispute"
    <3>1. PackRows(r.type, r.pack, r.order) = <<wallet, pack>>
      BY <1>3, <2>0, <2>1 DEF TouchesWallet, PackRows, IsSession, IsRefund
    <3> QED
      BY <1>2, <2>0, <3>1
  <2>2. CASE r.type # "dispute"
    <3>1. PackRows(r.type, r.pack, r.order) = recording \o <<wallet, pack>>
      BY <1>3, <2>0, <2>2 DEF TouchesWallet, PackRows, IsSession, IsRefund
    <3> HIDE DEF recording, wallet, pack, all
    <3>2. /\ Len(recording) + 1 \in DOMAIN (recording \o <<wallet, pack>>)
          /\ (recording \o <<wallet, pack>>)[Len(recording) + 1] = <<wallet, pack>>[1]
      BY <1>1, <1>2, SecondOfTwo
    <3>3. (recording \o <<wallet, pack>>)[Len(recording) + 1] = wallet
      BY <1>2, <3>2
    <3> QED
      BY <2>0, <3>1, <3>2, <3>3 DEF wallet
  <2> QED
    BY <2>1, <2>2
<1>4. CASE r.op = "earn"
  <2>1. RowsOf(r) = <<<<"player", r.account>>>> \o <<wallet>>
    BY <1>4 DEF TouchesWallet, RowsOf, WalletRow
  <2> QED
    BY <2>1
<1>5. CASE r.op = "adjust"
  <2>1. RowsOf(r) = change \o <<wallet>>
    BY <1>5 DEF TouchesWallet, RowsOf, AdjustRows, WalletRow
  <2> HIDE DEF change, wallet, all
  <2>2. /\ Len(change) + 1 \in DOMAIN (change \o <<wallet>>)
        /\ (change \o <<wallet>>)[Len(change) + 1] = <<wallet>>[1]
    BY <1>1, <1>2, SecondOfTwo
  <2> QED
    BY <1>2, <2>1, <2>2 DEF wallet
<1>6. CASE r.op \in {"buy", "release"}
  BY <1>6 DEF RowsOf, WalletRow
<1> QED
  BY <1>3, <1>4, <1>5, <1>6 DEF TouchesWallet

LEMMA WalletHeld ==
  ASSUME NEW h \in Handlers, req[h] \in Request, Fits(req[h]), HasAll(h), TouchesWallet(req[h])
  PROVE  HasWallet(h)
  BY WalletTaken DEF HasAll, HasWallet

LEMMA PlayerHeld ==
  ASSUME NEW h \in Handlers, req[h] \in Request, req[h].op = "earn", HasAll(h)
  PROVE  HasPlayer(h)
<1> DEFINE player == <<"player", req[h].account>>
           rest == IF req[h].crowns = None THEN <<>> ELSE WalletRow(req[h])
<1>1. RowsOf(req[h]) = <<player>> \o rest
  BY DEF RowsOf
<1>0. PICK r \in Request : r = req[h]
  OBVIOUS
<1>2. rest \in Seq(Own(r)) /\ <<player>> \in Seq(Own(r))
  <2>1. <<"wallet", r.account>> \in Own(r) /\ player \in Own(r)
    BY <1>0, OwnWallet
  <2>2. WalletRow(req[h]) \in Seq(Own(r)) /\ <<>> \in Seq(Own(r))
    BY <1>0, <2>1 DEF WalletRow
  <2> QED
    BY <2>1, <2>2
<1> HIDE DEF rest
<1>3. 1 \in DOMAIN (<<player>> \o rest) /\ (<<player>> \o rest)[1] = player
  BY <1>2
<1> QED
  BY <1>1, <1>3 DEF HasAll, HasPlayer

-----------------------------------------------------------------------------
(* What the changes to the committed rows leave alone *)

\* An order that was made stays one.
Kept(d, n) == n \in DB /\ \A o \in Packs : d.packs[o] \in Order => n.packs[o] \in Order

SameWallets(d, n) == n.balance = d.balance /\ n.book = d.book
SameGoods(d, n) == n.bought = d.bought /\ n.owned = d.owned

\* Nothing but the orders, the adjustments asked for and the events seen.
Beside(d, n) == Kept(d, n) /\ SameWallets(d, n) /\ SameGoods(d, n) /\ n.held = d.held

\* One entry of an event the book has not seen, and the balance with it.
Enter(d, n, e) ==
  /\ e \in Entry /\ ~Booked(d, e.ref) /\ d.balance[e.account] + e.delta >= 0
  /\ n.book = d.book \cup {e}
  /\ n.balance = [d.balance EXCEPT ![e.account] = @ + e.delta]

LEMMA DBTyped ==
  ASSUME NEW d \in DB
  PROVE  /\ d.balance \in [Accounts -> Nat] /\ d.held \in [Accounts -> BOOLEAN] /\ d.book \subseteq Entry
         /\ d.packs \in [Packs -> Order \cup {None}] /\ d.bought \subseteq Bought
         /\ d.owned \in [Accounts -> SUBSET Items] /\ d.asked \in [Adjustments -> Decisions]
         /\ d.seen \subseteq Event
  BY DEF DB

LEMMA EntryTyped ==
  \A e \in Entry : e.account \in Accounts /\ e.delta \in Int /\ e.kind \in Kinds
  BY DEF Entry

LEMMA RefTyped ==
  /\ \A o \in Packs : <<"pack", o>> \in Refs /\ <<"refund", o>> \in Refs
  /\ \A a \in Accounts, action \in ActionIds : <<"order", a, action>> \in Refs
  /\ \A award \in Awards : <<"earn", award>> \in Refs
  /\ \A d \in Adjustments : <<"admin", d>> \in Refs
  BY DEF Refs

LEMMA EntriesTyped ==
  /\ \A o \in Packs : Grant(o) \in Entry /\ Reversal(o) \in Entry
  /\ \A a \in Accounts, action \in ActionIds, price \in Int : Spend(a, action, price) \in Entry
  /\ \A award \in Awards, crowns \in Int : Earning(award, crowns) \in Entry
  /\ \A d \in Adjustments : Adjusting(d) \in Entry
<1>1. Entry = [ref: Refs, account: Accounts, kind: Kinds, delta: Int]
  BY DEF Entry
<1>2. \A o \in Packs : Grant(o) \in Entry /\ Reversal(o) \in Entry
  <2> SUFFICES ASSUME NEW o \in Packs PROVE Grant(o) \in Entry /\ Reversal(o) \in Entry
    OBVIOUS
  <2>1. Owner[o] \in Accounts /\ Crowns[o] \in Int /\ -Crowns[o] \in Int
    BY CrownAssumption
  <2> QED
    BY <1>1, <2>1, RefTyped DEF Grant, Reversal, Kinds
<1>3. \A a \in Accounts, action \in ActionIds, price \in Int : Spend(a, action, price) \in Entry
  BY <1>1, RefTyped DEF Spend, Kinds
<1>4. \A award \in Awards, crowns \in Int : Earning(award, crowns) \in Entry
  <2> SUFFICES ASSUME NEW award \in Awards, NEW crowns \in Int PROVE Earning(award, crowns) \in Entry
    OBVIOUS
  <2>1. Award[award].account \in Accounts
    BY CrownAssumption
  <2> QED
    BY <1>1, <2>1, RefTyped DEF Earning, Kinds
<1>5. \A d \in Adjustments : Adjusting(d) \in Entry
  <2> SUFFICES ASSUME NEW d \in Adjustments PROVE Adjusting(d) \in Entry
    OBVIOUS
  <2>1. Adjustment[d].account \in Accounts /\ Adjustment[d].delta \in Int
    BY CrownAssumption
  <2> QED
    BY <1>1, <2>1, RefTyped DEF Adjusting, Kinds
<1> QED
  BY <1>2, <1>3, <1>4, <1>5

LEMMA BesideIsOrder ==
  /\ \A d \in DB : Beside(d, d)
  /\ \A d, n, m : Beside(d, n) /\ Beside(n, m) => Beside(d, m)
  BY DEF Beside, Kept, SameWallets, SameGoods

\* The db rows and a field of them changed.
LEMMA PacksChanged ==
  ASSUME NEW d \in DB, NEW packs \in [Packs -> Order \cup {None}],
         \A o \in Packs : d.packs[o] \in Order => packs[o] \in Order
  PROVE  Beside(d, [d EXCEPT !.packs = packs])
<1>1. [d EXCEPT !.packs = packs] \in DB
  BY DEF DB
<1> QED
  BY <1>1 DEF DB, Beside, Kept, SameWallets, SameGoods

LEMMA StatusChanged ==
  ASSUME NEW d \in DB, NEW o \in Packs, d.packs[o] \in Order, NEW status \in Status
  PROVE  Beside(d, WithStatus(d, o, status)) /\ WithStatus(d, o, status).packs[o] \in Order
<1> DEFINE order == [d.packs[o] EXCEPT !.status = status]
           packs == [d.packs EXCEPT ![o] = order]
<1>1. order \in Order
  BY DEF Order
<1>2. packs \in [Packs -> Order \cup {None}] /\ \A p \in Packs : d.packs[p] \in Order => packs[p] \in Order
  BY <1>1, DBTyped
<1>3. WithStatus(d, o, status) = [d EXCEPT !.packs = packs]
  BY DEF WithStatus
<1>4. [d EXCEPT !.packs = packs].packs = packs
  BY DEF DB
<1>5. packs[o] = order
  BY DBTyped
<1> HIDE DEF order, packs
<1> QED
  BY <1>1, <1>2, <1>3, <1>4, <1>5, PacksChanged

LEMMA PaymentRecorded ==
  ASSUME NEW d \in DB, NEW o \in Packs, d.packs[o] \in Order
  PROVE  Beside(d, WithPayment(d, o)) /\ WithPayment(d, o).packs[o] \in Order
<1> DEFINE order == [d.packs[o] EXCEPT !.payment = TRUE]
           packs == [d.packs EXCEPT ![o] = order]
<1>1. order \in Order
  BY DEF Order
<1>2. packs \in [Packs -> Order \cup {None}] /\ \A p \in Packs : d.packs[p] \in Order => packs[p] \in Order
  BY <1>1, DBTyped
<1>3. WithPayment(d, o) = [d EXCEPT !.packs = packs]
  BY DEF WithPayment
<1>4. [d EXCEPT !.packs = packs].packs = packs
  BY DEF DB
<1>5. packs[o] = order
  BY DBTyped
<1> HIDE DEF order, packs
<1> QED
  BY <1>1, <1>2, <1>3, <1>4, <1>5, PacksChanged

LEMMA HoldPut ==
  ASSUME NEW d \in DB, NEW a \in Accounts, NEW held \in BOOLEAN
  PROVE  LET n == [d EXCEPT !.held[a] = held]
         IN  /\ Kept(d, n) /\ SameWallets(d, n) /\ SameGoods(d, n) /\ n.packs = d.packs
             /\ n.held = [d.held EXCEPT ![a] = held]
<1> DEFINE n == [d EXCEPT !.held[a] = held]
<1>1. [d.held EXCEPT ![a] = held] \in [Accounts -> BOOLEAN]
  BY DBTyped
<1>2. n \in DB
  BY <1>1 DEF DB
<1> QED
  BY <1>2 DEF DB, Kept, SameWallets, SameGoods

\* At most the entry, nothing else of the wallets and nothing of the goods.
Posts(d, n, e) ==
  /\ Kept(d, n) /\ SameGoods(d, n) /\ n.held = d.held
  /\ SameWallets(d, n) \/ Enter(d, n, e)

\* The wallet moves with the book, or the book knows the event already.
LEMMA Applied ==
  ASSUME NEW d \in DB, NEW e \in Entry, NEW w, w.balance = d.balance[e.account],
         Booked(d, e.ref) \/ d.balance[e.account] + e.delta >= 0
  PROVE  Posts(d, Apply(d, w, e), e) /\ Apply(d, w, e).packs = d.packs
<1> DEFINE n == Apply(d, w, e)
           balance == [d.balance EXCEPT ![e.account] = @ + e.delta]
<1>1. CASE Booked(d, e.ref)
  BY <1>1 DEF Apply, SameGoods, SameWallets, Kept, Posts
<1>2. CASE ~Booked(d, e.ref)
  <2>1. balance \in [Accounts -> Nat]
    BY <1>2, DBTyped, EntryTyped
  <2>2. d.book \cup {e} \subseteq Entry
    BY DBTyped
  <2>3. n = [d EXCEPT !.balance = balance, !.book = d.book \cup {e}]
    BY <1>2 DEF Apply
  <2> HIDE DEF n
  <2>4. n \in DB
    BY <2>1, <2>2, <2>3 DEF DB
  <2>5. /\ n.balance = balance /\ n.book = d.book \cup {e} /\ n.held = d.held /\ n.packs = d.packs
        /\ n.asked = d.asked /\ n.seen = d.seen /\ n.bought = d.bought /\ n.owned = d.owned
    BY <2>3 DEF DB
  <2>6. Enter(d, n, e)
    BY <1>2, <2>5 DEF Enter
  <2> QED
    BY <2>4, <2>5, <2>6 DEF SameGoods, Kept, Posts, n
<1> QED
  BY <1>1, <1>2

LEMMA PostsBetween ==
  ASSUME NEW a, NEW b, NEW c, NEW d, NEW e, Beside(a, b), Posts(b, c, e), Beside(c, d)
  PROVE  Posts(a, d, e)
  BY DEF Beside, Posts, Kept, SameWallets, SameGoods, Enter, Booked

-----------------------------------------------------------------------------
(* What each transaction makes of the committed rows *)

\* What an entry is for tells its kind, as far as it matters here.
Plain(e) ==
  /\ \A a, action : e.ref # <<"order", a, action>>
  /\ \A award : e.ref = <<"earn", award>> => e.kind = "EARN"

\* An entry that is no purchase's, in the account of the transaction that holds its wallet.
Enters(h, n, e) ==
  /\ Enter(db, n, e) /\ HasWallet(h) /\ e.account = req[h].account
  /\ SameGoods(db, n) /\ n.held = db.held
  /\ e.kind # "SPEND" /\ Plain(e)
  /\ \A o \in Packs : e = Grant(o) => stripe[o] = "paid"
  /\ e.kind = "EARN" => /\ req[h].op = "earn" /\ req[h].crowns # None
                        /\ e = Earning(req[h].award, req[h].crowns)

\* A purchase by an account that holds none of what it is granted.
Sells(h, n, b) ==
  /\ Enter(db, n, Spend(b.account, b.action, b.price))
  /\ HasWallet(h) /\ b.account = req[h].account /\ ~db.held[b.account]
  /\ ~Ordered(db, b.account, b.action) /\ n.held = db.held
  /\ n.bought = db.bought \cup {b} /\ n.owned = [db.owned EXCEPT ![b.account] = @ \cup b.grants]
  /\ b.grants \cap db.owned[b.account] = {}

\* A wallet put on hold, or taken off.
Holds(h, n) ==
  /\ SameWallets(db, n) /\ SameGoods(db, n) /\ HasWallet(h)
  /\ \E held \in BOOLEAN : n.held = [db.held EXCEPT ![req[h].account] = held]

Effect(h, n) ==
  /\ Kept(db, n)
  /\ \/ Beside(db, n)
     \/ Holds(h, n)
     \/ \E e \in Entry : Enters(h, n, e)
     \/ \E b \in Bought : Sells(h, n, b)

LEMMA ColumnsAside ==
  ASSUME NEW h, NEW n \in DB, NEW m \in DB, Effect(h, n), Beside(n, m)
  PROVE  Effect(h, m)
<1>1. Kept(db, m)
  BY DEF Effect, Beside, Kept
<1>2. CASE Beside(db, n)
  BY <1>1, <1>2, BesideIsOrder DEF Effect
<1>3. CASE Holds(h, n)
  BY <1>1, <1>3 DEF Effect, Holds, Beside, SameWallets, SameGoods
<1>4. ASSUME NEW e \in Entry, Enters(h, n, e) PROVE Effect(h, m)
  <2>1. Enters(h, m, e)
    BY <1>4 DEF Enters, Enter, Beside, SameWallets, SameGoods
  <2> QED
    BY <1>1, <2>1 DEF Effect
<1>5. ASSUME NEW b \in Bought, Sells(h, n, b) PROVE Effect(h, m)
  <2>1. Sells(h, m, b)
    BY <1>5 DEF Sells, Enter, Beside, SameWallets, SameGoods
  <2> QED
    BY <1>1, <2>1 DEF Effect
<1> QED
  BY <1>2, <1>3, <1>4, <1>5 DEF Effect

LEMMA PostsEffect ==
  ASSUME NEW h, NEW n, NEW e \in Entry, Posts(db, n, e), HasWallet(h), e.account = req[h].account,
         e.kind # "SPEND", Plain(e),
         \A o \in Packs : e = Grant(o) => stripe[o] = "paid",
         e.kind = "EARN" => /\ req[h].op = "earn" /\ req[h].crowns # None
                            /\ e = Earning(req[h].award, req[h].crowns)
  PROVE  Effect(h, n)
<1>1. CASE SameWallets(db, n)
  BY <1>1 DEF Posts, Effect, Beside
<1>2. CASE Enter(db, n, e)
  <2>1. Enters(h, n, e)
    BY <1>2 DEF Posts, Enters
  <2> QED
    BY <2>1 DEF Posts, Effect
<1> QED
  BY <1>1, <1>2 DEF Posts

LEMMA SeenAdded ==
  ASSUME NEW n \in DB, NEW e \in Event
  PROVE  LET m == [n EXCEPT !.seen = @ \cup {e}] IN m \in DB /\ Beside(n, m)
<1> DEFINE m == [n EXCEPT !.seen = @ \cup {e}]
<1>1. n.seen \cup {e} \subseteq Event
  BY DBTyped
<1>2. m \in DB
  BY <1>1 DEF DB
<1> QED
  BY <1>2 DEF DB, Beside, Kept, SameWallets, SameGoods

\* What holds of a transaction about a pack when it commits.
PackReady(h) ==
  LET r == req[h]
  IN  /\ r.pack \in Packs /\ r.type \in EventTypes /\ r.account = Owner[r.pack] /\ r.order \in Order
      /\ db \in DB /\ db.packs[r.pack] \in Order /\ r.account \in Accounts
      /\ IsPaid(r.type) => stripe[r.pack] = "paid"
      /\ TouchesWallet(r) => HasWallet(h) /\ r.wallet = WalletOf(r.account)

LEMMA CreditedEffect ==
  ASSUME NEW h, PackReady(h), req[h].op \in {"event", "reconcile"}, IsSession(req[h].type)
  PROVE  Effect(h, Credited(db, req[h].type, req[h].pack, req[h].order, req[h].wallet))
<1> PICK r : r = req[h]
  OBVIOUS
<1> DEFINE o == r.pack
           e == Grant(o)
           d1 == WithPayment(db, o)
           d2 == Apply(d1, r.wallet, e)
           d3 == WithStatus(d2, o, "credited")
<1>1. /\ o \in Packs /\ r.account = Owner[o] /\ db \in DB /\ db.packs[o] \in Order
      /\ IsPaid(r.type) => stripe[o] = "paid"
  BY DEF PackReady
<1>2. Beside(db, d1) /\ d1.packs[o] \in Order /\ d1 \in DB
  BY <1>1, PaymentRecorded DEF Beside, Kept
<1>3. CASE IsPaid(r.type) /\ Creditable(r.order)
  <2>1. HasWallet(h) /\ r.wallet = WalletOf(r.account)
    BY <1>3 DEF PackReady, TouchesWallet
  <2>2. e \in Entry /\ e.account = Owner[o] /\ e.delta = Crowns[o] /\ e.kind = "PAID_GRANT" /\ e.ref = <<"pack", o>>
    BY <1>1, EntriesTyped DEF Grant
  <2>3. r.wallet.balance = d1.balance[e.account]
    BY <1>1, <1>2, <2>1, <2>2 DEF WalletOf, Beside, SameWallets
  <2>4. Owner[o] \in Accounts /\ Crowns[o] \in Nat
    BY <1>1, CrownAssumption
  <2>5. d1.balance[e.account] + e.delta >= 0
    BY <1>2, <2>2, <2>4, DBTyped
  <2> HIDE DEF d1, e
  <2>6. Posts(d1, d2, e) /\ d2.packs = d1.packs
    BY <1>2, <2>2, <2>3, <2>5, Applied
  <2>7. d2 \in DB /\ d2.packs[o] \in Order
    BY <1>2, <2>6 DEF Posts, Kept
  <2> HIDE DEF d2
  <2>8. Beside(d2, d3)
    BY <1>1, <2>7, StatusChanged DEF Status
  <2>9. Posts(db, d3, e)
    BY <1>2, <2>6, <2>8, PostsBetween
  <2> HIDE DEF d3
  <2>10. /\ e.kind # "SPEND" /\ e.kind # "EARN" /\ Plain(e)
         /\ e.account = req[h].account
    BY <1>1, <2>2 DEF Plain
  <2>11. \A p \in Packs : e = Grant(p) => stripe[p] = "paid"
    BY <1>1, <1>3, <2>2 DEF Grant
  <2>12. Effect(h, d3)
    BY <2>1, <2>2, <2>9, <2>10, <2>11, PostsEffect
  <2> QED
    BY <1>3, <2>12 DEF Credited, d3, d2, d1, e
<1>4. CASE ~(IsPaid(r.type) /\ Creditable(r.order))
  BY <1>2, <1>4 DEF Credited, Effect, Beside
<1> QED
  BY <1>3, <1>4

LEMMA HoldEffect ==
  ASSUME NEW h, NEW d \in DB, Beside(db, d), HasWallet(h), req[h].account \in Accounts
  PROVE  /\ Effect(h, WithHold(d, req[h].account)) /\ WithHold(d, req[h].account) \in DB
         /\ WithHold(d, req[h].account).packs = d.packs
<1> PICK a \in Accounts : a = req[h].account
  OBVIOUS
<1> DEFINE n == WithHold(d, a)
<1>1. n = [d EXCEPT !.held[a] = TRUE]
  BY DEF WithHold
<1>2. /\ Kept(d, n) /\ SameWallets(d, n) /\ SameGoods(d, n) /\ n.packs = d.packs
      /\ n.held = [d.held EXCEPT ![a] = TRUE]
  <2>1. PICK on \in BOOLEAN : on = TRUE
    OBVIOUS
  <2>2. n = [d EXCEPT !.held[a] = on]
    BY <1>1, <2>1
  <2> HIDE DEF n
  <2>3. /\ Kept(d, n) /\ SameWallets(d, n) /\ SameGoods(d, n) /\ n.packs = d.packs
        /\ n.held = [d.held EXCEPT ![a] = on]
    BY <2>2, HoldPut
  <2> QED
    BY <2>1, <2>3
<1> HIDE DEF n
<1>3. n.held = [db.held EXCEPT ![a] = TRUE]
  BY <1>2 DEF Beside
<1>4. Holds(h, n)
  BY <1>2, <1>3 DEF Holds, Beside, SameWallets, SameGoods
<1>5. Kept(db, n) /\ n \in DB
  BY <1>2 DEF Beside, Kept
<1> QED
  BY <1>2, <1>4, <1>5 DEF Effect, n

LEMMA RefundedEffect ==
  ASSUME NEW h, PackReady(h), req[h].op \in {"event", "reconcile"}, IsRefund(req[h].type)
  PROVE  Effect(h, Refunded(db, req[h].type, req[h].pack, req[h].order, req[h].wallet))
<1> PICK r : r = req[h]
  OBVIOUS
<1> DEFINE o == r.pack
           e == Reversal(o)
           n == Refunded(db, r.type, o, r.order, r.wallet)
<1> PICK d1 : d1 = WithPayment(db, o)
  OBVIOUS
<1>1. /\ o \in Packs /\ r.account = Owner[o] /\ db \in DB /\ db.packs[o] \in Order
      /\ r.account \in Accounts
  BY DEF PackReady
<1>2. Beside(db, d1) /\ d1.packs[o] \in Order /\ d1 \in DB
  BY <1>1, PaymentRecorded DEF Beside, Kept
<1>3. CASE r.order.status = "refunded"
  <2>1. n = d1
    BY <1>3 DEF Refunded, WasCredited
  <2> QED
    BY <1>2, <2>1 DEF Effect, Beside
<1>4. CASE r.order.status # "refunded" /\ ~WasCredited(r.order)
  <2>1. n = WithStatus(d1, o, "refunded")
    BY <1>4 DEF Refunded
  <2>2. Beside(d1, n)
    BY <1>1, <1>2, <2>1, StatusChanged DEF Status
  <2>3. Beside(db, n)
    BY <1>2, <2>2, BesideIsOrder
  <2> QED
    BY <2>3 DEF Effect, Beside
<1>5. CASE WasCredited(r.order)
  <2>1. r.order.status # "refunded"
    BY <1>5 DEF WasCredited
  <2>2. HasWallet(h) /\ r.wallet = WalletOf(r.account)
    BY <1>5, <2>1 DEF PackReady, TouchesWallet
  <2>3. CASE r.type = "refund_full" /\ r.wallet.balance >= Crowns[o]
    <3>1. e \in Entry /\ e.account = Owner[o] /\ e.delta = -Crowns[o] /\ e.kind = "REVERSAL" /\ e.ref = <<"refund", o>>
      BY <1>1, EntriesTyped DEF Reversal
    <3>2. r.wallet.balance = d1.balance[e.account]
      BY <1>1, <1>2, <2>2, <3>1 DEF WalletOf, Beside, SameWallets
    <3>3. Owner[o] \in Accounts /\ Crowns[o] \in Nat
      BY <1>1, CrownAssumption
    <3>4. d1.balance[e.account] + e.delta >= 0
      BY <1>2, <2>3, <3>1, <3>2, <3>3, DBTyped
    <3>5. PICK d2 : d2 = Apply(d1, r.wallet, e)
      OBVIOUS
    <3>6. n = WithStatus(d2, o, "refunded")
      BY <1>5, <2>1, <2>3, <3>5 DEF Refunded
    <3> HIDE DEF e, n
    <3>7. Posts(d1, d2, e) /\ d2.packs = d1.packs
      BY <1>2, <3>1, <3>2, <3>4, <3>5, Applied
    <3>8. d2 \in DB /\ d2.packs[o] \in Order
      BY <1>2, <3>7 DEF Posts, Kept
    <3>9. Beside(d2, n)
      BY <1>1, <3>6, <3>8, StatusChanged DEF Status
    <3>10. Posts(db, n, e)
      BY <1>2, <3>7, <3>9, PostsBetween
    <3>11. /\ e.kind # "SPEND" /\ e.kind # "EARN" /\ Plain(e)
           /\ e.account = req[h].account
      BY <1>1, <3>1 DEF Plain
    <3>12. \A p \in Packs : e = Grant(p) => stripe[p] = "paid"
      BY <3>1 DEF Grant
    <3>13. Effect(h, n)
      BY <2>2, <3>1, <3>10, <3>11, <3>12, PostsEffect
    <3> QED
      BY <3>13 DEF n
  <2>4. CASE ~(r.type = "refund_full" /\ r.wallet.balance >= Crowns[o])
    <3>1. PICK d2 : d2 = WithHold(d1, r.account)
      OBVIOUS
    <3>2. n = WithStatus(d2, o, "refund_review")
      BY <1>1, <1>5, <2>1, <2>4, <3>1 DEF Refunded
    <3>3. Effect(h, d2) /\ d2 \in DB /\ d2.packs = d1.packs
      BY <1>1, <1>2, <2>2, <3>1, HoldEffect
    <3>4. Beside(d2, n)
      BY <1>1, <1>2, <3>2, <3>3, StatusChanged DEF Status
    <3>5. n \in DB
      BY <3>4 DEF Beside, Kept
    <3>6. Effect(h, n)
      BY <3>3, <3>4, <3>5, ColumnsAside
    <3> QED
      BY <3>6
  <2> QED
    BY <2>3, <2>4
<1> QED
  BY <1>3, <1>4, <1>5

LEMMA AfterEventEffect ==
  ASSUME NEW h, PackReady(h), req[h].op \in {"event", "reconcile"}
  PROVE  Effect(h, AfterEvent(db, req[h].type, req[h].pack, req[h].order, req[h].wallet))
<1> PICK r : r = req[h]
  OBVIOUS
<1> DEFINE o == r.pack
           n == AfterEvent(db, r.type, o, r.order, r.wallet)
<1>1. /\ o \in Packs /\ r.account = Owner[o] /\ db \in DB /\ db.packs[o] \in Order
      /\ r.account \in Accounts /\ r.type \in EventTypes
  BY DEF PackReady
<1>2. Effect(h, db)
  BY <1>1, BesideIsOrder DEF Effect, Beside
<1>3. CASE IsSession(r.type)
  <2>1. n = Credited(db, r.type, o, r.order, r.wallet)
    BY <1>3 DEF AfterEvent, IsSession, IsRefund
  <2> QED
    BY <1>3, <2>1, CreditedEffect
<1>4. ASSUME NEW status \in Status, r.type \in {"async_failed", "expired"},
             n = IF r.order.status = "pending" THEN WithStatus(db, o, status) ELSE db
      PROVE  Effect(h, n)
  <2>1. CASE r.order.status = "pending"
    <3>1. Beside(db, n)
      BY <1>1, <1>4, <2>1, StatusChanged
    <3> QED
      BY <3>1 DEF Effect, Beside
  <2>2. CASE r.order.status # "pending"
    BY <1>2, <1>4, <2>2
  <2> QED
    BY <2>1, <2>2
<1>5. CASE r.type = "async_failed"
  <2>1. n = IF r.order.status = "pending" THEN WithStatus(db, o, "failed") ELSE db
    BY <1>5 DEF AfterEvent, IsSession, IsRefund
  <2> QED
    BY <1>4, <1>5, <2>1 DEF Status
<1>6. CASE r.type = "expired"
  <2>1. n = IF r.order.status = "pending" THEN WithStatus(db, o, "expired") ELSE db
    BY <1>6 DEF AfterEvent, IsSession, IsRefund
  <2> QED
    BY <1>4, <1>6, <2>1 DEF Status
<1>7. CASE IsRefund(r.type)
  <2>1. n = Refunded(db, r.type, o, r.order, r.wallet)
    BY <1>7 DEF AfterEvent, IsSession, IsRefund
  <2> QED
    BY <1>7, <2>1, RefundedEffect
<1>8. CASE r.type = "dispute"
  <2>1. CASE Matches(r.type, r.order)
    <3>1. PICK d : d = WithHold(db, r.account)
      OBVIOUS
    <3>2. n = WithStatus(d, o, "disputed")
      BY <1>1, <1>8, <2>1, <3>1 DEF AfterEvent, IsSession, IsRefund
    <3>3. HasWallet(h)
      BY <1>8, <2>1 DEF PackReady, TouchesWallet
    <3>4. Effect(h, d) /\ d \in DB /\ d.packs = db.packs
      BY <1>1, <3>1, <3>3, BesideIsOrder, HoldEffect
    <3>5. Beside(d, n)
      BY <1>1, <3>2, <3>4, StatusChanged DEF Status
    <3>6. n \in DB
      BY <3>5 DEF Beside, Kept
    <3> QED
      BY <3>4, <3>5, <3>6, ColumnsAside
  <2>2. CASE ~Matches(r.type, r.order)
    <3>1. n = db
      BY <1>8, <2>2 DEF AfterEvent, IsSession, IsRefund
    <3> QED
      BY <1>2, <3>1
  <2> QED
    BY <2>1, <2>2
<1> QED
  BY <1>1, <1>3, <1>5, <1>6, <1>7, <1>8 DEF EventTypes, IsSession, IsRefund

-----------------------------------------------------------------------------
(* Commits *)

\* A transaction that is over: its changes stand and its locks are free.
Ended(h, n) ==
  /\ req' = [req EXCEPT ![h] = None]
  /\ lock' = [row \in Rows |-> IF lock[row] = h THEN None ELSE lock[row]]
  /\ stripe' = stripe /\ sent' = sent /\ db' = n

LEMMA ReadyFacts ==
  ASSUME CrownInv, NEW h \in Handlers, NEW op, Ready(h, op)
  PROVE  /\ Running(h) /\ req[h].op = op /\ HasAll(h) /\ req[h] \in Request /\ Fits(req[h])
         /\ req[h].account \in Accounts /\ db \in DB
         /\ TouchesWallet(req[h]) => HasWallet(h) /\ req[h].wallet = WalletOf(req[h].account)
<1>1. Running(h) /\ req[h].op = op /\ HasAll(h)
  BY DEF Ready
<1>2. req[h] \in Request /\ Fits(req[h]) /\ db \in DB
  BY <1>1 DEF Running, CrownInv, Typed, Fitting
<1>3. TouchesWallet(req[h]) => HasWallet(h)
  BY <1>1, <1>2, WalletHeld
<1>4. HasWallet(h) => req[h].wallet = WalletOf(req[h].account)
  BY <1>1 DEF CrownInv, WalletFresh
<1> QED
  BY <1>1, <1>2, <1>3, <1>4, RequestTyped

LEMMA PackReadyFacts ==
  ASSUME CrownInv, NEW h \in Handlers, NEW op \in {"event", "reconcile"}, Ready(h, op)
  PROVE  PackReady(h)
<1>1. /\ Running(h) /\ req[h].op = op /\ req[h] \in Request /\ Fits(req[h])
      /\ req[h].account \in Accounts /\ db \in DB
      /\ TouchesWallet(req[h]) => HasWallet(h) /\ req[h].wallet = WalletOf(req[h].account)
  BY ReadyFacts
<1>2. OnPack(req[h]) /\ req[h] # None /\ req[h].op # "ask"
  BY <1>1 DEF OnPack, Running
<1>3. db.packs[req[h].pack] \in Order /\ (IsPaid(req[h].type) => stripe[req[h].pack] = "paid")
  BY <1>2 DEF CrownInv, Made, Paid
<1> QED
  BY <1>1, <1>2, <1>3 DEF PackReady, Fits

LEMMA RollbackEffect ==
  ASSUME CrownInv, NEW h \in Handlers
  PROVE  Effect(h, db)
<1>1. Beside(db, db)
  BY BesideIsOrder DEF CrownInv, Typed
<1> QED
  BY <1>1 DEF Effect, Beside

LEMMA EventEffect ==
  ASSUME CrownInv, NEW h \in Handlers, EventTx(h)
  PROVE  \E n : Effect(h, n) /\ Ended(h, n) /\ aborts' = aborts
<1> DEFINE r == req[h]
           e == <<r.type, r.pack>>
<1>1. Ready(h, "event")
  BY DEF EventTx
<1>2. PackReady(h) /\ r.op = "event"
  BY <1>1, PackReadyFacts DEF Ready
<1>3. e \in Event
  BY <1>2 DEF PackReady, Event
<1>4. CASE e \in db.seen
  BY <1>4, RollbackEffect DEF EventTx, Rollback, Commit, Finish, Ended
<1>5. CASE e \notin db.seen
  <2>1. PICK d : d = AfterEvent(db, r.type, r.pack, r.order, r.wallet)
    OBVIOUS
  <2>2. PICK n : n = [d EXCEPT !.seen = @ \cup {e}]
    OBVIOUS
  <2>3. Effect(h, d)
    BY <1>2, <2>1, AfterEventEffect
  <2>4. d \in DB
    BY <2>3 DEF Effect, Kept
  <2>5. n \in DB /\ Beside(d, n)
    BY <1>3, <2>2, <2>4, SeenAdded
  <2>6. Effect(h, n)
    BY <2>3, <2>4, <2>5, ColumnsAside
  <2>7. Ended(h, n) /\ aborts' = aborts
    BY <1>5, <2>1, <2>2 DEF EventTx, Commit, Finish, Ended
  <2> QED
    BY <2>6, <2>7
<1> QED
  BY <1>4, <1>5

LEMMA ReconcileEffect ==
  ASSUME CrownInv, NEW h \in Handlers, ReconcileTx(h)
  PROVE  \E n : Effect(h, n) /\ Ended(h, n) /\ aborts' = aborts
<1>1. Ready(h, "reconcile")
  BY DEF ReconcileTx
<1>2. PackReady(h) /\ req[h].op = "reconcile"
  BY <1>1, PackReadyFacts DEF Ready
<1>3. IsSession(req[h].type)
  BY <1>1, <1>2, ReadyFacts DEF Fits, OnPack
<1>4. PICK n : n = Credited(db, req[h].type, req[h].pack, req[h].order, req[h].wallet)
  OBVIOUS
<1>5. Effect(h, n)
  BY <1>2, <1>3, <1>4, CreditedEffect
<1>6. Ended(h, n) /\ aborts' = aborts
  BY <1>4 DEF ReconcileTx, Commit, Finish, Ended
<1> QED
  BY <1>5, <1>6

LEMMA EarnEffect ==
  ASSUME CrownInv, NEW h \in Handlers, EarnTx(h)
  PROVE  \E n : Effect(h, n) /\ Ended(h, n) /\ aborts' = aborts
<1> PICK r : r = req[h]
  OBVIOUS
<1>1. Ready(h, "earn") /\ r.crowns # None
  BY DEF EarnTx
<1>2. /\ r \in Request /\ Fits(r) /\ r.op = "earn" /\ db \in DB /\ r.account \in Accounts
      /\ HasWallet(h) /\ r.wallet = WalletOf(r.account)
  BY <1>1, ReadyFacts DEF TouchesWallet
<1>3. r.award \in Awards /\ r.account = Award[r.award].account /\ r.crowns \in Int
  BY <1>1, <1>2 DEF Fits, Request
<1>4. CASE r.crowns > 0
  <2>1. PICK e : e = Earning(r.award, r.crowns)
    OBVIOUS
  <2>2. /\ e \in Entry /\ e.account = r.account /\ e.delta = r.crowns /\ e.kind = "EARN"
        /\ e.ref = <<"earn", r.award>>
    BY <1>3, <2>1, EntriesTyped DEF Earning
  <2>3. PICK n : n = Apply(db, r.wallet, e)
    OBVIOUS
  <2>4. r.wallet.balance = db.balance[e.account] /\ db.balance[e.account] + e.delta >= 0
    BY <1>2, <1>3, <1>4, <2>2, DBTyped DEF WalletOf
  <2>5. Posts(db, n, e)
    BY <1>2, <2>2, <2>3, <2>4, Applied
  <2>6. \A p \in Packs : e = Grant(p) => stripe[p] = "paid"
    BY <2>2 DEF Grant
  <2>7. Plain(e)
    BY <2>2 DEF Plain
  <2>8. Effect(h, n)
    BY <1>1, <1>2, <2>1, <2>2, <2>5, <2>6, <2>7, PostsEffect
  <2>9. Ended(h, n) /\ aborts' = aborts
    BY <1>4, <2>1, <2>3 DEF EarnTx, Commit, Finish, Ended
  <2> QED
    BY <2>8, <2>9
<1>5. CASE ~(r.crowns > 0)
  <2>1. Ended(h, db) /\ aborts' = aborts
    BY <1>5 DEF EarnTx, Commit, Finish, Ended
  <2> QED
    BY <2>1, RollbackEffect
<1> QED
  BY <1>4, <1>5

LEMMA AskedChanged ==
  ASSUME NEW d \in DB, NEW x \in Adjustments, NEW v \in Decisions
  PROVE  Beside(d, [d EXCEPT !.asked[x] = v])
<1> DEFINE n == [d EXCEPT !.asked[x] = v]
<1>1. [d.asked EXCEPT ![x] = v] \in [Adjustments -> Decisions]
  BY DBTyped
<1>2. n \in DB
  BY <1>1 DEF DB
<1> QED
  BY <1>2 DEF DB, Beside, Kept, SameWallets, SameGoods

LEMMA AdjustEffect ==
  ASSUME CrownInv, NEW h \in Handlers, AdjustTx(h)
  PROVE  \E n : Effect(h, n) /\ Ended(h, n) /\ aborts' = aborts
<1> PICK r : r = req[h]
  OBVIOUS
<1> PICK e : e = Adjusting(r.adjust)
  OBVIOUS
<1> PICK d : d = [db EXCEPT !.asked[r.adjust] = IF r.yes THEN "APPLIED" ELSE "REJECTED"]
  OBVIOUS
<1>1. Ready(h, "adjust")
  BY DEF AdjustTx
<1>2. /\ r \in Request /\ Fits(r) /\ r.op = "adjust" /\ db \in DB /\ r.account \in Accounts
      /\ r.yes => HasWallet(h) /\ r.wallet = WalletOf(r.account)
  BY <1>1, ReadyFacts DEF TouchesWallet
<1>3. r.adjust \in Adjustments /\ r.account = Adjustment[r.adjust].account
  BY <1>2 DEF Fits
<1>4. Beside(db, d) /\ d \in DB
  <2>1. PICK v \in Decisions : v = IF r.yes THEN "APPLIED" ELSE "REJECTED"
    BY DEF Decisions
  <2>2. Beside(db, [db EXCEPT !.asked[r.adjust] = v])
    BY <1>2, <1>3, AskedChanged
  <2> QED
    BY <2>1, <2>2 DEF Beside, Kept
<1>5. CASE ~Undecided(r.adjust) \/ (r.yes /\ ~CanApply(db, r.wallet, e, TRUE))
  <2>1. Ended(h, db) /\ aborts' = aborts
    BY <1>5 DEF AdjustTx, Rollback, Commit, Finish, Ended
  <2> QED
    BY <2>1, RollbackEffect
<1>6. CASE /\ ~(~Undecided(r.adjust) \/ (r.yes /\ ~CanApply(db, r.wallet, e, TRUE)))
           /\ ~r.yes
  <2>1. Ended(h, d) /\ aborts' = aborts
    BY <1>6 DEF AdjustTx, Commit, Finish, Ended
  <2>2. Effect(h, d)
    BY <1>4 DEF Effect, Beside
  <2> QED
    BY <2>1, <2>2
<1>7. CASE /\ ~(~Undecided(r.adjust) \/ (r.yes /\ ~CanApply(db, r.wallet, e, TRUE)))
           /\ r.yes
  <2>1. PICK n : n = Apply(d, r.wallet, e)
    OBVIOUS
  <2>2. Ended(h, n) /\ aborts' = aborts
    BY <1>7, <2>1 DEF AdjustTx, Commit, Finish, Ended
  <2>3. e \in Entry /\ e.account = r.account /\ e.kind = "ADJUSTMENT" /\ e.ref = <<"admin", r.adjust>>
    BY <1>3, EntriesTyped DEF Adjusting
  <2>4. r.wallet.balance = d.balance[e.account] /\ r.wallet.balance = db.balance[e.account]
    BY <1>2, <1>4, <1>7, <2>3 DEF WalletOf, Beside, SameWallets
  <2>5. Booked(db, e.ref) \/ r.wallet.balance + e.delta >= 0
    BY <1>7 DEF CanApply
  <2>6. Booked(d, e.ref) \/ d.balance[e.account] + e.delta >= 0
    BY <1>4, <2>4, <2>5 DEF Booked, Beside, SameWallets
  <2>7. Posts(d, n, e)
    BY <1>4, <2>1, <2>3, <2>4, <2>6, Applied
  <2>8. n \in DB
    BY <2>7 DEF Posts, Kept
  <2>9. Posts(db, n, e)
    BY <1>4, <2>7, <2>8, PostsBetween, BesideIsOrder
  <2>10. \A p \in Packs : e = Grant(p) => stripe[p] = "paid"
    BY <2>3 DEF Grant
  <2>11. Plain(e)
    BY <2>3 DEF Plain
  <2>12. Effect(h, n)
    BY <1>2, <1>7, <2>3, <2>9, <2>10, <2>11, PostsEffect
  <2> QED
    BY <2>2, <2>12
<1> QED
  BY <1>5, <1>6, <1>7

LEMMA ReleaseEffect ==
  ASSUME CrownInv, NEW h \in Handlers, ReleaseTx(h)
  PROVE  \E n : Effect(h, n) /\ Ended(h, n) /\ aborts' = aborts
<1>1. Ready(h, "release")
  BY DEF ReleaseTx
<1>2. /\ req[h].op = "release" /\ db \in DB /\ req[h].account \in Accounts /\ HasWallet(h)
  BY <1>1, ReadyFacts DEF TouchesWallet
<1> PICK a \in Accounts : a = req[h].account
  BY <1>2
<1>3. PICK off \in BOOLEAN : off = FALSE
  OBVIOUS
<1>4. PICK n : n = [db EXCEPT !.held[a] = off]
  OBVIOUS
<1>5. /\ Kept(db, n) /\ SameWallets(db, n) /\ SameGoods(db, n)
      /\ n.held = [db.held EXCEPT ![a] = off]
  BY <1>2, <1>4, HoldPut
<1>6. Holds(h, n)
  BY <1>2, <1>5 DEF Holds
<1>7. Effect(h, n)
  BY <1>5, <1>6 DEF Effect
<1>8. Ended(h, n) /\ aborts' = aborts
  BY <1>3, <1>4 DEF ReleaseTx, Commit, Finish, Ended
<1> QED
  BY <1>7, <1>8

-----------------------------------------------------------------------------
(* Prices *)

LEMMA PricesPositive ==
  ASSUME NEW S, S \subseteq Items, S # {}
  PROVE  PricesOf(S) \in Nat /\ PricesOf(S) > 0
<1>1. IsFiniteSet(S) /\ ListPrice \in [Items -> Nat \ {0}]
  BY CrownAssumption, FS_Subset
<1>2. PricesOf(S) = Sum(ListPrice, S)
  BY DEF PricesOf, Sum
<1>3. PICK x \in S : TRUE
  OBVIOUS
<1>4. Nats(ListPrice, S) /\ Ints(ListPrice, S) /\ Nats(ListPrice, S \ {x}) /\ IsFiniteSet(S \ {x})
  BY <1>1, FS_Subset DEF Nats, Ints
<1>5. Sum(ListPrice, S) = ListPrice[x] + Sum(ListPrice, S \ {x})
  BY <1>1, <1>4, SumTake
<1>6. Sum(ListPrice, S \ {x}) \in Nat
  BY <1>4, SumNat
<1>7. ListPrice[x] \in Nat /\ ListPrice[x] > 0
  BY <1>1
<1> HIDE DEF Sum
<1> QED
  BY <1>2, <1>5, <1>6, <1>7

LEMMA AtLeastOne ==
  ASSUME NEW x \in Int
  PROVE  Max({1, x}) \in Nat /\ Max({1, x}) >= 1
<1>1. \E y \in {1, x} : \A z \in {1, x} : y >= z
  <2>1. CASE x >= 1
    BY <2>1
  <2>2. CASE ~(x >= 1)
    BY <2>2
  <2> QED
    BY <2>1, <2>2
<1>2. PICK y : y = Max({1, x})
  OBVIOUS
<1>3. y \in {1, x} /\ \A z \in {1, x} : y >= z
  BY <1>1, <1>2 DEF Max
<1> QED
  BY <1>2, <1>3

LEMMA PriceTyped ==
  ASSUME NEW f \in Offers, NEW missing, missing \subseteq Keys[f], missing # {}, NEW percent \in Discounts
  PROVE  Price(f, missing, percent) \in Nat /\ Price(f, missing, percent) >= 1
<1>1. Keys[f] \subseteq Items /\ OfferPrice[f] \in Nat /\ percent \in 0..99
  BY CrownAssumption
<1>2. /\ PricesOf(missing) \in Nat
      /\ PricesOf(Keys[f]) \in Nat /\ PricesOf(Keys[f]) > 0
  BY <1>1, PricesPositive
<1>3. PICK m, all : m = PricesOf(missing) /\ all = PricesOf(Keys[f])
  OBVIOUS
<1>4. (OfferPrice[f] * m + all - 1) \div all \in Int
  BY <1>1, <1>2, <1>3
<1>5. BasePrice(f, missing) \in Nat
  <2>1. PICK x : x = (OfferPrice[f] * m + all - 1) \div all
    OBVIOUS
  <2>2. Max({1, x}) \in Nat
    BY <1>4, <2>1, AtLeastOne
  <2>3. BasePrice(f, missing) = IF missing = Keys[f] THEN OfferPrice[f] ELSE Max({1, x})
    BY <1>3, <2>1 DEF BasePrice
  <2> QED
    BY <1>1, <2>2, <2>3
<1>6. PICK base : base = BasePrice(f, missing)
  OBVIOUS
<1>7. (base * (100 - percent)) \div 100 \in Int
  BY <1>1, <1>5, <1>6
<1>8. PICK y : y = (base * (100 - percent)) \div 100
  OBVIOUS
<1>9. Price(f, missing, percent) = Max({1, y})
  BY <1>6, <1>8 DEF Price
<1> QED
  BY <1>7, <1>8, <1>9, AtLeastOne

-----------------------------------------------------------------------------
(* Purchases *)

LEMMA BuyEffect ==
  ASSUME CrownInv, NEW h \in Handlers, BuyTx(h)
  PROVE  \E n : Effect(h, n) /\ Ended(h, n) /\ aborts' = aborts
<1> PICK r : r = req[h]
  OBVIOUS
<1> PICK missing : missing = Missing(db, r.account, r.offer)
  OBVIOUS
<1>1. Ready(h, "buy")
  BY DEF BuyTx
<1>2. /\ r \in Request /\ Fits(r) /\ r.op = "buy" /\ db \in DB /\ r.account \in Accounts
      /\ HasWallet(h) /\ r.wallet = WalletOf(r.account)
  BY <1>1, ReadyFacts DEF TouchesWallet
<1>3. r.action \in ActionIds /\ r.offer \in Offers
  BY <1>2 DEF Fits
<1>4. ASSUME Ended(h, db), aborts' = aborts
      PROVE  \E n : Effect(h, n) /\ Ended(h, n) /\ aborts' = aborts
  BY <1>4, RollbackEffect
<1>5. CASE Ordered(db, r.account, r.action) \/ missing = {}
  BY <1>4, <1>5 DEF BuyTx, Rollback, Commit, Finish, Ended
<1>6. CASE ~(Ordered(db, r.account, r.action) \/ missing = {})
  <2>1. PICK percent \in Discounts :
          IF CanApply(db, r.wallet, Spend(r.account, r.action, Price(r.offer, missing, percent)), FALSE)
          THEN Commit(h, WithPurchase(db, r.account, r.action, r.offer, percent, r.wallet))
          ELSE Rollback(h)
    BY <1>6 DEF BuyTx
  <2> PICK price : price = Price(r.offer, missing, percent)
    OBVIOUS
  <2> PICK e : e = Spend(r.account, r.action, price)
    OBVIOUS
  <2>2. CASE ~CanApply(db, r.wallet, e, FALSE)
    BY <1>4, <2>1, <2>2 DEF Rollback, Commit, Finish, Ended
  <2>3. CASE CanApply(db, r.wallet, e, FALSE)
    <3>1. PICK n : n = WithPurchase(db, r.account, r.action, r.offer, percent, r.wallet)
      OBVIOUS
    <3>2. Ended(h, n) /\ aborts' = aborts
      BY <2>1, <2>3, <3>1 DEF Commit, Finish, Ended
    <3>3. missing \subseteq Keys[r.offer] /\ missing \subseteq Items /\ missing \cap db.owned[r.account] = {}
      BY <1>3, CrownAssumption DEF Missing
    <3>4. price \in Nat
      BY <1>3, <1>6, <3>3, PriceTyped
    <3>5. /\ e \in Entry /\ e.account = r.account /\ e.delta = -price
          /\ e.ref = <<"order", r.account, r.action>>
      BY <1>2, <1>3, <3>4, EntriesTyped DEF Spend
    <3>6. ~Booked(db, e.ref)
      <4> SUFFICES ASSUME NEW x \in db.book, x.ref = <<"order", r.account, r.action>> PROVE FALSE
        BY <3>5 DEF Booked
      <4>1. \E b \in db.bought : b.account = r.account /\ b.action = r.action
        BY <1>2, <1>3 DEF CrownInv, Charged
      <4> QED
        BY <1>6, <4>1 DEF Ordered
    <3>7. /\ ~db.held[r.account] /\ r.wallet.balance = db.balance[e.account]
          /\ db.balance[e.account] + e.delta >= 0
      <4>1. r.wallet.balance = db.balance[r.account] /\ r.wallet.held = db.held[r.account]
        BY <1>2 DEF WalletOf
      <4>2. /\ e.delta < 0 => ~r.wallet.held
            /\ r.wallet.balance + e.delta >= 0
        BY <2>3, <3>6 DEF CanApply
      <4>3. e.delta < 0
        BY <1>3, <1>6, <3>3, <3>4, <3>5, PriceTyped
      <4> QED
        BY <3>5, <4>1, <4>2, <4>3
    <3>8. PICK d : d = Apply(db, r.wallet, e)
      OBVIOUS
    <3>9. Posts(db, d, e) /\ d.packs = db.packs
      BY <1>2, <3>5, <3>7, <3>8, Applied
    <3>10. d.book = db.book \cup {e}
      BY <1>2, <3>6, <3>8 DEF Apply, DB
    <3>11. Enter(db, d, e)
      <4>1. e \in d.book /\ e \notin db.book
        BY <3>6, <3>10 DEF Booked
      <4> QED
        BY <3>9, <4>1 DEF Posts, SameWallets
    <3>12. PICK b : b = [account |-> r.account, action |-> r.action, offer |-> r.offer,
                         price |-> price, grants |-> missing]
      OBVIOUS
    <3>13. b \in Bought /\ b.account = r.account /\ b.action = r.action /\ b.price = price /\ b.grants = missing
      BY <1>2, <1>3, <3>3, <3>4, <3>12 DEF Bought
    <3>14. n = [d EXCEPT !.bought = @ \cup {b}, !.owned[r.account] = @ \cup missing]
      BY <3>1, <3>8, <3>12 DEF WithPurchase
    <3>15. PICK owned : owned = [d.owned EXCEPT ![r.account] = @ \cup missing]
      OBVIOUS
    <3>16. d \in DB /\ d.held = db.held /\ d.bought = db.bought /\ d.owned = db.owned
      BY <3>9 DEF Posts, Kept, SameGoods
    <3>17. owned \in [Accounts -> SUBSET Items] /\ d.bought \cup {b} \subseteq Bought
      BY <1>2, <3>3, <3>13, <3>15, <3>16, DBTyped
    <3>18. n = [d EXCEPT !.bought = d.bought \cup {b}, !.owned = owned]
      BY <3>14, <3>15
    <3>19. n \in DB
      BY <3>16, <3>17, <3>18 DEF DB
    <3>20. /\ n.balance = d.balance /\ n.book = d.book /\ n.held = d.held /\ n.packs = d.packs
           /\ n.bought = d.bought \cup {b} /\ n.owned = owned
      BY <3>16, <3>18 DEF DB
    <3>21. Enter(db, n, Spend(b.account, b.action, b.price))
      BY <3>11, <3>13, <3>20 DEF Enter
    <3>22. n.owned = [db.owned EXCEPT ![b.account] = @ \cup b.grants]
      BY <3>13, <3>15, <3>16, <3>20
    <3>23. ~Ordered(db, b.account, b.action)
      BY <1>6, <3>13
    <3>24. Sells(h, n, b)
      BY <1>2, <3>3, <3>7, <3>13, <3>16, <3>20, <3>21, <3>22, <3>23 DEF Sells
    <3>25. Kept(db, n)
      BY <3>9, <3>19, <3>20 DEF Kept
    <3> QED
      BY <3>2, <3>13, <3>24, <3>25 DEF Effect
  <2> QED
    BY <2>2, <2>3
<1> QED
  BY <1>5, <1>6

-----------------------------------------------------------------------------
(* Crowns earned in the round *)

EarnedBy(book, a) == {e \in book : e.account = a /\ e.kind = "EARN"}
DeltaOf == [e \in Entry |-> e.delta]

LEMMA EarnedAre ==
  ASSUME NEW d \in DB, IsFiniteSet(d.book), NEW a
  PROVE  /\ EarnedInRound(d, a) = Sum(DeltaOf, EarnedBy(d.book, a))
         /\ EarnedInRound(d, a) \in Int
         /\ IsFiniteSet(EarnedBy(d.book, a)) /\ Ints(DeltaOf, EarnedBy(d.book, a))
<1> PICK S : S = EarnedBy(d.book, a)
  OBVIOUS
<1> PICK f : f = DeltaOf
  OBVIOUS
<1> DEFINE AddsUp(g) == g = [s \in SUBSET S |-> IF s = {} THEN 0 ELSE First(s).delta + g[s \ {First(s)}]]
<1>1. EarnedInRound(d, a) = (CHOOSE g : AddsUp(g))[S]
  BY DEF EarnedInRound, EarnedBy, MapThenSumSet, MapThenFoldSet, First
<1>2. IsFiniteSet(S) /\ S \subseteq Entry
  BY FS_Subset, DBTyped DEF EarnedBy
<1>3. \A x \in S : f[x] = x.delta /\ f[x] \in Int
  BY <1>2, EntryTyped DEF DeltaOf
<1>4. \A g : AddsUp(g) <=> Adds(f, g, S)
  BY <1>3, FirstIn DEF Adds
<1> HIDE DEF AddsUp
<1>5. PICK total : total = CHOOSE g : AddsUp(g)
  OBVIOUS
<1>6. Adds(f, total, S)
  <2>1. \E g : AddsUp(g)
    BY <1>2, <1>4, AddsExists
  <2>2. AddsUp(total)
    BY <1>5, <2>1
  <2> QED
    BY <1>4, <2>2
<1>7. PICK g : Adds(f, g, S) /\ Sum(f, S) = g[S]
  BY <1>2, SumIs
<1>8. total[S] = g[S]
  BY <1>2, <1>6, <1>7, AddsUnique
<1>9. Ints(f, S)
  BY <1>3 DEF Ints
<1>10. Sum(f, S) \in Int
  BY <1>2, <1>9, SumInt
<1> QED
  BY <1>1, <1>2, <1>5, <1>7, <1>8, <1>9, <1>10

LEMMA EarnedSame ==
  ASSUME NEW d \in DB, IsFiniteSet(d.book), NEW n \in DB, IsFiniteSet(n.book), NEW a,
         EarnedBy(d.book, a) = EarnedBy(n.book, a)
  PROVE  EarnedInRound(n, a) = EarnedInRound(d, a)
  BY EarnedAre

LEMMA EarnedMore ==
  ASSUME NEW d \in DB, IsFiniteSet(d.book), NEW n \in DB, IsFiniteSet(n.book),
         NEW e \in Entry, e \notin d.book, n.book = d.book \cup {e}, e.kind = "EARN"
  PROVE  EarnedInRound(n, e.account) = EarnedInRound(d, e.account) + e.delta
<1> PICK a : a = e.account
  OBVIOUS
<1> PICK S : S = EarnedBy(d.book, a)
  OBVIOUS
<1>1. EarnedBy(n.book, a) = S \cup {e} /\ e \notin S
  BY DEF EarnedBy
<1>2. /\ EarnedInRound(d, a) = Sum(DeltaOf, S) /\ IsFiniteSet(S) /\ EarnedInRound(d, a) \in Int
      /\ EarnedInRound(n, a) = Sum(DeltaOf, S \cup {e}) /\ Ints(DeltaOf, S \cup {e})
  BY <1>1, EarnedAre
<1>3. Sum(DeltaOf, S \cup {e}) = DeltaOf[e] + Sum(DeltaOf, S)
  BY <1>1, <1>2, SumAdd
<1>4. DeltaOf[e] = e.delta /\ e.delta \in Int
  BY EntryTyped DEF DeltaOf
<1> QED
  BY <1>2, <1>3, <1>4

LEMMA ClippedTyped ==
  ASSUME NEW d \in DB, IsFiniteSet(d.book), NEW award \in Awards
  PROVE  /\ Clipped(d, award) \in Int
         /\ Award[award].capped => Clipped(d, award) <= RoundCap - EarnedInRound(d, Award[award].account)
<1> PICK x, y : x = Award[award].crowns /\ y = RoundCap - EarnedInRound(d, Award[award].account)
  OBVIOUS
<1>1. x \in Int /\ y \in Int
  BY CrownAssumption, EarnedAre
<1>2. \E z \in {x, y} : \A w \in {x, y} : z <= w
  <2>1. CASE x <= y
    BY <1>1, <2>1
  <2>2. CASE ~(x <= y)
    BY <1>1, <2>2
  <2> QED
    BY <2>1, <2>2
<1>3. PICK z : z = Min({x, y})
  OBVIOUS
<1>4. z \in {x, y} /\ z <= y
  BY <1>2, <1>3 DEF Min
<1>5. Clipped(d, award) = IF Award[award].capped THEN z ELSE x
  BY <1>3 DEF Clipped
<1> QED
  BY <1>1, <1>4, <1>5

-----------------------------------------------------------------------------
(* A commit keeps the invariant *)

\* What a committing transaction of h leaves to the others.
Committing(h, n) == Effect(h, n) /\ Ended(h, n) /\ Running(h) /\ aborts' \in 0..MaxAborts

LEMMA OthersKept ==
  ASSUME CrownInv, NEW h \in Handlers, NEW n, Committing(h, n), NEW g \in Handlers
  PROVE  /\ req'[g] = IF g = h THEN None ELSE req[g]
         /\ Running(g)' => g # h /\ req'[g] = req[g] /\ Running(g)
         /\ \A row \in Rows : lock'[row] = g => lock[row] = g /\ g # h
<1>1. req \in [Handlers -> Request \cup {None}] /\ None \notin Handlers
  BY NoneAssumption DEF CrownInv, Typed
<1>2. req'[g] = IF g = h THEN None ELSE req[g]
  BY <1>1 DEF Committing, Ended
<1>3. \A row \in Rows : lock'[row] = IF lock[row] = h THEN None ELSE lock[row]
  BY DEF Committing, Ended
<1> QED
  BY <1>1, <1>2, <1>3 DEF Running

LEMMA CommitTyped ==
  ASSUME CrownInv, NEW h \in Handlers, NEW n, Committing(h, n)
  PROVE  Typed' /\ Fitting' /\ AtWork' /\ n \in DB /\ IsFiniteSet(n.book)
<1>1. n \in DB /\ db' = n
  BY DEF Committing, Effect, Kept, Ended
<1>2. IsFiniteSet(db.book)
  BY DEF CrownInv, Typed
<1>3. IsFiniteSet(n.book)
  <2>1. n.book = db.book \/ \E e : n.book = db.book \cup {e}
    BY DEF Committing, Effect, Beside, Holds, SameWallets, Enters, Sells, Enter
  <2> QED
    BY <1>2, <2>1, FS_AddElement
<1>4. /\ stripe \in [Packs -> Sessions] /\ sent \subseteq Event
      /\ req \in [Handlers -> Request \cup {None}] /\ lock \in [Rows -> Handlers \cup {None}]
  BY DEF CrownInv, Typed
<1>5. /\ stripe' \in [Packs -> Sessions] /\ sent' \subseteq Event
      /\ req' \in [Handlers -> Request \cup {None}] /\ lock' \in [Rows -> Handlers \cup {None}]
  BY <1>4 DEF Committing, Ended
<1>6. Typed'
  BY <1>1, <1>3, <1>5 DEF Typed, Committing
<1>7. Fitting'
  BY OthersKept DEF Fitting, CrownInv
<1>8. AtWork'
  <2> SUFFICES ASSUME NEW row \in Rows, NEW g \in Handlers, lock'[row] = g PROVE Running(g)'
    BY DEF AtWork
  <2>1. lock[row] = g /\ g # h
    BY OthersKept
  <2>2. Running(g)
    BY <2>1 DEF CrownInv, AtWork
  <2> QED
    BY <2>1, <2>2, OthersKept DEF Running
<1> QED
  BY <1>1, <1>3, <1>6, <1>7, <1>8

LEMMA CommitFresh ==
  ASSUME CrownInv, NEW h \in Handlers, NEW n, Committing(h, n)
  PROVE  WalletFresh'
<1> SUFFICES ASSUME NEW g \in Handlers, Running(g)', HasWallet(g)'
             PROVE  (req[g].wallet = WalletOf(req[g].account))'
  BY DEF WalletFresh
<1>1. g # h /\ req'[g] = req[g] /\ Running(g)
  BY OthersKept
<1> PICK a : a = req[g].account
  OBVIOUS
<1>2. req[g] \in Request /\ a \in Accounts /\ req[h] \in Request /\ req[h].account \in Accounts
  BY <1>1, RequestTyped DEF CrownInv, Typed, Running, Committing
<1>3. <<"wallet", a>> \in Rows
  BY <1>2 DEF Rows
<1>4. HasWallet(g)
  BY <1>1, <1>3, OthersKept DEF HasWallet
<1>5. req[g].wallet = WalletOf(a)
  BY <1>1, <1>4 DEF CrownInv, WalletFresh
<1>6. HasWallet(h) => req[h].account # a
  BY <1>1, <1>4 DEF HasWallet
<1>7. db \in DB
  BY DEF CrownInv, Typed
<1>8. n.balance[a] = db.balance[a] /\ n.held[a] = db.held[a]
  <2>1. CASE Beside(db, n)
    BY <2>1 DEF Beside, SameWallets
  <2>2. CASE Holds(h, n)
    BY <1>2, <1>6, <1>7, <2>2, DBTyped DEF Holds, SameWallets
  <2>3. ASSUME NEW e \in Entry, Enters(h, n, e) PROVE n.balance[a] = db.balance[a] /\ n.held[a] = db.held[a]
    BY <1>2, <1>6, <1>7, <2>3, DBTyped DEF Enters, Enter
  <2>4. ASSUME NEW b \in Bought, Sells(h, n, b) PROVE n.balance[a] = db.balance[a] /\ n.held[a] = db.held[a]
    BY <1>2, <1>6, <1>7, <2>4, DBTyped DEF Sells, Enter, Spend
  <2> QED
    BY <2>1, <2>2, <2>3, <2>4 DEF Committing, Effect
<1>9. db' = n
  BY DEF Committing, Ended
<1> QED
  BY <1>1, <1>5, <1>8, <1>9 DEF WalletOf

LEMMA CommitCut ==
  ASSUME CrownInv, NEW h \in Handlers, NEW n, Committing(h, n)
  PROVE  CutFresh'
<1> SUFFICES ASSUME NEW g \in Handlers, Running(g)', req'[g].op = "earn", req'[g].crowns # None
             PROVE  HasPlayer(g)' /\ req'[g].crowns = Clipped(db', req'[g].award)
  BY DEF CutFresh
<1>1. g # h /\ req'[g] = req[g] /\ Running(g)
  BY OthersKept
<1> PICK a : a = req[g].account
  OBVIOUS
<1>2. HasPlayer(g) /\ req[g].crowns = Clipped(db, req[g].award)
  BY <1>1 DEF CrownInv, CutFresh
<1>3. req[g] \in Request /\ a \in Accounts /\ Fits(req[g])
  BY <1>1, RequestTyped DEF CrownInv, Typed, Running, Fitting
<1>4. req[g].award \in Awards /\ a = Award[req[g].award].account
  BY <1>1, <1>3 DEF Fits
<1>5. <<"player", a>> \in Rows
  BY <1>3 DEF Rows
<1>6. HasPlayer(g)'
  BY <1>1, <1>2, <1>5 DEF HasPlayer, Committing, Ended
<1>7. db \in DB /\ IsFiniteSet(db.book) /\ n \in DB /\ IsFiniteSet(n.book) /\ db' = n
  BY CommitTyped DEF CrownInv, Typed, Committing, Ended
<1>8. EarnedBy(n.book, a) = EarnedBy(db.book, a)
  <2>1. CASE Beside(db, n) \/ Holds(h, n)
    BY <2>1 DEF Beside, Holds, SameWallets
  <2>2. ASSUME NEW e \in Entry, Enters(h, n, e) PROVE EarnedBy(n.book, a) = EarnedBy(db.book, a)
    <3>1. CASE e.kind = "EARN"
      <4>1. req[h].op = "earn" /\ req[h].crowns # None /\ e.account = req[h].account
        BY <2>2, <3>1 DEF Enters
      <4>2. HasPlayer(h)
        BY <4>1 DEF CrownInv, CutFresh, Committing
      <4>3. e.account # a
        BY <1>1, <1>2, <4>1, <4>2 DEF HasPlayer
      <4> QED
        BY <2>2, <4>3 DEF Enters, Enter, EarnedBy
    <3>2. CASE e.kind # "EARN"
      BY <2>2, <3>2 DEF Enters, Enter, EarnedBy
    <3> QED
      BY <3>1, <3>2
  <2>3. ASSUME NEW b \in Bought, Sells(h, n, b) PROVE EarnedBy(n.book, a) = EarnedBy(db.book, a)
    BY <2>3 DEF Sells, Enter, EarnedBy, Spend
  <2> QED
    BY <2>1, <2>2, <2>3 DEF Committing, Effect
<1>9. EarnedInRound(n, a) = EarnedInRound(db, a)
  BY <1>7, <1>8, EarnedSame
<1>10. Clipped(n, req[g].award) = Clipped(db, req[g].award)
  BY <1>4, <1>9 DEF Clipped
<1> QED
  BY <1>1, <1>2, <1>6, <1>7, <1>10

LEMMA CommitPaidMade ==
  ASSUME CrownInv, NEW h \in Handlers, NEW n, Committing(h, n)
  PROVE  Paid' /\ Made'
<1>1. stripe' = stripe /\ sent' = sent /\ db' = n
  BY DEF Committing, Ended
<1>2. \A o \in Packs : Grant(o) \in n.book => stripe[o] = "paid"
  <2> SUFFICES ASSUME NEW o \in Packs, Grant(o) \in n.book PROVE stripe[o] = "paid"
    OBVIOUS
  <2>1. CASE Grant(o) \in db.book
    BY <2>1 DEF CrownInv, Paid, GrantedOnlyWhenPaid
  <2>2. CASE Grant(o) \notin db.book
    <3>1. ~Beside(db, n) /\ ~Holds(h, n)
      BY <2>2 DEF Beside, Holds, SameWallets
    <3>2. ASSUME NEW e \in Entry, Enters(h, n, e) PROVE stripe[o] = "paid"
      BY <2>2, <3>2 DEF Enters, Enter
    <3>3. ASSUME NEW b \in Bought, Sells(h, n, b) PROVE FALSE
      BY <2>2, <3>3 DEF Sells, Enter, Spend, Grant
    <3> QED
      BY <3>1, <3>2, <3>3 DEF Committing, Effect
  <2> QED
    BY <2>1, <2>2
<1>3. Paid'
  <2>1. \A o \in Packs : \A type \in EventTypes : <<type, o>> \in sent /\ IsPaid(type) => stripe[o] = "paid"
    BY DEF CrownInv, Paid
  <2>2. ASSUME NEW g \in Handlers, req'[g] # None, OnPack(req'[g]), IsPaid(req'[g].type)
        PROVE  stripe[req'[g].pack] = "paid"
    <3>1. req'[g] = req[g]
      BY <2>2, OthersKept
    <3> QED
      BY <2>2, <3>1 DEF CrownInv, Paid
  <2> QED
    BY <1>1, <1>2, <2>1, <2>2 DEF Paid, GrantedOnlyWhenPaid
<1>4. \A o \in Packs : db.packs[o] \in Order => n.packs[o] \in Order
  BY DEF Committing, Effect, Kept
<1>5. Made'
  <2>1. \A o \in Packs : stripe'[o] # "none" => n.packs[o] \in Order
    BY <1>1, <1>4 DEF CrownInv, Made
  <2>2. ASSUME NEW e \in sent PROVE n.packs[e[2]] \in Order
    <3>1. e[2] \in Packs
      BY DEF CrownInv, Typed, Event
    <3> QED
      BY <1>4, <3>1 DEF CrownInv, Made
  <2>3. ASSUME NEW g \in Handlers, req'[g] # None, OnPack(req'[g]) PROVE n.packs[req'[g].pack] \in Order
    <3>1. req'[g] = req[g]
      BY <2>3, OthersKept
    <3>2. req[g].pack \in Packs
      BY <2>3, <3>1 DEF CrownInv, Fitting, Fits
    <3> QED
      BY <1>4, <2>3, <3>1, <3>2 DEF CrownInv, Made
  <2> QED
    BY <1>1, <2>1, <2>2, <2>3 DEF Made
<1> QED
  BY <1>3, <1>5

ChargedIn(d) ==
  /\ \A b, c \in d.bought : b.account = c.account /\ b.action = c.action => b = c
  /\ \A b \in d.bought : Spend(b.account, b.action, b.price) \in d.book
  /\ \A e \in d.book : \A a \in Accounts, action \in ActionIds :
       e.ref = <<"order", a, action>>
       => \E b \in d.bought : b.account = a /\ b.action = action /\ e = Spend(a, action, b.price)

GrantedIn(d) ==
  /\ \A b \in d.bought : b.grants \subseteq d.owned[b.account]
  /\ \A b, c \in d.bought : b.account = c.account /\ b # c => b.grants \cap c.grants = {}
  /\ \A a \in Accounts : \A k \in d.owned[a] : \E b \in d.bought : b.account = a /\ k \in b.grants

LEMMA ChargedIs == (Charged <=> ChargedIn(db)) /\ (Granted <=> GrantedIn(db))
  BY DEF Charged, ChargedIn, Granted, GrantedIn

LEMMA EffectCharged ==
  ASSUME NEW h, NEW n, Effect(h, n), db \in DB, ChargedIn(db)
  PROVE  ChargedIn(n)
<1>1. CASE Beside(db, n)
  BY <1>1 DEF Beside, SameWallets, SameGoods, ChargedIn
<1>2. CASE Holds(h, n)
  BY <1>2 DEF Holds, SameWallets, SameGoods, ChargedIn
<1>3. ASSUME NEW e \in Entry, Enters(h, n, e) PROVE ChargedIn(n)
  <2>1. n.book = db.book \cup {e} /\ n.bought = db.bought /\ \A a, action : e.ref # <<"order", a, action>>
    BY <1>3 DEF Enters, Enter, Plain, SameGoods
  <2> QED
    BY <2>1 DEF ChargedIn
<1>4. ASSUME NEW b \in Bought, Sells(h, n, b) PROVE ChargedIn(n)
  <2>1. PICK e : e = Spend(b.account, b.action, b.price)
    OBVIOUS
  <2>2. n.book = db.book \cup {e} /\ n.bought = db.bought \cup {b} /\ ~Ordered(db, b.account, b.action)
    BY <1>4, <2>1 DEF Sells, Enter
  <2>3. \A c \in db.bought : ~(c.account = b.account /\ c.action = b.action)
    BY <2>2 DEF Ordered
  <2>4. \A c, d \in n.bought : c.account = d.account /\ c.action = d.action => c = d
    BY <2>2, <2>3 DEF ChargedIn
  <2>5. \A c \in n.bought : Spend(c.account, c.action, c.price) \in n.book
    BY <2>1, <2>2 DEF ChargedIn
  <2>6. ASSUME NEW x \in n.book, NEW a \in Accounts, NEW action \in ActionIds, x.ref = <<"order", a, action>>
        PROVE  \E c \in n.bought : c.account = a /\ c.action = action /\ x = Spend(a, action, c.price)
    <3>1. CASE x \in db.book
      BY <2>2, <2>6, <3>1 DEF ChargedIn
    <3>2. CASE x = e
      <4>1. b.account = a /\ b.action = action
        BY <2>1, <2>6, <3>2 DEF Spend
      <4> QED
        BY <2>1, <2>2, <3>2, <4>1
    <3> QED
      BY <2>2, <3>1, <3>2
  <2> QED
    BY <2>4, <2>5, <2>6 DEF ChargedIn
<1> QED
  BY <1>1, <1>2, <1>3, <1>4 DEF Effect

LEMMA EffectGranted ==
  ASSUME NEW h, NEW n, Effect(h, n), db \in DB, GrantedIn(db)
  PROVE  GrantedIn(n)
<1>1. CASE SameGoods(db, n)
  BY <1>1 DEF SameGoods, GrantedIn
<1>2. ASSUME NEW b \in Bought, Sells(h, n, b) PROVE GrantedIn(n)
  <2>1. PICK a \in Accounts : a = b.account
    BY DEF Bought
  <2>2. /\ n.bought = db.bought \cup {b} /\ n.owned = [db.owned EXCEPT ![a] = @ \cup b.grants]
        /\ b.grants \cap db.owned[a] = {}
    BY <1>2, <2>1 DEF Sells
  <2>3. /\ n.owned[a] = db.owned[a] \cup b.grants
        /\ \A x \in Accounts : x # a => n.owned[x] = db.owned[x]
    BY <2>2, DBTyped
  <2>4. \A c \in db.bought : c.account \in Accounts /\ c.grants \subseteq db.owned[c.account]
    BY DBTyped DEF GrantedIn, Bought
  <2>5. \A c \in n.bought : c.grants \subseteq n.owned[c.account]
    BY <2>1, <2>2, <2>3, <2>4
  <2>6. \A c \in db.bought : c.account = a => c.grants \cap b.grants = {}
    BY <2>2, <2>4
  <2>7. \A c, d \in n.bought : c.account = d.account /\ c # d => c.grants \cap d.grants = {}
    <3> SUFFICES ASSUME NEW c \in n.bought, NEW d \in n.bought, c.account = d.account, c # d
                 PROVE  c.grants \cap d.grants = {}
      OBVIOUS
    <3>1. CASE c = b
      BY <2>1, <2>2, <2>6, <3>1
    <3>2. CASE d = b
      BY <2>1, <2>2, <2>6, <3>2
    <3>3. CASE c # b /\ d # b
      BY <2>2, <3>3 DEF GrantedIn
    <3> QED
      BY <3>1, <3>2, <3>3
  <2>8. ASSUME NEW x \in Accounts, NEW k \in n.owned[x]
        PROVE  \E c \in n.bought : c.account = x /\ k \in c.grants
    <3>1. CASE k \in db.owned[x]
      BY <2>2, <3>1 DEF GrantedIn
    <3>2. CASE k \notin db.owned[x]
      BY <2>1, <2>2, <2>3, <3>2
    <3> QED
      BY <3>1, <3>2
  <2> QED
    BY <2>5, <2>7, <2>8 DEF GrantedIn
<1> QED
  BY <1>1, <1>2 DEF Effect, Beside, Holds, Enters

LEMMA CommitCharged ==
  ASSUME CrownInv, NEW h \in Handlers, NEW n, Committing(h, n)
  PROVE  Charged' /\ Granted'
<1>1. db \in DB /\ ChargedIn(db) /\ GrantedIn(db)
  BY ChargedIs DEF CrownInv, Typed
<1>2. Effect(h, n) /\ db' = n
  BY DEF Committing, Ended
<1>3. ChargedIn(n) /\ GrantedIn(n)
  BY <1>1, <1>2, EffectCharged, EffectGranted
<1> QED
  BY <1>2, <1>3 DEF Charged, ChargedIn, Granted, GrantedIn

LEMMA CommitKeeps ==
  ASSUME CrownInv, NEW h \in Handlers, NEW n, Committing(h, n)
  PROVE  CrownInv'
  BY CommitTyped, CommitFresh, CommitCut, CommitPaidMade, CommitCharged DEF CrownInv

-----------------------------------------------------------------------------
(* The other steps keep it too *)

LEMMA StartKeeps ==
  ASSUME CrownInv, NEW h \in Handlers, Idle(h), NEW r \in Request, Fits(r), r.crowns = None,
         OnPack(r) => db.packs[r.pack] \in Order /\ (IsPaid(r.type) => stripe[r.pack] = "paid"),
         Starts(h, r)
  PROVE  CrownInv'
<1>1. /\ db' = db /\ stripe' = stripe /\ sent' = sent /\ lock' = lock /\ aborts' = aborts
      /\ req' = [req EXCEPT ![h] = r]
  BY DEF Starts
<1>2. req \in [Handlers -> Request \cup {None}]
  BY DEF CrownInv, Typed
<1>3. \A g \in Handlers : req'[g] = IF g = h THEN r ELSE req[g]
  BY <1>1, <1>2
<1>4. \A g \in Handlers : g # h /\ Running(g)' => Running(g)
  BY <1>3 DEF Running
<1>5. \A row \in Rows : lock[row] # h
  BY DEF CrownInv, AtWork, Running, Idle
<1>6. Typed' /\ Fitting' /\ Charged' /\ Granted'
  <2>1. req' \in [Handlers -> Request \cup {None}]
    BY <1>1, <1>2
  <2> QED
    BY <1>1, <1>3, <2>1 DEF CrownInv, Typed, Fitting, Charged, Granted
<1>7. AtWork'
  BY <1>1, <1>3, <1>5 DEF CrownInv, AtWork, Running
<1>8. WalletFresh'
  <2> SUFFICES ASSUME NEW g \in Handlers, Running(g)', HasWallet(g)'
               PROVE  (req[g].wallet = WalletOf(req[g].account))'
    BY DEF WalletFresh
  <2>1. g # h
    <3>1. r.account \in Accounts
      BY RequestTyped
    <3>2. <<"wallet", r.account>> \in Rows
      BY <3>1 DEF Rows
    <3> QED
      BY <1>1, <1>3, <1>5, <3>2 DEF HasWallet
  <2>2. Running(g) /\ HasWallet(g) /\ req'[g] = req[g]
    BY <1>1, <1>3, <1>4, <2>1 DEF HasWallet
  <2> QED
    BY <1>1, <2>2 DEF CrownInv, WalletFresh, WalletOf
<1>9. CutFresh'
  <2> SUFFICES ASSUME NEW g \in Handlers, Running(g)', req'[g].op = "earn", req'[g].crowns # None
               PROVE  HasPlayer(g)' /\ req'[g].crowns = Clipped(db', req'[g].award)
    BY DEF CutFresh
  <2>1. g # h /\ Running(g) /\ req'[g] = req[g]
    BY <1>3, <1>4
  <2> QED
    BY <1>1, <2>1 DEF CrownInv, CutFresh, HasPlayer
<1>10. Paid'
  BY <1>1, <1>3 DEF CrownInv, Paid, GrantedOnlyWhenPaid
<1>11. Made'
  BY <1>1, <1>3 DEF CrownInv, Made
<1> QED
  BY <1>6, <1>7, <1>8, <1>9, <1>10, <1>11 DEF CrownInv

LEMMA AsksKeeps ==
  ASSUME CrownInv, NEW h \in Handlers, Asks(h)
  PROVE  CrownInv'
<1>1. /\ db \in DB /\ sent \subseteq Event /\ stripe \in [Packs -> Sessions]
      /\ Owner \in [Packs -> Accounts]
      /\ Award \in [Awards -> [account: Accounts, crowns: Nat \ {0}, capped: BOOLEAN]]
      /\ Adjustment \in [Adjustments -> [account: Accounts, delta: Int \ {0}, large: BOOLEAN]]
  BY CrownAssumption DEF CrownInv, Typed
<1>2. ASSUME NEW e \in sent, Deliver(h, e) PROVE CrownInv'
  <2>1. PICK r : r = [Blank("event", Owner[e[2]]) EXCEPT !.type = e[1], !.pack = e[2], !.order = db.packs[e[2]]]
    OBVIOUS
  <2>2. e[1] \in EventTypes /\ e[2] \in Packs /\ e = <<e[1], e[2]>> /\ Owner[e[2]] \in Accounts
    BY <1>1 DEF Event
  <2>3. db.packs[e[2]] \in Order
    BY DEF CrownInv, Made
  <2>4. r \in Request
    BY <2>1, <2>2, <2>3 DEF Blank, Request
  <2>5. /\ r.op = "event" /\ r.pack = e[2] /\ r.type = e[1] /\ r.order = db.packs[e[2]]
        /\ r.account = Owner[e[2]] /\ r.crowns = None
    BY <2>1 DEF Blank
  <2>6. Fits(r)
    BY <2>2, <2>3, <2>5 DEF Fits, OnPack
  <2>7. IsPaid(r.type) => stripe[r.pack] = "paid"
    BY <2>2, <2>5 DEF CrownInv, Paid
  <2>8. Idle(h) /\ Starts(h, r)
    BY <1>2, <2>1 DEF Deliver
  <2> QED
    BY <2>3, <2>4, <2>5, <2>6, <2>7, <2>8, StartKeeps
<1>3. ASSUME NEW o \in Packs, Reconcile(h, o) PROVE CrownInv'
  <2>1. PICK type : type = IF stripe[o] = "paid" THEN "paid" ELSE "unpaid"
    OBVIOUS
  <2>2. PICK r : r = [Blank("ask", Owner[o]) EXCEPT !.pack = o, !.type = type]
    OBVIOUS
  <2>3. type \in EventTypes /\ IsSession(type) /\ (IsPaid(type) => stripe[o] = "paid") /\ Owner[o] \in Accounts
    BY <1>1, <2>1 DEF EventTypes, IsSession, IsPaid
  <2>4. db.packs[o] \in Order
    BY <1>1, <1>3, DBTyped DEF Reconcile
  <2>5. r \in Request
    BY <2>2, <2>3 DEF Blank, Request
  <2>6. r.op = "ask" /\ r.pack = o /\ r.type = type /\ r.account = Owner[o] /\ r.crowns = None
    BY <2>2 DEF Blank
  <2>7. Fits(r)
    BY <2>3, <2>6 DEF Fits, OnPack
  <2>8. Idle(h) /\ Starts(h, r)
    BY <1>3, <2>1, <2>2 DEF Reconcile
  <2> QED
    BY <2>3, <2>4, <2>5, <2>6, <2>7, <2>8, StartKeeps
<1>4. ASSUME NEW a \in Accounts, NEW action \in ActionIds, NEW offer \in Offers, Buy(h, a, action, offer)
      PROVE  CrownInv'
  <2>1. PICK r : r = [Blank("buy", a) EXCEPT !.action = action, !.offer = offer]
    OBVIOUS
  <2>2. r \in Request
    BY <2>1 DEF Blank, Request
  <2>3. r.op = "buy" /\ r.action = action /\ r.offer = offer /\ r.crowns = None
    BY <2>1 DEF Blank
  <2>4. Fits(r) /\ ~OnPack(r)
    BY <2>3 DEF Fits, OnPack
  <2>5. Idle(h) /\ Starts(h, r)
    BY <1>4, <2>1 DEF Buy
  <2> QED
    BY <2>2, <2>3, <2>4, <2>5, StartKeeps
<1>5. ASSUME NEW award \in Awards, Earn(h, award) PROVE CrownInv'
  <2>1. PICK r : r = [Blank("earn", Award[award].account) EXCEPT !.award = award]
    OBVIOUS
  <2>2. r \in Request
    BY <1>1, <2>1 DEF Blank, Request
  <2>3. r.op = "earn" /\ r.award = award /\ r.account = Award[award].account /\ r.crowns = None
    BY <2>1 DEF Blank
  <2>4. Fits(r) /\ ~OnPack(r)
    BY <2>3 DEF Fits, OnPack
  <2>5. Idle(h) /\ Starts(h, r)
    BY <1>5, <2>1 DEF Earn
  <2> QED
    BY <2>2, <2>3, <2>4, <2>5, StartKeeps
<1>6. ASSUME NEW d \in Adjustments, Adjust(h, d) PROVE CrownInv'
  <2>1. PICK r : r = [Blank("adjust", Adjustment[d].account) EXCEPT !.adjust = d]
    OBVIOUS
  <2>2. r \in Request
    BY <1>1, <2>1 DEF Blank, Request
  <2>3. r.op = "adjust" /\ r.adjust = d /\ r.account = Adjustment[d].account /\ r.crowns = None
    BY <2>1 DEF Blank
  <2>4. Fits(r) /\ ~OnPack(r)
    BY <2>3 DEF Fits, OnPack
  <2>5. Idle(h) /\ Starts(h, r)
    BY <1>6, <2>1 DEF Adjust
  <2> QED
    BY <2>2, <2>3, <2>4, <2>5, StartKeeps
<1>7. ASSUME NEW d \in Adjustments, NEW yes \in BOOLEAN, Decide(h, d, yes) PROVE CrownInv'
  <2>1. PICK r : r = [Blank("adjust", Adjustment[d].account) EXCEPT !.adjust = d, !.yes = yes]
    OBVIOUS
  <2>2. r \in Request
    BY <1>1, <2>1 DEF Blank, Request
  <2>3. r.op = "adjust" /\ r.adjust = d /\ r.account = Adjustment[d].account /\ r.crowns = None
    BY <2>1 DEF Blank
  <2>4. Fits(r) /\ ~OnPack(r)
    BY <2>3 DEF Fits, OnPack
  <2>5. Idle(h) /\ Starts(h, r)
    BY <1>7, <2>1 DEF Decide
  <2> QED
    BY <2>2, <2>3, <2>4, <2>5, StartKeeps
<1>8. ASSUME NEW a \in Accounts, Release(h, a) PROVE CrownInv'
  <2>1. PICK r : r = Blank("release", a)
    OBVIOUS
  <2>2. r \in Request
    BY <2>1 DEF Blank, Request
  <2>3. r.op = "release" /\ r.crowns = None
    BY <2>1 DEF Blank
  <2>4. Fits(r) /\ ~OnPack(r)
    BY <2>3 DEF Fits, OnPack
  <2>5. Idle(h) /\ Starts(h, r)
    BY <1>8, <2>1 DEF Release
  <2> QED
    BY <2>2, <2>3, <2>4, <2>5, StartKeeps
<1> QED
  BY <1>2, <1>3, <1>4, <1>5, <1>6, <1>7, <1>8 DEF Asks

LEMMA RereadKeeps ==
  ASSUME CrownInv, NEW h \in Handlers, Reread(h)
  PROVE  CrownInv'
<1>1. /\ db' = db /\ stripe' = stripe /\ sent' = sent /\ lock' = lock /\ aborts' = aborts
      /\ req[h] # None /\ req[h].op = "ask"
  BY DEF Reread
<1>2. PICK q : q = req[h]
  OBVIOUS
<1>3. /\ q \in Request /\ Fits(q) /\ OnPack(q) /\ db.packs[q.pack] \in Order
      /\ IsPaid(q.type) => stripe[q.pack] = "paid"
  BY <1>1, <1>2 DEF CrownInv, Typed, Fitting, OnPack, Made, Paid
<1>4. PICK r : r = [q EXCEPT !.op = "reconcile", !.order = db.packs[q.pack]]
  OBVIOUS
<1>5. req' = [req EXCEPT ![h] = r] /\ req \in [Handlers -> Request \cup {None}]
  BY <1>2, <1>4 DEF Reread, CrownInv, Typed
<1>6. /\ r \in Request /\ r.op = "reconcile" /\ r.pack = q.pack /\ r.type = q.type /\ r.account = q.account
      /\ r.order = db.packs[q.pack]
  BY <1>3, <1>4 DEF Request
<1>7. Fits(r) /\ OnPack(r) /\ r.op # "earn"
  BY <1>1, <1>2, <1>3, <1>6 DEF Fits, OnPack
<1>8. \A g \in Handlers : req'[g] = IF g = h THEN r ELSE req[g]
  BY <1>5
<1>9. \A row \in Rows : lock[row] # h
  BY <1>1 DEF CrownInv, AtWork, Running
<1>10. Typed' /\ Fitting' /\ Charged' /\ Granted'
  <2>1. req' \in [Handlers -> Request \cup {None}]
    BY <1>5, <1>6
  <2> QED
    BY <1>1, <1>7, <1>8, <2>1 DEF CrownInv, Typed, Fitting, Charged, Granted
<1>11. AtWork'
  BY <1>1, <1>8, <1>9 DEF CrownInv, AtWork, Running
<1>12. WalletFresh'
  <2> SUFFICES ASSUME NEW g \in Handlers, Running(g)', HasWallet(g)'
               PROVE  (req[g].wallet = WalletOf(req[g].account))'
    BY DEF WalletFresh
  <2>1. g # h
    <3>1. <<"wallet", r.account>> \in Rows
      BY <1>6, RequestTyped DEF Rows
    <3> QED
      BY <1>1, <1>8, <1>9, <3>1 DEF HasWallet
  <2>2. Running(g) /\ HasWallet(g) /\ req'[g] = req[g]
    BY <1>1, <1>8, <2>1 DEF HasWallet, Running
  <2> QED
    BY <1>1, <2>2 DEF CrownInv, WalletFresh, WalletOf
<1>13. CutFresh'
  <2> SUFFICES ASSUME NEW g \in Handlers, Running(g)', req'[g].op = "earn", req'[g].crowns # None
               PROVE  HasPlayer(g)' /\ req'[g].crowns = Clipped(db', req'[g].award)
    BY DEF CutFresh
  <2>1. g # h /\ Running(g) /\ req'[g] = req[g]
    BY <1>7, <1>8 DEF Running
  <2> QED
    BY <1>1, <2>1 DEF CrownInv, CutFresh, HasPlayer
<1>14. Paid'
  BY <1>1, <1>3, <1>6, <1>8 DEF CrownInv, Paid, GrantedOnlyWhenPaid
<1>15. Made'
  BY <1>1, <1>3, <1>6, <1>8 DEF CrownInv, Made
<1> QED
  BY <1>10, <1>11, <1>12, <1>13, <1>14, <1>15 DEF CrownInv

LEMMA WalletTyped ==
  ASSUME db \in DB, NEW a \in Accounts
  PROVE  WalletOf(a) \in Wallet
  BY DBTyped DEF WalletOf, Wallet

LEMMA LockKeeps ==
  ASSUME CrownInv, NEW h \in Handlers, Lock(h)
  PROVE  CrownInv'
<1>1. /\ db' = db /\ stripe' = stripe /\ sent' = sent /\ aborts' = aborts /\ Running(h)
  BY DEF Lock
<1>2. PICK row \in Awaited(h) :
        /\ lock[row] = None /\ lock' = [lock EXCEPT ![row] = h]
        /\ req' = IF row[1] = "wallet" THEN [req EXCEPT ![h].wallet = WalletOf(row[2])] ELSE req
  BY DEF Lock
<1>3. PICK q : q = req[h]
  OBVIOUS
<1>4. /\ q \in Request /\ Fits(q) /\ q.account \in Accounts /\ db \in DB
      /\ req \in [Handlers -> Request \cup {None}] /\ lock \in [Rows -> Handlers \cup {None}]
      /\ None \notin Handlers
  BY <1>1, <1>3, NoneAssumption, RequestTyped DEF CrownInv, Typed, Fitting, Running
<1>5. row \in Rows /\ (row[1] = "wallet" => row = <<"wallet", q.account>>)
  BY <1>1, <1>3, <1>4, AwaitedOwn
<1>6. PICK w : w = WalletOf(q.account)
  OBVIOUS
<1>7. w \in Wallet
  BY <1>4, <1>6, WalletTyped
<1>8. PICK r : r = IF row[1] = "wallet" THEN [q EXCEPT !.wallet = w] ELSE q
  OBVIOUS
<1>9. /\ r \in Request /\ r.op = q.op /\ r.account = q.account /\ r.pack = q.pack /\ r.type = q.type
      /\ r.action = q.action /\ r.offer = q.offer /\ r.award = q.award
      /\ r.adjust = q.adjust /\ r.order = q.order /\ r.crowns = q.crowns
      /\ row[1] = "wallet" => r.wallet = w
      /\ row[1] # "wallet" => r = q
  BY <1>4, <1>7, <1>8 DEF Request
<1>10. row[1] = "wallet" => row[2] = q.account
  BY <1>5
<1>11. req' = [req EXCEPT ![h] = r]
  BY <1>2, <1>3, <1>4, <1>6, <1>8, <1>10
<1>12. \A g \in Handlers : req'[g] = IF g = h THEN r ELSE req[g]
  BY <1>4, <1>11
<1>13. \A x \in Rows : lock'[x] = IF x = row THEN h ELSE lock[x]
  BY <1>2, <1>4, <1>5
<1>14. Fits(r) /\ (OnPack(r) <=> OnPack(q))
  BY <1>4, <1>9 DEF Fits, OnPack
<1>15. Typed' /\ Fitting' /\ Charged' /\ Granted'
  <2>1. req' \in [Handlers -> Request \cup {None}] /\ lock' \in [Rows -> Handlers \cup {None}]
    BY <1>2, <1>4, <1>9, <1>11
  <2> QED
    BY <1>1, <1>12, <1>14, <2>1 DEF CrownInv, Typed, Fitting, Charged, Granted
<1>16. \A g \in Handlers : g # h => (Running(g)' <=> Running(g)) /\ req'[g] = req[g]
  BY <1>12 DEF Running
<1>17. Running(h)'
  BY <1>1, <1>3, <1>9, <1>12, NoneAssumption DEF Running
<1>18. WalletFresh'
  <2> SUFFICES ASSUME NEW g \in Handlers, Running(g)', HasWallet(g)'
               PROVE  (req[g].wallet = WalletOf(req[g].account))'
    BY DEF WalletFresh
  <2>1. CASE g = h
    <3>1. <<"wallet", q.account>> \in Rows
      BY <1>4 DEF Rows
    <3>2. CASE row[1] = "wallet"
      BY <1>1, <1>6, <1>9, <1>12, <2>1, <3>2 DEF WalletOf
    <3>3. CASE row[1] # "wallet"
      <4>1. HasWallet(h)
        BY <1>3, <1>9, <1>12, <1>13, <2>1, <3>1, <3>3 DEF HasWallet
      <4>2. q.wallet = WalletOf(q.account)
        BY <1>1, <1>3, <4>1 DEF CrownInv, WalletFresh
      <4> QED
        BY <1>1, <1>9, <1>12, <2>1, <3>3, <4>2 DEF WalletOf
    <3> QED
      BY <3>2, <3>3
  <2>2. CASE g # h
    <3>1. Running(g) /\ req'[g] = req[g]
      BY <1>16, <2>2
    <3>2. req[g] \in Request
      BY <1>4, <3>1 DEF Running
    <3>3. <<"wallet", req[g].account>> \in Rows
      BY <3>2, RequestTyped DEF Rows
    <3>4. HasWallet(g)
      BY <1>13, <2>2, <3>1, <3>3 DEF HasWallet
    <3> QED
      BY <1>1, <3>1, <3>4 DEF CrownInv, WalletFresh, WalletOf
  <2> QED
    BY <2>1, <2>2
<1>19. CutFresh'
  <2> SUFFICES ASSUME NEW g \in Handlers, Running(g)', req'[g].op = "earn", req'[g].crowns # None
               PROVE  HasPlayer(g)' /\ req'[g].crowns = Clipped(db', req'[g].award)
    BY DEF CutFresh
  <2>1. /\ Running(g) /\ req[g].op = "earn" /\ req[g].crowns = req'[g].crowns
        /\ req'[g].award = req[g].award /\ req'[g].account = req[g].account
    BY <1>1, <1>3, <1>9, <1>12, <1>16
  <2>2. HasPlayer(g) /\ req[g].crowns = Clipped(db, req[g].award)
    BY <2>1 DEF CrownInv, CutFresh
  <2>3. req[g] \in Request
    BY <1>4, <2>1 DEF Running
  <2>4. <<"player", req[g].account>> \in Rows
    BY <2>3, RequestTyped DEF Rows
  <2>5. HasPlayer(g)'
    BY <1>2, <1>4, <1>13, <2>1, <2>2, <2>4 DEF HasPlayer
  <2> QED
    BY <1>1, <2>1, <2>2, <2>5
<1>20. Paid'
  BY <1>1, <1>3, <1>9, <1>12, <1>14 DEF CrownInv, Paid, GrantedOnlyWhenPaid, Running
<1>21. Made'
  BY <1>1, <1>3, <1>9, <1>12, <1>14 DEF CrownInv, Made, Running
<1>22. AtWork'
  <2> SUFFICES ASSUME NEW x \in Rows, lock'[x] \in Handlers PROVE Running(lock[x])'
    BY DEF AtWork
  <2>1. CASE lock'[x] # h
    BY <1>13, <1>16, <2>1 DEF CrownInv, AtWork, Running
  <2>2. CASE lock'[x] = h
    BY <1>17, <2>2 DEF Running
  <2> QED
    BY <2>1, <2>2
<1> QED
  BY <1>15, <1>18, <1>19, <1>20, <1>21, <1>22 DEF CrownInv

LEMMA ClipKeeps ==
  ASSUME CrownInv, NEW h \in Handlers, Clip(h)
  PROVE  CrownInv'
<1>1. /\ db' = db /\ stripe' = stripe /\ sent' = sent /\ aborts' = aborts /\ lock' = lock
      /\ Ready(h, "earn") /\ req[h].crowns = None
  BY DEF Clip
<1>2. PICK q : q = req[h]
  OBVIOUS
<1>3. /\ q \in Request /\ Fits(q) /\ q.op = "earn" /\ q.account \in Accounts /\ db \in DB
      /\ IsFiniteSet(db.book) /\ HasAll(h) /\ Running(h)
      /\ req \in [Handlers -> Request \cup {None}] /\ lock \in [Rows -> Handlers \cup {None}]
  BY <1>1, <1>2, ReadyFacts DEF CrownInv, Typed
<1>4. HasPlayer(h)
  BY <1>2, <1>3, PlayerHeld
<1>5. PICK c : c = Clipped(db, q.award)
  OBVIOUS
<1>6. c \in Int
  BY <1>3, <1>5, ClippedTyped DEF Fits
<1>7. PICK r : r = [q EXCEPT !.crowns = c]
  OBVIOUS
<1>8. /\ r \in Request /\ r.op = q.op /\ r.account = q.account /\ r.pack = q.pack /\ r.type = q.type
      /\ r.action = q.action /\ r.offer = q.offer /\ r.award = q.award
      /\ r.adjust = q.adjust /\ r.order = q.order /\ r.wallet = q.wallet /\ r.crowns = c
  BY <1>3, <1>6, <1>7 DEF Request
<1>9. req' = [req EXCEPT ![h] = r]
  BY <1>2, <1>5, <1>7 DEF Clip
<1>10. \A g \in Handlers : req'[g] = IF g = h THEN r ELSE req[g]
  BY <1>3, <1>9
<1>11. Fits(r) /\ ~OnPack(r) /\ ~OnPack(q)
  BY <1>3, <1>8 DEF Fits, OnPack
<1>12. Typed' /\ Fitting' /\ Charged' /\ Granted'
  <2>1. req' \in [Handlers -> Request \cup {None}]
    BY <1>3, <1>8, <1>9
  <2> QED
    BY <1>1, <1>10, <1>11, <2>1 DEF CrownInv, Typed, Fitting, Charged, Granted
<1>13. \A g \in Handlers : Running(g)' <=> Running(g)
  BY <1>2, <1>3, <1>8, <1>10, NoneAssumption DEF Running
<1>14. \A g \in Handlers : /\ Running(g) => req'[g].wallet = req[g].wallet /\ req'[g].account = req[g].account
                           /\ g # h => req'[g] = req[g]
  BY <1>2, <1>8, <1>10
<1>15. WalletFresh'
  BY <1>1, <1>13, <1>14 DEF CrownInv, WalletFresh, HasWallet, WalletOf
<1>16. CutFresh'
  <2> SUFFICES ASSUME NEW g \in Handlers, Running(g)', req'[g].op = "earn", req'[g].crowns # None
               PROVE  HasPlayer(g)' /\ req'[g].crowns = Clipped(db', req'[g].award)
    BY DEF CutFresh
  <2>1. CASE g = h
    BY <1>1, <1>2, <1>4, <1>5, <1>8, <1>10, <2>1 DEF HasPlayer
  <2>2. CASE g # h
    <3>1. Running(g) /\ req'[g] = req[g]
      BY <1>13, <1>14, <2>2
    <3> QED
      BY <1>1, <3>1 DEF CrownInv, CutFresh, HasPlayer
  <2> QED
    BY <2>1, <2>2
<1>17. Paid'
  BY <1>1, <1>10, <1>11 DEF CrownInv, Paid, GrantedOnlyWhenPaid
<1>18. Made'
  BY <1>1, <1>10, <1>11 DEF CrownInv, Made
<1>19. AtWork'
  BY <1>1, <1>13 DEF CrownInv, AtWork, Running
<1> QED
  BY <1>12, <1>15, <1>16, <1>17, <1>18, <1>19 DEF CrownInv

\* The world moves: Stripe's sessions and events, new orders, adjustments asked for.
Worldly ==
  /\ Beside(db, db') /\ req' = req /\ lock' = lock /\ aborts' = aborts
  /\ stripe' \in [Packs -> Sessions] /\ sent' \subseteq Event
  /\ \A o \in Packs : stripe[o] = "paid" => stripe'[o] = "paid"
  /\ \A o \in Packs : stripe'[o] # "none" => db'.packs[o] \in Order
  /\ \A e \in sent' \ sent : stripe'[e[2]] # "none" /\ (IsPaid(e[1]) => stripe'[e[2]] = "paid")

LEMMA WorldlyKeeps ==
  ASSUME CrownInv, Worldly
  PROVE  CrownInv'
<1>1. PICK n : n = db'
  OBVIOUS
<1>2. Beside(db, n) /\ n \in DB
  BY <1>1 DEF Worldly, Beside, Kept
<1>3. /\ n.balance = db.balance /\ n.book = db.book /\ n.held = db.held /\ n.bought = db.bought
      /\ n.owned = db.owned /\ \A o \in Packs : db.packs[o] \in Order => n.packs[o] \in Order
  BY <1>2 DEF Beside, Kept, SameWallets, SameGoods
<1>4. Typed' /\ Fitting' /\ AtWork'
  BY <1>1, <1>2, <1>3 DEF Worldly, CrownInv, Typed, Fitting, AtWork, Running
<1>5. WalletFresh'
  BY <1>1, <1>3 DEF Worldly, CrownInv, WalletFresh, Running, HasWallet, WalletOf
<1>6. CutFresh'
  <2>1. ASSUME NEW g \in Handlers, Running(g), req[g].op = "earn"
        PROVE  Clipped(n, req[g].award) = Clipped(db, req[g].award)
    <3>1. \A a : EarnedInRound(n, a) = EarnedInRound(db, a)
      BY <1>2, <1>3, EarnedSame DEF CrownInv, Typed, EarnedBy
    <3> QED
      BY <3>1 DEF Clipped
  <2> QED
    BY <1>1, <2>1 DEF Worldly, CrownInv, CutFresh, Running, HasPlayer
<1>7. Charged' /\ Granted'
  BY <1>1, <1>3 DEF CrownInv, Charged, Granted
<1>8. \A h \in Handlers : req[h] # None /\ OnPack(req[h]) => req[h].pack \in Packs
  BY DEF CrownInv, Fitting, Fits
<1>9. Paid'
  <2>1. ASSUME NEW o \in Packs, NEW type \in EventTypes, <<type, o>> \in sent', IsPaid(type)
        PROVE  stripe'[o] = "paid"
    BY <2>1 DEF Worldly, CrownInv, Paid
  <2>2. \A o \in Packs : Grant(o) \in n.book => stripe'[o] = "paid"
    BY <1>3 DEF Worldly, CrownInv, Paid, GrantedOnlyWhenPaid
  <2>3. \A h \in Handlers : req'[h] # None /\ OnPack(req'[h]) /\ IsPaid(req'[h].type)
                            => stripe'[req'[h].pack] = "paid"
    BY <1>8 DEF Worldly, CrownInv, Paid
  <2> QED
    BY <1>1, <2>1, <2>2, <2>3 DEF Paid, GrantedOnlyWhenPaid
<1>10. Made'
  <2>1. \A e \in sent' : n.packs[e[2]] \in Order
    <3> SUFFICES ASSUME NEW e \in sent' PROVE n.packs[e[2]] \in Order
      OBVIOUS
    <3>1. e[2] \in Packs
      BY DEF Worldly, Event
    <3> QED
      BY <1>1, <1>3, <3>1 DEF Worldly, CrownInv, Made
  <2>2. \A h \in Handlers : req'[h] # None /\ OnPack(req'[h]) => n.packs[req'[h].pack] \in Order
    BY <1>3, <1>8 DEF Worldly, CrownInv, Made
  <2> QED
    BY <1>1, <2>1, <2>2 DEF Made, Worldly
<1> QED
  BY <1>4, <1>5, <1>6, <1>7, <1>9, <1>10 DEF CrownInv

LEMMA WorldIs ==
  ASSUME CrownInv, World
  PROVE  Worldly
<1>1. /\ db \in DB /\ stripe \in [Packs -> Sessions] /\ sent \subseteq Event
      /\ \A o \in Packs : stripe[o] # "none" => db.packs[o] \in Order
  BY DEF CrownInv, Typed, Made
<1>2. Beside(db, db)
  BY <1>1, BesideIsOrder
<1>3. ASSUME NEW o \in Packs, OpenOrder(o) PROVE Worldly
  <2>1. PICK packs : packs = [db.packs EXCEPT ![o] = [status |-> "pending", session |-> FALSE, payment |-> FALSE]]
    OBVIOUS
  <2>2. /\ db' = [db EXCEPT !.packs = packs]
        /\ req' = req /\ lock' = lock /\ aborts' = aborts /\ stripe' = stripe /\ sent' = sent
    BY <1>3, <2>1 DEF OpenOrder
  <2>3. [status |-> "pending", session |-> FALSE, payment |-> FALSE] \in Order
    BY DEF Order, Status
  <2>4. packs \in [Packs -> Order \cup {None}] /\ \A p \in Packs : db.packs[p] \in Order => packs[p] \in Order
    BY <1>1, <2>1, <2>3, DBTyped
  <2>5. Beside(db, [db EXCEPT !.packs = packs])
    BY <1>1, <2>4, PacksChanged
  <2>6. \A p \in Packs : stripe[p] # "none" => db'.packs[p] \in Order
    BY <1>1, <2>2, <2>5 DEF Beside, Kept
  <2> QED
    BY <1>1, <2>2, <2>5, <2>6 DEF Worldly
<1>4. ASSUME NEW o \in Packs, NEW state \in Sessions, NEW type \in EventTypes,
             stripe[o] # "paid", state # "none", db.packs[o] \in Order, IsPaid(type) => state = "paid",
             stripe' = [stripe EXCEPT ![o] = state],
             sent' = sent \cup {<<type, o>>} \/ sent' = sent,
             db' = db, req' = req, lock' = lock, aborts' = aborts
      PROVE  Worldly
  <2>1. stripe' \in [Packs -> Sessions] /\ \A p \in Packs : stripe'[p] = IF p = o THEN state ELSE stripe[p]
    BY <1>1, <1>4
  <2>2. sent' \subseteq Event
    BY <1>1, <1>4 DEF Event
  <2>3. \A e \in sent' \ sent : e[1] = type /\ e[2] = o
    BY <1>4
  <2>4. \A e \in sent' \ sent : stripe'[e[2]] # "none" /\ (IsPaid(e[1]) => stripe'[e[2]] = "paid")
    BY <1>4, <2>1, <2>3
  <2> QED
    BY <1>1, <1>2, <1>4, <2>1, <2>2, <2>4 DEF Worldly
<1>5. ASSUME NEW o \in Packs, OpenSession(o) PROVE Worldly
  <2>1. db.packs[o] \in Order
    BY <1>1, <1>5, DBTyped DEF OpenSession
  <2> QED
    BY <1>4, <1>5, <2>1 DEF OpenSession, Sessions, EventTypes, IsPaid
<1>6. ASSUME NEW o \in Packs, RecordSession(o) PROVE Worldly
  <2>1. db.packs[o] \in Order
    BY <1>1, <1>6 DEF RecordSession
  <2>2. PICK order : order = [db.packs[o] EXCEPT !.session = TRUE]
    OBVIOUS
  <2>3. order \in Order
    BY <2>1, <2>2 DEF Order
  <2>4. PICK packs : packs = [db.packs EXCEPT ![o] = order]
    OBVIOUS
  <2>5. /\ db' = [db EXCEPT !.packs = packs]
        /\ req' = req /\ lock' = lock /\ aborts' = aborts /\ stripe' = stripe /\ sent' = sent
    BY <1>6, <2>2, <2>4 DEF RecordSession
  <2>6. packs \in [Packs -> Order \cup {None}] /\ \A p \in Packs : db.packs[p] \in Order => packs[p] \in Order
    BY <1>1, <2>3, <2>4, DBTyped
  <2>7. Beside(db, [db EXCEPT !.packs = packs])
    BY <1>1, <2>6, PacksChanged
  <2>8. \A p \in Packs : stripe[p] # "none" => db'.packs[p] \in Order
    BY <1>1, <2>5, <2>7 DEF Beside, Kept
  <2> QED
    BY <1>1, <2>5, <2>7, <2>8 DEF Worldly
<1>7. ASSUME NEW o \in Packs, NEW from \in Sessions, NEW to \in Sessions, NEW type \in EventTypes,
             Session(o, from, to, type), from \in {"open", "processing"}, to # "none",
             IsPaid(type) => to = "paid"
      PROVE  Worldly
  <2>1. stripe[o] = from /\ stripe' = [stripe EXCEPT ![o] = to] /\ sent' = sent \cup {<<type, o>>}
        /\ db' = db /\ req' = req /\ lock' = lock /\ aborts' = aborts
    BY <1>7 DEF Session, Sends
  <2>2. db.packs[o] \in Order
    BY <1>1, <1>7, <2>1
  <2> QED
    BY <1>4, <1>7, <2>1, <2>2
<1>8. ASSUME NEW o \in Packs, Checkout(o) PROVE Worldly
  <2>1. /\ {"none", "open", "processing", "paid", "failed", "expired"} = Sessions
        /\ \A type \in {"paid", "unpaid", "async_succeeded", "async_failed", "expired"} : type \in EventTypes
        /\ ~IsPaid("unpaid") /\ ~IsPaid("expired") /\ ~IsPaid("async_failed")
    BY DEF Sessions, EventTypes, IsPaid
  <2>2. CASE Session(o, "open", "paid", "paid")
    BY <1>7, <2>1, <2>2
  <2>3. CASE Session(o, "open", "processing", "unpaid")
    BY <1>7, <2>1, <2>3
  <2>4. CASE Session(o, "open", "expired", "expired")
    BY <1>7, <2>1, <2>4
  <2>5. CASE Session(o, "processing", "paid", "async_succeeded")
    BY <1>7, <2>1, <2>5
  <2>6. CASE Session(o, "processing", "failed", "async_failed")
    BY <1>7, <2>1, <2>6
  <2> QED
    BY <1>8, <2>2, <2>3, <2>4, <2>5, <2>6 DEF Checkout
<1>9. ASSUME NEW o \in Packs, NEW type \in Charges, Charge(o, type) PROVE Worldly
  <2>1. type \in EventTypes /\ ~IsPaid(type)
    BY CrownAssumption DEF EventTypes, IsPaid
  <2>2. /\ stripe[o] = "paid" /\ stripe' = stripe /\ sent' = sent \cup {<<type, o>>}
        /\ db' = db /\ req' = req /\ lock' = lock /\ aborts' = aborts
    BY <1>9 DEF Charge, Sends
  <2>3. sent' \subseteq Event /\ \A e \in sent' \ sent : e[1] = type /\ e[2] = o
    BY <1>1, <2>1, <2>2 DEF Event
  <2>4. \A e \in sent' \ sent : stripe'[e[2]] # "none" /\ (IsPaid(e[1]) => stripe'[e[2]] = "paid")
    BY <2>1, <2>2, <2>3
  <2> QED
    BY <1>1, <1>2, <2>2, <2>3, <2>4 DEF Worldly
<1>10. ASSUME NEW d \in Adjustments, RequestLarge(d) PROVE Worldly
  <2>1. PICK v \in Decisions : v = "PENDING"
    BY DEF Decisions
  <2>2. /\ db' = [db EXCEPT !.asked[d] = v]
        /\ req' = req /\ lock' = lock /\ aborts' = aborts /\ stripe' = stripe /\ sent' = sent
    BY <1>10, <2>1 DEF RequestLarge
  <2>3. Beside(db, [db EXCEPT !.asked[d] = v])
    BY <1>1, AskedChanged
  <2>4. \A p \in Packs : stripe[p] # "none" => db'.packs[p] \in Order
    BY <1>1, <2>2, <2>3 DEF Beside, Kept
  <2> QED
    BY <1>1, <2>2, <2>3, <2>4 DEF Worldly
<1> QED
  BY <1>3, <1>5, <1>6, <1>8, <1>9, <1>10 DEF World

LEMMA CommitCases ==
  ASSUME CrownInv, NEW h \in Handlers, Ends(h) \/ Victim(h) \/ Abort(h)
  PROVE  \E n : Committing(h, n)
<1>1. aborts \in 0..MaxAborts /\ MaxAborts \in Nat
  BY CrownAssumption DEF CrownInv, Typed
<1>2. CASE Ends(h)
  <2>1. \E n : Effect(h, n) /\ Ended(h, n) /\ aborts' = aborts
    BY <1>2, EventEffect, ReconcileEffect, BuyEffect, EarnEffect, AdjustEffect, ReleaseEffect DEF Ends
  <2>2. Running(h)
    BY <1>2 DEF Ends, EventTx, ReconcileTx, BuyTx, EarnTx, AdjustTx, ReleaseTx, Ready
  <2> QED
    BY <1>1, <2>1, <2>2 DEF Committing
<1>3. CASE Victim(h)
  <2>1. Running(h)
    BY <1>3 DEF Victim, Deadlocked, WaitsFor
  <2>2. Ended(h, db) /\ aborts' = aborts
    BY <1>3 DEF Victim, Rollback, Commit, Finish, Ended
  <2> QED
    BY <1>1, <2>1, <2>2, RollbackEffect DEF Committing
<1>4. CASE Abort(h)
  <2>1. Running(h) /\ Ended(h, db) /\ aborts' = aborts + 1 /\ aborts < MaxAborts
    BY <1>4 DEF Abort, Finish, Ended
  <2>2. aborts' \in 0..MaxAborts
    BY <1>1, <2>1
  <2> QED
    BY <2>1, <2>2, RollbackEffect DEF Committing
<1> QED
  BY <1>2, <1>3, <1>4

\* A step commits a transaction, or leaves the wallets, the book and the goods as they were.
LEMMA StepCases ==
  ASSUME CrownInv, Next
  PROVE  /\ CrownInv'
         /\ \/ \E h \in Handlers : \E n : Committing(h, n)
            \/ Beside(db, db')
<1>1. Beside(db, db)
  BY BesideIsOrder DEF CrownInv, Typed
<1>2. CASE World
  BY <1>2, WorldIs, WorldlyKeeps DEF Worldly
<1>3. ASSUME NEW h \in Handlers, Asks(h) PROVE CrownInv' /\ db' = db
  BY <1>3, AsksKeeps DEF Asks, Deliver, Reconcile, Buy, Earn, Adjust, Decide, Release, Starts
<1>4. ASSUME NEW h \in Handlers, Reread(h) \/ Lock(h) \/ Clip(h) PROVE CrownInv' /\ db' = db
  BY <1>4, RereadKeeps, LockKeeps, ClipKeeps DEF Reread, Lock, Clip
<1>5. ASSUME NEW h \in Handlers, Ends(h) \/ Victim(h) \/ Abort(h)
      PROVE  CrownInv' /\ \E n : Committing(h, n)
  BY <1>5, CommitCases, CommitKeeps
<1> QED
  BY <1>1, <1>2, <1>3, <1>4, <1>5 DEF Next, Serves

LEMMA CrownInit == Init => CrownInv
<1> SUFFICES ASSUME Init PROVE CrownInv
  OBVIOUS
<1>1. db \in DB
  BY DEF Init, DB, Decisions
<1>2. db.book = {} /\ db.bought = {} /\ db.owned = [a \in Accounts |-> {}] /\ db.packs = [o \in Packs |-> None]
  BY DEF Init
<1>3. /\ \A h \in Handlers : req[h] = None
      /\ \A row \in Rows : lock[row] = None
      /\ \A o \in Packs : stripe[o] = "none"
      /\ sent = {}
  BY DEF Init
<1>4. Typed
  <2>1. stripe \in [Packs -> Sessions] /\ req \in [Handlers -> Request \cup {None}]
        /\ lock \in [Rows -> Handlers \cup {None}] /\ aborts \in 0..MaxAborts
    BY CrownAssumption DEF Init, Sessions
  <2> QED
    BY <1>1, <1>2, <1>3, <2>1, FS_EmptySet DEF Typed
<1>5. Fitting /\ AtWork /\ WalletFresh /\ CutFresh
  BY <1>3, NoneAssumption DEF Fitting, AtWork, WalletFresh, CutFresh, Running
<1>6. Paid /\ Made
  BY <1>2, <1>3 DEF Paid, Made, GrantedOnlyWhenPaid
<1>7. Charged /\ Granted
  BY <1>2 DEF Charged, Granted
<1> QED
  BY <1>4, <1>5, <1>6, <1>7 DEF CrownInv

LEMMA CrownNext == CrownInv /\ [Next]_vars => CrownInv'
<1> SUFFICES ASSUME CrownInv, [Next]_vars PROVE CrownInv'
  OBVIOUS
<1>1. CASE Next
  BY <1>1, StepCases
<1>2. CASE UNCHANGED vars
  BY <1>2 DEF vars, CrownInv, Typed, Fitting, AtWork, WalletFresh, CutFresh, Paid, Made, Charged, Granted,
              GrantedOnlyWhenPaid, Running, HasWallet, HasPlayer, WalletOf
<1> QED
  BY <1>1, <1>2

LEMMA CrownAlways == Spec => []CrownInv
  BY CrownInit, CrownNext, PTL DEF Spec

-----------------------------------------------------------------------------
(* What the invariant gives *)

\* THEOREM: every row, request and lock keeps its type; no wallet goes below zero,
\* though it is read before it is written and many transactions want it.
THEOREM CrownTypeCorrect == Spec => []TypeOK
<1>1. CrownInv => TypeOK
  BY DBTyped DEF CrownInv, Typed, TypeOK, Sessions
<1> QED
  BY <1>1, CrownAlways, PTL

\* THEOREM: Crowns of a pack are in the book only if Stripe took a payment for it,
\* whatever events come late, twice or in another order (crown-pack.service.ts).
THEOREM GrantedOnlyWhenPaidAlways == Spec => []GrantedOnlyWhenPaid
<1>1. CrownInv => GrantedOnlyWhenPaid
  BY DEF CrownInv, Paid
<1> QED
  BY <1>1, CrownAlways, PTL

LEMMA OneOrNone ==
  ASSUME NEW S, \A x, y \in S : x = y
  PROVE  /\ S = {} => Cardinality(S) = 0
         /\ S # {} => Cardinality(S) = 1
         /\ Cardinality(S) <= 1
<1>1. CASE S = {}
  BY <1>1, FS_EmptySet
<1>2. CASE S # {}
  <2>1. PICK x \in S : TRUE
    BY <1>2
  <2>2. S = {x}
    BY <2>1
  <2> QED
    BY <1>2, <2>2, FS_Singleton
<1> QED
  BY <1>1, <1>2

\* THEOREM: an account pays for an item once: exactly one of its purchases granted each
\* item it owns, however purchases and bundles race (drop-purchase.service.ts).
THEOREM NothingBoughtTwiceAlways == Spec => []NothingBoughtTwice
<1>1. ASSUME CrownInv PROVE NothingBoughtTwice
  <2> SUFFICES ASSUME NEW a \in Accounts, NEW k \in Items
               PROVE  Cardinality({b \in db.bought : b.account = a /\ k \in b.grants})
                      = IF k \in db.owned[a] THEN 1 ELSE 0
    BY DEF NothingBoughtTwice
  <2> PICK S : S = {b \in db.bought : b.account = a /\ k \in b.grants}
    OBVIOUS
  <2>1. \A x, y \in S : x = y
    BY <1>1 DEF CrownInv, Granted
  <2>2. k \in db.owned[a] <=> S # {}
    BY <1>1 DEF CrownInv, Granted
  <2> QED
    BY <2>1, <2>2, OneOrNone
<1> QED
  BY <1>1, CrownAlways, PTL

\* THEOREM: a purchase retried under its action id is charged once, and the book holds
\* exactly what it charged (drop-purchase.service.ts, crown-wallet.service.ts).
THEOREM ChargedOnceAlways == Spec => []ChargedOnce
<1>1. ASSUME CrownInv PROVE ChargedOnce
  <2> SUFFICES ASSUME NEW a \in Accounts, NEW action \in ActionIds
               PROVE  LET orders == {b \in db.bought : b.account = a /\ b.action = action}
                      IN  /\ Cardinality(orders) <= 1
                          /\ {e \in db.book : e.ref = <<"order", a, action>>}
                             = {Spend(a, action, b.price) : b \in orders}
    BY DEF ChargedOnce
  <2> DEFINE orders == {b \in db.bought : b.account = a /\ b.action = action}
  <2>1. \A x, y \in orders : x = y
    BY <1>1 DEF CrownInv, Charged
  <2>2. Cardinality(orders) <= 1
    BY <2>1, OneOrNone
  <2>3. ASSUME NEW e \in db.book, e.ref = <<"order", a, action>>
        PROVE  e \in {Spend(a, action, b.price) : b \in orders}
    <3>1. PICK b \in db.bought : b.account = a /\ b.action = action /\ e = Spend(a, action, b.price)
      BY <1>1, <2>3 DEF CrownInv, Charged
    <3> QED
      BY <3>1
  <2>4. ASSUME NEW b \in orders
        PROVE  Spend(a, action, b.price) \in db.book /\ Spend(a, action, b.price).ref = <<"order", a, action>>
    <3>1. Spend(b.account, b.action, b.price) \in db.book
      BY <1>1 DEF CrownInv, Charged
    <3> QED
      BY <3>1 DEF Spend
  <2> QED
    BY <2>2, <2>3, <2>4
<1> QED
  BY <1>1, CrownAlways, PTL

\* THEOREM: a wallet on hold spends nothing: the hold is read with the wallet's lock,
\* not before it (crown-wallet.service.ts).
THEOREM HoldStopsSpendingAlways == Spec => HoldStopsSpending
<1> DEFINE Good == \A e \in db'.book \ db.book : e.kind = "SPEND" => ~db.held[e.account]
<1>1. ASSUME CrownInv, Next PROVE Good
  <2>1. CASE Beside(db, db')
    BY <2>1 DEF Beside, SameWallets
  <2>2. ASSUME NEW h \in Handlers, NEW n, Committing(h, n) PROVE Good
    <3>1. db' = n /\ Effect(h, n)
      BY <2>2 DEF Committing, Ended
    <3>2. CASE Beside(db, n) \/ Holds(h, n)
      BY <3>1, <3>2 DEF Beside, Holds, SameWallets
    <3>3. ASSUME NEW e \in Entry, Enters(h, n, e) PROVE Good
      BY <3>1, <3>3 DEF Enters, Enter
    <3>4. ASSUME NEW b \in Bought, Sells(h, n, b) PROVE Good
      BY <3>1, <3>4 DEF Sells, Enter, Spend
    <3> QED
      BY <3>1, <3>2, <3>3, <3>4 DEF Effect
  <2> QED
    BY <1>1, <2>1, <2>2, StepCases
<1>2. CrownInv /\ [Next]_vars => [Good]_vars
  BY <1>1
<1> QED
  BY <1>2, CrownAlways, PTL DEF Spec, HoldStopsSpending

\* THEOREM: an award under the round cap never takes the account's earnings past it,
\* whatever it earns meanwhile, because the cap is read and the award made under one
\* lock of the player's row (crown-earn.service.ts).
THEOREM CapAlwaysRespected == Spec => CapRespected
<1> DEFINE Good == \A award \in Awards :
                     /\ Award[award].capped
                     /\ \E e \in db'.book \ db.book : e.ref = <<"earn", award>>
                     => EarnedInRound(db', Award[award].account) <= RoundCap
<1>1. ASSUME CrownInv, Next PROVE Good
  <2> SUFFICES ASSUME NEW award \in Awards, Award[award].capped,
                      NEW e \in db'.book \ db.book, e.ref = <<"earn", award>>
               PROVE  EarnedInRound(db', Award[award].account) <= RoundCap
    OBVIOUS
  <2>1. ~Beside(db, db')
    BY DEF Beside, SameWallets
  <2>2. PICK h \in Handlers : \E n : Committing(h, n)
    BY <1>1, <2>1, StepCases
  <2>3. PICK n : Committing(h, n)
    BY <2>2
  <2>4. db' = n /\ Effect(h, n) /\ Running(h)
    BY <2>3 DEF Committing, Ended
  <2>5. /\ db \in DB /\ IsFiniteSet(db.book) /\ n \in DB /\ IsFiniteSet(n.book)
        /\ req[h] \in Request /\ Fits(req[h])
    BY <1>1, <2>3, <2>4, CommitTyped DEF CrownInv, Typed, Fitting, Running
  <2>6. ~Beside(db, n) /\ ~Holds(h, n) /\ \A b \in Bought : ~Sells(h, n, b)
    <3>1. ~Beside(db, n) /\ ~Holds(h, n)
      BY <2>4 DEF Beside, Holds, SameWallets
    <3>2. ASSUME NEW b \in Bought, Sells(h, n, b) PROVE FALSE
      <4>1. e = Spend(b.account, b.action, b.price)
        BY <2>4, <3>2 DEF Sells, Enter
      <4>2. e.ref = <<"order", b.account, b.action>>
        BY <4>1 DEF Spend
      <4> QED
        BY <4>2
    <3> QED
      BY <3>1, <3>2
  <2>7. PICK x \in Entry : Enters(h, n, x)
    BY <2>4, <2>6 DEF Effect
  <2>8. x = e /\ n.book = db.book \cup {e} /\ e \notin db.book
    BY <2>4, <2>7 DEF Enters, Enter
  <2>9. /\ e.kind = "EARN" /\ req[h].op = "earn" /\ req[h].crowns # None
        /\ e = Earning(req[h].award, req[h].crowns)
    BY <2>7, <2>8 DEF Enters, Plain
  <2>10. req[h].award = award /\ e.account = Award[award].account /\ e.delta = req[h].crowns
    BY <2>9 DEF Earning
  <2>11. req[h].crowns = Clipped(db, award)
    BY <1>1, <2>4, <2>9, <2>10 DEF CrownInv, CutFresh
  <2>12. e.delta <= RoundCap - EarnedInRound(db, e.account) /\ e.delta \in Int
    BY <2>5, <2>10, <2>11, ClippedTyped
  <2>13. EarnedInRound(n, e.account) = EarnedInRound(db, e.account) + e.delta
    BY <2>5, <2>7, <2>8, <2>9, EarnedMore
  <2>14. EarnedInRound(db, e.account) \in Int /\ RoundCap \in Int
    BY <2>5, EarnedAre, CrownAssumption
  <2>15. EarnedInRound(n, e.account) <= RoundCap
    BY <2>12, <2>13, <2>14
  <2> QED
    BY <2>4, <2>10, <2>15
<1>2. CrownInv /\ [Next]_vars => [Good]_vars
  BY <1>1
<1> QED
  BY <1>2, CrownAlways, PTL DEF Spec, CapRespected

-----------------------------------------------------------------------------
(* The wallet implements the book *)

LEMMA BookInit == Init => Book!Init
  BY DEF Init, Book!Init

LEMMA BookStep == CrownInv /\ [Next]_vars => [Book!Move]_(Book!account)
<1> SUFFICES ASSUME CrownInv, [Next]_vars PROVE Book!Move \/ UNCHANGED Book!account
  OBVIOUS
<1>1. CASE UNCHANGED vars
  BY <1>1 DEF vars, Book!account
<1>2. CASE Beside(db, db')
  BY <1>2 DEF Beside, SameWallets, Book!account
<1>3. ASSUME NEW h \in Handlers, NEW n, Committing(h, n) PROVE Book!Move \/ UNCHANGED Book!account
  <2>1. db' = n /\ Effect(h, n)
    BY <1>3 DEF Committing, Ended
  <2>2. CASE Beside(db, n) \/ Holds(h, n)
    BY <2>1, <2>2 DEF Beside, Holds, SameWallets, Book!account
  <2>3. ASSUME NEW e, Enter(db, n, e) PROVE Book!Move
    <3>1. \A x \in db.book : x.ref # e.ref
      BY <2>3 DEF Enter, Booked
    <3>2. e \in n.book \ db.book
      BY <2>3, <3>1 DEF Enter
    <3> QED
      BY <2>1, <2>3, <3>1, <3>2 DEF Enter, Book!Move
  <2> QED
    BY <2>1, <2>2, <2>3 DEF Effect, Enters, Sells
<1> QED
  BY <1>1, <1>2, <1>3, StepCases

\* THEOREM: the wallet implements its book: every step of every transaction, webhook and
\* request enters one event that the book has not seen and moves the balance with it,
\* never below zero, or changes neither (crown-wallet.service.ts).
THEOREM CrownImplementsBook == Spec => ImplementsBook
  BY BookInit, CrownAlways, BookStep, PTL DEF Spec, ImplementsBook, Book!Spec


=============================================================================
