--------------------------- MODULE BoardTradeProofs ---------------------------
(***************************************************************************)
(* More of what the Board keeps, for every set of players, goods, listings *)
(* and request handlers: tags, cash, action ids, closed offers, the order  *)
(* of the row locks, and that it implements BoardMarket.                   *)
(*                                                                         *)
(* What each transaction body does to the columns of the rows is stated    *)
(* once, as a relation between two records of rows; the properties are     *)
(* then proved of these relations.                                         *)
(***************************************************************************)
EXTENDS PlayerBoardProofs, Sums

-----------------------------------------------------------------------------
(* Settling: stacks come home and offers lapse, no cash moves *)

Lapses(x, y, p) ==
  /\ x.seller = p /\ InEscrow(x) /\ y.status = "EXPIRED"
  /\ y.seller = x.seller /\ y.item = x.item /\ y.quantity = x.quantity /\ y.left = x.left
  /\ y.price = x.price /\ y.ask = x.ask /\ y.fee = x.fee
  /\ y.postedAt = x.postedAt /\ y.pausedAtPost = x.pausedAtPost

\* No goods move between players and none are lost; tags stay within escrow where they were.
GoodsKept(d, e) ==
  \A q \in Players, k \in Items :
    /\ e.held[q][k] + e.escrow[q][k] = d.held[q][k] + d.escrow[q][k]
    /\ d.escrowTagged[q][k] <= d.escrow[q][k] => e.escrowTagged[q][k] <= e.escrow[q][k]

Settles(d, e, p) ==
  /\ RowsInv(e) /\ Posted(e) = Posted(d)
  /\ e.cash = d.cash /\ e.fills = d.fills /\ e.processed = d.processed
  /\ GoodsKept(d, e)
  /\ \A o \in Posted(d) : e.offers[o] = d.offers[o] \/ Lapses(d.offers[o], e.offers[o], p)

\* Stacks come back with the tags that were in escrow, no more than there is.
LEMMA ReturnStacksKeeps ==
  ASSUME NEW d \in Rows, NEW p \in Players, NEW back \in Goods,
         \A k \in Items : back[k] <= d.escrow[p][k]
  PROVE  LET e == ReturnStacks(d, p, back)
         IN  /\ e.cash = d.cash /\ e.fills = d.fills /\ e.processed = d.processed
             /\ GoodsKept(d, e)
<1> DEFINE tags == [k \in Items |-> Least(back[k], d.escrowTagged[p][k])]
           heldNow == [k \in Items |-> d.held[p][k] + back[k]]
           escrowNow == [k \in Items |-> AtLeastZero(d.escrow[p][k] - back[k])]
           taggedNow == [k \in Items |-> d.tagged[p][k] + tags[k]]
           escrowTaggedNow == [k \in Items |-> d.escrowTagged[p][k] - tags[k]]
           e == [d EXCEPT !.held = [@ EXCEPT ![p] = heldNow],
                          !.escrow = [@ EXCEPT ![p] = escrowNow],
                          !.tagged = [@ EXCEPT ![p] = taggedNow],
                          !.escrowTagged = [@ EXCEPT ![p] = escrowTaggedNow]]
<1>1. ReturnStacks(d, p, back) = e
  BY DEF ReturnStacks
<1>2. /\ d.held \in [Players -> Goods] /\ d.escrow \in [Players -> Goods]
      /\ d.escrowTagged \in [Players -> Goods]
  BY DEF Rows
<1>3. /\ e.held = [d.held EXCEPT ![p] = heldNow] /\ e.escrow = [d.escrow EXCEPT ![p] = escrowNow]
      /\ e.escrowTagged = [d.escrowTagged EXCEPT ![p] = escrowTaggedNow]
      /\ e.cash = d.cash /\ e.fills = d.fills /\ e.processed = d.processed
  BY DEF Rows
<1> HIDE DEF e
<1>4. \A k \in Items :
        /\ heldNow[k] + escrowNow[k] = d.held[p][k] + d.escrow[p][k]
        /\ d.escrowTagged[p][k] <= d.escrow[p][k] => escrowTaggedNow[k] <= escrowNow[k]
  <2> SUFFICES ASSUME NEW k \in Items
               PROVE  /\ heldNow[k] + escrowNow[k] = d.held[p][k] + d.escrow[p][k]
                      /\ d.escrowTagged[p][k] <= d.escrow[p][k] => escrowTaggedNow[k] <= escrowNow[k]
    OBVIOUS
  <2>1. /\ back[k] \in Nat /\ d.escrow[p][k] \in Nat /\ d.escrowTagged[p][k] \in Nat
        /\ d.held[p][k] \in Nat /\ back[k] <= d.escrow[p][k]
    BY <1>2 DEF Goods
  <2>2. escrowNow[k] = d.escrow[p][k] - back[k]
    BY <2>1 DEF AtLeastZero
  <2>3. escrowTaggedNow[k] = d.escrowTagged[p][k] - Least(back[k], d.escrowTagged[p][k])
    OBVIOUS
  <2>4. heldNow[k] = d.held[p][k] + back[k]
    OBVIOUS
  <2> HIDE DEF heldNow, escrowNow, escrowTaggedNow
  <2> QED
    BY <2>1, <2>2, <2>3, <2>4 DEF Least
<1> HIDE DEF heldNow, escrowNow, escrowTaggedNow, taggedNow
<1>5. GoodsKept(d, e)
  BY <1>2, <1>3, <1>4 DEF GoodsKept
<1> QED
  BY <1>1, <1>3, <1>5

LEMMA SettledSettles ==
  ASSUME NEW d, RowsInv(d), NEW p \in Players, NEW r, NEW now \in Nat, NEW landing
  PROVE  Settles(d, Settled(d, p, r, now, landing), p)
<1> DEFINE lapsed == Lapsed(d, p, r, now)
           home == {o \in lapsed : NeedsGap(d, p, d.offers[o].item) => d.offers[o].item \in landing}
           homeOf(k) == {o \in home : d.offers[o].item = k}
           back == [k \in Items |-> LeftIn(d.offers, homeOf(k))]
           R == ReturnStacks(d, p, back)
           table == [o \in OfferIds |->
                       IF o \in lapsed
                       THEN [d.offers[o] EXCEPT !.status = "EXPIRED",
                                                !.returnedAt = IF o \in home THEN now ELSE None]
                       ELSE d.offers[o]]
           e == [R EXCEPT !.offers = table]
<1>1. d \in Rows /\ Reconciled(d)
  BY DEF RowsInv
<1>2. /\ lapsed \subseteq Posted(d) /\ home \subseteq lapsed
      /\ \A o \in lapsed : d.offers[o].seller = p /\ InEscrow(d.offers[o])
  BY DEF Lapsed, DueOffers, OpenOffersOf, OffersOf, InEscrow
<1>3. \A k \in Items : homeOf(k) \subseteq HeldOffers(d, p, k)
  BY <1>2 DEF HeldOffers, OffersOf
<1>4. \A k \in Items : Counted(d.offers, HeldOffers(d, p, k))
  BY <1>1, HeldPosted, PostedCounted
<1>5. back \in Goods /\ \A k \in Items : back[k] <= d.escrow[p][k]
  <2>1. \A k \in Items : /\ LeftIn(d.offers, homeOf(k)) \in Nat
                         /\ LeftIn(d.offers, homeOf(k)) <= LeftIn(d.offers, HeldOffers(d, p, k))
    <3> HIDE DEF homeOf
    <3> QED
      BY <1>3, <1>4, LeftInDifference
  <2> HIDE DEF homeOf
  <2> QED
    BY <1>1, <2>1 DEF Goods, Reconciled
<1>6. /\ R \in Rows /\ R.offers = d.offers
      /\ R.cash = d.cash /\ R.fills = d.fills /\ R.processed = d.processed
      /\ GoodsKept(d, R)
  <2> HIDE DEF back
  <2> QED
    BY <1>1, <1>5, ReturnStacksType, ReturnStacksKeeps
<1>7. \A o \in Posted(d) : table[o] = d.offers[o] \/ Lapses(d.offers[o], table[o], p)
  <2> SUFFICES ASSUME NEW o \in Posted(d)
               PROVE  table[o] = d.offers[o] \/ Lapses(d.offers[o], table[o], p)
    OBVIOUS
  <2>1. o \in OfferIds /\ d.offers[o] \in Offer
    BY <1>1, OffersTyped
  <2>2. CASE o \in lapsed
    <3>1. d.offers[o].seller = p /\ InEscrow(d.offers[o])
      BY <1>2, <2>2
    <3> HIDE DEF lapsed, home
    <3>2. table[o] = [d.offers[o] EXCEPT !.status = "EXPIRED",
                                         !.returnedAt = IF o \in home THEN now ELSE None]
      BY <2>1, <2>2
    <3> HIDE DEF table
    <3> QED
      BY <2>1, <3>1, <3>2 DEF Lapses, Offer
  <2>3. CASE o \notin lapsed
    <3> HIDE DEF lapsed, home
    <3> QED
      BY <2>1, <2>3
  <2> QED
    BY <2>2, <2>3
<1>8. e = Settled(d, p, r, now, landing)
  BY DEF Settled
<1>9. /\ e.offers = table /\ e.cash = R.cash /\ e.fills = R.fills /\ e.processed = R.processed
      /\ e.held = R.held /\ e.escrow = R.escrow /\ e.escrowTagged = R.escrowTagged
  <2> HIDE DEF table, R
  <2> QED
    BY <1>6 DEF Rows
<1>10. LET x == Settled(d, p, r, now, landing) IN RowsInv(x) /\ Posted(x) = Posted(d)
  BY SettledInv
<1> HIDE DEF e, R, table
<1>11. GoodsKept(d, e)
  BY <1>6, <1>9 DEF GoodsKept
<1>12. \A o \in Posted(d) : e.offers[o] = d.offers[o] \/ Lapses(d.offers[o], e.offers[o], p)
  BY <1>7, <1>9
<1>13. e.cash = d.cash /\ e.fills = d.fills /\ e.processed = d.processed
  BY <1>6, <1>9
<1>14. Settles(d, e, p)
  BY <1>8, <1>10, <1>11, <1>12, <1>13 DEF Settles
<1> QED
  BY <1>8, <1>14

-----------------------------------------------------------------------------
(* Posting, cancelling and selling, each on rows already settled *)

\* h has taken the time of its call and opened its transaction.
Opened(h) == req[h] # None /\ req[h].step = "called"

\* An offer bears the time and the booked pauses its request read.
Stamped(offer) ==
  \E h \in Handlers : /\ Opened(h) /\ offer.postedAt = req[h].now
                      /\ offer.pausedAtPost = req[h].round.pausedMinutes

\* An offer goes up for its fee: its units move from the holdings into escrow.
PutsUp(d, e, p, o) ==
  LET new == e.offers[o]
  IN  /\ RowsInv(e) /\ o \in OfferIds \ Posted(d)
      /\ Posted(e) = Posted(d) \cup {o}
      /\ new \in Offer /\ new.seller = p /\ new.status = "OPEN" /\ Stamped(new)
      /\ new.left = new.quantity /\ new.left <= d.held[p][new.item]
      /\ new.fee <= d.cash[p]
      /\ e.cash = [d.cash EXCEPT ![p] = @ - new.fee]
      /\ e.fills = d.fills /\ e.processed = d.processed
      /\ \A x \in Posted(d) : e.offers[x] = d.offers[x]
      /\ GoodsKept(d, e)

\* An open offer comes down, and nothing else changes but where its units are.
TakesDown(d, e, p, o) ==
  /\ RowsInv(e) /\ o \in Posted(d) /\ Posted(e) = Posted(d)
  /\ d.offers[o].seller = p /\ d.offers[o].status = "OPEN"
  /\ e.offers[o].status = "CANCELLED"
  /\ e.offers[o].seller = p /\ e.offers[o].fee = d.offers[o].fee
  /\ e.offers[o].postedAt = d.offers[o].postedAt /\ e.offers[o].pausedAtPost = d.offers[o].pausedAtPost
  /\ e.cash = d.cash /\ e.fills = d.fills /\ e.processed = d.processed
  /\ \A x \in Posted(d) : x # o => e.offers[x] = d.offers[x]
  /\ GoodsKept(d, e)

\* What q gains or loses of k, his escrow counted, when b buys units of offer.
Change(offer, b, units, q, k) ==
  LET sold == IF k = offer.item THEN units ELSE 0
  IN  CASE q = b -> sold - offer.ask[k]
        [] q = offer.seller -> offer.ask[k] - sold
        [] OTHER -> 0

\* b buys units of another player's open offer.
Sells(d, e, b, o, units, action, called, at) ==
  LET offer == d.offers[o]
      s == offer.seller
      paid == offer.price * units
  IN  /\ RowsInv(e) /\ o \in Posted(d) /\ Posted(e) = Posted(d)
      /\ b \in Players /\ b # s /\ offer.status = "OPEN"
      /\ units \in 1..offer.left
      /\ IsBarter(offer) => units = offer.quantity
      /\ paid \in Nat /\ paid <= d.cash[b]
      /\ \A k \in Items : offer.ask[k] <= d.held[b][k]
      /\ e.cash = [d.cash EXCEPT ![b] = @ - paid, ![s] = @ + paid]
      /\ e.offers[o] = AfterSale(offer, units)
      /\ \A x \in Posted(d) : x # o => e.offers[x] = d.offers[x]
      /\ \E fill \in Fill : /\ fill.buyer = b /\ fill.action = action
                            /\ fill.createdAt = called /\ fill.at = at
                            /\ e.fills = Append(d.fills, fill)
      /\ \E receipt \in Receipt : /\ receipt.expiresAt = called + Retention
                                  /\ e.processed = [d.processed EXCEPT ![b] = Recorded(@, action, receipt)]
      /\ \A q \in Players, k \in Items :
           /\ e.held[q][k] + e.escrow[q][k] = d.held[q][k] + d.escrow[q][k] + Change(offer, b, units, q, k)
           /\ d.escrowTagged[q][k] <= d.escrow[q][k] => e.escrowTagged[q][k] <= e.escrow[q][k]
      /\ e.held = Traded(d.held, b, offer, units)
      /\ WithinArmory(Only(offer.item, units), e.held[b])
      /\ WithinArmory(offer.ask, e.held[s])

LEMMA PostPutsUp ==
  ASSUME NEW d, RowsInv(d), NEW p \in Players, NEW o \in OfferIds \ Posted(d),
         NEW form \in Listings, CanPost(d, p, form), NEW r \in Round, NEW now \in Nat,
         NEW h \in Handlers, Opened(h), now = req[h].now, r = req[h].round
  PROVE  PutsUp(d, WithPost(d, p, o, form, r, now), p, o)
<1> DEFINE item == form.item
           n == form.quantity
           fee == PostingFee(form)
           new == NewOffer(p, form, r, now)
           tags == Least(n, d.tagged[p][item])
           e == WithPost(d, p, o, form, r, now)
<1>1. d \in Rows /\ RowsInv(e)
  BY PostInv DEF RowsInv
<1>2. item \in Items /\ n \in Nat \ {0} /\ form.price \in Nat /\ form.ask \in Goods /\ form.lasts \in Nat
  BY BoardAssumption DEF Listing
<1>3. fee \in Nat /\ d.cash[p] \in Nat /\ d.cash[p] >= fee
  BY <1>1, PostingFeeType DEF Rows, CanPost
<1>4. new \in Offer /\ new # None
  <2>1. new \in Offer
    BY <1>2, <1>3 DEF NewOffer, Offer, OfferStatus, Round
  <2> QED
    BY <2>1, NoneAssumption
<1>5. new.seller = p /\ new.item = item /\ new.left = n /\ new.quantity = n /\ new.status = "OPEN" /\ new.fee = fee
      /\ Stamped(new)
  BY DEF NewOffer, Stamped
<1>6. /\ d.held[p] \in Goods /\ d.escrow[p] \in Goods /\ d.tagged[p] \in Goods /\ d.escrowTagged[p] \in Goods
      /\ d.held[p][item] >= n
  BY <1>1, <1>2 DEF Rows, CanPost
<1>7. tags \in Nat /\ tags <= n
  BY <1>2, <1>6, LeastType DEF Goods
<1> DEFINE heldNow == Plus(d.held[p], item, -n)
           taggedNow == Plus(d.tagged[p], item, -tags)
           escrowTaggedNow == Plus(d.escrowTagged[p], item, tags)
           escrowNow == Plus(d.escrow[p], item, n)
           cashNow == d.cash[p] - fee
<1>8. \A k \in Items : /\ heldNow[k] + escrowNow[k] = d.held[p][k] + d.escrow[p][k]
                       /\ d.escrowTagged[p][k] <= d.escrow[p][k] => escrowTaggedNow[k] <= escrowNow[k]
  <2> SUFFICES ASSUME NEW k \in Items
               PROVE  /\ heldNow[k] + escrowNow[k] = d.held[p][k] + d.escrow[p][k]
                      /\ d.escrowTagged[p][k] <= d.escrow[p][k] => escrowTaggedNow[k] <= escrowNow[k]
    OBVIOUS
  <2>1. /\ heldNow[k] = IF k = item THEN d.held[p][k] + -n ELSE d.held[p][k]
        /\ escrowNow[k] = IF k = item THEN d.escrow[p][k] + n ELSE d.escrow[p][k]
        /\ escrowTaggedNow[k] = IF k = item THEN d.escrowTagged[p][k] + tags ELSE d.escrowTagged[p][k]
    <3> HIDE DEF tags
    <3> QED
      BY <1>2, <1>6 DEF Plus, Goods
  <2>2. d.held[p][k] \in Nat /\ d.escrow[p][k] \in Nat /\ d.escrowTagged[p][k] \in Nat
    BY <1>6 DEF Goods
  <2> HIDE DEF heldNow, escrowNow, escrowTaggedNow, tags
  <2> QED
    BY <1>2, <1>7, <2>1, <2>2
<1>9. e = [d EXCEPT !.cash = [@ EXCEPT ![p] = cashNow],
                     !.held = [@ EXCEPT ![p] = heldNow],
                     !.tagged = [@ EXCEPT ![p] = taggedNow],
                     !.escrowTagged = [@ EXCEPT ![p] = escrowTaggedNow],
                     !.escrow = [@ EXCEPT ![p] = escrowNow],
                     !.offers = [@ EXCEPT ![o] = new]]
  BY DEF WithPost
<1> HIDE DEF heldNow, taggedNow, escrowTaggedNow, escrowNow, cashNow, new, fee, tags, e
<1>10. /\ e.offers = [d.offers EXCEPT ![o] = new]
       /\ e.cash = [d.cash EXCEPT ![p] = cashNow]
       /\ e.held = [d.held EXCEPT ![p] = heldNow] /\ e.escrow = [d.escrow EXCEPT ![p] = escrowNow]
       /\ e.escrowTagged = [d.escrowTagged EXCEPT ![p] = escrowTaggedNow]
       /\ e.fills = d.fills /\ e.processed = d.processed
  BY <1>1, <1>9 DEF Rows
<1>11. /\ d.offers \in [OfferIds -> Offer \cup {None}] /\ d.escrow \in [Players -> Goods]
       /\ d.held \in [Players -> Goods] /\ d.escrowTagged \in [Players -> Goods] /\ d.cash \in [Players -> Nat]
  BY <1>1 DEF Rows
<1>12. /\ e.offers[o] = new
       /\ \A x \in OfferIds : x # o => e.offers[x] = d.offers[x]
  BY <1>10, <1>11
<1>13. Posted(e) = Posted(d) \cup {o} /\ \A x \in Posted(d) : e.offers[x] = d.offers[x]
  BY <1>4, <1>12 DEF Posted
<1>14. GoodsKept(d, e)
  BY <1>8, <1>10, <1>11 DEF GoodsKept
<1>15. e.cash = [d.cash EXCEPT ![p] = @ - new.fee]
  BY <1>5, <1>10 DEF cashNow
<1>16. PutsUp(d, e, p, o)
  BY <1>1, <1>3, <1>4, <1>5, <1>6, <1>10, <1>12, <1>13, <1>14, <1>15 DEF PutsUp
<1> QED
  BY <1>16 DEF e

LEMMA CancelTakesDown ==
  ASSUME NEW d, RowsInv(d), NEW p \in Players, NEW o, CanCancel(d, p, o), NEW now \in Nat
  PROVE  TakesDown(d, WithCancel(d, p, o, now), p, o)
<1> DEFINE offer == d.offers[o]
           item == offer.item
           back == Only(item, offer.left)
           R == ReturnStacks(d, p, back)
           gone == [offer EXCEPT !.status = "CANCELLED", !.returnedAt = now]
           e == [R EXCEPT !.offers = [@ EXCEPT ![o] = gone]]
<1>1. d \in Rows /\ Reconciled(d)
  BY DEF RowsInv
<1>2. o \in Posted(d) /\ offer.seller = p /\ offer.status = "OPEN"
  BY DEF CanCancel, OpenOffersOf, OffersOf
<1>3. o \in OfferIds /\ offer \in Offer
  BY <1>1, <1>2, OffersTyped
<1>4. item \in Items /\ offer.left \in Nat
  BY <1>3 DEF Offer
<1>5. back \in Goods /\ \A k \in Items : back[k] = IF k = item THEN offer.left ELSE 0
  BY <1>4 DEF Only, Goods
<1>6. \A k \in Items : back[k] <= d.escrow[p][k]
  <2>1. Counted(d.offers, HeldOffers(d, p, item)) /\ {o} \subseteq HeldOffers(d, p, item)
    BY <1>1, <1>2, HeldPosted, PostedCounted DEF HeldOffers, OffersOf, InEscrow
  <2>2. LeftIn(d.offers, {o}) <= LeftIn(d.offers, HeldOffers(d, p, item))
    BY <2>1, LeftInDifference
  <2>3. LeftIn(d.offers, {o}) = offer.left
    BY <1>4, LeftInOne
  <2>4. offer.left <= d.escrow[p][item]
    BY <1>1, <1>4, <2>2, <2>3 DEF Reconciled
  <2>5. \A k \in Items : d.escrow[p][k] \in Nat
    BY <1>1 DEF Rows, Goods
  <2> HIDE DEF back, offer, item
  <2> QED
    BY <1>5, <2>4, <2>5
<1>7. /\ R \in Rows /\ R.offers = d.offers
      /\ R.cash = d.cash /\ R.fills = d.fills /\ R.processed = d.processed
      /\ GoodsKept(d, R)
  <2> HIDE DEF back
  <2> QED
    BY <1>1, <1>5, <1>6, ReturnStacksType, ReturnStacksKeeps
<1>8. gone \in Offer /\ gone # None /\ gone.status = "CANCELLED" /\ gone.seller = p /\ gone.fee = offer.fee
      /\ gone.postedAt = offer.postedAt /\ gone.pausedAtPost = offer.pausedAtPost
  <2>1. gone \in Offer
    BY <1>3 DEF Offer, OfferStatus
  <2> QED
    BY <1>2, <1>3, <2>1, NoneAssumption DEF Offer
<1>9. WithCancel(d, p, o, now) = e
  BY DEF WithCancel
<1>10. LET x == WithCancel(d, p, o, now) IN RowsInv(x)
  BY CancelInv
<1> HIDE DEF gone, R, back
<1>11. /\ e.offers = [d.offers EXCEPT ![o] = gone] /\ e.cash = d.cash
       /\ e.fills = d.fills /\ e.processed = d.processed
       /\ e.held = R.held /\ e.escrow = R.escrow /\ e.escrowTagged = R.escrowTagged
  BY <1>7, <1>8 DEF Rows
<1> HIDE DEF e
<1>12. /\ e.offers[o] = gone
       /\ \A x \in OfferIds : x # o => e.offers[x] = d.offers[x]
  BY <1>1, <1>3, <1>11 DEF Rows
<1>13. Posted(e) = Posted(d) /\ \A x \in Posted(d) : x # o => e.offers[x] = d.offers[x]
  BY <1>2, <1>8, <1>12 DEF Posted
<1>14. GoodsKept(d, e)
  BY <1>7, <1>11 DEF GoodsKept
<1> QED
  BY <1>2, <1>8, <1>9, <1>10, <1>11, <1>12, <1>13, <1>14 DEF TakesDown

LEMMA FillSells ==
  ASSUME NEW d, RowsInv(d), NEW b \in Players, NEW o \in Posted(d), d.offers[o].status = "OPEN",
         d.offers[o].seller # b, NEW units \in Nat, CanFill(d, b, o, units),
         NEW action \in ActionIds \cup {None}, NEW called \in Nat, NEW at \in Nat
  PROVE  Sells(d, WithFill(d, b, o, units, action, called, at), b, o, units, action, called, at)
<1> DEFINE offer == d.offers[o]
           s == offer.seller
           item == offer.item
           paid == offer.price * units
           tags == Least(units, d.escrowTagged[s][item])
           sold == AfterSale(offer, units)
           row == [offer |-> o, buyer |-> b, units |-> units, paid |-> paid,
                   createdAt |-> called, action |-> action, at |-> at]
           receipt == [offer |-> o, units |-> units, paid |-> paid, expiresAt |-> called + Retention]
           cashNow == Paid(d.cash, b, s, paid)
           heldNow == Traded(d.held, b, offer, units)
           escrowNow == Minus(d.escrow[s], item, units)
           escrowTaggedNow == Plus(d.escrowTagged[s], item, -tags)
           processedNow == Recorded(d.processed[b], action, receipt)
           e == [d EXCEPT !.cash = cashNow,
                          !.held = heldNow,
                          !.escrow = [@ EXCEPT ![s] = escrowNow],
                          !.escrowTagged = [@ EXCEPT ![s] = escrowTaggedNow],
                          !.offers = [@ EXCEPT ![o] = sold],
                          !.fills = Append(@, row),
                          !.processed = [@ EXCEPT ![b] = processedNow]]
<1>1. d \in Rows /\ Reconciled(d)
  BY DEF RowsInv
<1>2. o \in OfferIds /\ offer \in Offer
  BY <1>1, OffersTyped
<1>3. s \in Players /\ item \in Items /\ offer.left \in Nat /\ offer.price \in Nat /\ offer.ask \in Goods
      /\ s # b
  BY <1>2 DEF Offer
<1>4. /\ units \in Nat \ {0} /\ units <= offer.left /\ d.cash[b] >= paid
      /\ IsBarter(offer) => units = offer.quantity
      /\ \A k \in Items : d.held[b][k] >= offer.ask[k]
      /\ WithinArmory(Only(item, units), BuyerGoods(d.held[b], offer, units))
      /\ WithinArmory(offer.ask, SellerGoods(d.held[s], offer))
  BY DEF CanFill
<1>5. paid \in Nat
  BY <1>3, ProductType
<1>6. row \in Fill /\ row.buyer = b /\ row.action = action /\ row.createdAt = called /\ row.at = at
  <2> HIDE DEF paid
  <2> QED
    BY <1>2, <1>4, <1>5 DEF Fill
<1>7. receipt \in Receipt /\ receipt.expiresAt = called + Retention
  <2>1. Retention \in Nat
    BY BoardAssumption
  <2> HIDE DEF paid
  <2> QED
    BY <1>2, <1>4, <1>5, <2>1 DEF Receipt
<1>8. d.held \in [Players -> Goods] /\ d.escrow \in [Players -> Goods] /\ d.escrowTagged \in [Players -> Goods]
      /\ d.cash \in [Players -> Nat] /\ d.processed \in [Players -> [ActionIds -> Receipt \cup {None}]]
      /\ d.fills \in Seq(Fill) /\ d.offers \in [OfferIds -> Offer \cup {None}]
  BY <1>1 DEF Rows
<1>9. sold # None
  <2> HIDE DEF offer
  <2>1. offer.status = "OPEN"
    BY DEF offer
  <2> QED
    BY <1>2, <1>4, <2>1, AfterSaleType
<1>10. units <= d.escrow[s][item]
  <2>1. Counted(d.offers, HeldOffers(d, s, item)) /\ {o} \subseteq HeldOffers(d, s, item)
    BY <1>1, HeldPosted, PostedCounted DEF HeldOffers, OffersOf, InEscrow
  <2>2. /\ LeftIn(d.offers, {o}) <= LeftIn(d.offers, HeldOffers(d, s, item))
        /\ LeftIn(d.offers, HeldOffers(d, s, item)) \in Nat
    BY <2>1, LeftInDifference
  <2>3. LeftIn(d.offers, {o}) = offer.left
    BY <1>3, LeftInOne
  <2> HIDE DEF offer, s, item
  <2> QED
    BY <1>1, <1>3, <1>4, <2>2, <2>3 DEF Reconciled
<1>11. LET x == WithFill(d, b, o, units, action, called, at) IN RowsInv(x)
  BY FillInv
<1>12. WithFill(d, b, o, units, action, called, at) = e
  BY DEF WithFill
<1> HIDE DEF cashNow, heldNow, escrowNow, escrowTaggedNow, processedNow, row, receipt, sold
<1>13. /\ e.cash = cashNow /\ e.held = heldNow
       /\ e.escrow = [d.escrow EXCEPT ![s] = escrowNow]
       /\ e.escrowTagged = [d.escrowTagged EXCEPT ![s] = escrowTaggedNow]
       /\ e.offers = [d.offers EXCEPT ![o] = sold]
       /\ e.fills = Append(d.fills, row)
       /\ e.processed = [d.processed EXCEPT ![b] = processedNow]
  BY <1>1 DEF Rows
<1> HIDE DEF e, offer, s, item, paid
<1>14. /\ e.offers[o] = sold
       /\ \A x \in OfferIds : x # o => e.offers[x] = d.offers[x]
  BY <1>2, <1>8, <1>13
<1>15. Posted(e) = Posted(d) /\ \A x \in Posted(d) : x # o => e.offers[x] = d.offers[x]
  BY <1>9, <1>14 DEF Posted
<1>16. e.cash = [d.cash EXCEPT ![b] = @ - paid, ![s] = @ + paid]
  <2>1. \A p \in Players : cashNow[p] = [d.cash EXCEPT ![b] = @ - paid, ![s] = @ + paid][p]
    BY <1>3, <1>5, <1>8 DEF cashNow, Paid
  <2>2. cashNow = [p \in Players |-> cashNow[p]]
    BY DEF cashNow, Paid
  <2> QED
    BY <1>8, <1>13, <2>1, <2>2
<1>17. /\ e.held[b] = BuyerGoods(d.held[b], offer, units)
       /\ e.held[s] = SellerGoods(d.held[s], offer)
       /\ \A q \in Players : q # b /\ q # s => e.held[q] = d.held[q]
  BY <1>3, <1>13 DEF heldNow, Traded, s
<1>18. /\ \A k \in Items : escrowNow[k] = IF k = item THEN d.escrow[s][k] - units ELSE d.escrow[s][k]
       /\ \A k \in Items : escrowTaggedNow[k] = IF k = item THEN d.escrowTagged[s][k] - tags ELSE d.escrowTagged[s][k]
  <2>1. d.escrow[s] \in Goods /\ d.escrowTagged[s] \in Goods
    BY <1>3, <1>8
  <2>2. d.escrow[s][item] - units >= 0 /\ d.escrow[s][item] - units \in Int
    BY <1>3, <1>4, <1>10, <2>1 DEF Goods
  <2>3. tags \in Int
    BY <1>3, <1>4, <2>1, LeastType DEF Goods
  <2> HIDE DEF tags
  <2> QED
    BY <1>3, <2>1, <2>2, <2>3 DEF Goods, escrowNow, escrowTaggedNow, Minus, Plus, AtLeastZero
<1>19. ASSUME NEW q \in Players, NEW k \in Items
       PROVE  /\ e.held[q][k] + e.escrow[q][k] = d.held[q][k] + d.escrow[q][k] + Change(offer, b, units, q, k)
              /\ d.escrowTagged[q][k] <= d.escrow[q][k] => e.escrowTagged[q][k] <= e.escrow[q][k]
  <2>1. d.held[q][k] \in Nat /\ d.escrow[q][k] \in Nat /\ d.escrowTagged[q][k] \in Nat /\ offer.ask[k] \in Nat
    BY <1>3, <1>8 DEF Goods
  <2>2. CASE q = b
    <3>1. e.escrow[q] = d.escrow[q] /\ e.escrowTagged[q] = d.escrowTagged[q]
      BY <1>3, <1>8, <1>13, <2>2
    <3>2. e.held[q][k] = d.held[q][k] - offer.ask[k] + (IF k = item THEN units ELSE 0)
      BY <1>17, <2>2 DEF BuyerGoods, item
    <3>3. Change(offer, b, units, q, k) = (IF k = item THEN units ELSE 0) - offer.ask[k]
      BY <1>3, <2>2 DEF Change, item, s
    <3> QED
      BY <1>4, <2>1, <3>1, <3>2, <3>3
  <2>3. CASE q = s
    <3>1. e.escrow[q] = escrowNow /\ e.escrowTagged[q] = escrowTaggedNow
      BY <1>3, <1>8, <1>13, <2>3
    <3>2. e.held[q][k] = d.held[q][k] + offer.ask[k]
      BY <1>17, <2>3 DEF SellerGoods
    <3>3. Change(offer, b, units, q, k) = offer.ask[k] - (IF k = item THEN units ELSE 0)
      BY <1>3, <2>3 DEF Change, s, item
    <3>4. e.escrow[q][k] = IF k = item THEN d.escrow[q][k] - units ELSE d.escrow[q][k]
      BY <1>18, <2>3, <3>1
    <3>5. e.escrowTagged[q][k] = IF k = item THEN d.escrowTagged[q][k] - tags ELSE d.escrowTagged[q][k]
      BY <1>18, <2>3, <3>1
    <3>6. k = item => tags = Least(units, d.escrowTagged[q][k]) /\ units <= d.escrow[q][k]
      BY <1>10, <2>3
    <3> HIDE DEF tags
    <3> QED
      BY <1>4, <2>1, <3>2, <3>3, <3>4, <3>5, <3>6 DEF Least
  <2>4. CASE q # b /\ q # s
    <3>1. e.held[q] = d.held[q] /\ e.escrow[q] = d.escrow[q] /\ e.escrowTagged[q] = d.escrowTagged[q]
      BY <1>8, <1>13, <1>17, <2>4
    <3>2. Change(offer, b, units, q, k) = 0
      BY <2>4 DEF Change, s
    <3> QED
      BY <2>1, <3>1, <3>2
  <2> QED
    BY <2>2, <2>3, <2>4
<1>20. \E fill \in Fill : /\ fill.buyer = b /\ fill.action = action
                          /\ fill.createdAt = called /\ fill.at = at
                          /\ e.fills = Append(d.fills, fill)
  BY <1>6, <1>13
<1>21. \E x \in Receipt : /\ x.expiresAt = called + Retention
                          /\ e.processed = [d.processed EXCEPT ![b] = Recorded(@, action, x)]
  BY <1>7, <1>13 DEF processedNow
<1>22. e.held = Traded(d.held, b, offer, units) /\ e.offers[o] = AfterSale(offer, units)
  BY <1>13, <1>14 DEF heldNow, sold
<1>23. WithinArmory(Only(item, units), e.held[b]) /\ WithinArmory(offer.ask, e.held[s])
  BY <1>4, <1>17
<1>24. units \in 1..offer.left
  BY <1>3, <1>4
<1>25. Sells(d, e, b, o, units, action, called, at)
  BY <1>3, <1>4, <1>5, <1>11, <1>12, <1>15, <1>16, <1>19, <1>20, <1>21, <1>22, <1>23, <1>24 DEF Sells, offer, s, item, paid
<1> QED
  BY <1>12, <1>25

-----------------------------------------------------------------------------
(* Every step of the Board is one of these *)

\* The offer a buyer's open transaction is about is another player's.
NotOwn ==
  \A h \in Handlers :
    req[h] # None /\ req[h].step = "called" /\ req[h].op = "fill"
      => db.offers[req[h].offer].seller # req[h].who

\* Nothing but grids changes, and receipts whose time is over.
Quiet ==
  /\ db'.cash = db.cash /\ db'.held = db.held /\ db'.escrow = db.escrow
  /\ db'.escrowTagged = db.escrowTagged /\ db'.offers = db.offers /\ db'.fills = db.fills
  /\ \A p \in Players, a \in ActionIds :
       \/ db'.processed[p][a] = db.processed[p][a]
       \/ db.processed[p][a] # None /\ db.processed[p][a].expiresAt <= clock

\* A purchase under an action id that has no receipt, at this time.
Buys(d, p) ==
  \E b \in Players, o \in Posted(d), units \in Nat, action \in ActionIds \cup {None}, called \in Nat :
    /\ Sells(d, db', b, o, units, action, called, clock)
    /\ d.offers[o].seller = p
    /\ action # None => db.processed[b][action] = None

\* The transaction of h settles p first.
Runs(h, d, p) ==
  /\ Opened(h)
  /\ \E landing : d = Settled(db, p, req[h].round, req[h].now, landing)
  /\ \A g \in Handlers : g # h => req'[g] = req[g]

\* Settling p, then at most one other thing.
Trades(d, p) ==
  /\ Settles(db, d, p)
  /\ \E h \in Handlers : Runs(h, d, p)
  /\ \/ db' = d
     \/ \E o \in OfferIds : PutsUp(d, db', p, o)
     \/ \E o \in OfferIds : TakesDown(d, db', p, o)
     \/ Buys(d, p)

LEMMA SettlesDb ==
  ASSUME IInv, NEW h \in Handlers, req[h] # None, NEW p \in Players, NEW landing
  PROVE  Settles(db, Settled(db, p, req[h].round, req[h].now, landing), p)
<1>1. RowsInv(db) /\ req[h].now \in Nat
  BY RowsFromIInv, RequestTyped
<1> QED
  BY <1>1, SettledSettles

LEMMA QuietWhenSame == ASSUME db' = db PROVE Quiet
  BY DEF Quiet

LEMMA CommitAlone ==
  ASSUME IInv, NEW h \in Handlers, NEW d, Commit(h, d)
  PROVE  \A g \in Handlers : g # h => req'[g] = req[g]
  BY RowsFromIInv DEF Commit, Answered

LEMMA PostCases ==
  ASSUME IInv, NEW h \in Handlers, PostTx(h)
  PROVE  Quiet \/ \E d : \E p \in Players : Trades(d, p)
<1> DEFINE r == req[h]
<1>1. r # None /\ r.op = "post" /\ r.who \in Players /\ r.round \in Round /\ r.now \in Nat /\ r.form \in Listings
      /\ Opened(h)
  BY RequestTyped DEF PostTx, Ready, Carries, Opened
<1>2. PICK landing : LET d == Settled(db, r.who, r.round, r.now, landing)
                        free == OfferIds \ Posted(db)
                    IN  IF CanPost(d, r.who, r.form) /\ free # {}
                        THEN \E o \in free : Commit(h, WithPost(d, r.who, o, r.form, r.round, r.now))
                        ELSE Rollback(h)
  BY DEF PostTx
<1> DEFINE d == Settled(db, r.who, r.round, r.now, landing)
<1>3. /\ Settles(db, d, r.who)
      /\ \A e : Commit(h, e) => Runs(h, d, r.who)
  BY <1>1, SettlesDb, CommitAlone DEF Runs
<1>0. r = req[h]
  OBVIOUS
<1> HIDE DEF d, r
<1>4. CASE Rollback(h)
  BY <1>4, QuietWhenSame DEF Rollback, Commit
<1>5. ASSUME NEW o \in OfferIds \ Posted(db), CanPost(d, r.who, r.form),
             Commit(h, WithPost(d, r.who, o, r.form, r.round, r.now))
      PROVE  Trades(d, r.who)
  <2>1. RowsInv(d) /\ Posted(d) = Posted(db)
    BY <1>3 DEF Settles
  <2>2. PutsUp(d, WithPost(d, r.who, o, r.form, r.round, r.now), r.who, o)
    BY <1>1, <1>0, <1>5, <2>1, PostPutsUp
  <2>3. db' = WithPost(d, r.who, o, r.form, r.round, r.now)
    BY <1>5 DEF Commit
  <2> QED
    BY <1>3, <1>5, <2>2, <2>3 DEF Trades
<1> QED
  BY <1>1, <1>2, <1>4, <1>5 DEF d

LEMMA CancelCases ==
  ASSUME IInv, NEW h \in Handlers, CancelTx(h)
  PROVE  Quiet \/ \E d : \E p \in Players : Trades(d, p)
<1> DEFINE r == req[h]
<1>1. r # None /\ r.who \in Players /\ r.now \in Nat /\ Opened(h)
  BY RequestTyped DEF CancelTx, Ready, Opened
<1>2. PICK landing : LET d == Settled(db, r.who, r.round, r.now, landing)
                    IN  IF CanCancel(d, r.who, r.offer)
                        THEN Commit(h, WithCancel(d, r.who, r.offer, r.now))
                        ELSE Rollback(h)
  BY DEF CancelTx
<1> DEFINE d == Settled(db, r.who, r.round, r.now, landing)
           e == WithCancel(d, r.who, r.offer, r.now)
<1>3. /\ Settles(db, d, r.who)
      /\ \A x : Commit(h, x) => Runs(h, d, r.who)
  BY <1>1, SettlesDb, CommitAlone DEF Runs
<1> HIDE DEF d, r
<1>4. CASE Rollback(h)
  BY <1>4, QuietWhenSame DEF Rollback, Commit
<1>5. CASE CanCancel(d, r.who, r.offer) /\ Commit(h, e)
  <2>1. TakesDown(d, e, r.who, r.offer)
    BY <1>1, <1>3, <1>5, CancelTakesDown DEF Settles
  <2>2. db' = e
    BY <1>5 DEF Commit
  <2> HIDE DEF e
  <2>3. r.offer \in OfferIds
    BY <2>1 DEF TakesDown, Posted
  <2> QED
    BY <1>1, <1>3, <1>5, <2>1, <2>2, <2>3 DEF Trades
<1> QED
  BY <1>2, <1>4, <1>5 DEF d

LEMMA FillCases ==
  ASSUME IInv, NotOwn, NEW h \in Handlers, FillTx(h)
  PROVE  Quiet \/ \E d : \E p \in Players : Trades(d, p)
<1> DEFINE r == req[h]
           s == db.offers[r.offer].seller
<1>1. /\ r # None /\ r.who \in Players /\ r.now \in Nat /\ r.units \in Nat
      /\ r.action \in ActionIds \cup {None} /\ r.offer \in Posted(db)
      /\ s # r.who /\ Opened(h)
  BY RequestTyped DEF FillTx, Ready, Carries, NotOwn, Opened
<1>2. s \in Players /\ RowsInv(db) /\ clock \in Nat
  BY <1>1, RowsFromIInv, OffersTyped DEF RowsInv, Offer
<1>3. CASE Rollback(h)
  BY <1>3, QuietWhenSame DEF Rollback, Commit
<1>4. CASE ~Rollback(h)
  <2>1. PICK landing : LET d == Settled(db, s, r.round, r.now, landing)
                          units == UnitsWanted(d.offers[r.offer], r.units)
                      IN  \/ d.offers[r.offer].status # "OPEN" /\ Commit(h, d)
                          \/ /\ d.offers[r.offer].status = "OPEN"
                             /\ CanFill(d, r.who, r.offer, units)
                             /\ CanRecord(r.who, r.action)
                             /\ Commit(h, WithFill(d, r.who, r.offer, units, r.action, r.now, clock))
    <3>1. ~Replayed(r.who, r.action)
      BY <1>4 DEF FillTx
    <3>2. \E landing \in Landings(db, s, r.round, r.now) :
            LET d == Settled(db, s, r.round, r.now, landing)
                units == UnitsWanted(d.offers[r.offer], r.units)
            IN  IF d.offers[r.offer].status # "OPEN"
                THEN Commit(h, d)
                ELSE IF CanFill(d, r.who, r.offer, units) /\ CanRecord(r.who, r.action)
                THEN Commit(h, WithFill(d, r.who, r.offer, units, r.action, r.now, clock))
                ELSE Rollback(h)
      BY <3>1, Zenon DEF FillTx
    <3> QED
      BY <1>4, <3>2
  <2> DEFINE d == Settled(db, s, r.round, r.now, landing)
             units == UnitsWanted(d.offers[r.offer], r.units)
             e == WithFill(d, r.who, r.offer, units, r.action, r.now, clock)
  <2>2. /\ Settles(db, d, s)
        /\ \A x : Commit(h, x) => Runs(h, d, s)
    BY <1>1, <1>2, SettlesDb, CommitAlone DEF Runs
  <2>3. RowsInv(d) /\ Posted(d) = Posted(db) /\ d.offers[r.offer].seller = s
    BY <1>1, <2>2 DEF Settles, Lapses
  <2>4. units \in Nat
    <3>1. d.offers[r.offer].left \in Nat
      <4> HIDE DEF d
      <4> QED
        BY <1>1, <2>3, OffersTyped DEF RowsInv, Offer
    <3> HIDE DEF d
    <3> QED
      BY <1>1, <3>1 DEF UnitsWanted
  <2> HIDE DEF d, units, r, s
  <2>5. CASE Commit(h, d)
    BY <1>2, <2>2, <2>5 DEF Commit, Trades
  <2>6. CASE /\ d.offers[r.offer].status = "OPEN" /\ CanFill(d, r.who, r.offer, units)
             /\ CanRecord(r.who, r.action) /\ Commit(h, e)
    <3>1. Sells(d, e, r.who, r.offer, units, r.action, r.now, clock)
      BY <1>1, <1>2, <2>3, <2>4, <2>6, FillSells
    <3> HIDE DEF e
    <3>2. Buys(d, s)
      BY <1>1, <2>3, <2>4, <2>6, <3>1 DEF Buys, Commit, CanRecord
    <3> QED
      BY <1>2, <2>2, <2>6, <3>2 DEF Trades
  <2> QED
    BY <2>1, <2>5, <2>6 DEF d, units
<1> QED
  BY <1>3, <1>4

LEMMA MineCases ==
  ASSUME IInv, NEW h \in Handlers, MineTx(h)
  PROVE  Quiet \/ \E d : \E p \in Players : Trades(d, p)
<1>1. req[h] # None /\ req[h].who \in Players /\ Opened(h)
  BY RequestTyped DEF MineTx, Ready, Opened
<1>2. PICK landing : Commit(h, Settled(db, req[h].who, req[h].round, req[h].now, landing))
  BY DEF MineTx
<1> DEFINE d == Settled(db, req[h].who, req[h].round, req[h].now, landing)
<1>3. /\ Settles(db, d, req[h].who)
      /\ \A x : Commit(h, x) => Runs(h, d, req[h].who)
  BY <1>1, SettlesDb, CommitAlone DEF Runs
<1> HIDE DEF d
<1> QED
  BY <1>1, <1>2, <1>3 DEF d, Commit, Trades

LEMMA SweepCases ==
  ASSUME IInv, NEW h \in Handlers, SweepTx(h)
  PROVE  Quiet \/ \E d : \E p \in Players : Trades(d, p)
<1>1. req[h] # None /\ req[h].due \subseteq Players /\ Opened(h)
  BY RequestTyped DEF SweepTx, Ready, Opened
<1>2. PICK s \in req[h].due : \E landing : db' = Settled(db, s, req[h].round, req[h].now, landing)
  BY DEF SweepTx
<1>3. PICK landing : db' = Settled(db, s, req[h].round, req[h].now, landing)
  BY <1>2
<1>4. Settles(db, db', s)
  BY <1>1, <1>3, SettlesDb
<1>5. \A g \in Handlers : g # h => req'[g] = req[g]
  BY RowsFromIInv DEF SweepTx
<1>6. Runs(h, db', s)
  BY <1>1, <1>3, <1>5 DEF Runs
<1> QED
  BY <1>1, <1>4, <1>6 DEF Trades

LEMMA WorldCases == ASSUME IInv, World PROVE Quiet
<1>1. db \in Rows
  BY RowsFromIInv DEF RowsInv
<1>2. CASE db' = db
  BY <1>2, QuietWhenSame
<1>3. ASSUME NEW p \in Players, NEW kinds \in SUBSET Bulky, Rearrange(p, kinds) PROVE Quiet
  <2>1. db' = [db EXCEPT !.crowded = [@ EXCEPT ![p] = kinds]]
    BY <1>3 DEF Rearrange
  <2> QED
    BY <1>1, <2>1 DEF Quiet, Rows
<1>4. CASE Purge
  <2> DEFINE kept == [p \in Players |-> [a \in ActionIds |->
                        IF db.processed[p][a] # None /\ db.processed[p][a].expiresAt <= clock
                        THEN None ELSE db.processed[p][a]]]
  <2>1. db' = [db EXCEPT !.processed = kept]
    BY <1>4 DEF Purge
  <2>2. \A p \in Players, a \in ActionIds :
          \/ kept[p][a] = db.processed[p][a]
          \/ db.processed[p][a] # None /\ db.processed[p][a].expiresAt <= clock
    OBVIOUS
  <2> HIDE DEF kept
  <2> QED
    BY <1>1, <2>1, <2>2 DEF Quiet, Rows
<1> QED
  BY <1>2, <1>3, <1>4 DEF World, Tick, Pause, Resume

LEMMA StepCases ==
  ASSUME IInv, NotOwn, [Next]_vars
  PROVE  Quiet \/ \E d : \E p \in Players : Trades(d, p)
<1>1. CASE World
  BY <1>1, WorldCases
<1>2. CASE db' = db
  BY <1>2, QuietWhenSame
<1>3. ASSUME NEW h \in Handlers, Serves(h) PROVE Quiet \/ \E d : \E p \in Players : Trades(d, p)
  <2>1. CASE Call(h) \/ \E p \in Players : Lock(h, p)
    BY <2>1, QuietWhenSame DEF Call, Lock
  <2>2. CASE PostTx(h)
    BY <2>2, PostCases
  <2>3. CASE CancelTx(h)
    BY <2>3, CancelCases
  <2>4. CASE FillTx(h)
    BY <2>4, FillCases
  <2>5. CASE MineTx(h)
    BY <2>5, MineCases
  <2>6. CASE SweepTx(h)
    BY <2>6, SweepCases
  <2> QED
    BY <1>3, <2>1, <2>2, <2>3, <2>4, <2>5, <2>6 DEF Serves
<1>4. ASSUME NEW h \in Handlers, Asks(h) \/ Abort(h) PROVE db' = db
  BY <1>4 DEF Asks, AskPost, AskCancel, AskFill, AskMine, AskBook, Arrives, Abort, Rollback, Commit
<1> QED
  BY <1>1, <1>2, <1>3, <1>4 DEF Next, vars

\* An offer posted stays, with its seller and its fee.
LEMMA OffersKept ==
  ASSUME IInv, NotOwn, [Next]_vars, NEW o \in Posted(db)
  PROVE  /\ o \in Posted(db')
         /\ db'.offers[o].seller = db.offers[o].seller /\ db'.offers[o].fee = db.offers[o].fee
<1>0. RowsInv(db) /\ db \in Rows
  BY RowsFromIInv DEF RowsInv
<1>1. CASE Quiet
  BY <1>1 DEF Quiet, Posted
<1>2. ASSUME NEW p \in Players, NEW d, Trades(d, p)
      PROVE  /\ o \in Posted(db')
             /\ db'.offers[o].seller = db.offers[o].seller /\ db'.offers[o].fee = db.offers[o].fee
  <2>1. RowsInv(d) /\ o \in Posted(d) /\ d.offers[o].seller = db.offers[o].seller /\ d.offers[o].fee = db.offers[o].fee
    BY <1>2 DEF Trades, Settles, Lapses
  <2>2. CASE db' = d
    BY <2>1, <2>2
  <2>3. CASE \E x \in OfferIds : PutsUp(d, db', p, x)
    BY <2>1, <2>3 DEF PutsUp
  <2>4. CASE \E x \in OfferIds : TakesDown(d, db', p, x)
    BY <2>1, <2>4 DEF TakesDown
  <2>5. CASE Buys(d, p)
    <3>9. PICK action, called : \E b \in Players, x \in Posted(d), units \in Nat :
            Sells(d, db', b, x, units, action, called, clock)
      BY <2>5 DEF Buys
    <3>1. PICK b \in Players, x \in Posted(d), units \in Nat :
            Sells(d, db', b, x, units, action, called, clock)
      BY <3>9
    <3>2. d.offers[x] \in Offer
      BY <2>1, OffersTyped DEF RowsInv
    <3>3. AfterSale(d.offers[x], units).seller = d.offers[x].seller /\ AfterSale(d.offers[x], units).fee = d.offers[x].fee
      BY <3>2 DEF AfterSale, Offer
    <3> QED
      BY <2>1, <3>1, <3>3 DEF Sells
  <2> QED
    BY <1>2, <2>2, <2>3, <2>4, <2>5 DEF Trades
<1> QED
  BY <1>1, <1>2, StepCases

-----------------------------------------------------------------------------
(* Requests and row locks *)

\* A request just routed, with the round row as it is.
Fresh(r) == r.step = "routed" /\ r.round = round

\* What a step may make of a request.
ReqStep(h) ==
  \/ req'[h] = req[h] \/ req'[h] = None
  \/ req'[h] # None /\ Fresh(req'[h])
  \/ /\ req[h] # None /\ req[h].step = "routed" /\ ~Refused(h)
     /\ \E due : req'[h] = [req[h] EXCEPT !.step = "called", !.now = clock, !.due = due]
  \/ /\ req[h] # None /\ req[h].step = "called" /\ req[h].op = "book"
     /\ \E due : req'[h] = [req[h] EXCEPT !.due = due]

\* What a step may make of the rows a handler holds.
LockStep(h) ==
  \/ Locked(h)' = {}
  \/ Locked(h)' = Locked(h) /\ (req'[h] = req[h] \/ Locked(h) = {})
  \/ /\ req'[h] = req[h] /\ req[h] # None /\ req[h].step = "called" /\ db' = db
     /\ \E p \in Players : /\ Locked(h)' = Locked(h) \cup {p}
                           /\ p \in NextRows(h)

\* A handler with no transaction open holds no row.
Rested == \A h \in Handlers : req[h] = None \/ req[h].step = "routed" => Locked(h) = {}

LEMMA AnsweredSteps ==
  ASSUME IInv, NEW h \in Handlers, NEW g \in Handlers, Answered(h)
  PROVE  ReqStep(g) /\ LockStep(g)
<1>1. /\ req \in [Handlers -> Request \cup {None}] /\ lock \in [Players -> Handlers \cup {None}]
  BY RowsFromIInv
<1>2. /\ req' = [req EXCEPT ![h] = None]
      /\ lock' = [p \in Players |-> IF lock[p] = h THEN None ELSE lock[p]]
  BY DEF Answered
<1>3. h # None /\ g # None
  BY NoneAssumption
<1>4. req'[g] = IF g = h THEN None ELSE req[g]
  BY <1>1, <1>2
<1>5. \A p \in Players : lock'[p] = g <=> lock[p] = g /\ g # h
  BY <1>2, <1>3
<1>6. Locked(g)' = IF g = h THEN {} ELSE Locked(g)
  BY <1>5 DEF Locked
<1> QED
  BY <1>4, <1>6 DEF ReqStep, LockStep

LEMMA CommitSteps ==
  ASSUME IInv, NEW h \in Handlers, NEW g \in Handlers, NEW d, Commit(h, d)
  PROVE  ReqStep(g) /\ LockStep(g)
  BY AnsweredSteps DEF Commit

LEMMA UnlockedSteps ==
  ASSUME NEW g \in Handlers, lock' = lock, ReqStep(g), req'[g] = req[g] \/ Locked(g) = {}
  PROVE  LockStep(g)
  BY DEF LockStep, Locked

LEMMA SameRequest == ASSUME NEW g, req' = req PROVE ReqStep(g)
  BY DEF ReqStep

LEMMA ServesSteps ==
  ASSUME IInv, Rested, NEW h \in Handlers, Serves(h), NEW g \in Handlers
  PROVE  ReqStep(g) /\ LockStep(g)
<1>1. /\ req \in [Handlers -> Request \cup {None}] /\ lock \in [Players -> Handlers \cup {None}]
  BY RowsFromIInv
<1>2. CASE Call(h)
  <2>1. CASE Answered(h)
    BY <2>1, AnsweredSteps
  <2>2. CASE ~Answered(h)
    <3>1. /\ req[h] # None /\ req[h].step = "routed" /\ ~Refused(h) /\ lock' = lock
          /\ \E due : req' = [req EXCEPT ![h] = [req[h] EXCEPT !.step = "called", !.now = clock, !.due = due]]
      BY <1>2, <2>2 DEF Call
    <3>2. Locked(h) = {}
      BY <3>1 DEF Rested
    <3>3. ReqStep(g) /\ (g # h => req'[g] = req[g])
      <4>1. PICK due : req' = [req EXCEPT ![h] = [req[h] EXCEPT !.step = "called", !.now = clock, !.due = due]]
        BY <3>1
      <4> DEFINE next == [req[h] EXCEPT !.step = "called", !.now = clock, !.due = due]
      <4> HIDE DEF next
      <4>2. req'[g] = IF g = h THEN next ELSE req[g]
        BY <1>1, <4>1 DEF next
      <4> QED
        BY <3>1, <4>2 DEF ReqStep, next
    <3> QED
      BY <3>1, <3>2, <3>3, UnlockedSteps
  <2> QED
    BY <2>1, <2>2
<1>3. ASSUME NEW p \in Players, Lock(h, p) PROVE ReqStep(g) /\ LockStep(g)
  <2>1. /\ req' = req /\ db' = db /\ lock' = [lock EXCEPT ![p] = h]
        /\ req[h] # None /\ req[h].step = "called" /\ lock[p] = None
    BY <1>3 DEF Lock
  <2>2. p \in NextRows(h)
    BY <1>3 DEF Lock, NextRows
  <2>3. g # None
    BY NoneAssumption
  <2>4. Locked(g)' = IF g = h THEN Locked(g) \cup {p} ELSE Locked(g)
    BY <1>1, <2>1, <2>3 DEF Locked
  <2>5. LockStep(g)
    BY <2>1, <2>2, <2>4 DEF LockStep
  <2> QED
    BY <2>1, <2>5, SameRequest
<1>4. CASE PostTx(h)
  BY <1>4, CommitSteps DEF PostTx, Rollback
<1>5. CASE CancelTx(h)
  BY <1>5, CommitSteps DEF CancelTx, Rollback
<1>6. CASE FillTx(h)
  <2>1. \E d : Commit(h, d)
    BY <1>6 DEF FillTx, Rollback
  <2> QED
    BY <2>1, CommitSteps
<1>7. CASE MineTx(h)
  BY <1>7, CommitSteps DEF MineTx
<1>8. CASE SweepTx(h)
  <2>1. PICK s \in req[h].due :
          /\ Locked(h) = {s}
          /\ req' = [req EXCEPT ![h] = [req[h] EXCEPT !.due = @ \ {s}]]
          /\ lock' = [lock EXCEPT ![s] = None]
    BY <1>8 DEF SweepTx
  <2>2. req[h] # None /\ req[h].step = "called" /\ req[h].op = "book"
    BY <1>8 DEF SweepTx, Ready
  <2>3. \E due : req' = [req EXCEPT ![h] = [req[h] EXCEPT !.due = due]]
    BY <2>1
  <2>4. ReqStep(g) /\ (g # h => req'[g] = req[g])
    <3>1. PICK due : req' = [req EXCEPT ![h] = [req[h] EXCEPT !.due = due]]
      BY <2>3
    <3> DEFINE next == [req[h] EXCEPT !.due = due]
    <3> HIDE DEF next
    <3>2. req'[g] = IF g = h THEN next ELSE req[g]
      BY <1>1, <3>1 DEF next
    <3> QED
      BY <2>2, <3>2 DEF ReqStep, next
  <2>5. s \in Players /\ lock[s] = h /\ h # None /\ g # None
    BY <2>1, NoneAssumption DEF Locked
  <2>6. \A p \in Players : lock'[p] = g <=> lock[p] = g /\ p # s
    BY <1>1, <2>1, <2>5
  <2>7. Locked(g)' = Locked(g) \ {s}
    BY <2>6 DEF Locked
  <2>8. Locked(g)' = IF g = h THEN {} ELSE Locked(g)
    BY <2>1, <2>5, <2>7 DEF Locked
  <2> QED
    BY <2>4, <2>8 DEF LockStep
<1> QED
  BY <1>2, <1>3, <1>4, <1>5, <1>6, <1>7, <1>8 DEF Serves

LEMMA RequestSteps ==
  ASSUME IInv, Rested, [Next]_vars, NEW g \in Handlers
  PROVE  ReqStep(g) /\ LockStep(g)
<1>0. req \in [Handlers -> Request \cup {None}]
  BY RowsFromIInv
<1>1. CASE req' = req /\ lock' = lock
  BY <1>1, SameRequest, UnlockedSteps
<1>2. ASSUME NEW h \in Handlers, Serves(h) PROVE ReqStep(g) /\ LockStep(g)
  BY <1>2, ServesSteps
<1>3. ASSUME NEW h \in Handlers, Abort(h) PROVE ReqStep(g) /\ LockStep(g)
  BY <1>3, CommitSteps DEF Abort, Rollback
<1>4. ASSUME NEW h \in Handlers, NEW r \in Request, Fresh(r), Arrives(h, r)
      PROVE  ReqStep(g) /\ LockStep(g)
  <2>1. req[h] = None /\ req' = [req EXCEPT ![h] = r] /\ lock' = lock
    BY <1>4 DEF Arrives
  <2>2. Locked(h) = {} /\ r # None
    BY <2>1, NoneAssumption DEF Rested
  <2>3. ReqStep(g) /\ (g # h => req'[g] = req[g])
    BY <1>0, <1>4, <2>1, <2>2 DEF ReqStep, Fresh
  <2> QED
    BY <2>1, <2>2, <2>3, UnlockedSteps
<1>5. ASSUME NEW h \in Handlers, Asks(h) PROVE \E r \in Request : Fresh(r) /\ Arrives(h, r)
  <2>1. \A op \in Ops, p \in Players : Blank(op, p) \in Request /\ Fresh(Blank(op, p))
    BY BlankType DEF Blank, Fresh
  <2>2. ASSUME NEW p \in Players, NEW form \in Listings, AskPost(h, p, form)
        PROVE  \E r \in Request : Fresh(r) /\ Arrives(h, r)
    <3>1. [Blank("post", p) EXCEPT !.form = form] \in Request
          /\ Fresh([Blank("post", p) EXCEPT !.form = form])
      BY <2>1 DEF Request, Ops, Fresh
    <3> QED
      BY <2>2, <3>1 DEF AskPost
  <2>3. ASSUME NEW p \in Players, NEW o \in OfferIds, AskCancel(h, p, o)
        PROVE  \E r \in Request : Fresh(r) /\ Arrives(h, r)
    <3>1. [Blank("cancel", p) EXCEPT !.offer = o] \in Request
          /\ Fresh([Blank("cancel", p) EXCEPT !.offer = o])
      BY <2>1 DEF Request, Ops, Fresh
    <3> QED
      BY <2>3, <3>1 DEF AskCancel
  <2>4. ASSUME NEW p \in Players, NEW o \in OfferIds, NEW units \in 0..MaxUnits,
               NEW action \in ActionIds \cup {None}, AskFill(h, p, o, units, action)
        PROVE  \E r \in Request : Fresh(r) /\ Arrives(h, r)
    <3>1. units \in Nat
      OBVIOUS
    <3>2. Blank("fill", p) \in Request /\ Fresh(Blank("fill", p))
      BY <2>1 DEF Ops, Fresh
    <3>3. [Blank("fill", p) EXCEPT !.offer = o, !.units = units, !.action = action] \in Request
          /\ Fresh([Blank("fill", p) EXCEPT !.offer = o, !.units = units, !.action = action])
      BY <3>1, <3>2 DEF Request, Fresh
    <3> QED
      BY <2>4, <3>3 DEF AskFill
  <2>5. ASSUME NEW p \in Players, AskMine(h, p) \/ AskBook(h, p)
        PROVE  \E r \in Request : Fresh(r) /\ Arrives(h, r)
    BY <2>1, <2>5 DEF AskMine, AskBook, Ops
  <2> QED
    BY <1>5, <2>2, <2>3, <2>4, <2>5 DEF Asks
<1>6. World \/ UNCHANGED vars => req' = req /\ lock' = lock
  BY DEF World, Tick, Pause, Purge, Resume, Rearrange, vars
<1> QED
  BY <1>1, <1>2, <1>3, <1>4, <1>5, <1>6 DEF Next

\* A handler takes rows in id order: it holds none that comes after one it waits for.
Ordered == \A h \in Handlers : \A p \in NextRows(h), x \in Locked(h) : x < p

LEMMA NeedsKept ==
  ASSUME IInv, NotOwn, [Next]_vars, NEW h \in Handlers, req'[h] = req[h], req[h] # None
  PROVE  Needs(h)' = Needs(h)
<1>1. CASE req[h].op = "fill"
  <2>1. req[h].offer \in Posted(db)
    BY <1>1, RequestTyped DEF Carries
  <2>2. db'.offers[req[h].offer].seller = db.offers[req[h].offer].seller
    BY <2>1, OffersKept
  <2>3. Needs(h) = {{req[h].who, db.offers[req[h].offer].seller}}
    BY <1>1 DEF Needs
  <2>4. Needs(h)' = {{req'[h].who, db'.offers[req'[h].offer].seller}}
    BY <1>1 DEF Needs
  <2> QED
    BY <2>2, <2>3, <2>4
<1>2. CASE req[h].op # "fill"
  BY <1>2 DEF Needs
<1> QED
  BY <1>1, <1>2

\* All the row sets a request may need are one set, or each a single row.
OneOrSingle(needs) ==
  \A a, b \in needs : a \subseteq Players /\ (a = b \/ \E x, y : a = {x} /\ b = {y})

LEMMA NeedsShape ==
  ASSUME IInv, NEW h \in Handlers, req[h] # None
  PROVE  OneOrSingle(Needs(h))
<1> SUFFICES ASSUME NEW a \in Needs(h), NEW b \in Needs(h)
             PROVE  a \subseteq Players /\ (a = b \/ \E x, y : a = {x} /\ b = {y})
  BY DEF OneOrSingle
<1>1. /\ req[h].who \in Players /\ req[h].due \subseteq Players
  BY RequestTyped
<1>2. req[h].op = "fill" => db.offers[req[h].offer].seller \in Players
  BY RequestTyped, RowsFromIInv, OffersTyped DEF Carries, RowsInv, Offer
<1>3. CASE req[h].op = "fill"
  BY <1>1, <1>2, <1>3 DEF Needs
<1>4. CASE req[h].op = "book" /\ req[h].due # {}
  BY <1>1, <1>4 DEF Needs
<1>5. CASE req[h].op # "fill" /\ ~(req[h].op = "book" /\ req[h].due # {})
  BY <1>1, <1>5 DEF Needs
<1> QED
  BY <1>3, <1>4, <1>5

LEMMA OrderedNext ==
  ASSUME IInv, NotOwn, Rested, Ordered, [Next]_vars
  PROVE  Rested' /\ Ordered'
<1>1. ASSUME NEW h \in Handlers PROVE ReqStep(h) /\ LockStep(h)
  BY RequestSteps
<1>2. req \in [Handlers -> Request \cup {None}]
  BY RowsFromIInv
<1>3. ASSUME NEW h \in Handlers, req'[h] = None \/ req'[h].step = "routed" PROVE Locked(h)' = {}
  <2>1. CASE Locked(h) = {} /\ Locked(h)' = Locked(h)
    BY <2>1
  <2>2. CASE req'[h] = req[h]
    <3>1. Locked(h) = {} /\ (req[h] = None \/ req[h].step = "routed")
      BY <1>3, <2>2 DEF Rested
    <3>2. ~(req[h] # None /\ req[h].step = "called")
      BY <3>1
    <3> QED
      BY <1>1, <3>1, <3>2 DEF LockStep
  <2> QED
    BY <1>1, <2>1, <2>2 DEF LockStep
<1>4. ASSUME NEW h \in Handlers, NEW p \in NextRows(h)', NEW x \in Locked(h)' PROVE x < p
  <2>1. req'[h] = req[h] /\ req[h] # None /\ req[h].step = "called"
    <3>1. Locked(h)' # {}
      BY <1>4
    <3>2. req'[h] = req[h]
      BY <1>1, <3>1 DEF LockStep
    <3>3. req'[h] # None /\ req'[h].step = "called"
      BY <1>4 DEF NextRows
    <3> QED
      BY <3>2, <3>3
  <2>2. Needs(h)' = Needs(h)
    BY <2>1, NeedsKept
  <2>3. PICK need \in Needs(h) : /\ Locked(h)' \subseteq need /\ p \in need \ Locked(h)'
                                 /\ \A y \in need \ Locked(h)' : p <= y
    BY <2>1, <2>2 DEF NextRows
  <2>4. CASE Locked(h)' = Locked(h)
    <3>1. p \in NextRows(h)
      BY <2>1, <2>3, <2>4 DEF NextRows
    <3> QED
      BY <2>4, <3>1 DEF Ordered
  <2>5. CASE \E q \in Players : Locked(h)' = Locked(h) \cup {q} /\ q \in NextRows(h)
    <3>1. PICK q \in Players : Locked(h)' = Locked(h) \cup {q} /\ q \in NextRows(h)
      BY <2>5
    <3>2. PICK other \in Needs(h) : /\ Locked(h) \subseteq other /\ q \in other \ Locked(h)
                                    /\ \A y \in other \ Locked(h) : q <= y
      BY <3>1 DEF NextRows
    <3>3. need \subseteq Players /\ (need = other \/ \E y, z : need = {y} /\ other = {z})
      <4>1. OneOrSingle(Needs(h))
        BY <2>1, NeedsShape
      <4> QED
        BY <4>1 DEF OneOrSingle
    <3>4. q \in need /\ p \in need /\ p # q /\ p \notin Locked(h)
      BY <2>3, <3>1
    <3>5. need = other
      BY <3>3, <3>4
    <3>6. q <= p
      BY <3>2, <3>4, <3>5
    <3>7. x \in need /\ (x \in Locked(h) => x < q)
      BY <2>3, <3>1 DEF Ordered
    <3>8. p \in Nat /\ q \in Nat /\ x \in Nat
      BY <3>3, <3>4, <3>7, BoardAssumption
    <3> QED
      BY <3>1, <3>4, <3>6, <3>7, <3>8
  <2> QED
    BY <1>1, <1>4, <2>4, <2>5 DEF LockStep
<1> QED
  BY <1>3, <1>4 DEF Rested, Ordered

LEMMA Highest ==
  ASSUME NEW T, T \subseteq Players, T # {}
  PROVE  \E p \in T : \A q \in T : q <= p
<1> DEFINE above(p) == {q \in T : q > p}
           family == {above(p) : p \in T}
<1>1. family \subseteq SUBSET T /\ family # {}
  OBVIOUS
<1>2. IsFiniteSet(T)
  BY FS_Subset, BoardAssumption
<1>3. PICK x \in family : \A y \in family : y \subseteq x => y = x
  <2> HIDE DEF family, above
  <2> QED
    BY <1>1, <1>2, Smallest
<1>4. PICK p \in T : x = above(p)
  OBVIOUS
<1>5. ASSUME NEW q \in T, q > p PROVE FALSE
  <2>1. p \in Nat /\ q \in Nat /\ \A r \in T : r \in Nat
    BY BoardAssumption
  <2>2. \A r \in T : r > q => r > p
    BY <1>5, <2>1
  <2>3. above(q) \in family /\ above(q) \subseteq above(p)
    BY <2>2
  <2>4. q \in above(p) /\ q \notin above(q)
    BY <1>5, <2>1
  <2> QED
    BY <1>3, <1>4, <2>3, <2>4
<1> QED
  <2>1. \A q \in T : q \in Nat
    BY BoardAssumption
  <2> QED
    BY <1>5, <2>1

\* The rows of a circle would have a last one, and its holder waits for a later one.
LEMMA OrderedNoCircle == ASSUME IInv, Ordered PROVE NoLockCircle
<1> SUFFICES ASSUME NEW S \in SUBSET Handlers,
                    \A h \in S : \E p \in NextRows(h) : lock[p] \in S, S # {}
             PROVE  FALSE
  BY DEF NoLockCircle
<1> DEFINE T == {p \in Players : lock[p] \in S}
<1>1. \A h : NextRows(h) \subseteq Players
  BY DEF NextRows
<1>2. T # {} /\ T \subseteq Players
  BY <1>1
<1>3. PICK p \in T : \A q \in T : q <= p
  <2> HIDE DEF T
  <2> QED
    BY <1>2, Highest
<1>4. PICK q \in NextRows(lock[p]) : lock[q] \in S
  OBVIOUS
<1>5. q \in T /\ p \in Locked(lock[p]) /\ lock[p] \in Handlers
  BY <1>1, <1>4 DEF Locked
<1>6. p < q
  BY <1>5 DEF Ordered
<1> QED
  BY <1>2, <1>3, <1>5, <1>6, BoardAssumption

LEMMA NotOwnNext ==
  ASSUME IInv, NotOwn, Rested, [Next]_vars
  PROVE  NotOwn'
<1> SUFFICES ASSUME NEW h \in Handlers, req'[h] # None, req'[h].step = "called", req'[h].op = "fill"
             PROVE  db'.offers[req'[h].offer].seller # req'[h].who
  BY DEF NotOwn
<1>1. req \in [Handlers -> Request \cup {None}]
  BY RowsFromIInv
<1>2. CASE req'[h] = req[h]
  <2>1. req[h].offer \in Posted(db)
    BY <1>2, RequestTyped DEF Carries
  <2>2. db'.offers[req[h].offer].seller = db.offers[req[h].offer].seller
    BY <2>1, OffersKept
  <2>3. db.offers[req[h].offer].seller # req[h].who
    BY <1>2 DEF NotOwn
  <2> QED
    BY <1>2, <2>2, <2>3
<1>3. ASSUME req[h] # None, ~Refused(h),
             NEW due, req'[h] = [req[h] EXCEPT !.step = "called", !.now = clock, !.due = due]
      PROVE  db'.offers[req'[h].offer].seller # req'[h].who
  <2>1. req[h] \in Request
    BY <1>1, <1>3
  <2>2. req'[h].op = req[h].op /\ req'[h].offer = req[h].offer /\ req'[h].who = req[h].who
    BY <1>3, <2>1 DEF Request
  <2>3. req[h].op = "fill"
    BY <2>2
  <2>4. req[h].offer \in Posted(db)
    BY <1>3, <2>3, RequestTyped DEF Carries
  <2>5. db'.offers[req[h].offer].seller = db.offers[req[h].offer].seller
    BY <2>4, OffersKept
  <2>6. db.offers[req[h].offer].seller # req[h].who
    BY <1>3, <2>3 DEF Refused
  <2> QED
    BY <2>2, <2>5, <2>6
<1>4. ASSUME req[h] # None, req[h].op = "book", NEW due, req'[h] = [req[h] EXCEPT !.due = due]
      PROVE  FALSE
  <2>1. req[h] \in Request
    BY <1>1, <1>4
  <2>2. req'[h].op = "book"
    BY <1>4, <2>1 DEF Request
  <2> QED
    BY <2>2
<1>5. ReqStep(h)
  BY RequestSteps
<1> QED
  BY <1>2, <1>3, <1>4, <1>5 DEF ReqStep, Fresh

LEMMA ClockGrows == ASSUME IInv, [Next]_vars PROVE clock' \in Nat /\ clock <= clock'
<1>1. clock \in Nat
  BY RowsFromIInv
<1>2. ASSUME NEW h \in Handlers, Asks(h) \/ Serves(h) \/ Abort(h) PROVE clock' = clock
  <2>1. CASE Asks(h)
    BY <2>1 DEF Asks, AskPost, AskCancel, AskFill, AskMine, AskBook, Arrives
  <2>2. CASE Call(h) \/ (\E p \in Players : Lock(h, p)) \/ SweepTx(h) \/ MineTx(h) \/ Abort(h)
    BY <2>2 DEF Call, Lock, SweepTx, MineTx, Abort, Rollback, Commit
  <2>3. CASE PostTx(h) \/ CancelTx(h)
    BY <2>3 DEF PostTx, CancelTx, Rollback, Commit
  <2>4. CASE FillTx(h)
    BY <2>4 DEF FillTx, Rollback, Commit
  <2> QED
    BY <1>2, <2>1, <2>2, <2>3, <2>4 DEF Serves
<1>3. World => clock' = clock \/ clock' = clock + 1
  BY DEF World, Tick, Pause, Purge, Resume, Rearrange
<1> QED
  BY <1>1, <1>2, <1>3 DEF Next, vars

-----------------------------------------------------------------------------
(* Tags, receipts and cash, step by step *)

LEMMA TagsNext ==
  ASSUME IInv, NotOwn, TagsWithinEscrow, [Next]_vars
  PROVE  TagsWithinEscrow'
<1>1. CASE Quiet
  BY <1>1 DEF Quiet, TagsWithinEscrow
<1>2. ASSUME NEW p \in Players, NEW d, Trades(d, p) PROVE TagsWithinEscrow'
  <2>1. \A q \in Players, k \in Items : d.escrowTagged[q][k] <= d.escrow[q][k]
    BY <1>2 DEF Trades, Settles, GoodsKept, TagsWithinEscrow
  <2>2. \A q \in Players, k \in Items :
          d.escrowTagged[q][k] <= d.escrow[q][k] => db'.escrowTagged[q][k] <= db'.escrow[q][k]
    <3>1. CASE db' = d
      BY <3>1
    <3>2. CASE \E o \in OfferIds : PutsUp(d, db', p, o) \/ TakesDown(d, db', p, o)
      BY <3>2 DEF PutsUp, TakesDown, GoodsKept
    <3>3. CASE Buys(d, p)
      BY <3>3 DEF Buys, Sells
    <3> QED
      BY <1>2, <3>1, <3>2, <3>3 DEF Trades
  <2> QED
    BY <2>1, <2>2 DEF TagsWithinEscrow
<1> QED
  BY <1>1, <1>2, StepCases

\* A purchase under an action id keeps its receipt for as long as it counts.
Receipted ==
  \A i \in DOMAIN db.fills :
    LET fill == db.fills[i]
        receipt == db.processed[fill.buyer][fill.action]
    IN  fill.action # None =>
          \/ fill.createdAt + Retention <= clock
          \/ receipt # None /\ fill.createdAt + Retention <= receipt.expiresAt

LEMMA FillTyped ==
  ASSUME NEW d \in Rows, NEW i \in DOMAIN d.fills
  PROVE  /\ d.fills[i] \in Fill
         /\ d.fills[i].buyer \in Players /\ d.fills[i].action \in ActionIds \cup {None}
         /\ d.fills[i].createdAt + Retention \in Nat
<1>1. d.fills \in Seq(Fill)
  BY DEF Rows
<1>2. d.fills[i] \in Fill
  BY <1>1
<1>3. Retention \in Nat
  BY BoardAssumption
<1> QED
  BY <1>2, <1>3 DEF Fill

\* What a purchase adds to the fills and the receipts.
Records(b, action, fill, receipt) ==
  /\ action # None => db.processed[b][action] = None
  /\ fill.buyer = b /\ fill.action = action /\ fill.at = clock
  /\ receipt.expiresAt = fill.createdAt + Retention
  /\ db'.fills = Append(db.fills, fill)
  /\ db'.processed = [db.processed EXCEPT ![b] = Recorded(@, action, receipt)]

LEMMA BuysOne ==
  ASSUME IInv, NEW p \in Players, NEW d, Settles(db, d, p), Buys(d, p)
  PROVE  \E b \in Players, action \in ActionIds \cup {None}, fill \in Fill, receipt \in Receipt :
           Records(b, action, fill, receipt)
<1>1. PICK b \in Players, o \in Posted(d), units \in Nat, action \in ActionIds \cup {None}, called \in Nat :
        /\ Sells(d, db', b, o, units, action, called, clock)
        /\ action # None => d.processed[b][action] = None
  BY DEF Buys, Settles
<1>2. d.fills = db.fills /\ d.processed = db.processed
  BY DEF Settles
<1>3. PICK fill \in Fill : /\ fill.buyer = b /\ fill.action = action
                           /\ fill.createdAt = called /\ fill.at = clock
                           /\ db'.fills = Append(d.fills, fill)
  BY <1>1 DEF Sells
<1>4. PICK receipt \in Receipt : /\ receipt.expiresAt = called + Retention
                                 /\ db'.processed = [d.processed EXCEPT ![b] = Recorded(@, action, receipt)]
  BY <1>1 DEF Sells
<1>5. Records(b, action, fill, receipt)
  BY <1>1, <1>2, <1>3, <1>4 DEF Records
<1> QED
  BY <1>5

LEMMA ReceiptedNext ==
  ASSUME IInv, NotOwn, Receipted, FilledOncePerAction, [Next]_vars
  PROVE  Receipted' /\ FilledOncePerAction'
<1>0. /\ db \in Rows /\ clock \in Nat /\ clock' \in Nat /\ clock <= clock'
      /\ db.processed \in [Players -> [ActionIds -> Receipt \cup {None}]] /\ db.fills \in Seq(Fill)
      /\ \A x \in Receipt : x.expiresAt \in Nat
      /\ None \notin ActionIds /\ None \notin Receipt
  BY RowsFromIInv, ClockGrows, NoneAssumption DEF RowsInv, Rows, Receipt
<1>1. CASE db'.fills = db.fills /\ \A p \in Players, a \in ActionIds :
             \/ db'.processed[p][a] = db.processed[p][a]
             \/ db.processed[p][a] # None /\ db.processed[p][a].expiresAt <= clock
  <2>1. FilledOncePerAction'
    BY <1>1 DEF FilledOncePerAction
  <2>2. ASSUME NEW i \in DOMAIN db.fills, db.fills[i].action # None
        PROVE  \/ db.fills[i].createdAt + Retention <= clock'
               \/ /\ db'.processed[db.fills[i].buyer][db.fills[i].action] # None
                  /\ db.fills[i].createdAt + Retention
                       <= db'.processed[db.fills[i].buyer][db.fills[i].action].expiresAt
    <3> DEFINE fill == db.fills[i]
               b == fill.buyer
               a == fill.action
               till == fill.createdAt + Retention
    <3>1. b \in Players /\ a \in ActionIds /\ till \in Nat
      BY <1>0, <2>2, FillTyped
    <3>2. till <= clock \/ (db.processed[b][a] # None /\ till <= db.processed[b][a].expiresAt)
      BY <2>2 DEF Receipted
    <3>3. db.processed[b][a] # None => db.processed[b][a].expiresAt \in Nat
      BY <1>0, <3>1
    <3> HIDE DEF b, a, till, fill
    <3>4. till <= clock' \/ (db'.processed[b][a] # None /\ till <= db'.processed[b][a].expiresAt)
      BY <1>0, <1>1, <3>1, <3>2, <3>3
    <3> QED
      BY <3>4 DEF b, a, till, fill
  <2> QED
    BY <1>1, <2>1, <2>2 DEF Receipted
<1>2. ASSUME NEW p \in Players, NEW d, Settles(db, d, p), Buys(d, p)
      PROVE  Receipted' /\ FilledOncePerAction'
  <2>1. PICK b \in Players, action \in ActionIds \cup {None}, new \in Fill, receipt \in Receipt :
           Records(b, action, new, receipt)
    BY <1>2, BuysOne
  <2>a. /\ action # None => db.processed[b][action] = None
        /\ new.buyer = b /\ new.action = action /\ new.at = clock
        /\ receipt.expiresAt = new.createdAt + Retention
        /\ db'.fills = Append(db.fills, new)
        /\ db'.processed = [db.processed EXCEPT ![b] = Recorded(@, action, receipt)]
    BY <2>1 DEF Records
  <2> DEFINE n == Len(db.fills) + 1
  <2>2. /\ DOMAIN db'.fills = DOMAIN db.fills \cup {n} /\ db'.fills[n] = new
        /\ n \in Nat /\ \A i \in DOMAIN db.fills : db'.fills[i] = db.fills[i] /\ i \in Nat /\ i < n
    BY <1>0, <2>a
  <2> HIDE DEF n
  <2>3. \A q \in Players, a \in ActionIds :
          db'.processed[q][a] = IF q = b /\ a = action THEN receipt ELSE db.processed[q][a]
    BY <1>0, <2>a DEF Recorded
  <2>4. ASSUME NEW i \in DOMAIN db.fills, db.fills[i].action # None
        PROVE  /\ \/ db.fills[i].createdAt + Retention <= clock
                  \/ /\ db'.processed[db.fills[i].buyer][db.fills[i].action] # None
                     /\ db.fills[i].createdAt + Retention
                          <= db'.processed[db.fills[i].buyer][db.fills[i].action].expiresAt
               /\ db.fills[i].buyer = b /\ db.fills[i].action = action
                    => db.fills[i].createdAt + Retention <= clock
    <3>1. db.fills[i].buyer \in Players /\ db.fills[i].action \in ActionIds
      BY <1>0, <2>4, FillTyped
    <3> QED
      BY <2>a, <2>3, <2>4, <3>1 DEF Receipted
  <2>5. Receipted'
    <3> SUFFICES ASSUME NEW i \in DOMAIN db'.fills, db'.fills[i].action # None
                 PROVE  \/ db'.fills[i].createdAt + Retention <= clock'
                        \/ /\ db'.processed[db'.fills[i].buyer][db'.fills[i].action] # None
                           /\ db'.fills[i].createdAt + Retention
                                <= db'.processed[db'.fills[i].buyer][db'.fills[i].action].expiresAt
      BY DEF Receipted
    <3>1. CASE i = n
      <4>1. db'.processed[b][action] = receipt /\ receipt # None
        BY <1>0, <2>a, <2>2, <2>3, <3>1
      <4>2. new.createdAt + Retention \in Nat
        BY BoardAssumption DEF Fill
      <4> QED
        BY <2>a, <2>2, <3>1, <4>1, <4>2
    <3>2. CASE i \in DOMAIN db.fills
      <4>1. db.fills[i].createdAt + Retention \in Nat
        BY <1>0, <3>2, FillTyped
      <4> QED
        BY <1>0, <2>2, <2>4, <3>2, <4>1
    <3> QED
      BY <2>2, <3>1, <3>2
  <2>6. FilledOncePerAction'
    <3> SUFFICES ASSUME NEW i \in DOMAIN db'.fills, NEW j \in DOMAIN db'.fills, i < j,
                        db'.fills[i].buyer = db'.fills[j].buyer,
                        db'.fills[i].action = db'.fills[j].action, db'.fills[i].action # None
                 PROVE  db'.fills[j].at >= db'.fills[i].createdAt + Retention
      BY DEF FilledOncePerAction
    <3>1. CASE j \in DOMAIN db.fills
      <4>1. i \in DOMAIN db.fills
        BY <2>2, <3>1, <1>0
      <4> QED
        BY <2>2, <3>1, <4>1 DEF FilledOncePerAction
    <3>2. CASE j = n
      <4>1. i \in DOMAIN db.fills
        BY <2>2, <3>2
      <4>2. db.fills[i].createdAt + Retention \in Nat
        BY <1>0, <4>1, FillTyped
      <4> QED
        BY <1>0, <2>a, <2>2, <2>4, <3>2, <4>1, <4>2
    <3> QED
      BY <2>2, <3>1, <3>2
  <2> QED
    BY <2>5, <2>6
<1>3. CASE Quiet
  BY <1>1, <1>3 DEF Quiet
<1>4. ASSUME NEW p \in Players, NEW d, Trades(d, p) PROVE Receipted' /\ FilledOncePerAction'
  <2>1. d.fills = db.fills /\ d.processed = db.processed
    BY <1>4 DEF Trades, Settles
  <2>2. CASE db' = d \/ \E o \in OfferIds : PutsUp(d, db', p, o) \/ TakesDown(d, db', p, o)
    BY <1>1, <2>1, <2>2 DEF PutsUp, TakesDown
  <2> QED
    BY <1>2, <1>4, <2>2 DEF Trades
<1> QED
  BY <1>3, <1>4, StepCases

Fees(d) == [o \in Posted(d) |-> d.offers[o].fee]

\* All cash and the fees deleted so far.
Total(d) == Sum(d.cash, Players) + Sum(Fees(d), Posted(d))

LEMMA CashSums ==
  ASSUME NEW d \in Rows
  PROVE  /\ SumFunction(d.cash) + SumFunction(Fees(d)) = Total(d)
         /\ Ints(d.cash, Players) /\ Ints(Fees(d), Posted(d))
         /\ IsFiniteSet(Players) /\ IsFiniteSet(Posted(d))
         /\ Sum(d.cash, Players) \in Int /\ Sum(Fees(d), Posted(d)) \in Int
<1>1. d.cash \in [Players -> Nat]
  BY DEF Rows
<1>2. Ints(d.cash, Players)
  BY <1>1 DEF Ints
<1>3. \A o \in Posted(d) : d.offers[o].fee \in Int
  BY OffersTyped DEF Offer
<1>4. Ints(Fees(d), Posted(d))
  BY <1>3 DEF Ints, Fees
<1>5. IsFiniteSet(Players) /\ IsFiniteSet(Posted(d))
  BY BoardAssumption, FS_Subset DEF Posted
<1>6. DOMAIN d.cash = Players /\ DOMAIN Fees(d) = Posted(d)
  BY <1>1 DEF Fees
<1>7. SumFunction(d.cash) = Sum(d.cash, Players) /\ SumFunction(Fees(d)) = Sum(Fees(d), Posted(d))
  BY <1>6 DEF SumFunction, Sum
<1>8. Sum(d.cash, Players) \in Int /\ Sum(Fees(d), Posted(d)) \in Int
  BY <1>2, <1>4, <1>5, SumInt
<1> QED
  BY <1>2, <1>4, <1>5, <1>7, <1>8 DEF Total

LEMMA SameFees ==
  ASSUME NEW d, NEW e, Posted(e) = Posted(d), \A o \in Posted(d) : e.offers[o].fee = d.offers[o].fee,
         e.cash = d.cash
  PROVE  Total(e) = Total(d)
<1>1. Fees(e) = Fees(d)
  BY DEF Fees
<1> QED
  BY <1>1 DEF Total

LEMMA PutsUpTotal ==
  ASSUME NEW d \in Rows, NEW e \in Rows, NEW p \in Players, NEW o, PutsUp(d, e, p, o)
  PROVE  Total(e) = Total(d)
<1> DEFINE fee == e.offers[o].fee
<1>1. /\ o \in OfferIds \ Posted(d) /\ Posted(e) = Posted(d) \cup {o}
      /\ e.cash = [d.cash EXCEPT ![p] = @ - fee]
      /\ \A x \in Posted(d) : e.offers[x] = d.offers[x]
  BY DEF PutsUp
<1>2. fee \in Nat /\ d.cash \in [Players -> Nat]
  BY DEF PutsUp, Offer, Rows
<1> HIDE DEF fee
<1>3. e.cash[p] = d.cash[p] - fee /\ \A q \in Players \ {p} : d.cash[q] = e.cash[q]
  BY <1>1, <1>2
<1>4. Sum(e.cash, Players) = Sum(d.cash, Players) - d.cash[p] + e.cash[p]
  BY <1>3, CashSums, SumChange
<1>5. Sum(Fees(e), Posted(e)) = Fees(e)[o] + Sum(Fees(e), Posted(d))
  <2>1. IsFiniteSet(Posted(d)) /\ o \notin Posted(d) /\ Ints(Fees(e), Posted(d) \cup {o})
    BY <1>1, CashSums
  <2>2. Sum(Fees(e), Posted(d) \cup {o}) = Fees(e)[o] + Sum(Fees(e), Posted(d))
    BY <2>1, SumAdd
  <2> QED
    BY <1>1, <2>2
<1>6. Sum(Fees(e), Posted(d)) = Sum(Fees(d), Posted(d))
  <2>1. \A x \in Posted(d) : Fees(e)[x] = Fees(d)[x]
    BY <1>1 DEF Fees
  <2> QED
    BY <2>1, CashSums, SumSame
<1>7. Fees(e)[o] = fee
  BY <1>1 DEF Fees, fee
<1>8. Sum(d.cash, Players) \in Int /\ Sum(Fees(d), Posted(d)) \in Int /\ d.cash[p] \in Int
  BY <1>2, CashSums
<1> QED
  BY <1>2, <1>3, <1>4, <1>5, <1>6, <1>7, <1>8 DEF Total

LEMMA SellsTotal ==
  ASSUME NEW d \in Rows, NEW e \in Rows, NEW b, NEW o, NEW units, NEW action, NEW called, NEW at,
         Sells(d, e, b, o, units, action, called, at)
  PROVE  Total(e) = Total(d)
<1> DEFINE s == d.offers[o].seller
           paid == d.offers[o].price * units
           mid == [d.cash EXCEPT ![b] = @ - paid]
<1>1. /\ o \in Posted(d) /\ Posted(e) = Posted(d) /\ b \in Players /\ b # s
      /\ paid \in Nat /\ paid <= d.cash[b]
      /\ e.cash = [d.cash EXCEPT ![b] = @ - paid, ![s] = @ + paid]
      /\ e.offers[o] = AfterSale(d.offers[o], units)
      /\ \A x \in Posted(d) : x # o => e.offers[x] = d.offers[x]
  BY DEF Sells
<1>2. d.cash \in [Players -> Nat] /\ d.offers[o] \in Offer /\ s \in Players
  BY <1>1, OffersTyped DEF Rows, Offer
<1>3. \A x \in Posted(d) : e.offers[x].fee = d.offers[x].fee
  BY <1>1, <1>2 DEF AfterSale, Offer
<1> HIDE DEF s, paid
<1>4. /\ mid[b] = d.cash[b] - paid /\ \A q \in Players \ {b} : d.cash[q] = mid[q]
      /\ e.cash[s] = mid[s] + paid /\ \A q \in Players \ {s} : mid[q] = e.cash[q]
      /\ Ints(mid, Players)
  BY <1>1, <1>2 DEF Ints
<1> HIDE DEF mid
<1>5. Sum(mid, Players) = Sum(d.cash, Players) - d.cash[b] + mid[b] /\ Sum(mid, Players) \in Int
  BY <1>1, <1>4, CashSums, SumChange
<1>6. Sum(e.cash, Players) = Sum(mid, Players) - mid[s] + e.cash[s]
  BY <1>2, <1>4, CashSums, SumChange
<1>7. Sum(e.cash, Players) = Sum(d.cash, Players)
  <2>1. Sum(d.cash, Players) \in Int /\ d.cash[b] \in Int /\ mid[s] \in Int
    BY <1>1, <1>2, <1>4, CashSums DEF Ints
  <2> QED
    BY <1>1, <1>4, <1>5, <1>6, <2>1
<1>8. Fees(e) = Fees(d)
  BY <1>1, <1>3 DEF Fees
<1> QED
  BY <1>1, <1>7, <1>8 DEF Total

LEMMA CashNext ==
  ASSUME IInv, NotOwn, CashAccounted, [Next]_vars
  PROVE  CashAccounted'
<1>0. db \in Rows /\ db' \in Rows
  BY NextIInv, RowsFromIInv, RowsFromIInvNext DEF RowsInv
<1>1. Total(db') = Total(db)
  <2>1. CASE Quiet
    <3>1. Posted(db') = Posted(db)
      BY <2>1 DEF Quiet, Posted
    <3> QED
      BY <2>1, <3>1, SameFees DEF Quiet
  <2>2. ASSUME NEW p \in Players, NEW d, Trades(d, p) PROVE Total(db') = Total(db)
    <3>1. Total(d) = Total(db) /\ d \in Rows
      BY <2>2, SameFees DEF Trades, Settles, Lapses, RowsInv
    <3>2. CASE db' = d
      BY <3>1, <3>2
    <3>3. CASE \E o \in OfferIds : PutsUp(d, db', p, o)
      BY <1>0, <3>1, <3>3, PutsUpTotal
    <3>4. ASSUME NEW o \in OfferIds, TakesDown(d, db', p, o) PROVE Total(db') = Total(db)
      <4>1. /\ Posted(db') = Posted(d) /\ db'.cash = d.cash
            /\ \A x \in Posted(d) : db'.offers[x].fee = d.offers[x].fee
        BY <3>4 DEF TakesDown
      <4> QED
        BY <3>1, <4>1, SameFees
    <3>5. CASE Buys(d, p)
      BY <1>0, <3>1, <3>5, SellsTotal DEF Buys
    <3> QED
      BY <2>2, <3>2, <3>3, <3>4, <3>5, <3>1 DEF Trades
  <2> QED
    BY <2>1, <2>2, StepCases
<1>2. SumFunction(db.cash) + SumFunction(Fees(db)) = Total(db)
      /\ SumFunction(db'.cash) + SumFunction(Fees(db')) = Total(db')
  BY <1>0, CashSums
<1> QED
  BY <1>1, <1>2 DEF CashAccounted, Fees

LEMMA CashInit == Init => CashAccounted
<1> SUFFICES ASSUME Init PROVE CashAccounted
  OBVIOUS
<1>1. db.cash = StartCash /\ Posted(db) = {}
  BY DEF Init, Posted
<1>2. [o \in Posted(db) |-> db.offers[o].fee] = Fees(db) /\ DOMAIN Fees(db) = {}
  BY <1>1 DEF Fees
<1>3. SumFunction(Fees(db)) = 0
  BY <1>2, SumEmpty DEF SumFunction, Sum
<1>4. SumFunction(db.cash) \in Int
  <2>1. DOMAIN StartCash = Players /\ Ints(StartCash, Players) /\ IsFiniteSet(Players)
    BY BoardAssumption DEF Ints
  <2>2. Sum(StartCash, Players) \in Int
    BY <2>1, SumInt
  <2> QED
    BY <1>1, <2>1, <2>2 DEF SumFunction, Sum
<1> QED
  BY <1>1, <1>2, <1>3, <1>4 DEF CashAccounted

\* What a closed offer may become.
LEMMA ClosedStep ==
  ASSUME IInv, NotOwn, [Next]_vars, NEW o \in Posted(db), db.offers[o].status # "OPEN"
  PROVE  /\ db'.offers[o].status = db.offers[o].status
         /\ db'.offers[o].left = db.offers[o].left
         /\ db.offers[o].returnedAt # None => db'.offers[o].returnedAt = db.offers[o].returnedAt
<1>1. CASE Quiet
  BY <1>1 DEF Quiet
<1>2. ASSUME NEW p \in Players, NEW d, Trades(d, p)
      PROVE  /\ db'.offers[o].status = db.offers[o].status
             /\ db'.offers[o].left = db.offers[o].left
             /\ db.offers[o].returnedAt # None => db'.offers[o].returnedAt = db.offers[o].returnedAt
  <2>1. d.offers[o] = db.offers[o] \/ Lapses(db.offers[o], d.offers[o], p)
    BY <1>2 DEF Trades, Settles
  <2>2. /\ d.offers[o].status = db.offers[o].status /\ d.offers[o].left = db.offers[o].left
        /\ db.offers[o].returnedAt # None => d.offers[o].returnedAt = db.offers[o].returnedAt
    BY <2>1 DEF Lapses, InEscrow
  <2>3. Posted(d) = Posted(db) /\ d.offers[o].status # "OPEN"
    BY <1>2, <2>2 DEF Trades, Settles
  <2>4. db'.offers[o] = d.offers[o]
    <3>1. CASE db' = d
      BY <3>1
    <3>2. CASE \E x \in OfferIds : PutsUp(d, db', p, x) \/ TakesDown(d, db', p, x)
      BY <2>3, <3>2 DEF PutsUp, TakesDown
    <3>3. CASE Buys(d, p)
      BY <2>3, <3>3 DEF Buys, Sells
    <3> QED
      BY <1>2, <3>1, <3>2, <3>3 DEF Trades
  <2> QED
    BY <2>2, <2>4
<1> QED
  BY <1>1, <1>2, StepCases

\* All p owns, escrow included.
Holdings(d, p) == [k \in Items |-> d.held[p][k] + d.escrow[p][k]]

LEMMA OwnedSum ==
  ASSUME NEW d \in Rows, NEW p \in Players
  PROVE  /\ ArmoryUnits(d.held[p]) + ArmoryUnits(d.escrow[p]) = Sum(Holdings(d, p), Armory)
         /\ IsFiniteSet(Armory) /\ Armory \subseteq Items /\ Ints(Holdings(d, p), Armory)
<1>1. IsFiniteSet(Armory) /\ Armory \subseteq Items
  BY FS_Subset, BoardAssumption
<1>2. d.held[p] \in Goods /\ d.escrow[p] \in Goods
  BY DEF Rows
<1>3. /\ Ints(d.held[p], Armory) /\ Ints(d.escrow[p], Armory) /\ Ints(Holdings(d, p), Armory)
      /\ \A k \in Armory : Holdings(d, p)[k] = d.held[p][k] + d.escrow[p][k]
  BY <1>1, <1>2 DEF Ints, Goods, Holdings
<1>4. Sum(Holdings(d, p), Armory) = Sum(d.held[p], Armory) + Sum(d.escrow[p], Armory)
  BY <1>1, <1>3, SumPlus
<1> QED
  BY <1>1, <1>3, <1>4 DEF ArmoryUnits, Sum

LEMMA OwnedSame ==
  ASSUME NEW d, NEW e, GoodsKept(d, e), NEW p \in Players
  PROVE  Holdings(e, p) = Holdings(d, p)
  BY DEF GoodsKept, Holdings

\* Whoever owns more of the armory's goods after a sale was held to its capacity.
LEMMA SellsArmory ==
  ASSUME NEW d \in Rows, NEW e \in Rows, NEW b, NEW o, NEW units, NEW action, NEW called, NEW at,
         Sells(d, e, b, o, units, action, called, at), NEW p \in Players,
         Sum(Holdings(e, p), Armory) > Sum(Holdings(d, p), Armory)
  PROVE  ArmoryUnits(e.held[p]) <= ArmoryCap
<1> DEFINE offer == d.offers[o]
           s == offer.seller
<1>1. o \in Posted(d) /\ b # s /\ units \in 1..offer.left
  BY DEF Sells
<1>2. offer \in Offer /\ offer.item \in Items /\ offer.ask \in Goods /\ offer.left \in Nat
  BY <1>1, OffersTyped DEF Offer
<1>3. units \in Nat \ {0}
  BY <1>1, <1>2
<1>4. IsFiniteSet(Armory) /\ Armory \subseteq Items /\ Ints(Holdings(e, p), Armory) /\ Ints(Holdings(d, p), Armory)
  BY OwnedSum
<1>5. PICK k \in Armory : ~(Holdings(e, p)[k] <= Holdings(d, p)[k])
  <2>1. Sum(Holdings(e, p), Armory) \in Int /\ Sum(Holdings(d, p), Armory) \in Int
    BY <1>4, SumInt
  <2>2. ~(Sum(Holdings(e, p), Armory) <= Sum(Holdings(d, p), Armory))
    BY <2>1
  <2> QED
    BY <1>4, <2>2, SumMono
<1>6. Holdings(e, p)[k] = Holdings(d, p)[k] + Change(offer, b, units, p, k)
  BY <1>4 DEF Sells, Holdings
<1>7. offer.ask[k] \in Nat /\ Holdings(d, p)[k] \in Int /\ k \in Items
  BY <1>2, <1>4 DEF Goods, Ints
<1>8. WithinArmory(Only(offer.item, units), e.held[b]) /\ WithinArmory(offer.ask, e.held[s])
  BY DEF Sells
<1> HIDE DEF offer, s
<1>9. CASE p = b
  <2>1. Change(offer, b, units, p, k) = (IF k = offer.item THEN units ELSE 0) - offer.ask[k]
    BY <1>1, <1>9 DEF Change, s
  <2>2. k = offer.item
    BY <1>5, <1>6, <1>7, <2>1
  <2>3. Only(offer.item, units)[k] > 0
    BY <1>3, <1>7, <2>2 DEF Only
  <2> QED
    BY <1>8, <1>9, <2>3 DEF WithinArmory
<1>10. CASE p = s
  <2>1. Change(offer, b, units, p, k) = offer.ask[k] - (IF k = offer.item THEN units ELSE 0)
    BY <1>1, <1>10 DEF Change, s
  <2>2. offer.ask[k] > 0
    BY <1>3, <1>5, <1>6, <1>7, <2>1
  <2> QED
    BY <1>8, <1>10, <2>2 DEF WithinArmory
<1>11. CASE p # b /\ p # s
  <2>1. Change(offer, b, units, p, k) = 0
    BY <1>11 DEF Change, s
  <2> QED
    BY <1>5, <1>6, <1>7, <2>1
<1> QED
  BY <1>9, <1>10, <1>11

LEMMA ArmoryStep ==
  ASSUME IInv, NotOwn, [Next]_vars, NEW p \in Players,
         ArmoryUnits(db'.held[p]) + ArmoryUnits(db'.escrow[p])
           > ArmoryUnits(db.held[p]) + ArmoryUnits(db.escrow[p])
  PROVE  ArmoryUnits(db'.held[p]) <= ArmoryCap
<1>0. db \in Rows /\ db' \in Rows
  BY NextIInv, RowsFromIInv, RowsFromIInvNext DEF RowsInv
<1>1. Sum(Holdings(db', p), Armory) > Sum(Holdings(db, p), Armory) /\ Sum(Holdings(db, p), Armory) \in Int
  BY <1>0, OwnedSum, SumInt
<1>2. CASE Holdings(db', p) = Holdings(db, p)
  BY <1>1, <1>2
<1>3. CASE Quiet
  <2>1. Holdings(db', p) = Holdings(db, p)
    BY <1>3 DEF Quiet, Holdings
  <2> QED
    BY <1>2, <2>1
<1>4. ASSUME NEW q \in Players, NEW d, Trades(d, q) PROVE ArmoryUnits(db'.held[p]) <= ArmoryCap
  <2>1. Holdings(d, p) = Holdings(db, p) /\ d \in Rows
    BY <1>4, OwnedSame DEF Trades, Settles, RowsInv
  <2>2. CASE db' = d
    BY <1>2, <2>1, <2>2
  <2>3. CASE \E o \in OfferIds : PutsUp(d, db', q, o) \/ TakesDown(d, db', q, o)
    <3>1. Holdings(db', p) = Holdings(d, p)
      BY <2>3, OwnedSame DEF PutsUp, TakesDown
    <3> QED
      BY <1>2, <2>1, <3>1
  <2>4. CASE Buys(d, q)
    BY <1>0, <1>1, <2>1, <2>4, SellsArmory DEF Buys
  <2> QED
    BY <1>4, <2>2, <2>3, <2>4 DEF Trades
<1> QED
  BY <1>3, <1>4, StepCases

-----------------------------------------------------------------------------
(* Pauses: every tick lost to one is credited, booked or still running *)

Running(r, n) == IF r.pausedAt = None THEN 0 ELSE AtLeastZero(n - r.pausedAt)
IdleIn(lost, a, n) == Cardinality({t \in a..n - 1 : t \in lost})

\* What was posted at a, when minutes of pause were booked, is credited at every
\* instant up to now with at least the ticks lost since.
Credited(r, now, lost, a, minutes) ==
  /\ minutes <= r.pausedMinutes
  /\ \A n \in 0..now : IdleIn(lost, a, n) <= Minute * (r.pausedMinutes - minutes) + Running(r, n)

PausesCredited ==
  /\ \A t \in idle : t < clock
  /\ \A h \in Handlers : req[h] # None => req[h].round.pausedMinutes <= round.pausedMinutes
  /\ \A h \in Handlers : Opened(h) =>
       /\ req[h].now <= clock
       /\ Credited(round, clock, idle, req[h].now, req[h].round.pausedMinutes)
  /\ \A o \in Posted(db) :
       Credited(round, clock, idle, db.offers[o].postedAt, db.offers[o].pausedAtPost)

\* A pause is booked in whole minutes, rounded up.
LEMMA RoundedUp ==
  ASSUME NEW k \in Nat, NEW m \in Nat \ {0}
  PROVE  (k + m - 1) \div m \in Nat /\ k <= m * ((k + m - 1) \div m)
<1> DEFINE q == (k + m - 1) \div m
           r == (k + m - 1) % m
<1>1. q \in Nat /\ r \in 0..m - 1
  OBVIOUS
<1>2. k + m - 1 = m * q + r
  OBVIOUS
<1> HIDE DEF q, r
<1>3. m * q \in Int
  BY <1>1
<1>4. k <= m * q
  BY <1>1, <1>2, <1>3
<1> QED
  BY <1>1, <1>4 DEF q

LEMMA IdleCounted ==
  ASSUME NEW lost, NEW a \in Int, NEW n \in Int
  PROVE  /\ IsFiniteSet({t \in a..n - 1 : t \in lost})
         /\ IdleIn(lost, a, n) \in Nat
         /\ n <= a => IdleIn(lost, a, n) = 0
<1> DEFINE T == {t \in a..n - 1 : t \in lost}
<1>1. IsFiniteSet(a..n - 1) /\ T \subseteq a..n - 1
  BY FS_Interval
<1>2. IsFiniteSet(T)
  BY <1>1, FS_Subset
<1>3. n <= a => T = {}
  OBVIOUS
<1> HIDE DEF T
<1>4. Cardinality(T) \in Nat /\ (n <= a => Cardinality(T) = 0)
  BY <1>2, <1>3, FS_CardinalityType, FS_EmptySet
<1> QED
  BY <1>2, <1>4 DEF T, IdleIn

\* The steps that move the clock or the round row.
LEMMA TimeSteps ==
  ASSUME [Next]_vars
  PROVE  \/ clock' = clock /\ round' = round /\ idle' = idle
         \/ Tick \/ Pause \/ \E extend \in BOOLEAN : Resume(extend)
<1>1. ASSUME NEW h \in Handlers, Asks(h) \/ Serves(h) \/ Abort(h)
      PROVE  clock' = clock /\ round' = round /\ idle' = idle
  <2>1. CASE Asks(h)
    BY <2>1 DEF Asks, AskPost, AskCancel, AskFill, AskMine, AskBook, Arrives
  <2>2. CASE Call(h) \/ (\E p \in Players : Lock(h, p)) \/ SweepTx(h) \/ MineTx(h) \/ Abort(h)
    BY <2>2 DEF Call, Lock, SweepTx, MineTx, Abort, Rollback, Commit
  <2>3. CASE PostTx(h) \/ CancelTx(h)
    BY <2>3 DEF PostTx, CancelTx, Rollback, Commit
  <2>4. CASE FillTx(h)
    BY <2>4 DEF FillTx, Rollback, Commit
  <2> QED
    BY <1>1, <2>1, <2>2, <2>3, <2>4 DEF Serves
<1>2. Purge \/ (\E p \in Players, kinds \in SUBSET Bulky : Rearrange(p, kinds))
        => clock' = clock /\ round' = round /\ idle' = idle
  BY DEF Purge, Rearrange
<1> QED
  BY <1>1, <1>2 DEF Next, World, vars

LEMMA CreditedTick ==
  ASSUME IInv, \A t \in idle : t < clock, Tick,
         NEW a \in Nat, NEW minutes \in Nat, Credited(round, clock, idle, a, minutes)
  PROVE  Credited(round, clock', idle', a, minutes)
<1>1. /\ clock \in Nat /\ round \in Round /\ PauseBegan /\ clock' = clock + 1
  BY RowsFromIInv DEF Tick
<1>2. /\ minutes <= round.pausedMinutes /\ round.pausedMinutes \in Nat /\ Minute \in Nat
      /\ round.pausedAt \in Nat \cup {None} /\ None \notin Nat
  BY <1>1, BoardAssumption, NoneAssumption DEF Credited, Round
<1> DEFINE credit == Minute * (round.pausedMinutes - minutes)
<1>3. credit \in Int
  BY <1>2
<1>4. \A n \in 0..clock : IdleIn(idle, a, n) <= credit + Running(round, n)
  BY DEF Credited
<1> HIDE DEF credit
<1>5. \A n \in 0..clock : IdleIn(idle', a, n) = IdleIn(idle, a, n)
  <2> SUFFICES ASSUME NEW n \in 0..clock
               PROVE  {t \in a..n - 1 : t \in idle'} = {t \in a..n - 1 : t \in idle}
    BY DEF IdleIn
  <2>1. \A t \in a..n - 1 : t # clock
    BY <1>1
  <2> QED
    BY <2>1 DEF Tick
<1>6. IdleIn(idle', a, clock + 1) <= credit + Running(round, clock + 1)
  <2> DEFINE before == {t \in a..clock - 1 : t \in idle}
             after == {t \in a..(clock + 1) - 1 : t \in idle'}
  <2>0. IdleIn(idle, a, clock) = Cardinality(before) /\ clock \in 0..clock /\ a \in Int
    BY <1>1 DEF IdleIn
  <2>1. IsFiniteSet(before) /\ Cardinality(before) \in Nat /\ Cardinality(before) <= credit + Running(round, clock)
    BY <1>1, <1>4, <2>0, IdleCounted
  <2>9. IdleIn(idle', a, clock + 1) = Cardinality(after)
    BY DEF IdleIn
  <2>2. CASE round.pausedAt = None
    <3>1. after = before
      BY <1>1, <2>2 DEF Tick
    <3> HIDE DEF before, after
    <3>2. Cardinality(after) <= credit + Running(round, clock)
      BY <2>1, <3>1
    <3>3. Running(round, clock) = Running(round, clock + 1)
      BY <2>2 DEF Running
    <3> QED
      BY <2>9, <3>2, <3>3
  <2>3. CASE round.pausedAt # None
    <3>1. after \subseteq before \cup {clock}
      BY <1>1, <2>3 DEF Tick
    <3> HIDE DEF before, after
    <3>7. IsFiniteSet(before)
      BY <2>1
    <3>8. /\ IsFiniteSet(before \cup {clock})
          /\ Cardinality(before \cup {clock}) = IF clock \in before THEN Cardinality(before) ELSE Cardinality(before) + 1
      BY <3>7, FS_AddElement
    <3>2. /\ IsFiniteSet(before \cup {clock})
          /\ Cardinality(before \cup {clock}) <= Cardinality(before) + 1
          /\ Cardinality(before \cup {clock}) \in Nat
      BY <2>1, <3>8
    <3>3. Cardinality(after) <= Cardinality(before \cup {clock}) /\ Cardinality(after) \in Nat
      BY <3>1, <3>2, FS_Subset, FS_CardinalityType
    <3>4. Running(round, clock + 1) = Running(round, clock) + 1 /\ Running(round, clock) \in Nat
      BY <1>1, <1>2, <2>3 DEF Running, PauseBegan, AtLeastZero
    <3>5. Cardinality(after) <= credit + Running(round, clock + 1)
      BY <1>3, <2>1, <3>2, <3>3, <3>4
    <3> QED
      BY <2>9, <3>5
  <2> QED
    BY <2>2, <2>3
<1>7. \A n \in 0..clock' : n \in 0..clock \/ n = clock + 1
  BY <1>1
<1>8. \A n \in 0..clock' : IdleIn(idle', a, n) <= credit + Running(round, n)
  BY <1>4, <1>5, <1>6, <1>7
<1> QED
  BY <1>2, <1>8 DEF Credited, credit

LEMMA CreditedPause ==
  ASSUME IInv, Pause, NEW a \in Nat, NEW minutes \in Nat, Credited(round, clock, idle, a, minutes)
  PROVE  Credited(round', clock, idle, a, minutes)
<1>1. /\ clock \in Nat /\ round \in Round /\ round.pausedAt = None
      /\ round' = [round EXCEPT !.pausedAt = clock] /\ None \notin Nat
  BY RowsFromIInv, NoneAssumption DEF Pause
<1>2. round'.pausedMinutes = round.pausedMinutes /\ round'.pausedAt = clock
  BY <1>1 DEF Round
<1>3. \A n \in 0..clock : Running(round', n) = 0 /\ Running(round, n) = 0
  BY <1>1, <1>2 DEF Running, AtLeastZero
<1> QED
  BY <1>2, <1>3 DEF Credited

LEMMA CreditedResume ==
  ASSUME IInv, NEW extend \in BOOLEAN, Resume(extend),
         NEW a \in Nat, NEW minutes \in Nat, Credited(round, clock, idle, a, minutes)
  PROVE  Credited(round', clock, idle, a, minutes) /\ round.pausedMinutes <= round'.pausedMinutes
<1> DEFINE booked == (clock - round.pausedAt + Minute - 1) \div Minute
<1>1. /\ clock \in Nat /\ round \in Round /\ PauseBegan /\ round.pausedAt # None
      /\ Minute \in Nat \ {0}
  BY RowsFromIInv, BoardAssumption DEF Resume
<1>2. /\ round.pausedAt \in Nat /\ round.pausedAt <= clock /\ round.pausedMinutes \in Nat
      /\ minutes <= round.pausedMinutes
  BY <1>1 DEF Round, PauseBegan, Credited
<1>3. booked \in Nat /\ clock - round.pausedAt <= Minute * booked
  <2>1. clock - round.pausedAt \in Nat
    BY <1>1, <1>2
  <2> QED
    BY <1>1, <2>1, RoundedUp
<1>4. round'.pausedMinutes = round.pausedMinutes + booked /\ round'.pausedAt = None
  BY DEF Resume
<1> HIDE DEF booked
<1> DEFINE credit == Minute * (round.pausedMinutes - minutes)
<1>5. Minute * (round'.pausedMinutes - minutes) = credit + Minute * booked
  BY <1>1, <1>2, <1>3, <1>4
<1>6. credit \in Int /\ Minute * booked \in Int
  BY <1>1, <1>2, <1>3
<1>7. \A n \in 0..clock : IdleIn(idle, a, n) <= credit + Running(round, n)
  BY DEF Credited
<1> HIDE DEF credit
<1>8. ASSUME NEW n \in 0..clock
      PROVE  IdleIn(idle, a, n) <= Minute * (round'.pausedMinutes - minutes) + Running(round', n)
  <2>1. Running(round, n) \in Nat /\ Running(round, n) <= Minute * booked
    BY <1>1, <1>2, <1>3, <1>6 DEF Running, AtLeastZero
  <2>2. IdleIn(idle, a, n) \in Nat
    <3>1. n \in Int /\ a \in Int
      BY <1>1
    <3> QED
      BY <3>1, IdleCounted
  <2>3. Running(round', n) = 0
    BY <1>4 DEF Running
  <2> QED
    BY <1>5, <1>6, <1>7, <2>1, <2>2, <2>3
<1> QED
  BY <1>2, <1>3, <1>4, <1>8 DEF Credited

\* Once credited, always credited.
LEMMA CreditedStep ==
  ASSUME IInv, [Next]_vars, \A t \in idle : t < clock
  PROVE  /\ \A t \in idle' : t < clock'
         /\ round.pausedMinutes <= round'.pausedMinutes
         /\ \A a \in Nat, minutes \in Nat :
              Credited(round, clock, idle, a, minutes) => Credited(round', clock', idle', a, minutes)
<1>1. clock \in Nat /\ round \in Round /\ (\A t \in idle : t \in Nat) /\ round.pausedMinutes \in Nat
  BY RowsFromIInv DEF Round
<1>2. CASE clock' = clock /\ round' = round /\ idle' = idle
  BY <1>1, <1>2
<1>3. CASE Tick
  <2>1. round' = round /\ clock' = clock + 1 /\ \A t \in idle' : t \in idle \/ t = clock
    BY <1>3 DEF Tick
  <2>2. \A t \in idle' : t < clock'
    BY <1>1, <2>1
  <2> QED
    BY <1>1, <1>3, <2>1, <2>2, CreditedTick
<1>4. CASE Pause
  <2>1. clock' = clock /\ idle' = idle /\ round'.pausedMinutes = round.pausedMinutes
    BY <1>1, <1>4 DEF Pause, Round
  <2> QED
    BY <1>1, <1>4, <2>1, CreditedPause
<1>5. ASSUME NEW extend \in BOOLEAN, Resume(extend)
      PROVE  /\ \A t \in idle' : t < clock'
             /\ round.pausedMinutes <= round'.pausedMinutes
             /\ \A a \in Nat, minutes \in Nat :
                  Credited(round, clock, idle, a, minutes) => Credited(round', clock', idle', a, minutes)
  <2>1. clock' = clock /\ idle' = idle
    BY <1>5 DEF Resume
  <2>2. round.pausedMinutes <= round'.pausedMinutes
    <3>1. PauseBegan /\ round.pausedAt # None /\ Minute \in Nat \ {0}
      BY <1>5, RowsFromIInv, BoardAssumption DEF Resume
    <3>2. round.pausedAt \in Nat /\ round.pausedAt <= clock
      BY <1>1, <3>1 DEF PauseBegan, Round
    <3> DEFINE booked == (clock - round.pausedAt + Minute - 1) \div Minute
    <3>3. booked \in Nat
      BY <1>1, <3>1, <3>2, RoundedUp
    <3>4. round'.pausedMinutes = round.pausedMinutes + booked
      BY <1>5 DEF Resume
    <3> HIDE DEF booked
    <3> QED
      BY <1>1, <3>3, <3>4
  <2> QED
    BY <1>5, <2>1, <2>2, CreditedResume
<1> QED
  BY <1>2, <1>3, <1>4, <1>5, TimeSteps

\* An offer of the rows after a step was there with its stamps, or was just stamped.
LEMMA StampsKept ==
  ASSUME IInv, NotOwn, [Next]_vars, NEW o \in Posted(db')
  PROVE  \/ /\ o \in Posted(db)
            /\ db'.offers[o].postedAt = db.offers[o].postedAt
            /\ db'.offers[o].pausedAtPost = db.offers[o].pausedAtPost
         \/ Stamped(db'.offers[o])
<1>1. CASE Quiet
  BY <1>1 DEF Quiet, Posted
<1>2. ASSUME NEW p \in Players, NEW d, Trades(d, p)
      PROVE  \/ /\ o \in Posted(db)
                /\ db'.offers[o].postedAt = db.offers[o].postedAt
                /\ db'.offers[o].pausedAtPost = db.offers[o].pausedAtPost
             \/ Stamped(db'.offers[o])
  <2>1. /\ RowsInv(d) /\ Posted(d) = Posted(db)
        /\ \A x \in Posted(db) : /\ d.offers[x].postedAt = db.offers[x].postedAt
                                 /\ d.offers[x].pausedAtPost = db.offers[x].pausedAtPost
    BY <1>2 DEF Trades, Settles, Lapses
  <2>2. CASE db' = d
    BY <2>1, <2>2
  <2>3. CASE \E x \in OfferIds : PutsUp(d, db', p, x)
    BY <2>1, <2>3 DEF PutsUp
  <2>4. CASE \E x \in OfferIds : TakesDown(d, db', p, x)
    BY <2>1, <2>4 DEF TakesDown
  <2>5. CASE Buys(d, p)
    <3>9. PICK action, called : \E b \in Players, x \in Posted(d), units \in Nat :
            Sells(d, db', b, x, units, action, called, clock)
      BY <2>5 DEF Buys
    <3>1. PICK b \in Players, x \in Posted(d), units \in Nat :
            Sells(d, db', b, x, units, action, called, clock)
      BY <3>9
    <3>2. d.offers[x] \in Offer
      BY <2>1, OffersTyped DEF RowsInv
    <3>3. /\ AfterSale(d.offers[x], units).postedAt = d.offers[x].postedAt
          /\ AfterSale(d.offers[x], units).pausedAtPost = d.offers[x].pausedAtPost
      BY <3>2 DEF AfterSale, Offer
    <3> QED
      BY <2>1, <3>1, <3>3 DEF Sells
  <2> QED
    BY <1>2, <2>2, <2>3, <2>4, <2>5 DEF Trades
<1> QED
  BY <1>1, <1>2, StepCases

LEMMA CreditedNow ==
  ASSUME IInv, NEW minutes \in Nat, minutes <= round.pausedMinutes
  PROVE  Credited(round, clock, idle, clock, minutes)
<1>1. clock \in Nat /\ round \in Round /\ Minute \in Nat /\ PauseBegan
  BY RowsFromIInv, BoardAssumption
<1>2. round.pausedMinutes \in Nat /\ round.pausedAt \in Nat \cup {None}
  BY <1>1 DEF Round
<1> DEFINE credit == Minute * (round.pausedMinutes - minutes)
<1>3. credit \in Nat
  BY <1>1, <1>2
<1> HIDE DEF credit
<1>4. ASSUME NEW n \in 0..clock PROVE IdleIn(idle, clock, n) <= credit + Running(round, n)
  <2>1. IdleIn(idle, clock, n) = 0
    <3>1. n \in Int /\ clock \in Int /\ n <= clock
      BY <1>1
    <3> QED
      BY <3>1, IdleCounted
  <2>2. Running(round, n) \in Nat
    BY <1>1, <1>2 DEF Running, AtLeastZero
  <2> QED
    BY <1>3, <2>1, <2>2
<1> QED
  BY <1>4 DEF Credited, credit

LEMMA PausesNext ==
  ASSUME IInv, NotOwn, Rested, PausesCredited, [Next]_vars
  PROVE  PausesCredited'
<1> DEFINE Holds(a, minutes) == Credited(round, clock, idle, a, minutes)
           HoldsNext(a, minutes) == Credited(round', clock', idle', a, minutes)
<1>1. /\ \A t \in idle' : t < clock'
      /\ round.pausedMinutes <= round'.pausedMinutes
      /\ \A a \in Nat, minutes \in Nat : Holds(a, minutes) => HoldsNext(a, minutes)
  BY CreditedStep DEF PausesCredited
<1>2. /\ clock \in Nat /\ clock' \in Nat /\ clock <= clock'
      /\ round.pausedMinutes \in Nat /\ round'.pausedMinutes \in Nat
  BY RowsFromIInv, RowsFromIInvNext, NextIInv, ClockGrows DEF Round
<1>3. \A h \in Handlers : req[h] # None =>
        /\ req[h].round.pausedMinutes \in Nat /\ req[h].now \in Nat
        /\ req[h].round.pausedMinutes <= round.pausedMinutes
  BY RequestTyped DEF PausesCredited, Round
<1>4. \A minutes \in Nat : minutes <= round.pausedMinutes => Holds(clock, minutes)
  BY CreditedNow
<1>5. \A h \in Handlers : Opened(h) => req[h].now <= clock /\ Holds(req[h].now, req[h].round.pausedMinutes)
  BY DEF PausesCredited
<1>6. \A o \in Posted(db) : /\ db.offers[o].postedAt \in Nat /\ db.offers[o].pausedAtPost \in Nat
                            /\ Holds(db.offers[o].postedAt, db.offers[o].pausedAtPost)
  BY RowsFromIInv, OffersTyped DEF PausesCredited, RowsInv, Offer
<1>7. ASSUME NEW h \in Handlers, req'[h] # None
      PROVE  req'[h].round.pausedMinutes <= round'.pausedMinutes
  <2>1. \/ req[h] # None /\ req'[h].round = req[h].round
        \/ req'[h].round = round
    <3>1. ReqStep(h) /\ (req[h] # None => req[h] \in Request)
      BY RequestSteps, RequestTyped
    <3> QED
      BY <1>7, <3>1 DEF ReqStep, Fresh, Request
  <2> QED
    BY <1>1, <1>2, <1>3, <2>1
<1>8. ASSUME NEW h \in Handlers, req'[h] # None, req'[h].step = "called"
      PROVE  /\ req'[h].now <= clock'
             /\ HoldsNext(req'[h].now, req'[h].round.pausedMinutes)
  <2>0. ReqStep(h) /\ (req[h] # None => req[h] \in Request)
    BY RequestSteps, RequestTyped
  <2>1. \/ /\ Opened(h) /\ req'[h].now = req[h].now /\ req'[h].round = req[h].round
        \/ /\ req[h] # None /\ req'[h].now = clock /\ req'[h].round = req[h].round
    BY <1>8, <2>0 DEF ReqStep, Fresh, Request, Opened
  <2>2. req[h] # None
    BY <2>1 DEF Opened
  <2> HIDE DEF Holds, HoldsNext
  <2>3. Holds(req'[h].now, req'[h].round.pausedMinutes) /\ req'[h].now <= clock
    BY <1>2, <1>3, <1>4, <1>5, <2>1, <2>2
  <2>4. req'[h].now \in Nat /\ req'[h].round.pausedMinutes \in Nat
    BY <1>2, <1>3, <2>1, <2>2
  <2> QED
    BY <1>1, <1>2, <2>3, <2>4
<1>9. ASSUME NEW o \in Posted(db')
      PROVE  HoldsNext(db'.offers[o].postedAt, db'.offers[o].pausedAtPost)
  <2>1. \/ /\ o \in Posted(db)
           /\ db'.offers[o].postedAt = db.offers[o].postedAt
           /\ db'.offers[o].pausedAtPost = db.offers[o].pausedAtPost
        \/ Stamped(db'.offers[o])
    BY StampsKept
  <2>2. CASE Stamped(db'.offers[o])
    <3>1. PICK h \in Handlers : /\ Opened(h) /\ db'.offers[o].postedAt = req[h].now
                                /\ db'.offers[o].pausedAtPost = req[h].round.pausedMinutes
      BY <2>2 DEF Stamped
    <3>2. req[h] # None
      BY <3>1 DEF Opened
    <3> HIDE DEF Holds, HoldsNext
    <3> QED
      BY <1>1, <1>3, <1>5, <3>1, <3>2
  <2>3. CASE ~Stamped(db'.offers[o])
    <3> HIDE DEF Holds, HoldsNext
    <3> QED
      BY <1>1, <1>6, <2>1, <2>3
  <2> QED
    BY <2>2, <2>3
<1> QED
  BY <1>1, <1>7, <1>8, <1>9 DEF PausesCredited, Opened

\* Only the request that settles its seller expires an offer, and only when it is due.
LEMMA ExpiredByDue ==
  ASSUME IInv, NotOwn, [Next]_vars, NEW o \in Posted(db),
         db.offers[o].status = "OPEN", db'.offers[o].status = "EXPIRED",
         NEW h \in Handlers, req'[h] # req[h]
  PROVE  Opened(h) /\ ExpiresAt(db.offers[o], req[h].round, req[h].now) <= req[h].now
<1>1. ~Quiet
  BY DEF Quiet
<1>12. PICK d : \E p \in Players : Trades(d, p)
  BY <1>1, StepCases
<1>2. PICK p \in Players : Trades(d, p)
  BY <1>12
<1>3. PICK g \in Handlers : Runs(g, d, p)
  BY <1>2 DEF Trades
<1>4. g = h
  BY <1>3 DEF Runs
<1>5. RowsInv(d) /\ o \in Posted(d) /\ o \in OfferIds
  BY <1>2 DEF Trades, Settles, Posted
<1>6. d.offers[o].status = "EXPIRED"
  <2>1. CASE \E x \in OfferIds : PutsUp(d, db', p, x)
    BY <1>5, <2>1 DEF PutsUp
  <2>2. CASE \E x \in OfferIds : TakesDown(d, db', p, x)
    BY <1>5, <2>2 DEF TakesDown
  <2>3. CASE Buys(d, p)
    <3>9. PICK action, called : \E b \in Players, x \in Posted(d), units \in Nat :
            Sells(d, db', b, x, units, action, called, clock)
      BY <2>3 DEF Buys
    <3>1. PICK b \in Players, x \in Posted(d), units \in Nat :
            Sells(d, db', b, x, units, action, called, clock)
      BY <3>9
    <3>2. d.offers[x] \in Offer /\ d.offers[x].status = "OPEN"
      BY <1>5, <3>1, OffersTyped DEF RowsInv, Sells
    <3>3. AfterSale(d.offers[x], units).status # "EXPIRED"
      BY <3>2 DEF AfterSale, Offer
    <3> QED
      BY <1>5, <3>1, <3>3 DEF Sells
  <2> QED
    BY <1>2, <2>1, <2>2, <2>3 DEF Trades
<1>7. PICK landing : d = Settled(db, p, req[h].round, req[h].now, landing)
  BY <1>3, <1>4 DEF Runs
<1> DEFINE lapsed == Lapsed(db, p, req[h].round, req[h].now)
<1>8. o \in lapsed
  <2> SUFFICES ASSUME o \notin lapsed PROVE FALSE
    OBVIOUS
  <2> DEFINE home == {x \in lapsed : NeedsGap(db, p, db.offers[x].item) => db.offers[x].item \in landing}
             back == [k \in Items |-> LeftIn(db.offers, {x \in home : db.offers[x].item = k})]
             R == ReturnStacks(db, p, back)
             table == [x \in OfferIds |->
                         IF x \in lapsed
                         THEN [db.offers[x] EXCEPT !.status = "EXPIRED",
                                                   !.returnedAt = IF x \in home THEN req[h].now ELSE None]
                         ELSE db.offers[x]]
  <2>1. d = [R EXCEPT !.offers = table]
    BY <1>7 DEF Settled
  <2>2. table[o] = db.offers[o]
    BY <1>5
  <2>3. "offers" \in DOMAIN R
    <3>1. R = [db EXCEPT !.held = R.held, !.escrow = R.escrow, !.tagged = R.tagged,
                         !.escrowTagged = R.escrowTagged]
      BY RowsFromIInv DEF ReturnStacks, RowsInv, Rows
    <3> HIDE DEF R
    <3> QED
      BY <3>1, RowsFromIInv DEF RowsInv, Rows
  <2> HIDE DEF table, R
  <2>4. d.offers = table
    BY <2>1, <2>3
  <2> QED
    BY <1>6, <2>2, <2>4
<1>9. o \in DueOffers(db, p, req[h].round, req[h].now)
  BY <1>8 DEF Lapsed
<1> QED
  BY <1>3, <1>4, <1>9 DEF DueOffers, Runs

LEMMA FullTimeStep ==
  ASSUME IInv, NotOwn, PausesCredited, [Next]_vars, NEW o \in Posted(db),
         db.offers[o].status = "OPEN", db'.offers[o].status = "EXPIRED",
         NEW h \in Handlers, req'[h] # req[h], req[h].round = round
  PROVE  TimeOnSale(db.offers[o], req[h].now) >= db.offers[o].expiresAt - db.offers[o].postedAt
<1> DEFINE x == db.offers[o]
           n == req[h].now
           all == x.postedAt..n - 1
           lost == {t \in all : t \in idle}
<1>1. Opened(h) /\ ExpiresAt(x, round, n) <= n
  BY ExpiredByDue
<1>2. /\ x \in Offer /\ n \in Nat /\ round \in Round /\ clock \in Nat /\ Minute \in Nat
      /\ PauseBegan
  BY <1>1, RowsFromIInv, OffersTyped, RequestTyped, BoardAssumption DEF RowsInv, Opened
<1>3. /\ x.postedAt \in Nat /\ x.expiresAt \in Nat /\ x.pausedAtPost \in Nat
      /\ round.pausedMinutes \in Nat /\ round.pausedAt \in Nat \cup {None}
  BY <1>2 DEF Offer, Round
<1>4. n <= clock /\ Credited(round, clock, idle, x.postedAt, x.pausedAtPost)
  BY <1>1 DEF PausesCredited
<1> DEFINE credit == Minute * (round.pausedMinutes - x.pausedAtPost)
<1>5. x.pausedAtPost <= round.pausedMinutes /\ IdleIn(idle, x.postedAt, n) <= credit + Running(round, n)
  BY <1>2, <1>4 DEF Credited
<1>6. credit \in Nat /\ Running(round, n) \in Nat
  BY <1>2, <1>3, <1>5 DEF Running, AtLeastZero
<1>7. ExpiresAt(x, round, n) = x.expiresAt + credit + Running(round, n)
  <2>1. AtLeastZero(round.pausedMinutes - x.pausedAtPost) = round.pausedMinutes - x.pausedAtPost
    BY <1>3, <1>5 DEF AtLeastZero
  <2> QED
    BY <2>1 DEF ExpiresAt, Running
<1>8. /\ IsFiniteSet(all) /\ Cardinality(all) = IF x.postedAt > n - 1 THEN 0 ELSE (n - 1) - x.postedAt + 1
  BY <1>2, <1>3, FS_Interval
<1>9. Cardinality(all \ lost) = Cardinality(all) - Cardinality(lost) /\ Cardinality(lost) \in Nat
  <2>1. all \cap lost = lost /\ lost \subseteq all
    OBVIOUS
  <2> HIDE DEF all, lost
  <2>2. Cardinality(all \ lost) = Cardinality(all) - Cardinality(all \cap lost)
    BY <1>8, FS_Difference
  <2>3. IsFiniteSet(lost)
    BY <1>8, <2>1, FS_Subset
  <2> QED
    BY <2>1, <2>2, <2>3, FS_CardinalityType
<1>10. TimeOnSale(x, n) = Cardinality(all \ lost) /\ IdleIn(idle, x.postedAt, n) = Cardinality(lost)
  <2>1. {t \in all : t \notin idle} = all \ lost
    OBVIOUS
  <2>2. TimeOnSale(x, n) = Cardinality({t \in all : t \notin idle})
    BY DEF TimeOnSale
  <2>3. IdleIn(idle, x.postedAt, n) = Cardinality(lost)
    BY DEF IdleIn
  <2> HIDE DEF all, lost
  <2> QED
    BY <2>1, <2>2, <2>3
<1> HIDE DEF credit, all, lost, x, n
<1>11. TimeOnSale(x, n) >= x.expiresAt - x.postedAt
  BY <1>1, <1>2, <1>3, <1>5, <1>6, <1>7, <1>8, <1>9, <1>10
<1> QED
  BY <1>11 DEF x, n

-----------------------------------------------------------------------------
(* The inductive invariant *)

BoardInv ==
  /\ IInv /\ NotOwn /\ Rested /\ Ordered
  /\ TagsWithinEscrow /\ Receipted /\ FilledOncePerAction /\ CashAccounted
  /\ PausesCredited

LEMMA BoardInit == Init => BoardInv
<1> SUFFICES ASSUME Init PROVE BoardInv
  OBVIOUS
<1>1. /\ \A h \in Handlers : req[h] = None /\ Locked(h) = {}
      /\ \A p \in Players : db.escrow[p] = NoGoods /\ db.escrowTagged[p] = NoGoods
      /\ db.fills = <<>> /\ idle = {} /\ Posted(db) = {}
  BY NoneAssumption DEF Init, Locked, Posted
<1>2. NotOwn /\ Rested /\ Ordered
  BY <1>1 DEF NotOwn, Rested, Ordered
<1>3. TagsWithinEscrow
  BY <1>1 DEF TagsWithinEscrow, NoGoods
<1>4. Receipted /\ FilledOncePerAction
  BY <1>1 DEF Receipted, FilledOncePerAction
<1>5. PausesCredited
  BY <1>1 DEF PausesCredited, Opened
<1> QED
  BY <1>2, <1>3, <1>4, <1>5, InitIInv, CashInit DEF BoardInv

LEMMA BoardNext == BoardInv /\ [Next]_vars => BoardInv'
<1> SUFFICES ASSUME BoardInv, [Next]_vars PROVE BoardInv'
  OBVIOUS
<1>1. IInv' /\ NotOwn' /\ Rested' /\ Ordered'
  BY NextIInv, NotOwnNext, OrderedNext DEF BoardInv
<1>2. TagsWithinEscrow' /\ Receipted' /\ FilledOncePerAction' /\ CashAccounted' /\ PausesCredited'
  BY TagsNext, ReceiptedNext, CashNext, PausesNext DEF BoardInv
<1> QED
  BY <1>1, <1>2 DEF BoardInv

LEMMA BoardAlways == Spec => []BoardInv
  BY BoardInit, BoardNext, PTL DEF Spec

\* returnStack and the sale always find the tags they take off the escrow: tags
\* never outnumber the units there.
THEOREM TagsAlwaysWithinEscrow == Spec => []TagsWithinEscrow
<1>1. BoardInv => TagsWithinEscrow
  BY DEF BoardInv
<1> QED
  BY <1>1, BoardAlways, PTL

\* A fill retried under its action id charges nothing more while the receipt is
\* kept, however many requests carry the id and whenever the purge runs.
THEOREM FilledOnceAlways == Spec => []FilledOncePerAction
<1>1. BoardInv => FilledOncePerAction
  BY DEF BoardInv
<1> QED
  BY <1>1, BoardAlways, PTL

\* The sum of all cash and of all posting fees taken is what the round started with.
THEOREM CashAlwaysAccounted == Spec => []CashAccounted
<1>1. BoardInv => CashAccounted
  BY DEF BoardInv
<1> QED
  BY <1>1, BoardAlways, PTL

\* However many requests run, those waiting for player rows never wait in a circle.
THEOREM NeverALockCircle == Spec => []NoLockCircle
<1>1. BoardInv => NoLockCircle
  BY OrderedNoCircle DEF BoardInv
<1> QED
  BY <1>1, BoardAlways, PTL

\* A sold, cancelled or expired offer stays so, with the units it had left, and is
\* handed back at most once.
THEOREM ClosedForGoodAlways == Spec => ClosedForGood
<1>1. BoardInv /\ [Next]_vars =>
        [\A o \in Posted(db) :
           db.offers[o].status # "OPEN" =>
             /\ db'.offers[o].status = db.offers[o].status
             /\ db'.offers[o].left = db.offers[o].left
             /\ db.offers[o].returnedAt # None => db'.offers[o].returnedAt = db.offers[o].returnedAt]_vars
  BY ClosedStep DEF BoardInv
<1> QED
  BY <1>1, BoardAlways, PTL DEF Spec, ClosedForGood

\* A trade leaves nobody who gained by it with more guns and cars than his armory holds.
THEOREM ArmoryAlwaysRespected == Spec => ArmoryRespected
<1>1. BoardInv /\ [Next]_vars =>
        [\A p \in Players :
           LET owned(d) == ArmoryUnits(d.held[p]) + ArmoryUnits(d.escrow[p])
           IN  owned(db') > owned(db) => ArmoryUnits(db'.held[p]) <= ArmoryCap]_vars
  BY ArmoryStep DEF BoardInv
<1> QED
  BY <1>1, BoardAlways, PTL DEF Spec, ArmoryRespected

\* A listing gets the hours of play its seller paid for, whatever pauses come: who
\* reads the round row as it still is never expires an offer before.
THEOREM FullTimeOnSaleAlways == Spec => FullTimeOnSale
<1>1. BoardInv /\ [Next]_vars =>
        [\A h \in Handlers, o \in Posted(db) :
           /\ db.offers[o].status = "OPEN" /\ db'.offers[o].status = "EXPIRED"
           /\ req'[h] # req[h] /\ req[h].round = round
           => TimeOnSale(db.offers[o], req[h].now) >= db.offers[o].expiresAt - db.offers[o].postedAt]_vars
  BY FullTimeStep DEF BoardInv
<1> QED
  BY <1>1, BoardAlways, PTL DEF Spec, FullTimeOnSale

-----------------------------------------------------------------------------
(* The Board implements BoardMarket: the rows d seen as stalls and as goods owned *)

StallOf(x) ==
  IF x = None THEN None
  ELSE IF x.status # "OPEN" THEN Closed
  ELSE [seller |-> x.seller, item |-> x.item, quantity |-> x.quantity, left |-> x.left,
        price |-> x.price, ask |-> x.ask]
Stalls(d) == [o \in OfferIds |-> StallOf(d.offers[o])]
Owned(d) == [p \in Players |-> Holdings(d, p)]

OpenIn(d) == {o \in Posted(d) : d.offers[o].status = "OPEN"}

Less(s, gone) == [o \in OfferIds |-> IF o \in gone THEN Closed ELSE s[o]]

LEMMA StallShape ==
  ASSUME NEW d \in Rows, NEW o \in OfferIds
  PROVE  /\ o \in OpenIn(d) =>
              /\ Stalls(d)[o] \in Market!Promise /\ Stalls(d)[o] \notin {None, Closed}
              /\ LET s == Stalls(d)[o]
                     x == d.offers[o]
                 IN  /\ s.seller = x.seller /\ s.item = x.item /\ s.quantity = x.quantity
                     /\ s.left = x.left /\ s.price = x.price /\ s.ask = x.ask
         /\ o \notin OpenIn(d) => Stalls(d)[o] \in {None, Closed}
         /\ o \in Posted(d) \ OpenIn(d) => Stalls(d)[o] = Closed
         /\ o \notin Posted(d) => Stalls(d)[o] = None
<1>1. Stalls(d)[o] = StallOf(d.offers[o])
  BY DEF Stalls
<1>2. CASE o \notin Posted(d)
  BY <1>1, <1>2 DEF Posted, OpenIn, StallOf
<1>3. CASE o \in Posted(d) \ OpenIn(d)
  BY <1>1, <1>3 DEF Posted, OpenIn, StallOf
<1>4. CASE o \in OpenIn(d)
  <2> DEFINE x == d.offers[o]
             s == [seller |-> x.seller, item |-> x.item, quantity |-> x.quantity, left |-> x.left,
                   price |-> x.price, ask |-> x.ask]
  <2>1. o \in Posted(d) /\ x \in Offer /\ x.status = "OPEN" /\ x # None
    BY <1>4, OffersTyped DEF OpenIn, Posted
  <2>2. s \in Market!Promise
    BY <2>1 DEF Market!Promise, Offer, Goods
  <2>3. Stalls(d)[o] = s
    BY <1>1, <2>1 DEF StallOf
  <2>4. s \notin {None, Closed}
    BY <2>2, StallAssumption
  <2> QED
    BY <1>4, <2>1, <2>2, <2>3, <2>4
<1> QED
  BY <1>2, <1>3, <1>4 DEF OpenIn

LEMMA OpenStalls == ASSUME NEW d \in Rows PROVE Market!Open(Stalls(d)) = OpenIn(d)
  BY StallShape DEF Market!Open, OpenIn, Posted

\* What a seller has on open offers is in his escrow.
LEMMA PromisedInEscrow ==
  ASSUME NEW d, RowsInv(d), NEW p \in Players, NEW k \in Items
  PROVE  /\ Market!Promised(Stalls(d), p, k) \in Nat
         /\ Market!Promised(Stalls(d), p, k) <= d.escrow[p][k]
<1> DEFINE S == {o \in OpenIn(d) : d.offers[o].seller = p /\ d.offers[o].item = k}
<1>1. d \in Rows /\ Reconciled(d)
  BY DEF RowsInv
<1>2. \A o \in OpenIn(d) : /\ Stalls(d)[o].seller = d.offers[o].seller
                           /\ Stalls(d)[o].item = d.offers[o].item
                           /\ Stalls(d)[o].left = d.offers[o].left
  BY <1>1, StallShape DEF OpenIn, Posted
<1>3. {x \in Market!Open(Stalls(d)) : Stalls(d)[x].seller = p /\ Stalls(d)[x].item = k} = S
  BY <1>1, <1>2, OpenStalls
<1>4. Market!UnitsPromised(Stalls(d), p, k) = UNION {{o} \X (1..Stalls(d)[o].left) : o \in S}
  BY <1>3 DEF Market!UnitsPromised
<1>5. UNION {{o} \X (1..Stalls(d)[o].left) : o \in S} = UnitsIn(d.offers, S)
  BY <1>2 DEF UnitsIn
<1>6. Market!Promised(Stalls(d), p, k) = LeftIn(d.offers, S)
  BY <1>4, <1>5 DEF Market!Promised, LeftIn, Market!Cardinality, Cardinality
<1>7. S \subseteq HeldOffers(d, p, k)
  BY DEF HeldOffers, OffersOf, InEscrow, OpenIn
<1>8. Counted(d.offers, HeldOffers(d, p, k))
  BY <1>1, HeldPosted, PostedCounted
<1> HIDE DEF S
<1>9. LeftIn(d.offers, S) \in Nat /\ LeftIn(d.offers, S) <= LeftIn(d.offers, HeldOffers(d, p, k))
  BY <1>7, <1>8, LeftInDifference
<1> QED
  BY <1>1, <1>6, <1>9 DEF Reconciled

\* The market's operators, written with the stalls of the rows.
LEMMA MarketViews ==
  /\ \A gone : Market!Without(gone) = Less(Stalls(db), gone)
  /\ \A p : Market!StallsOf(p) = {o \in Market!Open(Stalls(db)) : Stalls(db)[o].seller = p}
  /\ \A s, p, k : Market!Unpromised(s, p, k) = Owned(db)[p][k] - Market!Promised(s, p, k)
<1>1. \A gone : Market!Without(gone) = Less(Stalls(db), gone)
  BY DEF Market!Without, Less, Stalls, StallOf
<1>2. \A p : Market!StallsOf(p) = {o \in Market!Open(Stalls(db)) : Stalls(db)[o].seller = p}
  BY DEF Market!StallsOf, Stalls, StallOf
<1>3. \A s, p, k : Market!Unpromised(s, p, k) = Owned(db)[p][k] - Market!Promised(s, p, k)
  BY DEF Market!Unpromised, Owned, Holdings
<1> QED
  BY <1>1, <1>2, <1>3

\* The market's actions, likewise.
Withdraws(gone) ==
  /\ \E p \in Players : gone \subseteq Market!StallsOf(p)
  /\ Stalls(db') = Market!Without(gone)
  /\ db'.cash = db.cash /\ Owned(db') = Owned(db)

Lists(gone, o) ==
  LET promise == Stalls(db')[o]
      p == promise.seller
      fee == db.cash[p] - db'.cash[p]
  IN  /\ Stalls(db)[o] = None
      /\ promise \in Market!Promise
      /\ gone \subseteq Market!StallsOf(p)
      /\ promise.left = promise.quantity /\ promise.left > 0
      /\ promise.left <= Market!Unpromised(Market!Without(gone), p, promise.item)
      /\ fee \in 0..db.cash[p]
      /\ db'.cash = [db.cash EXCEPT ![p] = @ - fee]
      /\ Stalls(db') = [Market!Without(gone) EXCEPT ![o] = promise]
      /\ Owned(db') = Owned(db)

\* Goods owned, and what is left of the promise x, after b took units of it.
AfterTrade(owned, x, b, units) ==
  [owned EXCEPT
    ![b] = [k \in Items |-> @[k] - x.ask[k] + (IF k = x.item THEN units ELSE 0)],
    ![x.seller] = [k \in Items |-> @[k] + x.ask[k] - (IF k = x.item THEN units ELSE 0)]]
AfterUnits(x, units) == IF units = x.left THEN Closed ELSE [x EXCEPT !.left = @ - units]

Takes(gone, b, o, units) ==
  LET promise == Stalls(db)[o]
      s == promise.seller
      paid == promise.price * units
  IN  /\ o \in Market!Open(Stalls(db)) \ gone
      /\ b # s
      /\ gone \subseteq Market!StallsOf(s)
      /\ units \in 1..promise.left
      /\ (\E k \in Items : promise.ask[k] > 0) => units = promise.quantity
      /\ paid <= db.cash[b]
      /\ \A k \in Items : promise.ask[k] <= Market!Unpromised(Market!Without(gone), b, k)
      /\ db'.cash = [db.cash EXCEPT ![b] = @ - paid, ![s] = @ + paid]
      /\ Owned(db') = AfterTrade(Owned(db), promise, b, units)
      /\ Stalls(db') = [Market!Without(gone) EXCEPT ![o] = AfterUnits(promise, units)]

LEMMA WithdrawIs == ASSUME NEW gone PROVE Withdraws(gone) => Market!Withdraw(gone)
  BY DEF Withdraws, Market!Withdraw, Stalls, StallOf, Owned, Holdings

LEMMA ListIs == ASSUME NEW gone, NEW o PROVE Lists(gone, o) => Market!List(gone, o)
  BY DEF Lists, Market!List, Stalls, StallOf, Owned, Holdings

LEMMA BuyIs ==
  ASSUME NEW gone, NEW b, NEW o, NEW units PROVE Takes(gone, b, o, units) => Market!Buy(gone, b, o, units)
  BY DEF Takes, AfterTrade, AfterUnits, Market!Buy, Stalls, StallOf, Owned, Holdings

LEMMA MarketStill ==
  ASSUME Stalls(db') = Stalls(db), db'.cash = db.cash, Owned(db') = Owned(db)
  PROVE  UNCHANGED Market!market
  BY DEF Market!market, Stalls, StallOf, Owned, Holdings

\* Settling a seller closes stalls of his and changes nothing else of the market.
LEMMA SettlesMarket ==
  ASSUME RowsInv(db), NEW d, NEW p \in Players, Settles(db, d, p),
         NEW gone, gone = OpenIn(db) \ OpenIn(d)
  PROVE  /\ d \in Rows /\ OpenIn(d) \subseteq OpenIn(db)
         /\ \A o \in OpenIn(d) : d.offers[o] = db.offers[o]
         /\ Market!Without(gone) = Stalls(d)
         /\ gone \in SUBSET Market!Open(Stalls(db)) /\ gone \subseteq Market!StallsOf(p)
         /\ Owned(d) = Owned(db) /\ d.cash = db.cash
<1>1. db \in Rows /\ d \in Rows /\ Posted(d) = Posted(db) /\ d.cash = db.cash
  BY DEF Settles, RowsInv
<1>2. \A o \in Posted(db) : d.offers[o] = db.offers[o] \/ Lapses(db.offers[o], d.offers[o], p)
  BY DEF Settles
<1>3. OpenIn(d) \subseteq OpenIn(db) /\ \A o \in OpenIn(d) : d.offers[o] = db.offers[o]
  BY <1>1, <1>2 DEF OpenIn, Lapses
<1>4. \A o \in gone : o \in OpenIn(db) /\ db.offers[o].seller = p
  BY <1>1, <1>2 DEF OpenIn, Lapses
<1>5. Market!Open(Stalls(db)) = OpenIn(db)
  BY <1>1, OpenStalls
<1>6. gone \subseteq Market!StallsOf(p)
  <2>1. \A o \in gone : Stalls(db)[o].seller = p
    BY <1>1, <1>4, StallShape DEF OpenIn, Posted
  <2> QED
    BY <1>4, <1>5, <2>1, MarketViews
<1>7. Less(Stalls(db), gone) = Stalls(d)
  <2>1. ASSUME NEW o \in OfferIds
        PROVE  (IF o \in gone THEN Closed ELSE Stalls(db)[o]) = Stalls(d)[o]
    <3>1. CASE o \in gone
      <4>1. o \in Posted(d) \ OpenIn(d)
        BY <1>1, <3>1 DEF OpenIn
      <4> QED
        BY <1>1, <3>1, <4>1, StallShape
    <3>2. CASE o \in OpenIn(d)
      <4>1. d.offers[o] = db.offers[o] /\ o \notin gone
        BY <1>3, <3>2
      <4> QED
        BY <4>1 DEF Stalls
    <3>3. CASE o \in Posted(db) /\ o \notin OpenIn(db)
      <4>1. o \in Posted(d) \ OpenIn(d) /\ o \notin gone
        BY <1>1, <1>3, <3>3
      <4> QED
        BY <1>1, <3>3, <4>1, StallShape
    <3>4. CASE o \notin Posted(db)
      <4>1. o \notin Posted(d) /\ o \notin gone
        BY <1>1, <3>4 DEF OpenIn
      <4> QED
        BY <1>1, <3>4, <4>1, StallShape
    <3> QED
      BY <3>1, <3>2, <3>3, <3>4
  <2> QED
    BY <2>1 DEF Less, Stalls
<1>8. Owned(d) = Owned(db)
  <2>1. \A q \in Players : Holdings(d, q) = Holdings(db, q)
    BY OwnedSame DEF Settles
  <2> QED
    BY <2>1 DEF Owned
<1>9. Market!Without(gone) = Stalls(d) /\ gone \in SUBSET Market!Open(Stalls(db))
  BY <1>4, <1>5, <1>7, MarketViews
<1> QED
  BY <1>1, <1>3, <1>6, <1>8, <1>9

\* What a player holds on settled rows he has promised to nobody.
LEMMA HeldUnpromised ==
  ASSUME NEW d, RowsInv(d), Owned(d) = Owned(db), NEW q \in Players, NEW k \in Items, NEW n \in Nat,
         n <= d.held[q][k]
  PROVE  n <= Market!Unpromised(Stalls(d), q, k)
<1>1. d.held[q][k] \in Nat /\ d.escrow[q][k] \in Nat
  BY DEF RowsInv, Rows, Goods
<1>2. Market!Promised(Stalls(d), q, k) \in Nat /\ Market!Promised(Stalls(d), q, k) <= d.escrow[q][k]
  BY PromisedInEscrow
<1>3. Owned(db)[q][k] = d.held[q][k] + d.escrow[q][k]
  <2>1. Owned(d)[q][k] = d.held[q][k] + d.escrow[q][k]
    BY DEF Owned, Holdings
  <2> QED
    BY <2>1
<1>4. Market!Unpromised(Stalls(d), q, k) = Owned(db)[q][k] - Market!Promised(Stalls(d), q, k)
  BY MarketViews
<1> QED
  BY <1>1, <1>2, <1>3, <1>4

LEMMA SameGoods ==
  ASSUME NEW d, NEW e, GoodsKept(d, e)
  PROVE  Owned(e) = Owned(d)
<1>1. \A q \in Players : Holdings(e, q) = Holdings(d, q)
  BY OwnedSame
<1> QED
  BY <1>1 DEF Owned

LEMMA PutsUpLists ==
  ASSUME RowsInv(db), RowsInv(db'), NEW d, NEW p \in Players, Settles(db, d, p), NEW o, PutsUp(d, db', p, o),
         NEW gone, gone = OpenIn(db) \ OpenIn(d)
  PROVE  Market!List(gone, o)
<1> DEFINE new == db'.offers[o]
           promise == Stalls(db')[o]
<1>1. /\ d \in Rows /\ RowsInv(d) /\ db \in Rows /\ db' \in Rows /\ Posted(d) = Posted(db)
      /\ Market!Without(gone) = Stalls(d) /\ gone \subseteq Market!StallsOf(p)
      /\ Owned(d) = Owned(db) /\ d.cash = db.cash
  BY SettlesMarket DEF RowsInv, Settles
<1>2. /\ o \in OfferIds \ Posted(d) /\ Posted(db') = Posted(d) \cup {o}
      /\ new \in Offer /\ new.seller = p /\ new.status = "OPEN" /\ new.left = new.quantity
      /\ new.left <= d.held[p][new.item] /\ new.fee <= d.cash[p]
      /\ db'.cash = [d.cash EXCEPT ![p] = @ - new.fee]
      /\ \A x \in Posted(d) : db'.offers[x] = d.offers[x]
      /\ GoodsKept(d, db')
  BY DEF PutsUp
<1>3. new.item \in Items /\ new.quantity \in Nat \ {0} /\ new.fee \in Nat /\ d.cash[p] \in Nat
  BY <1>1, <1>2 DEF Offer, Rows
<1>4. o \in OpenIn(db')
  BY <1>2 DEF OpenIn
<1>5. /\ promise \in Market!Promise /\ promise.seller = p /\ promise.item = new.item
      /\ promise.quantity = new.quantity /\ promise.left = new.left
  BY <1>1, <1>2, <1>4, StallShape
<1> HIDE DEF promise
<1>6. Stalls(db)[o] = None
  BY <1>1, <1>2, StallShape
<1>7. db.cash[p] - db'.cash[p] = new.fee
  <2>1. db'.cash[p] = d.cash[p] - new.fee
    BY <1>1, <1>2 DEF Rows
  <2> QED
    BY <1>1, <1>3, <2>1
<1>8. promise.left <= Market!Unpromised(Stalls(d), p, new.item)
  BY <1>1, <1>2, <1>3, <1>5, HeldUnpromised
<1>9. Stalls(db') = [Stalls(d) EXCEPT ![o] = promise]
  <2>1. ASSUME NEW x \in OfferIds, x # o PROVE StallOf(db'.offers[x]) = StallOf(d.offers[x])
    <3>1. CASE x \in Posted(d)
      BY <1>2, <3>1
    <3>2. CASE x \notin Posted(d)
      <4>1. db'.offers[x] = None /\ d.offers[x] = None
        BY <1>2, <2>1, <3>2 DEF Posted
      <4> QED
        BY <4>1
    <3> QED
      BY <3>1, <3>2
  <2>2. Stalls(db')[o] = promise
    BY DEF promise
  <2> QED
    BY <1>2, <2>1, <2>2 DEF Stalls
<1>10. Owned(db') = Owned(db)
  BY <1>1, <1>2, SameGoods
<1>11. Lists(gone, o)
  <2>1. new.fee \in 0..db.cash[p]
    BY <1>1, <1>2, <1>3
  <2>2. promise.left = promise.quantity /\ promise.left > 0
    BY <1>2, <1>3, <1>5
  <2>3. db'.cash = [db.cash EXCEPT ![p] = @ - new.fee]
    BY <1>1, <1>2
  <2> HIDE DEF new
  <2> QED
    BY <1>1, <1>5, <1>6, <1>7, <1>8, <1>9, <1>10, <2>1, <2>2, <2>3 DEF Lists, promise
<1> QED
  BY <1>11, ListIs

LEMMA TakesDownWithdraws ==
  ASSUME RowsInv(db), RowsInv(db'), NEW d, NEW p \in Players, Settles(db, d, p), NEW o, TakesDown(d, db', p, o),
         NEW gone, gone = OpenIn(db) \ OpenIn(d)
  PROVE  gone \cup {o} \in SUBSET Market!Open(Stalls(db)) /\ Market!Withdraw(gone \cup {o})
<1>1. /\ d \in Rows /\ db \in Rows /\ db' \in Rows /\ OpenIn(d) \subseteq OpenIn(db)
      /\ \A x \in OpenIn(d) : d.offers[x] = db.offers[x]
      /\ Market!Without(gone) = Stalls(d) /\ gone \subseteq Market!StallsOf(p)
      /\ gone \in SUBSET Market!Open(Stalls(db))
      /\ Owned(d) = Owned(db) /\ d.cash = db.cash
  BY SettlesMarket DEF RowsInv
<1>2. /\ o \in Posted(d) /\ Posted(db') = Posted(d)
      /\ d.offers[o].seller = p /\ d.offers[o].status = "OPEN" /\ db'.offers[o].status = "CANCELLED"
      /\ db'.cash = d.cash /\ \A x \in Posted(d) : x # o => db'.offers[x] = d.offers[x]
      /\ GoodsKept(d, db')
  BY DEF TakesDown
<1>3. o \in OpenIn(d) /\ o \in OpenIn(db) /\ db.offers[o].seller = p /\ o \in OfferIds
  BY <1>1, <1>2 DEF OpenIn, Posted
<1>4. o \in Market!Open(Stalls(db)) /\ o \in Market!StallsOf(p)
  <2>1. Market!Open(Stalls(db)) = OpenIn(db)
    BY <1>1, OpenStalls
  <2>2. Stalls(db)[o].seller = p
    BY <1>1, <1>3, StallShape
  <2> QED
    BY <1>3, <2>1, <2>2, MarketViews
<1>5. Stalls(db') = Market!Without(gone \cup {o})
  <2>1. Stalls(db')[o] = Closed
    <3>1. o \in Posted(db') \ OpenIn(db')
      BY <1>2 DEF OpenIn
    <3> QED
      BY <1>1, <1>3, <3>1, StallShape
  <2>2. ASSUME NEW x \in OfferIds, x # o PROVE Stalls(db')[x] = Stalls(d)[x]
    <3>1. CASE x \in Posted(d)
      BY <1>2, <2>2, <3>1 DEF Stalls
    <3>2. CASE x \notin Posted(d)
      BY <1>1, <1>2, <3>2, StallShape
    <3> QED
      BY <3>1, <3>2
  <2>3. \A x \in OfferIds : Stalls(d)[x] = IF x \in gone THEN Closed ELSE Stalls(db)[x]
    BY <1>1, MarketViews DEF Less
  <2>4. Less(Stalls(db), gone \cup {o}) = Stalls(db')
    BY <2>1, <2>2, <2>3 DEF Less, Stalls
  <2> QED
    BY <2>4, MarketViews
<1>6. Owned(db') = Owned(db)
  BY <1>1, <1>2, SameGoods
<1>7. Withdraws(gone \cup {o})
  BY <1>1, <1>2, <1>4, <1>5, <1>6 DEF Withdraws
<1> QED
  BY <1>1, <1>4, <1>7, WithdrawIs

\* Goods owned after a sale, as the market has them.
LEMMA SoldGoods ==
  ASSUME NEW d \in Rows, NEW e \in Rows, NEW b, NEW o, NEW units, NEW action, NEW called, NEW at,
         Sells(d, e, b, o, units, action, called, at)
  PROVE  Owned(e) = AfterTrade(Owned(d), d.offers[o], b, units)
<1> DEFINE x == d.offers[o]
           s == x.seller
           bought == [k \in Items |-> Owned(d)[b][k] - x.ask[k] + (IF k = x.item THEN units ELSE 0)]
           sold == [k \in Items |-> Owned(d)[s][k] + x.ask[k] - (IF k = x.item THEN units ELSE 0)]
<1>1. b \in Players /\ b # s /\ o \in Posted(d) /\ units \in 1..x.left
  BY DEF Sells
<1>2. x \in Offer /\ s \in Players /\ x.ask \in Goods /\ x.left \in Nat
  BY <1>1, OffersTyped DEF Offer
<1>3. units \in Nat
  BY <1>1, <1>2
<1>4. \A q \in Players, k \in Items : Owned(e)[q][k] = Owned(d)[q][k] + Change(x, b, units, q, k)
  BY DEF Sells, Owned, Holdings
<1>5. \A q \in Players, k \in Items : Owned(d)[q][k] \in Nat /\ x.ask[k] \in Nat
  <2>1. \A q \in Players, k \in Items : d.held[q][k] \in Nat /\ d.escrow[q][k] \in Nat
    BY DEF Rows, Goods
  <2>2. \A q \in Players, k \in Items : Owned(d)[q][k] = d.held[q][k] + d.escrow[q][k]
    BY DEF Owned, Holdings
  <2> QED
    BY <1>2, <2>1, <2>2 DEF Goods
<1>6. \A q \in Players : Owned(e)[q] = [k \in Items |-> Owned(e)[q][k]] /\ Owned(d)[q] = [k \in Items |-> Owned(d)[q][k]]
  BY DEF Owned, Holdings
<1> HIDE DEF x, s
<1>7. \A k \in Items : Owned(e)[b][k] = bought[k] /\ Owned(e)[s][k] = sold[k]
  <2> SUFFICES ASSUME NEW k \in Items PROVE Owned(e)[b][k] = bought[k] /\ Owned(e)[s][k] = sold[k]
    OBVIOUS
  <2>1. /\ Change(x, b, units, b, k) = (IF k = x.item THEN units ELSE 0) - x.ask[k]
        /\ Change(x, b, units, s, k) = x.ask[k] - (IF k = x.item THEN units ELSE 0)
    BY <1>1 DEF Change, s
  <2> QED
    BY <1>1, <1>2, <1>3, <1>4, <1>5, <2>1
<1>8. \A q \in Players : q # b /\ q # s => Owned(e)[q] = Owned(d)[q]
  <2> SUFFICES ASSUME NEW q \in Players, q # b, q # s PROVE Owned(e)[q] = Owned(d)[q]
    OBVIOUS
  <2>1. \A k \in Items : Change(x, b, units, q, k) = 0
    BY DEF Change, s
  <2>2. \A k \in Items : Owned(e)[q][k] = Owned(d)[q][k]
    BY <1>4, <1>5, <2>1
  <2> QED
    BY <1>6, <2>2
<1>9. Owned(e)[b] = bought /\ Owned(e)[s] = sold
  BY <1>1, <1>2, <1>6, <1>7
<1>10. Owned(e) = [Owned(d) EXCEPT ![b] = bought, ![s] = sold]
  <2> HIDE DEF bought, sold
  <2>1. Owned(e) = [q \in Players |-> Owned(e)[q]] /\ Owned(d) = [q \in Players |-> Owned(d)[q]]
    BY DEF Owned
  <2> QED
    BY <1>1, <1>2, <1>8, <1>9, <2>1
<1>11. AfterTrade(Owned(d), x, b, units) = [Owned(d) EXCEPT ![b] = bought, ![s] = sold]
  BY <1>1 DEF AfterTrade, s
<1> QED
  BY <1>10, <1>11 DEF x

\* The stalls after a sale, likewise.
LEMMA SoldStalls ==
  ASSUME NEW d \in Rows, NEW e \in Rows, NEW b, NEW o, NEW units, NEW action, NEW called, NEW at,
         Sells(d, e, b, o, units, action, called, at)
  PROVE  Stalls(e) = [Stalls(d) EXCEPT ![o] = AfterUnits(Stalls(d)[o], units)]
<1> DEFINE x == d.offers[o]
           s == Stalls(d)[o]
           after == IF units = s.left THEN Closed ELSE [s EXCEPT !.left = @ - units]
<1>1. /\ o \in Posted(d) /\ Posted(e) = Posted(d) /\ x.status = "OPEN" /\ units \in 1..x.left
      /\ e.offers[o] = AfterSale(x, units)
      /\ \A y \in Posted(d) : y # o => e.offers[y] = d.offers[y]
  BY DEF Sells
<1>2. o \in OfferIds /\ x \in Offer /\ x.left \in Nat /\ x # None
  BY <1>1, OffersTyped DEF Offer, Posted
<1>3. units \in Nat /\ units <= x.left
  BY <1>1, <1>2
<1>4. s = [seller |-> x.seller, item |-> x.item, quantity |-> x.quantity, left |-> x.left,
           price |-> x.price, ask |-> x.ask]
  BY <1>1, <1>2 DEF Stalls, StallOf
<1>5. Stalls(e)[o] = StallOf(AfterSale(x, units))
  BY <1>1, <1>2 DEF Stalls
<1>6. StallOf(AfterSale(x, units)) = after
  <2>1. AfterSale(x, units) # None
    BY <1>1, <1>2 DEF Posted
  <2>2. CASE units = x.left
    <3>1. AfterSale(x, units).status # "OPEN"
      BY <1>2, <1>3, <2>2 DEF AfterSale, Offer
    <3> QED
      BY <1>4, <2>1, <2>2, <3>1 DEF StallOf
  <2>3. CASE units # x.left
    <3> DEFINE y == AfterSale(x, units)
    <3>0. x.left - units # 0
      BY <1>2, <1>3, <2>3
    <3>1. y = [x EXCEPT !.left = x.left - units, !.status = x.status]
      BY <3>0 DEF AfterSale
    <3>2. /\ y.status = "OPEN" /\ y.left = x.left - units /\ y.seller = x.seller /\ y.item = x.item
          /\ y.quantity = x.quantity /\ y.price = x.price /\ y.ask = x.ask
      BY <1>1, <1>2, <3>1 DEF Offer
    <3>3. StallOf(y) = [seller |-> x.seller, item |-> x.item, quantity |-> x.quantity,
                        left |-> x.left - units, price |-> x.price, ask |-> x.ask]
      <4> HIDE DEF y
      <4> QED
        BY <2>1, <3>2 DEF StallOf, y
    <3>4. after = [seller |-> x.seller, item |-> x.item, quantity |-> x.quantity,
                   left |-> x.left - units, price |-> x.price, ask |-> x.ask]
      BY <1>4, <2>3
    <3> QED
      BY <3>3, <3>4
  <2> QED
    BY <2>2, <2>3
<1>7. ASSUME NEW y \in OfferIds, y # o PROVE Stalls(e)[y] = Stalls(d)[y]
  <2>1. CASE y \in Posted(d)
    BY <1>1, <1>7, <2>1 DEF Stalls
  <2>2. CASE y \notin Posted(d)
    BY <1>1, <2>2, StallShape
  <2> QED
    BY <2>1, <2>2
<1> HIDE DEF after
<1>8. Stalls(e) = [Stalls(d) EXCEPT ![o] = after]
  <2>1. Stalls(e) = [y \in OfferIds |-> Stalls(e)[y]] /\ Stalls(d) = [y \in OfferIds |-> Stalls(d)[y]]
    BY DEF Stalls
  <2> QED
    BY <1>2, <1>5, <1>6, <1>7, <2>1
<1> QED
  BY <1>8 DEF after, AfterUnits

LEMMA SellsBuys ==
  ASSUME RowsInv(db), RowsInv(db'), NEW d, NEW p \in Players, Settles(db, d, p),
         NEW b, NEW o, NEW units, NEW action, NEW called, NEW at,
         Sells(d, db', b, o, units, action, called, at), d.offers[o].seller = p,
         NEW gone, gone = OpenIn(db) \ OpenIn(d)
  PROVE  /\ o \in Market!Open(Stalls(db)) /\ b \in Players /\ units \in 1..Stalls(db)[o].left
         /\ Market!Buy(gone, b, o, units)
<1> DEFINE x == d.offers[o]
           promise == Stalls(db)[o]
<1>0. RowsInv(d) /\ d \in Rows /\ db \in Rows /\ db' \in Rows
  BY DEF RowsInv, Settles
<1>1. /\ OpenIn(d) \subseteq OpenIn(db)
      /\ \A y \in OpenIn(d) : d.offers[y] = db.offers[y]
      /\ Market!Without(gone) = Stalls(d) /\ gone \subseteq Market!StallsOf(p)
      /\ Owned(d) = Owned(db) /\ d.cash = db.cash
  BY SettlesMarket
<1>2. /\ o \in Posted(d) /\ b \in Players /\ b # p /\ x.status = "OPEN" /\ units \in 1..x.left
      /\ IsBarter(x) => units = x.quantity
      /\ x.price * units <= d.cash[b]
      /\ \A k \in Items : x.ask[k] <= d.held[b][k]
      /\ db'.cash = [d.cash EXCEPT ![b] = @ - x.price * units, ![p] = @ + x.price * units]
  BY DEF Sells
<1>3. o \in OpenIn(d) /\ o \in OpenIn(db) /\ o \notin gone /\ o \in OfferIds
  BY <1>1, <1>2 DEF OpenIn, Posted
<1>4. promise = Stalls(d)[o]
  BY <1>1, <1>3 DEF Stalls
<1>5. /\ promise.seller = p /\ promise.item = x.item /\ promise.quantity = x.quantity
      /\ promise.left = x.left /\ promise.price = x.price /\ promise.ask = x.ask
  BY <1>0, <1>3, <1>4, StallShape
<1>6. x \in Offer /\ x.ask \in Goods
  BY <1>0, <1>2, OffersTyped DEF Offer
<1>7. o \in Market!Open(Stalls(db))
  BY <1>0, <1>3, OpenStalls
<1>8. \A k \in Items : x.ask[k] <= Market!Unpromised(Market!Without(gone), b, k)
  BY <1>0, <1>1, <1>2, <1>6, HeldUnpromised DEF Goods
<1>9. (\E k \in Items : x.ask[k] > 0) => units = x.quantity
  <2> SUFFICES ASSUME NEW k \in Items, x.ask[k] > 0 PROVE units = x.quantity
    OBVIOUS
  <2>1. x.ask # NoGoods
    BY DEF NoGoods
  <2> QED
    BY <1>2, <2>1 DEF IsBarter
<1>10. Owned(db') = AfterTrade(Owned(db), x, b, units)
  BY <1>0, <1>1, SoldGoods
<1>11. Stalls(db') = [Market!Without(gone) EXCEPT ![o] = AfterUnits(promise, units)]
  <2>1. Stalls(db') = [Stalls(d) EXCEPT ![o] = AfterUnits(Stalls(d)[o], units)]
    BY <1>0, SoldStalls
  <2> HIDE DEF promise
  <2> QED
    BY <1>1, <1>4, <2>1
<1>12. AfterTrade(Owned(db), x, b, units) = AfterTrade(Owned(db), promise, b, units)
  BY <1>5 DEF AfterTrade
<1>13. x.price * units = promise.price * units
  BY <1>5
<1> HIDE DEF promise, x
<1>14. Takes(gone, b, o, units)
  BY <1>1, <1>2, <1>3, <1>5, <1>7, <1>8, <1>9, <1>10, <1>11, <1>12, <1>13 DEF Takes, promise
<1> QED
  BY <1>2, <1>5, <1>7, <1>14, BuyIs DEF promise

\* A step of the market, written with the stalls of the rows.
LEMMA NextIs ==
  ASSUME NEW gone \in SUBSET Market!Open(Stalls(db)),
         \/ Market!Withdraw(gone)
         \/ \E o \in OfferIds : Market!List(gone, o)
         \/ \E b \in Players, o \in Market!Open(Stalls(db)) :
              \E units \in 1..Stalls(db)[o].left : Market!Buy(gone, b, o, units)
  PROVE  Market!Next
  BY DEF Market!Next, Stalls, StallOf

LEMMA MarketStep ==
  ASSUME BoardInv, [Next]_vars
  PROVE  [Market!Next]_Market!market
<1>1. IInv /\ NotOwn /\ RowsInv(db) /\ RowsInv(db')
  BY NextIInv, RowsFromIInv, RowsFromIInvNext DEF BoardInv
<1>2. CASE Quiet
  <2>1. Stalls(db') = Stalls(db) /\ db'.cash = db.cash /\ Owned(db') = Owned(db)
    BY <1>2 DEF Quiet, Stalls, Owned, Holdings
  <2> QED
    BY <2>1, MarketStill
<1>3. ASSUME NEW p \in Players, NEW d, Trades(d, p) PROVE Market!Next
  <2>0. PICK gone : gone = OpenIn(db) \ OpenIn(d)
    OBVIOUS
  <2>1. Settles(db, d, p)
    BY <1>3 DEF Trades
  <2>2. /\ gone \in SUBSET Market!Open(Stalls(db)) /\ gone \subseteq Market!StallsOf(p)
        /\ Market!Without(gone) = Stalls(d) /\ Owned(d) = Owned(db) /\ d.cash = db.cash
    BY <1>1, <2>0, <2>1, SettlesMarket
  <2>3. CASE db' = d
    <3>1. Withdraws(gone)
      BY <2>2, <2>3 DEF Withdraws
    <3> QED
      BY <2>2, <3>1, WithdrawIs, NextIs
  <2>4. ASSUME NEW o \in OfferIds, PutsUp(d, db', p, o) PROVE Market!Next
    <3>1. Market!List(gone, o)
      BY <1>1, <2>0, <2>1, <2>4, PutsUpLists
    <3> QED
      BY <2>2, <3>1, NextIs
  <2>5. ASSUME NEW o \in OfferIds, TakesDown(d, db', p, o) PROVE Market!Next
    <3>1. gone \cup {o} \in SUBSET Market!Open(Stalls(db)) /\ Market!Withdraw(gone \cup {o})
      BY <1>1, <2>0, <2>1, <2>5, TakesDownWithdraws
    <3> QED
      BY <3>1, NextIs
  <2>6. CASE Buys(d, p)
    <3>9. PICK action, called : \E b \in Players, o \in Posted(d), units \in Nat :
            Sells(d, db', b, o, units, action, called, clock) /\ d.offers[o].seller = p
      BY <2>6 DEF Buys
    <3>1. PICK b \in Players, o \in Posted(d), units \in Nat :
            Sells(d, db', b, o, units, action, called, clock) /\ d.offers[o].seller = p
      BY <3>9
    <3>2. /\ o \in Market!Open(Stalls(db)) /\ units \in 1..Stalls(db)[o].left
          /\ Market!Buy(gone, b, o, units)
      BY <1>1, <2>0, <2>1, <3>1, SellsBuys
    <3> QED
      BY <2>2, <3>2, NextIs
  <2> QED
    BY <1>3, <2>3, <2>4, <2>5, <2>6 DEF Trades
<1> QED
  BY <1>1, <1>2, <1>3, StepCases

LEMMA MarketInit == Init => Market!Init
<1> SUFFICES ASSUME Init PROVE Market!Init
  OBVIOUS
<1>1. db.cash = StartCash /\ db.held = StartHeld /\ db.offers = [o \in OfferIds |-> None]
  BY DEF Init
<1>2. \A p \in Players, k \in Items : db.escrow[p][k] = 0
  BY DEF Init, NoGoods
<1>3. [p \in Players |-> [k \in Items |-> db.held[p][k] + db.escrow[p][k]]] = StartHeld
  <2>1. \A p \in Players, k \in Items : StartHeld[p][k] \in Nat
    BY BoardAssumption DEF Goods
  <2>2. \A p \in Players, k \in Items : db.held[p][k] + db.escrow[p][k] = StartHeld[p][k]
    BY <1>1, <1>2, <2>1
  <2>3. StartHeld = [p \in Players |-> [k \in Items |-> StartHeld[p][k]]]
    BY BoardAssumption DEF Goods
  <2> QED
    BY <2>2, <2>3
<1> QED
  BY <1>1, <1>3 DEF Market!Init

\* The Board implements the market it promises: every step of its requests, clocks
\* and locks is a step of BoardMarket or changes nothing there, so an offer is a
\* promise of goods that are there, sold at its price and once, and no goods are
\* made or lost in a trade.
THEOREM BoardImplementsMarket == Spec => ImplementsMarket
  BY MarketInit, BoardAlways, MarketStep, PTL DEF Spec, ImplementsMarket, Market!Spec

=============================================================================
