--------------------------- MODULE PlayerBoardProofs ---------------------------
(***************************************************************************)
(* The Board's type invariant and its escrow reconciliation, for every set *)
(* of players, goods, listings and request handlers.                       *)
(***************************************************************************)
EXTENDS PlayerBoard, FiniteSetTheorems, TLAPS

-----------------------------------------------------------------------------
(* Arithmetic *)

LEMMA LeastType == \A a, b \in Nat : Least(a, b) \in Nat /\ Least(a, b) <= a /\ Least(a, b) <= b
  BY DEF Least

LEMMA AtLeastZeroType == \A n \in Int : AtLeastZero(n) \in Nat /\ (n >= 0 => AtLeastZero(n) = n)
  BY DEF AtLeastZero

LEMMA ProductType == \A a, b \in Nat : a * b \in Nat
  OBVIOUS

LEMMA QuotientType == \A a \in Nat, b \in Nat \ {0} : a \div b \in Nat
  OBVIOUS

\* A posting fee is an amount of cents.
LEMMA PostingFeeType == \A form \in Listings : PostingFee(form) \in Nat
<1> SUFFICES ASSUME NEW form \in Listings PROVE PostingFee(form) \in Nat
  OBVIOUS
<1>1. form \in Listing
  BY BoardAssumption
<1>2. form.item \in Items /\ form.quantity \in Nat
  BY <1>1 DEF Listing
<1>3. Book[form.item] \in Nat /\ FeePercent \in Nat /\ FeeMin \in Nat
  BY <1>2, BoardAssumption DEF Goods
<1>4. Book[form.item] * form.quantity * FeePercent \in Nat
  BY <1>2, <1>3, ProductType
<1>5. (Book[form.item] * form.quantity * FeePercent + 99) \div 100 \in Nat
  BY <1>4, QuotientType
<1> QED
  BY <1>3, <1>5 DEF PostingFee

-----------------------------------------------------------------------------
(* Units of offers: LeftIn is a sum *)

\* A table of offers whose lefts, on S, are amounts.
Counted(offers, S) == S \subseteq OfferIds /\ \A o \in S : offers[o].left \in Nat

LEMMA FromOneTo == \A n \in Nat : IsFiniteSet(1..n) /\ Cardinality(1..n) = n
<1> SUFFICES ASSUME NEW n \in Nat PROVE IsFiniteSet(1..n) /\ Cardinality(1..n) = n
  OBVIOUS
<1>1. 1 \in Int /\ n \in Int
  OBVIOUS
<1>2. IsFiniteSet(1..n) /\ Cardinality(1..n) = IF 1 > n THEN 0 ELSE n - 1 + 1
  BY <1>1, FS_Interval, Zenon
<1> QED
  BY <1>2

\* One offer holds as many units as it has left.
LEMMA LeftInOne ==
  ASSUME NEW offers, NEW o, offers[o].left \in Nat
  PROVE  /\ IsFiniteSet({o} \X (1..offers[o].left))
         /\ LeftIn(offers, {o}) = offers[o].left
<1> DEFINE units == {o} \X (1..offers[o].left)
<1>1. IsFiniteSet({o}) /\ Cardinality({o}) = 1
  BY FS_Singleton
<1>2. IsFiniteSet(1..offers[o].left) /\ Cardinality(1..offers[o].left) = offers[o].left
  BY FromOneTo
<1>3. IsFiniteSet(units) /\ Cardinality(units) = Cardinality({o}) * Cardinality(1..offers[o].left)
  BY <1>1, <1>2, FS_Product
<1>4. Cardinality(units) = offers[o].left
  BY <1>1, <1>2, <1>3
<1>5. UnitsIn(offers, {o}) = units
  BY DEF UnitsIn
<1> QED
  BY <1>3, <1>4, <1>5 DEF LeftIn

\* The units of offers that are ids of the model are finitely many.
LEMMA UnitsInFinite ==
  ASSUME NEW offers, NEW S, Counted(offers, S)
  PROVE  IsFiniteSet(UnitsIn(offers, S)) /\ LeftIn(offers, S) \in Nat
<1> DEFINE family == {{o} \X (1..offers[o].left) : o \in S}
           enum == [o \in S |-> {o} \X (1..offers[o].left)]
<1>1. IsFiniteSet(S)
  BY FS_Subset, BoardAssumption DEF Counted
<1>2. enum \in Surjection(S, family)
  BY DEF Surjection
<1>3. IsFiniteSet(family)
  <2> HIDE DEF family, enum
  <2> QED
    BY <1>1, <1>2, FS_Surjection
<1>4. \A units \in family : IsFiniteSet(units)
  BY LeftInOne DEF Counted
<1>5. IsFiniteSet(UNION family)
  <2> HIDE DEF family
  <2> QED
    BY <1>3, <1>4, FS_UNION
<1> QED
  BY <1>5, FS_CardinalityType DEF UnitsIn, LeftIn

\* Offers taken out of a set take exactly their own units with them.
LEMMA LeftInDifference ==
  ASSUME NEW offers, NEW S, NEW T, Counted(offers, S), T \subseteq S
  PROVE  /\ LeftIn(offers, S \ T) = LeftIn(offers, S) - LeftIn(offers, T)
         /\ LeftIn(offers, S) \in Nat /\ LeftIn(offers, T) \in Nat
         /\ LeftIn(offers, T) <= LeftIn(offers, S)
<1>1. Counted(offers, T) /\ Counted(offers, S \ T)
  BY DEF Counted
<1>2. UnitsIn(offers, S \ T) = UnitsIn(offers, S) \ UnitsIn(offers, T)
  BY DEF UnitsIn
<1>3. UnitsIn(offers, S) \cap UnitsIn(offers, T) = UnitsIn(offers, T)
  BY DEF UnitsIn
<1>4. IsFiniteSet(UnitsIn(offers, S))
  BY UnitsInFinite
<1>5. LeftIn(offers, S \ T) = LeftIn(offers, S) - LeftIn(offers, T)
  BY <1>2, <1>3, <1>4, FS_Difference DEF LeftIn
<1>6. LeftIn(offers, S) \in Nat /\ LeftIn(offers, T) \in Nat /\ LeftIn(offers, S \ T) \in Nat
  BY <1>1, UnitsInFinite
<1> QED
  BY <1>5, <1>6

\* Only the lefts count.
LEMMA LeftInSame ==
  ASSUME NEW a, NEW b, NEW S, \A o \in S : a[o].left = b[o].left
  PROVE  LeftIn(a, S) = LeftIn(b, S)
<1>1. UnitsIn(a, S) = UnitsIn(b, S)
  BY DEF UnitsIn
<1> QED
  BY <1>1 DEF LeftIn

\* An offer outside a set adds what it has left.
LEMMA LeftInAdd ==
  ASSUME NEW offers, NEW S, NEW o, o \notin S, Counted(offers, S \cup {o})
  PROVE  LeftIn(offers, S \cup {o}) = LeftIn(offers, S) + offers[o].left
<1>1. LeftIn(offers, (S \cup {o}) \ {o}) = LeftIn(offers, S \cup {o}) - LeftIn(offers, {o})
      /\ LeftIn(offers, S \cup {o}) \in Nat
  BY LeftInDifference
<1>2. (S \cup {o}) \ {o} = S
  OBVIOUS
<1>3. LeftIn(offers, {o}) = offers[o].left /\ offers[o].left \in Nat
  BY LeftInOne DEF Counted
<1> QED
  BY <1>1, <1>2, <1>3

-----------------------------------------------------------------------------
(* Rows: every transaction body keeps them well typed and reconciled *)

Reconciled(d) ==
  \A p \in Players, k \in Items : d.escrow[p][k] = LeftIn(d.offers, HeldOffers(d, p, k))

RowsInv(d) == d \in Rows /\ Reconciled(d)

LEMMA OffersTyped ==
  ASSUME NEW d \in Rows, NEW o \in Posted(d)
  PROVE  o \in OfferIds /\ d.offers[o] \in Offer
  BY DEF Rows, Posted

LEMMA PostedCounted ==
  ASSUME NEW d \in Rows, NEW S \in SUBSET Posted(d)
  PROVE  Counted(d.offers, S)
  BY OffersTyped DEF Counted, Offer

LEMMA HeldPosted ==
  ASSUME NEW d, NEW p, NEW k
  PROVE  HeldOffers(d, p, k) \in SUBSET Posted(d)
  BY DEF HeldOffers, OffersOf

LEMMA ReturnStacksType ==
  ASSUME NEW d \in Rows, NEW p \in Players, NEW back \in Goods
  PROVE  LET e == ReturnStacks(d, p, back)
         IN  /\ e \in Rows
             /\ e.offers = d.offers
             /\ \A q \in Players : q # p => e.escrow[q] = d.escrow[q]
             /\ \A k \in Items : e.escrow[p][k] = AtLeastZero(d.escrow[p][k] - back[k])
<1> DEFINE tags == [k \in Items |-> Least(back[k], d.escrowTagged[p][k])]
           heldNow == [k \in Items |-> d.held[p][k] + back[k]]
           escrowNow == [k \in Items |-> AtLeastZero(d.escrow[p][k] - back[k])]
           taggedNow == [k \in Items |-> d.tagged[p][k] + tags[k]]
           escrowTaggedNow == [k \in Items |-> d.escrowTagged[p][k] - tags[k]]
           e == [d EXCEPT !.held = [@ EXCEPT ![p] = heldNow],
                          !.escrow = [@ EXCEPT ![p] = escrowNow],
                          !.tagged = [@ EXCEPT ![p] = taggedNow],
                          !.escrowTagged = [@ EXCEPT ![p] = escrowTaggedNow]]
<1>1. d.held[p] \in Goods /\ d.escrow[p] \in Goods /\ d.tagged[p] \in Goods /\ d.escrowTagged[p] \in Goods
  BY DEF Rows
<1>2. \A k \in Items : tags[k] \in Nat /\ tags[k] <= d.escrowTagged[p][k]
  BY <1>1, LeastType DEF Goods
<1>3. heldNow \in Goods
  BY <1>1 DEF Goods
<1>4. escrowNow \in Goods
  BY <1>1, AtLeastZeroType DEF Goods
<1>5. taggedNow \in Goods
  BY <1>1, <1>2 DEF Goods
<1>6. escrowTaggedNow \in Goods
  BY <1>1, <1>2 DEF Goods
<1>7. ReturnStacks(d, p, back) = e
  BY DEF ReturnStacks
<1>8. e \in Rows
  <2> HIDE DEF heldNow, escrowNow, taggedNow, escrowTaggedNow
  <2> QED
    BY <1>3, <1>4, <1>5, <1>6 DEF Rows
<1>9. e.offers = d.offers
  BY DEF Rows
<1>10. e.escrow = [d.escrow EXCEPT ![p] = escrowNow]
  BY DEF Rows
<1>11. d.escrow \in [Players -> Goods]
  BY DEF Rows
<1>12. \A q \in Players : q # p => e.escrow[q] = d.escrow[q]
  <2> HIDE DEF e
  <2> QED
    BY <1>10, <1>11
<1>13. e.escrow[p] = escrowNow
  <2> HIDE DEF e, escrowNow
  <2> QED
    BY <1>10, <1>11
<1>14. \A k \in Items : e.escrow[p][k] = AtLeastZero(d.escrow[p][k] - back[k])
  <2> HIDE DEF e
  <2> QED
    BY <1>13
<1> HIDE DEF e
<1> QED
  BY <1>7, <1>8, <1>9, <1>12, <1>14

\* Settling a seller only closes offers and hands stacks back: the rows stay
\* reconciled, and no offer is lost.
LEMMA SettledInv ==
  ASSUME NEW d, RowsInv(d), NEW p \in Players, NEW r, NEW now \in Nat, NEW landing
  PROVE  LET e == Settled(d, p, r, now, landing)
         IN  RowsInv(e) /\ Posted(e) = Posted(d)
<1> DEFINE lapsed == Lapsed(d, p, r, now)
           home == {o \in lapsed : NeedsGap(d, p, d.offers[o].item) => d.offers[o].item \in landing}
           homeOf(k) == {o \in home : d.offers[o].item = k}
           back == [k \in Items |-> LeftIn(d.offers, homeOf(k))]
           R == ReturnStacks(d, p, back)
           table == [o \in OfferIds |->
                       IF o \in lapsed
                       THEN [d.offers[o] EXCEPT !.status = "EXPIRED",
                                                !.returnedAt = IF o \in home THEN now ELSE None]
                       ELSE d.offers[o]]
           e == [R EXCEPT !.offers = table]
<1>1. d \in Rows /\ Reconciled(d)
  BY DEF RowsInv
<1>2. /\ lapsed \subseteq Posted(d) /\ home \subseteq lapsed
      /\ \A o \in lapsed : d.offers[o].seller = p /\ InEscrow(d.offers[o])
  BY DEF Lapsed, DueOffers, OpenOffersOf, OffersOf, InEscrow
<1>3. \A k \in Items : homeOf(k) \subseteq HeldOffers(d, p, k)
  BY <1>2 DEF HeldOffers, OffersOf
<1>4. \A q \in Players, k \in Items : Counted(d.offers, HeldOffers(d, q, k))
  BY <1>1, HeldPosted, PostedCounted
<1>5. back \in Goods
  <2>1. \A k \in Items : LeftIn(d.offers, homeOf(k)) \in Nat
    <3> HIDE DEF homeOf
    <3> QED
      BY <1>3, <1>4, LeftInDifference
  <2> HIDE DEF homeOf
  <2> QED
    BY <2>1 DEF Goods
<1>6. /\ R \in Rows /\ R.offers = d.offers
      /\ \A q \in Players : q # p => R.escrow[q] = d.escrow[q]
      /\ \A k \in Items : R.escrow[p][k] = AtLeastZero(d.escrow[p][k] - back[k])
  <2> HIDE DEF back
  <2> QED
    BY <1>1, <1>5, ReturnStacksType
<1>7. \A o \in Posted(d) :
        /\ table[o] \in Offer /\ table[o] # None
        /\ table[o].left = d.offers[o].left /\ table[o].item = d.offers[o].item
        /\ table[o].seller = d.offers[o].seller
        /\ o \notin lapsed => table[o] = d.offers[o]
        /\ o \in lapsed => table[o].status = "EXPIRED" /\ (table[o].returnedAt = None <=> o \notin home)
  <2> SUFFICES ASSUME NEW o \in Posted(d)
               PROVE /\ table[o] \in Offer /\ table[o] # None
                     /\ table[o].left = d.offers[o].left /\ table[o].item = d.offers[o].item
                     /\ table[o].seller = d.offers[o].seller
                     /\ o \notin lapsed => table[o] = d.offers[o]
                     /\ o \in lapsed => table[o].status = "EXPIRED" /\ (table[o].returnedAt = None <=> o \notin home)
    OBVIOUS
  <2>1. o \in OfferIds /\ d.offers[o] \in Offer
    BY <1>1, OffersTyped
  <2> HIDE DEF lapsed, home
  <2>2. table[o] = IF o \in lapsed
                   THEN [d.offers[o] EXCEPT !.status = "EXPIRED",
                                                !.returnedAt = IF o \in home THEN now ELSE None]
                   ELSE d.offers[o]
    BY <2>1
  <2> HIDE DEF table
  <2>3. CASE o \in lapsed
    <3> DEFINE at == IF o \in home THEN now ELSE None
    <3>1. at \in Nat \cup {None} /\ (at = None <=> o \notin home)
      BY NoneAssumption
    <3>2. table[o] = [d.offers[o] EXCEPT !.status = "EXPIRED", !.returnedAt = at]
      BY <2>2, <2>3
    <3> HIDE DEF at
    <3>3. table[o] \in Offer
      BY <2>1, <3>1, <3>2 DEF Offer, OfferStatus
    <3>4. /\ table[o].left = d.offers[o].left /\ table[o].item = d.offers[o].item
          /\ table[o].seller = d.offers[o].seller
          /\ table[o].status = "EXPIRED" /\ table[o].returnedAt = at
      BY <2>1, <3>2 DEF Offer
    <3>5. table[o] # None
      BY <3>3, NoneAssumption
    <3> QED
      BY <2>3, <3>1, <3>3, <3>4, <3>5
  <2>4. CASE o \notin lapsed
    BY <2>1, <2>2, <2>4, NoneAssumption
  <2> QED
    BY <2>3, <2>4
<1>8. \A o \in OfferIds : o \notin Posted(d) => table[o] = None
  BY <1>2 DEF Posted
<1>9. table \in [OfferIds -> Offer \cup {None}]
  <2>1. \A o \in OfferIds : table[o] \in Offer \cup {None}
    <3> HIDE DEF table
    <3> QED
      BY <1>7, <1>8
  <2> HIDE DEF lapsed, home
  <2> QED
    BY <2>1
<1>10. e \in Rows /\ e.offers = table /\ e.escrow = R.escrow
  <2> HIDE DEF table, R
  <2> QED
    BY <1>6, <1>9 DEF Rows
<1>11. Posted(e) = Posted(d)
  <2>1. \A o \in OfferIds : table[o] # None <=> o \in Posted(d)
    <3> HIDE DEF table
    <3> QED
      BY <1>7, <1>8
  <2> HIDE DEF table, e
  <2> QED
    BY <2>1, <1>10 DEF Posted
<1>12. \A q \in Players, k \in Items :
         HeldOffers(e, q, k) = IF q = p THEN HeldOffers(d, p, k) \ homeOf(k) ELSE HeldOffers(d, q, k)
  <2> SUFFICES ASSUME NEW q \in Players, NEW k \in Items
               PROVE  HeldOffers(e, q, k) = IF q = p THEN HeldOffers(d, p, k) \ homeOf(k) ELSE HeldOffers(d, q, k)
    OBVIOUS
  <2>a. HeldOffers(e, q, k) \subseteq Posted(d) /\ HeldOffers(d, q, k) \subseteq Posted(d)
    <3> HIDE DEF e
    <3> QED
      BY <1>11, HeldPosted
  <2> SUFFICES ASSUME NEW o \in Posted(d)
               PROVE  o \in HeldOffers(e, q, k) <=>
                        IF q = p THEN o \in HeldOffers(d, p, k) \ homeOf(k) ELSE o \in HeldOffers(d, q, k)
    <3> HIDE DEF e, homeOf
    <3> QED
      BY <2>a
  <2>1. e.offers[o] = table[o]
    BY <1>10
  <2>2. /\ table[o].item = d.offers[o].item /\ table[o].seller = d.offers[o].seller
        /\ o \notin lapsed => table[o] = d.offers[o]
        /\ o \in lapsed => table[o].status = "EXPIRED" /\ (table[o].returnedAt = None <=> o \notin home)
    BY <1>7
  <2>3. o \in HeldOffers(d, q, k) <=> d.offers[o].seller = q /\ d.offers[o].item = k /\ InEscrow(d.offers[o])
    BY DEF HeldOffers, OffersOf
  <2>4. o \in HeldOffers(e, q, k) <=> table[o].seller = q /\ table[o].item = k /\ InEscrow(table[o])
    BY <1>11, <2>1 DEF HeldOffers, OffersOf
  <2>5. o \in homeOf(k) <=> o \in home /\ d.offers[o].item = k
    BY <1>2
  <2> HIDE DEF table, e, home, lapsed, homeOf
  <2>6. CASE o \in lapsed
    <3>1. InEscrow(table[o]) <=> o \notin home
      BY <2>2, <2>6 DEF InEscrow
    <3> QED
      BY <2>2, <2>3, <2>4, <2>5, <2>6, <3>1, <1>2
  <2>7. CASE o \notin lapsed
    BY <2>2, <2>3, <2>4, <2>5, <2>7, <1>2
  <2> QED
    BY <2>6, <2>7
<1>13. \A q \in Players, k \in Items : LeftIn(e.offers, HeldOffers(e, q, k)) = LeftIn(d.offers, HeldOffers(e, q, k))
  <2> SUFFICES ASSUME NEW q \in Players, NEW k \in Items
               PROVE  LeftIn(e.offers, HeldOffers(e, q, k)) = LeftIn(d.offers, HeldOffers(e, q, k))
    OBVIOUS
  <2>1. \A o \in HeldOffers(e, q, k) : e.offers[o].left = d.offers[o].left
    <3> HIDE DEF table, e
    <3> QED
      BY <1>7, <1>10, <1>11, HeldPosted
  <2> HIDE DEF e
  <2> QED
    BY <2>1, LeftInSame
<1>14. \A q \in Players, k \in Items : e.escrow[q][k] = LeftIn(e.offers, HeldOffers(e, q, k))
  <2> SUFFICES ASSUME NEW q \in Players, NEW k \in Items
               PROVE  e.escrow[q][k] = LeftIn(e.offers, HeldOffers(e, q, k))
    OBVIOUS
  <2>1. d.escrow[q][k] = LeftIn(d.offers, HeldOffers(d, q, k))
    BY <1>1 DEF Reconciled
  <2>2. CASE q # p
    <3> HIDE DEF e, R
    <3> QED
      BY <2>1, <2>2, <1>6, <1>10, <1>12, <1>13
  <2>3. CASE q = p
    <3>1. /\ LeftIn(d.offers, HeldOffers(d, p, k) \ homeOf(k))
               = LeftIn(d.offers, HeldOffers(d, p, k)) - LeftIn(d.offers, homeOf(k))
          /\ LeftIn(d.offers, HeldOffers(d, p, k)) \in Nat /\ LeftIn(d.offers, homeOf(k)) \in Nat
          /\ LeftIn(d.offers, homeOf(k)) <= LeftIn(d.offers, HeldOffers(d, p, k))
      <4> HIDE DEF homeOf
      <4> QED
        BY <1>3, <1>4, LeftInDifference
    <3>2. back[k] = LeftIn(d.offers, homeOf(k))
      <4> HIDE DEF homeOf
      <4> QED
        OBVIOUS
    <3>3. e.escrow[p][k] = AtLeastZero(d.escrow[p][k] - back[k])
      <4> HIDE DEF e, R, back
      <4> QED
        BY <1>6, <1>10
    <3> HIDE DEF e, homeOf, back
    <3>4. e.escrow[p][k] = d.escrow[p][k] - back[k]
      BY <2>1, <2>3, <3>1, <3>2, <3>3, AtLeastZeroType
    <3> QED
      BY <2>1, <2>3, <3>1, <3>2, <3>4, <1>12, <1>13
  <2> QED
    BY <2>2, <2>3
<1>15. Settled(d, p, r, now, landing) = e
  BY DEF Settled
<1> HIDE DEF e
<1> QED
  BY <1>10, <1>11, <1>14, <1>15 DEF RowsInv, Reconciled

\* A post moves units into escrow and puts an offer of as many units up.
LEMMA PostInv ==
  ASSUME NEW d, RowsInv(d), NEW p \in Players, NEW o \in OfferIds \ Posted(d),
         NEW form \in Listings, CanPost(d, p, form), NEW r \in Round, NEW now \in Nat
  PROVE  LET e == WithPost(d, p, o, form, r, now)
         IN  RowsInv(e) /\ Posted(d) \subseteq Posted(e)
<1> DEFINE item == form.item
           n == form.quantity
           fee == PostingFee(form)
           new == NewOffer(p, form, r, now)
           tags == Least(n, d.tagged[p][item])
           e == WithPost(d, p, o, form, r, now)
<1>1. d \in Rows /\ Reconciled(d)
  BY DEF RowsInv
<1>2. item \in Items /\ n \in Nat \ {0} /\ form.price \in Nat /\ form.ask \in Goods /\ form.lasts \in Nat
  BY BoardAssumption DEF Listing
<1>3. fee \in Nat /\ d.cash[p] \in Nat /\ d.cash[p] >= fee
  BY <1>1, PostingFeeType DEF Rows, CanPost
<1>4. new \in Offer /\ new # None
  <2>1. new \in Offer
    BY <1>2, <1>3 DEF NewOffer, Offer, OfferStatus, Round
  <2> QED
    BY <2>1, NoneAssumption
<1>5. new.seller = p /\ new.item = item /\ new.left = n /\ new.status = "OPEN"
  BY DEF NewOffer
<1>6. /\ d.held[p] \in Goods /\ d.escrow[p] \in Goods /\ d.tagged[p] \in Goods /\ d.escrowTagged[p] \in Goods
      /\ d.held[p][item] >= n
  BY <1>1, <1>2 DEF Rows, CanPost
<1>7. tags \in Nat /\ tags <= d.tagged[p][item]
  BY <1>2, <1>6, LeastType DEF Goods
<1> DEFINE heldNow == Plus(d.held[p], item, -n)
           taggedNow == Plus(d.tagged[p], item, -tags)
           escrowTaggedNow == Plus(d.escrowTagged[p], item, tags)
           escrowNow == Plus(d.escrow[p], item, n)
           cashNow == d.cash[p] - fee
<1>8. heldNow \in Goods /\ taggedNow \in Goods /\ escrowTaggedNow \in Goods /\ escrowNow \in Goods
  BY <1>2, <1>6, <1>7 DEF Goods, Plus
<1>9. cashNow \in Nat
  BY <1>3
<1>10. e = [d EXCEPT !.cash = [@ EXCEPT ![p] = cashNow],
                     !.held = [@ EXCEPT ![p] = heldNow],
                     !.tagged = [@ EXCEPT ![p] = taggedNow],
                     !.escrowTagged = [@ EXCEPT ![p] = escrowTaggedNow],
                     !.escrow = [@ EXCEPT ![p] = escrowNow],
                     !.offers = [@ EXCEPT ![o] = new]]
  BY DEF WithPost
<1> HIDE DEF heldNow, taggedNow, escrowTaggedNow, escrowNow, cashNow, new, fee, tags, e
<1>11. e \in Rows
  BY <1>1, <1>4, <1>8, <1>9, <1>10 DEF Rows
<1>12. e.offers = [d.offers EXCEPT ![o] = new] /\ e.escrow = [d.escrow EXCEPT ![p] = escrowNow]
  BY <1>1, <1>10 DEF Rows
<1>13. d.offers \in [OfferIds -> Offer \cup {None}] /\ d.escrow \in [Players -> Goods]
  BY <1>1 DEF Rows
<1>14. /\ e.offers[o] = new
       /\ \A x \in OfferIds : x # o => e.offers[x] = d.offers[x]
  BY <1>12, <1>13
<1>15. Posted(e) = Posted(d) \cup {o}
  BY <1>4, <1>14 DEF Posted
<1>16. \A q \in Players, k \in Items :
         HeldOffers(e, q, k) = IF q = p /\ k = item THEN HeldOffers(d, q, k) \cup {o} ELSE HeldOffers(d, q, k)
  BY <1>5, <1>14, <1>15 DEF HeldOffers, OffersOf, InEscrow, Posted
<1>17. \A q \in Players, k \in Items : LeftIn(e.offers, HeldOffers(d, q, k)) = d.escrow[q][k]
  <2> SUFFICES ASSUME NEW q \in Players, NEW k \in Items
               PROVE  LeftIn(e.offers, HeldOffers(d, q, k)) = d.escrow[q][k]
    OBVIOUS
  <2>1. \A x \in HeldOffers(d, q, k) : e.offers[x].left = d.offers[x].left
    BY <1>14, HeldPosted DEF Posted
  <2>2. LeftIn(e.offers, HeldOffers(d, q, k)) = LeftIn(d.offers, HeldOffers(d, q, k))
    BY <2>1, LeftInSame
  <2> QED
    BY <1>1, <2>2 DEF Reconciled
<1>18. \A q \in Players, k \in Items : e.escrow[q][k] = LeftIn(e.offers, HeldOffers(e, q, k))
  <2> SUFFICES ASSUME NEW q \in Players, NEW k \in Items
               PROVE  e.escrow[q][k] = LeftIn(e.offers, HeldOffers(e, q, k))
    OBVIOUS
  <2>1. CASE q = p /\ k = item
    <3>1. o \notin HeldOffers(d, q, k)
      BY HeldPosted
    <3>2. Counted(e.offers, HeldOffers(d, q, k) \cup {o})
      BY <1>11, <1>16, <2>1, HeldPosted, PostedCounted
    <3>3. LeftIn(e.offers, HeldOffers(e, q, k)) = d.escrow[q][k] + n
      <4>1. LeftIn(e.offers, HeldOffers(d, q, k) \cup {o}) = LeftIn(e.offers, HeldOffers(d, q, k)) + e.offers[o].left
        BY <3>1, <3>2, LeftInAdd
      <4>2. HeldOffers(e, q, k) = HeldOffers(d, q, k) \cup {o}
        BY <1>16, <2>1
      <4> QED
        BY <1>5, <1>14, <1>17, <4>1, <4>2
    <3>4. e.escrow[q][k] = d.escrow[q][k] + n
      BY <1>2, <1>6, <1>12, <1>13, <2>1 DEF Goods, Plus, escrowNow
    <3> QED
      BY <3>3, <3>4
  <2>2. CASE ~(q = p /\ k = item)
    <3>1. e.escrow[q][k] = d.escrow[q][k]
      BY <1>2, <1>6, <1>12, <1>13, <2>2 DEF Goods, Plus, escrowNow
    <3> QED
      BY <1>16, <1>17, <2>2, <3>1
  <2> QED
    BY <2>1, <2>2
<1> QED
  BY <1>11, <1>15, <1>18 DEF RowsInv, Reconciled, e

\* A cancel takes an offer down and its units out of escrow.
LEMMA CancelInv ==
  ASSUME NEW d, RowsInv(d), NEW p \in Players, NEW o, CanCancel(d, p, o), NEW now \in Nat
  PROVE  LET e == WithCancel(d, p, o, now)
         IN  RowsInv(e) /\ Posted(d) \subseteq Posted(e)
<1> DEFINE offer == d.offers[o]
           item == offer.item
           back == Only(item, offer.left)
           R == ReturnStacks(d, p, back)
           gone == [offer EXCEPT !.status = "CANCELLED", !.returnedAt = now]
           e == [R EXCEPT !.offers = [@ EXCEPT ![o] = gone]]
<1>1. d \in Rows /\ Reconciled(d)
  BY DEF RowsInv
<1>2. o \in Posted(d) /\ offer.seller = p /\ offer.status = "OPEN"
  BY DEF CanCancel, OpenOffersOf, OffersOf
<1>3. o \in OfferIds /\ offer \in Offer
  BY <1>1, <1>2, OffersTyped
<1>4. item \in Items /\ offer.left \in Nat
  BY <1>3 DEF Offer
<1>5. back \in Goods /\ \A k \in Items : back[k] = IF k = item THEN offer.left ELSE 0
  BY <1>4 DEF Only, Goods
<1>6. /\ R \in Rows /\ R.offers = d.offers
      /\ \A q \in Players : q # p => R.escrow[q] = d.escrow[q]
      /\ \A k \in Items : R.escrow[p][k] = AtLeastZero(d.escrow[p][k] - back[k])
  <2> HIDE DEF back
  <2> QED
    BY <1>1, <1>5, ReturnStacksType
<1>7. gone \in Offer /\ gone # None /\ gone.status = "CANCELLED" /\ gone.left = offer.left
  <2>1. gone \in Offer
    BY <1>3 DEF Offer, OfferStatus
  <2> QED
    BY <1>3, <2>1, NoneAssumption DEF Offer
<1>8. WithCancel(d, p, o, now) = e
  BY DEF WithCancel
<1> HIDE DEF gone, R, back
<1>9. e \in Rows /\ e.escrow = R.escrow /\ e.offers = [d.offers EXCEPT ![o] = gone]
  BY <1>6, <1>7 DEF Rows
<1> HIDE DEF e
<1>10. /\ e.offers[o] = gone
       /\ \A x \in OfferIds : x # o => e.offers[x] = d.offers[x]
  BY <1>1, <1>3, <1>9 DEF Rows
<1>11. Posted(e) = Posted(d)
  BY <1>2, <1>7, <1>10 DEF Posted
<1>12. \A q \in Players, k \in Items :
         /\ HeldOffers(e, q, k) = HeldOffers(d, q, k) \ {o}
         /\ o \in HeldOffers(d, q, k) <=> q = p /\ k = item
  BY <1>2, <1>7, <1>10, <1>11 DEF HeldOffers, OffersOf, InEscrow, Posted
<1>13. \A q \in Players, k \in Items :
         LeftIn(e.offers, HeldOffers(e, q, k)) = LeftIn(d.offers, HeldOffers(e, q, k))
  <2> SUFFICES ASSUME NEW q \in Players, NEW k \in Items
               PROVE  LeftIn(e.offers, HeldOffers(e, q, k)) = LeftIn(d.offers, HeldOffers(e, q, k))
    OBVIOUS
  <2>1. \A x \in HeldOffers(e, q, k) : e.offers[x].left = d.offers[x].left
    BY <1>7, <1>10, HeldPosted DEF Posted
  <2> QED
    BY <2>1, LeftInSame
<1>14. \A q \in Players, k \in Items : e.escrow[q][k] = LeftIn(e.offers, HeldOffers(e, q, k))
  <2> SUFFICES ASSUME NEW q \in Players, NEW k \in Items
               PROVE  e.escrow[q][k] = LeftIn(e.offers, HeldOffers(e, q, k))
    OBVIOUS
  <2>1. d.escrow[q][k] = LeftIn(d.offers, HeldOffers(d, q, k)) /\ d.escrow[q][k] \in Nat
    BY <1>1 DEF Reconciled, Rows, Goods
  <2>2. CASE q = p /\ k = item
    <3>1. Counted(d.offers, HeldOffers(d, q, k)) /\ {o} \subseteq HeldOffers(d, q, k)
      BY <1>1, <1>12, <2>2, HeldPosted, PostedCounted
    <3>2. /\ LeftIn(d.offers, HeldOffers(d, q, k) \ {o}) = LeftIn(d.offers, HeldOffers(d, q, k)) - LeftIn(d.offers, {o})
          /\ LeftIn(d.offers, {o}) <= LeftIn(d.offers, HeldOffers(d, q, k))
      BY <3>1, LeftInDifference
    <3>3. LeftIn(d.offers, {o}) = offer.left
      BY <1>4, LeftInOne
    <3>4. e.escrow[q][k] = AtLeastZero(d.escrow[q][k] - offer.left)
      BY <1>5, <1>6, <1>9, <2>2
    <3>5. e.escrow[q][k] = d.escrow[q][k] - offer.left
      BY <1>4, <2>1, <3>2, <3>3, <3>4, AtLeastZeroType
    <3> QED
      BY <1>12, <1>13, <2>1, <3>2, <3>3, <3>5
  <2>3. CASE ~(q = p /\ k = item)
    <3>1. HeldOffers(e, q, k) = HeldOffers(d, q, k)
      BY <1>12, <2>3
    <3>2. e.escrow[q][k] = d.escrow[q][k]
      BY <1>5, <1>6, <1>9, <2>1, <2>3, AtLeastZeroType
    <3> QED
      BY <1>13, <2>1, <3>1, <3>2
  <2> QED
    BY <2>2, <2>3
<1> QED
  BY <1>8, <1>9, <1>11, <1>14 DEF RowsInv, Reconciled

\* What a sale does to each of the columns it touches keeps their types.
LEMMA PaidType ==
  ASSUME NEW cash \in [Players -> Nat], NEW b \in Players, NEW s \in Players,
         NEW paid \in Nat, cash[b] >= paid
  PROVE  Paid(cash, b, s, paid) \in [Players -> Nat]
<1>1. \A p \in Players : cash[p] - (IF p = b THEN paid ELSE 0) + (IF p = s THEN paid ELSE 0) \in Nat
  OBVIOUS
<1> QED
  BY <1>1 DEF Paid

LEMMA TradedType ==
  ASSUME NEW held \in [Players -> Goods], NEW b \in Players, NEW offer \in Offer, NEW units \in Nat,
         \A k \in Items : held[b][k] >= offer.ask[k]
  PROVE  Traded(held, b, offer, units) \in [Players -> Goods]
<1>1. held[b] \in Goods /\ offer.ask \in Goods
  BY DEF Offer
<1>2. BuyerGoods(held[b], offer, units) \in Goods
  <2>1. \A k \in Items : held[b][k] - offer.ask[k] + (IF k = offer.item THEN units ELSE 0) \in Nat
    BY <1>1 DEF Goods
  <2> QED
    BY <2>1 DEF BuyerGoods, Goods
<1>3. \A p \in Players : SellerGoods(held[p], offer) \in Goods
  BY <1>1 DEF SellerGoods, Goods
<1> QED
  BY <1>2, <1>3 DEF Traded

LEMMA MinusType ==
  ASSUME NEW goods \in Goods, NEW k \in Items, NEW n \in Nat
  PROVE  /\ Minus(goods, k, n) \in Goods
         /\ Minus(goods, k, n)[k] = AtLeastZero(goods[k] - n)
         /\ \A i \in Items : i # k => Minus(goods, k, n)[i] = goods[i]
<1>1. goods[k] - n \in Int
  BY DEF Goods
<1>2. AtLeastZero(goods[k] - n) \in Nat
  BY <1>1, AtLeastZeroType
<1> QED
  BY <1>2 DEF Minus, Goods

LEMMA LessType ==
  ASSUME NEW goods \in Goods, NEW k \in Items, NEW n \in Nat, n <= goods[k]
  PROVE  Plus(goods, k, -n) \in Goods
<1>1. goods[k] + (-n) \in Nat
  BY DEF Goods
<1> QED
  BY <1>1 DEF Plus, Goods

LEMMA AfterSaleType ==
  ASSUME NEW offer \in Offer, offer.status = "OPEN", NEW units \in Nat \ {0}, units <= offer.left
  PROVE  LET sold == AfterSale(offer, units)
         IN  /\ sold \in Offer /\ sold # None
             /\ sold.left = offer.left - units
             /\ sold.status = (IF sold.left = 0 THEN "SOLD" ELSE "OPEN")
             /\ sold.seller = offer.seller /\ sold.item = offer.item
<1> DEFINE left == offer.left - units
           status == IF left = 0 THEN "SOLD" ELSE "OPEN"
           sold == [offer EXCEPT !.left = left, !.status = status]
<1>1. left \in Nat
  BY DEF Offer
<1>2. status \in OfferStatus
  BY DEF OfferStatus
<1>3. AfterSale(offer, units) = sold
  BY DEF AfterSale, Offer
<1>4. sold \in Offer
  <2> HIDE DEF left, status
  <2> QED
    BY <1>1, <1>2 DEF Offer
<1>5. sold.left = left /\ sold.status = status /\ sold.seller = offer.seller /\ sold.item = offer.item
  <2> HIDE DEF left, status
  <2> QED
    BY DEF Offer
<1> HIDE DEF sold
<1> QED
  BY <1>3, <1>4, <1>5, NoneAssumption

LEMMA RecordedType ==
  ASSUME NEW receipts \in [ActionIds -> Receipt \cup {None}], NEW action, NEW receipt \in Receipt
  PROVE  Recorded(receipts, action, receipt) \in [ActionIds -> Receipt \cup {None}]
  BY DEF Recorded

\* A sale takes units out of an offer and out of its seller's escrow alike.
LEMMA FillInv ==
  ASSUME NEW d, RowsInv(d), NEW b \in Players, NEW o \in Posted(d), d.offers[o].status = "OPEN",
         NEW units \in Nat, CanFill(d, b, o, units),
         NEW action \in ActionIds \cup {None}, NEW called \in Nat, NEW at \in Nat
  PROVE  LET e == WithFill(d, b, o, units, action, called, at)
         IN  RowsInv(e) /\ Posted(d) \subseteq Posted(e)
<1> DEFINE offer == d.offers[o]
           s == offer.seller
           item == offer.item
           paid == offer.price * units
           tags == Least(units, d.escrowTagged[s][item])
           sold == AfterSale(offer, units)
           row == [offer |-> o, buyer |-> b, units |-> units, paid |-> paid,
                   createdAt |-> called, action |-> action, at |-> at]
           receipt == [offer |-> o, units |-> units, paid |-> paid, expiresAt |-> called + Retention]
           cashNow == Paid(d.cash, b, s, paid)
           heldNow == Traded(d.held, b, offer, units)
           escrowNow == Minus(d.escrow[s], item, units)
           escrowTaggedNow == Plus(d.escrowTagged[s], item, -tags)
           processedNow == Recorded(d.processed[b], action, receipt)
           e == [d EXCEPT !.cash = cashNow,
                          !.held = heldNow,
                          !.escrow = [@ EXCEPT ![s] = escrowNow],
                          !.escrowTagged = [@ EXCEPT ![s] = escrowTaggedNow],
                          !.offers = [@ EXCEPT ![o] = sold],
                          !.fills = Append(@, row),
                          !.processed = [@ EXCEPT ![b] = processedNow]]
<1>1. d \in Rows /\ Reconciled(d)
  BY DEF RowsInv
<1>2. o \in OfferIds /\ offer \in Offer
  BY <1>1, OffersTyped
<1>3. s \in Players /\ item \in Items /\ offer.left \in Nat /\ offer.price \in Nat /\ offer.ask \in Goods
  BY <1>2 DEF Offer
<1>4. units \in Nat \ {0} /\ units <= offer.left /\ d.cash[b] >= paid
      /\ \A k \in Items : d.held[b][k] >= offer.ask[k]
  BY DEF CanFill
<1>5. paid \in Nat
  BY <1>3, ProductType
<1>6. sold \in Offer /\ sold # None /\ sold.left = offer.left - units
      /\ sold.status = (IF sold.left = 0 THEN "SOLD" ELSE "OPEN")
      /\ sold.seller = s /\ sold.item = item
  <2> HIDE DEF offer
  <2>1. offer.status = "OPEN"
    BY DEF offer
  <2> QED
    BY <1>2, <1>4, <2>1, AfterSaleType DEF s, item
<1>7. row \in Fill
  <2> HIDE DEF paid
  <2> QED
    BY <1>2, <1>4, <1>5 DEF Fill
<1>8. receipt \in Receipt
  <2>1. Retention \in Nat
    BY BoardAssumption
  <2> HIDE DEF paid
  <2> QED
    BY <1>2, <1>4, <1>5, <2>1 DEF Receipt
<1>9. d.held \in [Players -> Goods] /\ d.escrow \in [Players -> Goods] /\ d.escrowTagged \in [Players -> Goods]
      /\ d.cash \in [Players -> Nat] /\ d.processed \in [Players -> [ActionIds -> Receipt \cup {None}]]
      /\ d.fills \in Seq(Fill) /\ d.offers \in [OfferIds -> Offer \cup {None}]
  BY <1>1 DEF Rows
<1> HIDE DEF offer, s, item, paid, row, receipt, sold
<1>10. tags \in Nat /\ tags <= d.escrowTagged[s][item]
  <2>1. d.escrowTagged[s][item] \in Nat
    BY <1>3, <1>9 DEF Goods
  <2> QED
    BY <1>4, <2>1, LeastType
<1>11. cashNow \in [Players -> Nat]
  BY <1>3, <1>4, <1>5, <1>9, PaidType
<1>12. heldNow \in [Players -> Goods]
  BY <1>2, <1>4, <1>9, TradedType
<1>13. escrowNow \in Goods
  BY <1>3, <1>9, MinusType
<1> HIDE DEF tags
<1>14. escrowTaggedNow \in Goods
  BY <1>3, <1>9, <1>10, LessType
<1>15. processedNow \in [ActionIds -> Receipt \cup {None}]
  BY <1>8, <1>9, RecordedType
<1>16. WithFill(d, b, o, units, action, called, at) = e
  BY DEF WithFill, offer, s, item, paid, tags, row, receipt, sold
<1> HIDE DEF cashNow, heldNow, escrowNow, escrowTaggedNow, processedNow
<1>17. e \in Rows
  <2>1. Append(d.fills, row) \in Seq(Fill)
    BY <1>7, <1>9
  <2>2. [d.offers EXCEPT ![o] = sold] \in [OfferIds -> Offer \cup {None}]
    BY <1>6, <1>9
  <2>3. /\ [d.escrow EXCEPT ![s] = escrowNow] \in [Players -> Goods]
        /\ [d.escrowTagged EXCEPT ![s] = escrowTaggedNow] \in [Players -> Goods]
    BY <1>9, <1>13, <1>14
  <2>4. [d.processed EXCEPT ![b] = processedNow] \in [Players -> [ActionIds -> Receipt \cup {None}]]
    BY <1>9, <1>15
  <2> QED
    BY <1>1, <1>11, <1>12, <2>1, <2>2, <2>3, <2>4 DEF Rows
<1>18. e.offers = [d.offers EXCEPT ![o] = sold] /\ e.escrow = [d.escrow EXCEPT ![s] = escrowNow]
  BY <1>1 DEF Rows
<1> HIDE DEF e
<1>19. /\ e.offers[o] = sold
       /\ \A x \in OfferIds : x # o => e.offers[x] = d.offers[x]
  BY <1>2, <1>9, <1>18
<1>20. Posted(e) = Posted(d)
  BY <1>6, <1>19 DEF Posted
<1>21. \A q \in Players, k \in Items :
         /\ HeldOffers(e, q, k) = IF sold.left = 0 THEN HeldOffers(d, q, k) \ {o} ELSE HeldOffers(d, q, k)
         /\ o \in HeldOffers(d, q, k) <=> q = s /\ k = item
  <2> SUFFICES ASSUME NEW q \in Players, NEW k \in Items
               PROVE  /\ HeldOffers(e, q, k) = IF sold.left = 0 THEN HeldOffers(d, q, k) \ {o} ELSE HeldOffers(d, q, k)
                      /\ o \in HeldOffers(d, q, k) <=> q = s /\ k = item
    OBVIOUS
  <2>1. \A x \in Posted(d) : x # o => (x \in HeldOffers(e, q, k) <=> x \in HeldOffers(d, q, k))
    BY <1>19, <1>20 DEF HeldOffers, OffersOf, Posted
  <2>2. o \in HeldOffers(d, q, k) <=> q = s /\ k = item
    BY DEF HeldOffers, OffersOf, InEscrow, offer, s, item
  <2>3. o \in HeldOffers(e, q, k) <=> q = s /\ k = item /\ sold.left # 0
    BY <1>6, <1>19, <1>20 DEF HeldOffers, OffersOf, InEscrow
  <2>4. HeldOffers(e, q, k) \subseteq Posted(d) /\ HeldOffers(d, q, k) \subseteq Posted(d)
    BY <1>20, HeldPosted
  <2> QED
    BY <2>1, <2>2, <2>3, <2>4
<1>22. \A q \in Players, k \in Items : \A S \in SUBSET HeldOffers(d, q, k) :
         o \notin S => LeftIn(e.offers, S) = LeftIn(d.offers, S)
  <2> SUFFICES ASSUME NEW q \in Players, NEW k \in Items, NEW S \in SUBSET HeldOffers(d, q, k), o \notin S
               PROVE  LeftIn(e.offers, S) = LeftIn(d.offers, S)
    OBVIOUS
  <2>1. \A x \in S : e.offers[x].left = d.offers[x].left
    BY <1>19, HeldPosted DEF Posted
  <2> QED
    BY <2>1, LeftInSame
<1>23. \A q \in Players, k \in Items : e.escrow[q][k] = LeftIn(e.offers, HeldOffers(e, q, k))
  <2> SUFFICES ASSUME NEW q \in Players, NEW k \in Items
               PROVE  e.escrow[q][k] = LeftIn(e.offers, HeldOffers(e, q, k))
    OBVIOUS
  <2>1. d.escrow[q][k] = LeftIn(d.offers, HeldOffers(d, q, k)) /\ d.escrow[q][k] \in Nat
    BY <1>1, <1>9 DEF Reconciled, Goods
  <2>2. CASE q = s /\ k = item
    <3> DEFINE others == HeldOffers(d, q, k) \ {o}
    <3>1. Counted(d.offers, HeldOffers(d, q, k)) /\ {o} \subseteq HeldOffers(d, q, k)
      BY <1>1, <1>21, <2>2, HeldPosted, PostedCounted
    <3>2. /\ LeftIn(d.offers, others) = LeftIn(d.offers, HeldOffers(d, q, k)) - LeftIn(d.offers, {o})
          /\ LeftIn(d.offers, {o}) <= LeftIn(d.offers, HeldOffers(d, q, k))
      BY <3>1, LeftInDifference
    <3>3. LeftIn(d.offers, {o}) = offer.left
      BY <1>3, LeftInOne DEF offer
    <3>4. LeftIn(e.offers, others) = LeftIn(d.offers, others)
      BY <1>22
    <3>5. e.escrow[q][k] = AtLeastZero(d.escrow[q][k] - units)
      <4>1. d.escrow[s] \in Goods
        BY <1>3, <1>9
      <4>2. escrowNow[item] = AtLeastZero(d.escrow[s][item] - units)
        BY <1>3, <4>1, MinusType DEF escrowNow
      <4>3. e.escrow[s] = escrowNow
        BY <1>3, <1>9, <1>18
      <4> QED
        BY <2>2, <4>2, <4>3
    <3>6. e.escrow[q][k] = d.escrow[q][k] - units
      BY <1>3, <1>4, <2>1, <3>2, <3>3, <3>5, AtLeastZeroType
    <3>7. LeftIn(e.offers, HeldOffers(e, q, k)) = LeftIn(e.offers, others) + (offer.left - units)
      <4>1. CASE sold.left = 0
        <5>1. HeldOffers(e, q, k) = others /\ offer.left - units = 0
          BY <1>6, <1>21, <4>1
        <5>2. LeftIn(e.offers, others) \in Nat
          BY <1>17, <5>1, HeldPosted, PostedCounted, UnitsInFinite
        <5> QED
          BY <5>1, <5>2
      <4>2. CASE sold.left # 0
        <5>1. HeldOffers(e, q, k) = others \cup {o}
          BY <1>21, <2>2, <4>2
        <5>2. Counted(e.offers, others \cup {o})
          BY <1>17, <5>1, HeldPosted, PostedCounted
        <5>3. LeftIn(e.offers, others \cup {o}) = LeftIn(e.offers, others) + e.offers[o].left
          BY <5>2, LeftInAdd
        <5> QED
          BY <1>6, <1>19, <5>1, <5>3
      <4> QED
        BY <4>1, <4>2
    <3> QED
      BY <1>3, <1>4, <2>1, <3>2, <3>3, <3>4, <3>6, <3>7
  <2>3. CASE ~(q = s /\ k = item)
    <3>1. HeldOffers(e, q, k) = HeldOffers(d, q, k) /\ o \notin HeldOffers(d, q, k)
      BY <1>21, <2>3
    <3>2. e.escrow[q][k] = d.escrow[q][k]
      <4>1. CASE q # s
        BY <1>9, <1>18, <4>1
      <4>2. CASE q = s /\ k # item
        <5>1. escrowNow[k] = d.escrow[s][k]
          <6>1. d.escrow[s] \in Goods
            BY <1>3, <1>9
          <6>2. units \in Nat
            BY <1>4
          <6>3. \A i \in Items : i # item => Minus(d.escrow[s], item, units)[i] = d.escrow[s][i]
            <7> HIDE DEF s, item
            <7> QED
              BY <1>3, <6>1, <6>2, MinusType
          <6> QED
            BY <4>2, <6>3 DEF escrowNow
        <5> QED
          BY <1>3, <1>9, <1>18, <4>2, <5>1
      <4> QED
        BY <2>3, <4>1, <4>2
    <3> QED
      BY <1>22, <2>1, <3>1, <3>2
  <2> QED
    BY <2>2, <2>3
<1> QED
  BY <1>16, <1>17, <1>20, <1>23 DEF RowsInv, Reconciled

-----------------------------------------------------------------------------
(* The inductive invariant *)

\* What a request carries is really there: the form it posts is a form, and the
\* offer it cancels or buys from has been posted (rows are never deleted).
Carries(r, d) ==
  /\ r.op = "post" => r.form \in Listings
  /\ r.op \in {"cancel", "fill"} => r.offer \in Posted(d)

RequestsOK == \A h \in Handlers : req[h] # None => Carries(req[h], db)

\* A pause that is still running began in the past.
PauseBegan == round.pausedAt # None => round.pausedAt <= clock

IInv == TypeOK /\ EscrowReconciles /\ RequestsOK /\ PauseBegan

LEMMA RowsFromIInv == IInv <=> /\ clock \in Nat /\ round \in Round
                               /\ RowsInv(db)
                               /\ req \in [Handlers -> Request \cup {None}]
                               /\ lock \in [Players -> Handlers \cup {None}]
                               /\ idle \subseteq Nat
                               /\ RequestsOK /\ PauseBegan
  BY DEF IInv, TypeOK, EscrowReconciles, RowsInv, Reconciled

LEMMA RowsFromIInvNext == IInv' <=> /\ clock' \in Nat /\ round' \in Round
                                    /\ RowsInv(db')
                                    /\ req' \in [Handlers -> Request \cup {None}]
                                    /\ lock' \in [Players -> Handlers \cup {None}]
                                    /\ idle' \subseteq Nat
                                    /\ RequestsOK' /\ PauseBegan'
  BY DEF IInv, TypeOK, EscrowReconciles, RowsInv, Reconciled

LEMMA RequestTyped ==
  ASSUME IInv, NEW h \in Handlers, req[h] # None
  PROVE  /\ req[h] \in Request
         /\ req[h].who \in Players /\ req[h].now \in Nat /\ req[h].units \in Nat
         /\ req[h].round \in Round /\ req[h].action \in ActionIds \cup {None}
         /\ req[h].due \subseteq Players
         /\ Carries(req[h], db)
<1>1. req[h] \in Request
  BY DEF IInv, TypeOK
<1>2. Carries(req[h], db)
  BY DEF IInv, RequestsOK
<1> QED
  BY <1>1, <1>2 DEF Request

\* A balance of nothing reconciles with no offers.
LEMMA InitIInv == Init => IInv
<1> SUFFICES ASSUME Init PROVE IInv
  OBVIOUS
<1> DEFINE zero == [p \in Players |-> NoGoods]
           rows == [cash |-> StartCash, held |-> StartHeld, escrow |-> zero,
                    tagged |-> StartTagged, escrowTagged |-> zero,
                    crowded |-> [p \in Players |-> {}],
                    offers |-> [o \in OfferIds |-> None], fills |-> <<>>,
                    processed |-> [p \in Players |-> [a \in ActionIds |-> None]]]
<1>1. db = rows
  BY DEF Init
<1>2. NoGoods \in Goods
  BY DEF NoGoods, Goods
<1>3. rows \in Rows
  <2>1. zero \in [Players -> Goods]
    BY <1>2
  <2>2. StartCash \in [Players -> Nat] /\ StartHeld \in [Players -> Goods] /\ StartTagged \in [Players -> Goods]
    BY BoardAssumption
  <2>3. <<>> \in Seq(Fill)
    OBVIOUS
  <2> HIDE DEF zero
  <2> QED
    BY <2>1, <2>2, <2>3 DEF Rows
<1>4. \A p \in Players, k \in Items : rows.escrow[p][k] = 0
  BY DEF NoGoods
<1>5. \A p \in Players, k \in Items : HeldOffers(rows, p, k) = {}
  BY DEF HeldOffers, OffersOf, Posted
<1>6. LeftIn(rows.offers, {}) = 0
  <2>1. UnitsIn(rows.offers, {}) = {}
    BY DEF UnitsIn
  <2> QED
    BY <2>1, FS_EmptySet DEF LeftIn
<1>7. Reconciled(rows)
  <2> HIDE DEF rows
  <2> QED
    BY <1>4, <1>5, <1>6 DEF Reconciled
<1>8. round \in Round
  <2>1. SeasonEnd \in Nat
    BY BoardAssumption
  <2> QED
    BY <2>1 DEF Init, Round
<1>9. /\ clock \in Nat /\ idle \subseteq Nat
      /\ req \in [Handlers -> Request \cup {None}] /\ lock \in [Players -> Handlers \cup {None}]
  BY DEF Init
<1>10. RequestsOK
  BY DEF Init, RequestsOK
<1>11. PauseBegan
  BY DEF Init, PauseBegan
<1> HIDE DEF rows
<1> QED
  BY <1>1, <1>3, <1>7, <1>8, <1>9, <1>10, <1>11, RowsFromIInv DEF RowsInv

\* A transaction whose body keeps the rows reconciled, and every offer posted,
\* keeps the invariant: committing it answers its request and frees its rows.
LEMMA CommitInv ==
  ASSUME IInv, NEW h \in Handlers, NEW d, RowsInv(d), Posted(db) \subseteq Posted(d), Commit(h, d)
  PROVE  IInv'
<1>1. /\ db' = d /\ clock' = clock /\ round' = round /\ idle' = idle
      /\ req' = [req EXCEPT ![h] = None]
      /\ lock' = [p \in Players |-> IF lock[p] = h THEN None ELSE lock[p]]
  BY DEF Commit, Answered
<1>2. /\ clock \in Nat /\ round \in Round /\ idle \subseteq Nat /\ PauseBegan /\ RequestsOK
      /\ req \in [Handlers -> Request \cup {None}] /\ lock \in [Players -> Handlers \cup {None}]
  BY RowsFromIInv
<1>3. req' \in [Handlers -> Request \cup {None}] /\ lock' \in [Players -> Handlers \cup {None}]
  BY <1>1, <1>2
<1>4. RequestsOK'
  BY <1>1, <1>2 DEF RequestsOK, Carries
<1>5. PauseBegan'
  BY <1>1, <1>2 DEF PauseBegan
<1> QED
  BY <1>1, <1>2, <1>3, <1>4, <1>5, RowsFromIInvNext

\* Settling inside a transaction.
LEMMA SettledDb ==
  ASSUME IInv, NEW h \in Handlers, req[h] # None, NEW p \in Players, NEW landing
  PROVE  LET d == Settled(db, p, req[h].round, req[h].now, landing)
         IN  RowsInv(d) /\ Posted(d) = Posted(db)
<1>1. RowsInv(db) /\ req[h].now \in Nat
  BY RowsFromIInv, RequestTyped
<1> QED
  BY <1>1, SettledInv

LEMMA RollbackInv == ASSUME IInv, NEW h \in Handlers, Rollback(h) PROVE IInv'
  BY CommitInv, RowsFromIInv DEF Rollback

LEMMA PostTxInv == ASSUME IInv, NEW h \in Handlers, PostTx(h) PROVE IInv'
<1> DEFINE r == req[h]
<1>1. r # None /\ r.op = "post" /\ r.who \in Players /\ r.round \in Round /\ r.now \in Nat /\ r.form \in Listings
  BY RequestTyped DEF PostTx, Ready, Carries
<1>2. PICK landing : LET d == Settled(db, r.who, r.round, r.now, landing)
                        free == OfferIds \ Posted(db)
                    IN  IF CanPost(d, r.who, r.form) /\ free # {}
                        THEN \E o \in free : Commit(h, WithPost(d, r.who, o, r.form, r.round, r.now))
                        ELSE Rollback(h)
  BY DEF PostTx
<1> DEFINE d == Settled(db, r.who, r.round, r.now, landing)
<1>3. RowsInv(d) /\ Posted(d) = Posted(db)
  BY <1>1, SettledDb
<1> HIDE DEF d, r
<1>4. CASE Rollback(h)
  BY <1>4, RollbackInv
<1>5. ASSUME NEW o \in OfferIds \ Posted(db), CanPost(d, r.who, r.form),
             Commit(h, WithPost(d, r.who, o, r.form, r.round, r.now))
      PROVE  IInv'
  <2>1. RowsInv(WithPost(d, r.who, o, r.form, r.round, r.now))
        /\ Posted(d) \subseteq Posted(WithPost(d, r.who, o, r.form, r.round, r.now))
    BY <1>1, <1>3, <1>5, PostInv
  <2> QED
    BY <1>3, <1>5, <2>1, CommitInv
<1> QED
  BY <1>2, <1>4, <1>5 DEF d

LEMMA CancelTxInv == ASSUME IInv, NEW h \in Handlers, CancelTx(h) PROVE IInv'
<1> DEFINE r == req[h]
<1>1. r # None /\ r.who \in Players /\ r.now \in Nat
  BY RequestTyped DEF CancelTx, Ready
<1>2. PICK landing : LET d == Settled(db, r.who, r.round, r.now, landing)
                    IN  IF CanCancel(d, r.who, r.offer)
                        THEN Commit(h, WithCancel(d, r.who, r.offer, r.now))
                        ELSE Rollback(h)
  BY DEF CancelTx
<1> DEFINE d == Settled(db, r.who, r.round, r.now, landing)
           e == WithCancel(d, r.who, r.offer, r.now)
<1>3. RowsInv(d) /\ Posted(d) = Posted(db)
  BY <1>1, SettledDb
<1> HIDE DEF d, r
<1>4. CASE Rollback(h)
  BY <1>4, RollbackInv
<1>5. CASE CanCancel(d, r.who, r.offer) /\ Commit(h, e)
  <2>1. RowsInv(e) /\ Posted(d) \subseteq Posted(e)
    BY <1>1, <1>3, <1>5, CancelInv
  <2> HIDE DEF e
  <2> QED
    BY <1>3, <1>5, <2>1, CommitInv
<1> QED
  BY <1>2, <1>4, <1>5 DEF d

LEMMA FillTxInv == ASSUME IInv, NEW h \in Handlers, FillTx(h) PROVE IInv'
<1> DEFINE r == req[h]
           s == db.offers[r.offer].seller
<1>1. /\ r # None /\ r.who \in Players /\ r.now \in Nat /\ r.units \in Nat
      /\ r.action \in ActionIds \cup {None} /\ r.offer \in Posted(db)
  BY RequestTyped DEF FillTx, Ready, Carries
<1>2. s \in Players
  BY <1>1, RowsFromIInv, OffersTyped DEF RowsInv, Offer
<1>3. CASE Rollback(h)
  BY <1>3, RollbackInv
<1>4. CASE ~Rollback(h)
  <2>1. PICK landing : LET d == Settled(db, s, r.round, r.now, landing)
                          units == UnitsWanted(d.offers[r.offer], r.units)
                      IN  \/ d.offers[r.offer].status # "OPEN" /\ Commit(h, d)
                          \/ /\ d.offers[r.offer].status = "OPEN"
                             /\ CanFill(d, r.who, r.offer, units)
                             /\ Commit(h, WithFill(d, r.who, r.offer, units, r.action, r.now, clock))
    <3>1. ~Replayed(r.who, r.action)
      BY <1>4 DEF FillTx
    <3>2. \E landing \in Landings(db, s, r.round, r.now) :
            LET d == Settled(db, s, r.round, r.now, landing)
                units == UnitsWanted(d.offers[r.offer], r.units)
            IN  IF d.offers[r.offer].status # "OPEN"
                THEN Commit(h, d)
                ELSE IF CanFill(d, r.who, r.offer, units) /\ CanRecord(r.who, r.action)
                THEN Commit(h, WithFill(d, r.who, r.offer, units, r.action, r.now, clock))
                ELSE Rollback(h)
      BY <3>1, Zenon DEF FillTx
    <3> QED
      BY <1>4, <3>2
  <2> DEFINE d == Settled(db, s, r.round, r.now, landing)
             units == UnitsWanted(d.offers[r.offer], r.units)
             e == WithFill(d, r.who, r.offer, units, r.action, r.now, clock)
  <2>2. RowsInv(d) /\ Posted(d) = Posted(db)
    BY <1>1, <1>2, SettledDb
  <2>3. units \in Nat
    <3>1. d.offers[r.offer].left \in Nat
      <4> HIDE DEF d
      <4> QED
        BY <1>1, <2>2, OffersTyped DEF RowsInv, Offer
    <3> HIDE DEF d
    <3> QED
      BY <1>1, <3>1 DEF UnitsWanted
  <2>4. clock \in Nat
    BY RowsFromIInv
  <2> HIDE DEF d, units, r, s
  <2>5. CASE Commit(h, d)
    BY <2>2, <2>5, CommitInv
  <2>6. CASE d.offers[r.offer].status = "OPEN" /\ CanFill(d, r.who, r.offer, units) /\ Commit(h, e)
    <3>1. RowsInv(e) /\ Posted(d) \subseteq Posted(e)
      BY <1>1, <2>2, <2>3, <2>4, <2>6, FillInv
    <3> HIDE DEF e
    <3> QED
      BY <2>2, <2>6, <3>1, CommitInv
  <2> QED
    BY <2>1, <2>5, <2>6 DEF d, units
<1> QED
  BY <1>3, <1>4

LEMMA MineTxInv == ASSUME IInv, NEW h \in Handlers, MineTx(h) PROVE IInv'
<1>1. req[h] # None /\ req[h].who \in Players
  BY RequestTyped DEF MineTx, Ready
<1>2. PICK landing : Commit(h, Settled(db, req[h].who, req[h].round, req[h].now, landing))
  BY DEF MineTx
<1> DEFINE d == Settled(db, req[h].who, req[h].round, req[h].now, landing)
<1>3. RowsInv(d) /\ Posted(d) = Posted(db)
  BY <1>1, SettledDb
<1> HIDE DEF d
<1> QED
  BY <1>2, <1>3, CommitInv DEF d

LEMMA AbortInv == ASSUME IInv, NEW h \in Handlers, Abort(h) PROVE IInv'
  BY RollbackInv DEF Abort

\* One seller of the sweep: the request goes on with one seller less to settle.
LEMMA SweepTxInv == ASSUME IInv, NEW h \in Handlers, SweepTx(h) PROVE IInv'
<1> DEFINE r == req[h]
<1>1. r # None /\ r \in Request /\ r.due \subseteq Players /\ r.op = "book"
  BY RequestTyped DEF SweepTx, Ready
<1>0. PICK s \in r.due :
        /\ \E landing : db' = Settled(db, s, r.round, r.now, landing)
        /\ req' = [req EXCEPT ![h] = [r EXCEPT !.due = @ \ {s}]]
        /\ lock' = [lock EXCEPT ![s] = None]
        /\ clock' = clock /\ round' = round /\ idle' = idle
  BY DEF SweepTx
<1>2. PICK landing : db' = Settled(db, s, r.round, r.now, landing)
  BY <1>0
<1> DEFINE next == [r EXCEPT !.due = @ \ {s}]
<1>3. RowsInv(db') /\ Posted(db') = Posted(db)
  BY <1>0, <1>1, <1>2, SettledDb
<1>4. next \in Request /\ next.op = "book"
  <2> HIDE DEF r
  <2> QED
    BY <1>1 DEF Request
<1> HIDE DEF next
<1>5. /\ clock \in Nat /\ round \in Round /\ idle \subseteq Nat /\ PauseBegan /\ RequestsOK
      /\ req \in [Handlers -> Request \cup {None}] /\ lock \in [Players -> Handlers \cup {None}]
  BY RowsFromIInv
<1>6. req' = [req EXCEPT ![h] = next]
  BY <1>0 DEF next
<1>7. req' \in [Handlers -> Request \cup {None}] /\ lock' \in [Players -> Handlers \cup {None}]
  BY <1>0, <1>1, <1>4, <1>5, <1>6
<1>8. RequestsOK'
  BY <1>3, <1>4, <1>5, <1>6 DEF RequestsOK, Carries
<1>9. PauseBegan'
  BY <1>0, <1>5 DEF PauseBegan
<1> QED
  BY <1>0, <1>3, <1>5, <1>7, <1>8, <1>9, RowsFromIInvNext

\* A new request carries what it was made from.
LEMMA ArrivesInv ==
  ASSUME IInv, NEW h \in Handlers, NEW r \in Request, Carries(r, db), Arrives(h, r)
  PROVE  IInv'
<1>1. /\ req' = [req EXCEPT ![h] = r]
      /\ db' = db /\ clock' = clock /\ round' = round /\ idle' = idle /\ lock' = lock
  BY DEF Arrives
<1>2. /\ clock \in Nat /\ round \in Round /\ idle \subseteq Nat /\ PauseBegan /\ RequestsOK /\ RowsInv(db)
      /\ req \in [Handlers -> Request \cup {None}] /\ lock \in [Players -> Handlers \cup {None}]
  BY RowsFromIInv
<1>3. req' \in [Handlers -> Request \cup {None}]
  BY <1>1, <1>2
<1>4. RequestsOK'
  BY <1>1, <1>2 DEF RequestsOK, Carries
<1>5. PauseBegan'
  BY <1>1, <1>2 DEF PauseBegan
<1> QED
  BY <1>1, <1>2, <1>3, <1>4, <1>5, RowsFromIInvNext

LEMMA BlankType ==
  ASSUME IInv, NEW op \in Ops, NEW p \in Players
  PROVE  Blank(op, p) \in Request /\ Blank(op, p).op = op
<1>1. round \in Round
  BY DEF IInv, TypeOK
<1> QED
  BY <1>1 DEF Blank, Request

LEMMA AsksInv == ASSUME IInv, NEW h \in Handlers, Asks(h) PROVE IInv'
<1>1. PICK p \in Players :
        \/ \E form \in Listings : AskPost(h, p, form)
        \/ \E o \in OfferIds : AskCancel(h, p, o)
        \/ \E o \in OfferIds : \E units \in 0..MaxUnits, action \in ActionIds \cup {None} :
             AskFill(h, p, o, units, action)
        \/ AskMine(h, p)
        \/ AskBook(h, p)
  BY DEF Asks
<1>2. ASSUME NEW form \in Listings, AskPost(h, p, form) PROVE IInv'
  <2> DEFINE r == [Blank("post", p) EXCEPT !.form = form]
  <2>1. Blank("post", p) \in Request /\ Blank("post", p).op = "post"
    BY BlankType DEF Ops
  <2>2. r \in Request /\ r.op = "post" /\ r.form = form
    BY <2>1 DEF Request
  <2> HIDE DEF r
  <2>3. Carries(r, db)
    BY <2>2 DEF Carries
  <2>4. Arrives(h, r)
    BY <1>2 DEF AskPost, r
  <2> QED
    BY <2>2, <2>3, <2>4, ArrivesInv
<1>3. ASSUME NEW o \in OfferIds, AskCancel(h, p, o) PROVE IInv'
  <2> DEFINE r == [Blank("cancel", p) EXCEPT !.offer = o]
  <2>1. Blank("cancel", p) \in Request /\ Blank("cancel", p).op = "cancel"
    BY BlankType DEF Ops
  <2>2. r \in Request /\ r.op = "cancel" /\ r.offer = o
    BY <2>1 DEF Request
  <2> HIDE DEF r
  <2>3. Carries(r, db)
    BY <1>3, <2>2 DEF Carries, AskCancel
  <2>4. Arrives(h, r)
    BY <1>3 DEF AskCancel, r
  <2> QED
    BY <2>2, <2>3, <2>4, ArrivesInv
<1>4. ASSUME NEW o \in OfferIds, NEW units \in 0..MaxUnits, NEW action \in ActionIds \cup {None},
             AskFill(h, p, o, units, action)
      PROVE  IInv'
  <2> DEFINE r == [Blank("fill", p) EXCEPT !.offer = o, !.units = units, !.action = action]
  <2>1. Blank("fill", p) \in Request /\ Blank("fill", p).op = "fill"
    BY BlankType DEF Ops
  <2>2. units \in Nat
    OBVIOUS
  <2>3. r \in Request /\ r.op = "fill" /\ r.offer = o
    BY <2>1, <2>2 DEF Request
  <2> HIDE DEF r
  <2>4. Carries(r, db)
    BY <1>4, <2>3 DEF Carries, AskFill
  <2>5. Arrives(h, r)
    BY <1>4 DEF AskFill, r
  <2> QED
    BY <2>3, <2>4, <2>5, ArrivesInv
<1>5. ASSUME NEW op \in {"mine", "book"}, Arrives(h, Blank(op, p)) PROVE IInv'
  <2>1. Blank(op, p) \in Request /\ Blank(op, p).op = op
    BY BlankType DEF Ops
  <2>2. Carries(Blank(op, p), db)
    BY <2>1 DEF Carries
  <2> QED
    BY <1>5, <2>1, <2>2, ArrivesInv
<1>6. CASE AskMine(h, p)
  BY <1>5, <1>6 DEF AskMine
<1>7. CASE AskBook(h, p)
  BY <1>5, <1>7 DEF AskBook
<1> QED
  BY <1>1, <1>2, <1>3, <1>4, <1>6, <1>7

\* A request the checks before the transaction refuse is answered with no change.
LEMMA CallInv == ASSUME IInv, NEW h \in Handlers, Call(h) PROVE IInv'
<1> DEFINE r == req[h]
           due == IF r.op = "book" THEN SellersDue(r.round, clock) ELSE {}
           next == [r EXCEPT !.step = "called", !.now = clock, !.due = due]
<1>1. r # None /\ r \in Request /\ Carries(r, db)
  BY RequestTyped DEF Call
<1>2. /\ clock \in Nat /\ round \in Round /\ idle \subseteq Nat /\ PauseBegan /\ RequestsOK /\ RowsInv(db)
      /\ req \in [Handlers -> Request \cup {None}] /\ lock \in [Players -> Handlers \cup {None}]
  BY RowsFromIInv
<1>3. due \subseteq Players
  BY DEF SellersDue
<1>4. /\ db' = db /\ clock' = clock /\ round' = round /\ idle' = idle
      /\ Answered(h) \/ (req' = [req EXCEPT ![h] = next] /\ lock' = lock)
  BY DEF Call
<1>5. CASE Answered(h)
  <2>1. Rollback(h)
    BY <1>4, <1>5 DEF Rollback, Commit
  <2> QED
    BY <2>1, RollbackInv
<1>6. CASE req' = [req EXCEPT ![h] = next] /\ lock' = lock
  <2> HIDE DEF due, r
  <2>1. next \in Request
    BY <1>1, <1>2, <1>3 DEF Request
  <2>2. Carries(next, db)
    BY <1>1 DEF Carries, Request
  <2> HIDE DEF next
  <2>3. req' \in [Handlers -> Request \cup {None}]
    BY <1>2, <1>6, <2>1
  <2>4. RequestsOK'
    BY <1>2, <1>4, <1>6, <2>2 DEF RequestsOK, Carries
  <2>5. PauseBegan'
    BY <1>2, <1>4 DEF PauseBegan
  <2> QED
    BY <1>2, <1>4, <1>6, <2>3, <2>4, <2>5, RowsFromIInvNext
<1> QED
  BY <1>4, <1>5, <1>6

LEMMA LockInv == ASSUME IInv, NEW h \in Handlers, NEW p \in Players, Lock(h, p) PROVE IInv'
<1>1. /\ db' = db /\ clock' = clock /\ round' = round /\ idle' = idle /\ req' = req
      /\ lock' = [lock EXCEPT ![p] = h]
  BY DEF Lock
<1>2. /\ clock \in Nat /\ round \in Round /\ idle \subseteq Nat /\ PauseBegan /\ RequestsOK /\ RowsInv(db)
      /\ req \in [Handlers -> Request \cup {None}] /\ lock \in [Players -> Handlers \cup {None}]
  BY RowsFromIInv
<1>3. lock' \in [Players -> Handlers \cup {None}] /\ RequestsOK' /\ PauseBegan'
  BY <1>1, <1>2 DEF RequestsOK, PauseBegan, Carries
<1> QED
  BY <1>1, <1>2, <1>3, RowsFromIInvNext

\* Rows that only differ in grids and receipts reconcile alike.
LEMMA SameBooks ==
  ASSUME NEW d, RowsInv(d), NEW e \in Rows, e.offers = d.offers, e.escrow = d.escrow
  PROVE  RowsInv(e) /\ Posted(e) = Posted(d)
  BY DEF RowsInv, Reconciled, HeldOffers, OffersOf, Posted

\* A step of the world that leaves requests and locks alone.
LEMMA WorldStep ==
  ASSUME IInv, req' = req, lock' = lock, clock' \in Nat, round' \in Round, idle' \subseteq Nat,
         RowsInv(db'), Posted(db') = Posted(db), PauseBegan'
  PROVE  IInv'
<1>1. /\ RequestsOK
      /\ req \in [Handlers -> Request \cup {None}] /\ lock \in [Players -> Handlers \cup {None}]
  BY RowsFromIInv
<1>2. RequestsOK'
  BY <1>1 DEF RequestsOK, Carries
<1> QED
  BY <1>1, <1>2, RowsFromIInvNext

LEMMA WorldInv == ASSUME IInv, World PROVE IInv'
<1>1. /\ clock \in Nat /\ round \in Round /\ idle \subseteq Nat /\ PauseBegan /\ RowsInv(db)
      /\ db \in Rows
  BY RowsFromIInv DEF RowsInv
<1>2. /\ round.pausedAt \in Nat \cup {None} /\ round.pausedMinutes \in Nat /\ round.endsAt \in Nat
  BY <1>1 DEF Round
<1>3. CASE Tick
  <2>1. clock' = clock + 1 /\ round' = round /\ db' = db /\ req' = req /\ lock' = lock /\ idle' \subseteq idle \cup {clock}
    BY <1>3 DEF Tick
  <2>2. PauseBegan'
    BY <1>1, <1>2, <2>1 DEF PauseBegan
  <2> QED
    BY <1>1, <2>1, <2>2, WorldStep
<1>4. CASE Pause
  <2>1. round' = [round EXCEPT !.pausedAt = clock] /\ clock' = clock /\ db' = db /\ req' = req /\ lock' = lock /\ idle' = idle
    BY <1>4 DEF Pause
  <2>2. round' \in Round /\ round'.pausedAt = clock
    BY <1>1, <2>1 DEF Round
  <2>3. PauseBegan'
    BY <1>1, <2>1, <2>2 DEF PauseBegan
  <2> QED
    BY <1>1, <2>1, <2>2, <2>3, WorldStep
<1>5. ASSUME NEW extend \in BOOLEAN, Resume(extend) PROVE IInv'
  <2> DEFINE minutes == (clock - round.pausedAt + Minute - 1) \div Minute
             endsAt == round.endsAt + (IF extend THEN Minute * minutes ELSE 0)
  <2>1. /\ round.pausedAt # None
        /\ round' = [pausedAt |-> None, pausedMinutes |-> round.pausedMinutes + minutes, endsAt |-> endsAt]
        /\ clock' = clock /\ db' = db /\ req' = req /\ lock' = lock /\ idle' = idle
    BY <1>5 DEF Resume
  <2>2. round.pausedAt \in Nat /\ round.pausedAt <= clock /\ Minute \in Nat \ {0}
    BY <1>1, <1>2, <2>1, BoardAssumption DEF PauseBegan
  <2>3. clock - round.pausedAt + Minute - 1 \in Nat
    BY <1>1, <2>2
  <2>4. minutes \in Nat
    BY <2>2, <2>3, QuotientType
  <2> HIDE DEF minutes
  <2>5. Minute * minutes \in Nat
    BY <2>2, <2>4, ProductType
  <2>6. endsAt \in Nat
    BY <1>2, <2>5
  <2> HIDE DEF endsAt
  <2>7. round' \in Round /\ round'.pausedAt = None
    BY <1>2, <2>1, <2>4, <2>6 DEF Round
  <2>8. PauseBegan'
    BY <2>7 DEF PauseBegan
  <2> QED
    BY <1>1, <2>1, <2>7, <2>8, WorldStep
<1>6. ASSUME NEW p \in Players, NEW kinds \in SUBSET Bulky, Rearrange(p, kinds) PROVE IInv'
  <2> DEFINE e == [db EXCEPT !.crowded = [@ EXCEPT ![p] = kinds]]
  <2>1. db' = e /\ clock' = clock /\ round' = round /\ req' = req /\ lock' = lock /\ idle' = idle
    BY <1>6 DEF Rearrange
  <2>2. kinds \subseteq Items
    BY BoardAssumption
  <2>3. [db.crowded EXCEPT ![p] = kinds] \in [Players -> SUBSET Items]
    BY <1>1, <2>2 DEF Rows
  <2>4. e \in Rows /\ e.offers = db.offers /\ e.escrow = db.escrow
    BY <1>1, <2>3 DEF Rows
  <2> HIDE DEF e
  <2>5. RowsInv(e) /\ Posted(e) = Posted(db)
    BY <1>1, <2>4, SameBooks
  <2>6. PauseBegan'
    BY <1>1, <2>1 DEF PauseBegan
  <2> QED
    BY <1>1, <2>1, <2>5, <2>6, WorldStep
<1>7. CASE Purge
  <2> DEFINE kept == [p \in Players |-> [a \in ActionIds |->
                        IF db.processed[p][a] # None /\ db.processed[p][a].expiresAt <= clock
                        THEN None ELSE db.processed[p][a]]]
             e == [db EXCEPT !.processed = kept]
  <2>1. db' = e /\ clock' = clock /\ round' = round /\ req' = req /\ lock' = lock /\ idle' = idle
    BY <1>7 DEF Purge
  <2>2. kept \in [Players -> [ActionIds -> Receipt \cup {None}]]
    BY <1>1 DEF Rows
  <2> HIDE DEF kept
  <2>3. e \in Rows /\ e.offers = db.offers /\ e.escrow = db.escrow
    BY <1>1, <2>2 DEF Rows
  <2> HIDE DEF e
  <2>4. RowsInv(e) /\ Posted(e) = Posted(db)
    BY <1>1, <2>3, SameBooks
  <2>5. PauseBegan'
    BY <1>1, <2>1 DEF PauseBegan
  <2> QED
    BY <1>1, <2>1, <2>4, <2>5, WorldStep
<1> QED
  BY <1>3, <1>4, <1>5, <1>6, <1>7 DEF World

LEMMA StutterInv == ASSUME IInv, UNCHANGED vars PROVE IInv'
  BY DEF vars, IInv, TypeOK, EscrowReconciles, RequestsOK, Carries, PauseBegan

LEMMA NextIInv == IInv /\ [Next]_vars => IInv'
<1> SUFFICES ASSUME IInv, [Next]_vars PROVE IInv'
  OBVIOUS
<1>1. CASE World
  BY <1>1, WorldInv
<1>2. ASSUME NEW h \in Handlers, Serves(h) PROVE IInv'
  <2>1. CASE Call(h)
    BY <2>1, CallInv
  <2>2. CASE \E p \in Players : Lock(h, p)
    BY <2>2, LockInv
  <2>3. CASE PostTx(h)
    BY <2>3, PostTxInv
  <2>4. CASE CancelTx(h)
    BY <2>4, CancelTxInv
  <2>5. CASE FillTx(h)
    BY <2>5, FillTxInv
  <2>6. CASE MineTx(h)
    BY <2>6, MineTxInv
  <2>7. CASE SweepTx(h)
    BY <2>7, SweepTxInv
  <2> QED
    BY <1>2, <2>1, <2>2, <2>3, <2>4, <2>5, <2>6, <2>7 DEF Serves
<1>3. ASSUME NEW h \in Handlers, Asks(h) PROVE IInv'
  BY <1>3, AsksInv
<1>4. ASSUME NEW h \in Handlers, Abort(h) PROVE IInv'
  BY <1>4, AbortInv
<1>5. CASE UNCHANGED vars
  BY <1>5, StutterInv
<1> QED
  BY <1>1, <1>2, <1>3, <1>4, <1>5 DEF Next

\* The rows, requests and locks of every reachable state are well typed; in
\* particular no cash, holding or escrow balance is ever negative, so no step of
\* a trade takes more than is there.
THEOREM TypeCorrect == Spec => []TypeOK
<1>1. Init => IInv
  BY InitIInv
<1>2. IInv /\ [Next]_vars => IInv'
  BY NextIInv
<1>3. IInv => TypeOK
  BY DEF IInv
<1> QED
  BY <1>1, <1>2, <1>3, PTL DEF Spec

\* The staff ledger always reconciles: whatever posts, purchases, cancels,
\* expiries, aborts and pauses interleave, a player's escrow column holds exactly
\* the units left in his open offers and his expired offers not yet handed back.
THEOREM EscrowAlwaysReconciles == Spec => []EscrowReconciles
<1>1. Init => IInv
  BY InitIInv
<1>2. IInv /\ [Next]_vars => IInv'
  BY NextIInv
<1>3. IInv => EscrowReconciles
  BY DEF IInv
<1> QED
  BY <1>1, <1>2, <1>3, PTL DEF Spec

=============================================================================
