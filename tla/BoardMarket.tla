------------------------------ MODULE BoardMarket ------------------------------
(***************************************************************************)
(* What the Board promises the players of a round, without escrow columns, *)
(* row locks, requests or clocks.  Everybody owns cash and goods.  A stall *)
(* is a promise to part with goods at a price; the goods promised are      *)
(* still the seller's until somebody buys them, and are always there.      *)
(* PlayerBoard implements this.                                            *)
(***************************************************************************)
EXTENDS Integers, FiniteSets

CONSTANTS Players, Items, OfferIds, StartCash, StartGoods, None, Closed

VARIABLES
  cash,   \* cash[p], in cents
  goods,  \* goods[p][k]: units of k that p owns, promised ones included
  stalls  \* stalls[o]: the promise made under o, None before it, Closed after it

market == <<cash, goods, stalls>>

Promise == [seller: Players, item: Items, quantity: Nat, left: Nat, price: Nat,
            ask: [Items -> Nat]]

-----------------------------------------------------------------------------

Open(s) == {o \in OfferIds : s[o] \notin {None, Closed}}
StallsOf(p) == {o \in Open(stalls) : stalls[o].seller = p}

UnitsPromised(s, p, k) ==
  UNION {{o} \X (1..s[o].left) : o \in {x \in Open(s) : s[x].seller = p /\ s[x].item = k}}
Promised(s, p, k) == Cardinality(UnitsPromised(s, p, k))

\* Units p owns and has promised to nobody.
Unpromised(s, p, k) == goods[p][k] - Promised(s, p, k)

\* The stalls once those in gone have closed, their goods still the sellers' own.
Without(gone) == [o \in OfferIds |-> IF o \in gone THEN Closed ELSE stalls[o]]

-----------------------------------------------------------------------------

Init ==
  /\ cash = StartCash
  /\ goods = StartGoods
  /\ stalls = [o \in OfferIds |-> None]

\* Stalls of one seller come down: cancelled, or at the end of their time.
Withdraw(gone) ==
  /\ \E p \in Players : gone \subseteq StallsOf(p)
  /\ stalls' = Without(gone)
  /\ UNCHANGED <<cash, goods>>

\* A new stall, for a fee that leaves the round: any promise its seller can keep.
List(gone, o) ==
  LET promise == stalls'[o]
      p == promise.seller
      fee == cash[p] - cash'[p]
  IN  /\ stalls[o] = None
      /\ promise \in Promise
      /\ gone \subseteq StallsOf(p)
      /\ promise.left = promise.quantity /\ promise.left > 0
      /\ promise.left <= Unpromised(Without(gone), p, promise.item)
      /\ fee \in 0..cash[p]
      /\ cash' = [cash EXCEPT ![p] = @ - fee]
      /\ stalls' = [Without(gone) EXCEPT ![o] = promise]
      /\ UNCHANGED goods

\* Units change hands for the price, or the whole stall for the basket asked.
Buy(gone, b, o, units) ==
  LET promise == stalls[o]
      s == promise.seller
      paid == promise.price * units
  IN  /\ o \in Open(stalls) \ gone
      /\ b # s
      /\ gone \subseteq StallsOf(s)
      /\ units \in 1..promise.left
      /\ (\E k \in Items : promise.ask[k] > 0) => units = promise.quantity
      /\ paid <= cash[b]
      /\ \A k \in Items : promise.ask[k] <= Unpromised(Without(gone), b, k)
      /\ cash' = [cash EXCEPT ![b] = @ - paid, ![s] = @ + paid]
      /\ goods' = [goods EXCEPT
            ![b] = [k \in Items |-> @[k] - promise.ask[k] + (IF k = promise.item THEN units ELSE 0)],
            ![s] = [k \in Items |-> @[k] + promise.ask[k] - (IF k = promise.item THEN units ELSE 0)]]
      /\ stalls' = [Without(gone) EXCEPT
            ![o] = IF units = promise.left THEN Closed ELSE [promise EXCEPT !.left = @ - units]]

Next ==
  \E gone \in SUBSET Open(stalls) :
    \/ Withdraw(gone)
    \/ \E o \in OfferIds : List(gone, o)
    \/ \E b \in Players, o \in Open(stalls) : \E units \in 1..stalls[o].left : Buy(gone, b, o, units)

Spec == Init /\ [][Next]_market

=============================================================================
