----------------------------- MODULE MCPlayerBoard -----------------------------
(***************************************************************************)
(* Small instances of the Board.  Three kinds of goods stand for the three *)
(* kinds the code tells apart: "radio" a one-cell part, "crack" a drug     *)
(* that takes no cell, "tek9" a two-cell gun counted by the armory.        *)
(***************************************************************************)
EXTENDS PlayerBoard, TLC

Bag(radio, crack, tek9) ==
  [k \in Items |-> CASE k = "radio" -> radio [] k = "crack" -> crack [] k = "tek9" -> tek9]

Cash(item, quantity, price, lasts) ==
  [item |-> item, quantity |-> quantity, price |-> price, ask |-> NoGoods, lasts |-> lasts]
Barter(item, quantity, ask, lasts) ==
  [item |-> item, quantity |-> quantity, price |-> 0, ask |-> ask, lasts |-> lasts]

\* A gun for a radio, a gun for crack, a radio for cash.
SwapListings == {Barter("tek9", 1, Bag(1, 0, 0), 1), Barter("tek9", 1, Bag(0, 1, 0), 2),
                 Barter("radio", 1, Bag(0, 0, 1), 1)}
\* Listings that run out at once and later, with a free one to trip the checks.
PauseListings == {Cash("radio", 2, 1, 1), Cash("radio", 1, 1, 2)}
\* One radio, which each may offer to the other.
CrossListings == {Cash("radio", 1, 1, 1)}

OneCent == [k \in Items |-> 1]
OneSlot == [p \in Players |-> 1]
TwoSlots == [p \in Players |-> 2]

RaceCash == [p \in Players |-> p]
TwoCents == [p \in Players |-> 2]
RaceTagged == [p \in Players |-> IF p = 1 THEN Bag(1, 0, 0) ELSE NoGoods]

SwapHeld == [p \in Players |-> IF p = 1 THEN Bag(0, 0, 2) ELSE Bag(1, 1, 1)]
SwapTagged == [p \in Players |-> IF p = 2 THEN Bag(1, 0, 0) ELSE NoGoods]

OneAndTwo == [p \in Players |-> Bag(p, 0, 0)]
Untagged == [p \in Players |-> NoGoods]

=============================================================================
