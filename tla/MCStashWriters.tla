----------------------------- MODULE MCStashWriters -----------------------------
(***************************************************************************)
(* Small instances of one player's row: fuel cans, and wiring that         *)
(* upgrades take and that the Salvage Yard gives for cans.  The handlers   *)
(* are interchangeable.                                                    *)
(***************************************************************************)
EXTENDS StashWriters, TLC

Bag2(can, wiring) == [k \in Parts |-> IF k = "can" THEN can ELSE wiring]

YardPrice ==
  [k \in Parts |->
    IF k = "can" THEN [cash |-> 1, parts |-> Bag2(0, 0)] ELSE [cash |-> 0, parts |-> Bag2(1, 0)]]

Levels == [u \in Upgrades |-> IF u = "CAPACITY" THEN 2 ELSE 1]
OneCent == [u \in Upgrades |-> 1]
OneWiring == [u \in Upgrades |-> Bag2(0, 1)]
SomeParts == Bag2(2, 0)

\* No guard reads the books, and of them the invariants of this run only the balance of
\* cans, burned charges and drift.
FuelBalance == <<row, req, served, CanCharges * books.cans + books.drift - books.burned>>

Interchangeable == Permutations(Handlers)

=============================================================================
