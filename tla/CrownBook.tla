------------------------------- MODULE CrownBook -------------------------------
(***************************************************************************)
(* What the Crown wallet promises: an append-only book in which every      *)
(* event that moves Crowns appears at most once, and a balance that is     *)
(* never negative and moves only with the book.  CrownEconomy implements   *)
(* this with row locks, snapshots, webhooks and requests.                  *)
(***************************************************************************)
EXTENDS Integers

CONSTANT Accounts

VARIABLES balance, book

account == <<balance, book>>

Init ==
  /\ balance = [a \in Accounts |-> 0]
  /\ book = {}

\* One entry, of an event the book has not seen, and the balance with it.
Move ==
  \E e \in book' \ book :
    /\ \A x \in book : x.ref # e.ref
    /\ balance[e.account] + e.delta >= 0
    /\ book' = book \cup {e}
    /\ balance' = [balance EXCEPT ![e.account] = @ + e.delta]

Spec == Init /\ [][Move]_account

=============================================================================
