------------------------------ MODULE MCSportsbook ------------------------------
(***************************************************************************)
(* A small book: two games at +150 and -200, two players who hold tickets  *)
(* on them and have chips for one more, and limits that bite.              *)
(***************************************************************************)
EXTENDS Sportsbook

CONSTANTS ann, bob, g1, g2, a, b, c, d

Slip5(p, id, e, side, stake) ==
  [player |-> p, id |-> id, game |-> e, side |-> side, stake |-> stake]

HomeThenTie == [e \in Events |-> IF e = g1 THEN "HOME" ELSE "TIE"]
Moneyline == [e \in Events |-> [side \in Sides |-> IF side = "HOME" THEN 150 ELSE -200]]

\* Both players hold tickets on the second game, on different sides; only ann holds one
\* on the first, so that bob comes to its settlement by a wager or by a favor.
Held3 == {Slip5(ann, a, g1, "AWAY", 2),
          Slip5(ann, b, g2, "HOME", 2), Slip5(bob, b, g2, "AWAY", 2)}

\* Both want the home side of the first game too, which the book takes once.
MoreSlips == {Slip5(ann, c, g1, "HOME", 2), Slip5(bob, c, g1, "HOME", 2)}

TightLimits == [minStake |-> 1, maxStake |-> 2, maxProfit |-> 3, perGame |-> 4, open |-> 6,
                openTickets |-> 3, daily |-> 6, side |-> 5]

=============================================================================
