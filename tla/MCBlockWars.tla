------------------------------ MODULE MCBlockWars ------------------------------
(* Small instances of BlockWars: ann declares on the block bob holds, cy is ann's ally. *)
EXTENDS BlockWars

CONSTANTS ann, bob, cy, street

Crews == [c \in {ann, bob, cy} |-> IF c = cy THEN 1 ELSE 2]
Gangs == [c \in {ann, bob, cy} |-> IF c = bob THEN None ELSE "gang"]
HeldByBob == [x \in {street} |-> bob]
OneThug == [x \in {street} |-> 1]

\* One cast fights with allies, the other leaves, claims and scouts blocks.
Allies == {ann} \X {"take", "assault", "withdraw", "call"}
          \cup {bob} \X {"defend", "break", "concede"} \cup {cy} \X {"answer"}
Corners == {ann} \X {"take", "sack", "visit"} \cup {bob} \X {"pull", "post", "concede"}
           \cup {cy} \X {"claim", "scout"}
AllCasts == {Allies, Corners}
JustCorners == {Corners}

Slow == [op \in Ops |-> IF op = "concede" THEN 1 ELSE 0]
=============================================================================
