------------------------- MODULE MCSupporterMembership -------------------------
(***************************************************************************)
(* Ann subscribes and gives Bob a month; the second of two months has a    *)
(* drop, and having paid for both earns a badge.                           *)
(***************************************************************************)
EXTENDS SupporterMembership

CONSTANTS ann, bob, s1, s2, s3

AnnOnTrial == {<<ann, s1>>}
AnnsPage == {<<ann, s2>>}
AnnToBob == {<<ann, bob>>}

=============================================================================
