---------------------------- MODULE MCCrownEconomy ----------------------------
(***************************************************************************)
(* Small instances of the Crown economy: one account, one pack of two      *)
(* Crowns, a bundle of a jacket and a frame, the jacket on its own.        *)
(***************************************************************************)
EXTENDS CrownEconomy, TLC

CONSTANTS ann, jacket, frame, jacketOffer, outfitOffer, daily, weekly, streetPass, small, large

OwnedByAnn == [o \in Packs |-> ann]
TwoCrowns == [o \in Packs |-> 2]
OneCrownEach == [k \in Items |-> 1]

MCKeys == [f \in Offers |-> IF f = jacketOffer THEN {jacket} ELSE {jacket, frame}]
MCOfferPrice == [f \in Offers |-> IF f = jacketOffer THEN 1 ELSE 2]

\* Two Crowns each; the Street Pass pays without a look at the cap.
MCAward == [w \in Awards |-> [account |-> ann, crowns |-> 2, capped |-> w # streetPass]]

\* Staff take one Crown at once, or give three with a second signature.
MCAdjustment ==
  [d \in Adjustments |-> IF d = small THEN [account |-> ann, delta |-> -1, large |-> FALSE]
                         ELSE [account |-> ann, delta |-> 3, large |-> TRUE]]

=============================================================================
