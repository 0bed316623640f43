------------------------ MODULE MCAnchorPipeline ------------------------
(***************************************************************************)
(* Small instances of AnchorPipeline for TLC.                              *)
(***************************************************************************)
EXTENDS AnchorRefinement

CONSTANTS r1, r2, o1, o2

OneRunOf   == [s \in Steps |-> r1]
OneOrgOf   == [r \in Runs |-> o1]

SameSecond    == [s \in Steps |-> 0]
===========================================================================
