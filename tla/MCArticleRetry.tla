--------------------------- MODULE MCArticleRetry ---------------------------
(***************************************************************************)
(* Small instances of ArticleRetry: two sessions, four backends in two     *)
(* tiers, two of which (b1, b2) are accounts of one provider.              *)
(***************************************************************************)
EXTENDS ArticleRetry, TLC

CONSTANTS b1, b2, b3, b4, p1, p2, p3

\* Two tier-0 accounts of p1, one tier-0 server of p2, a fallback p3.
SharedSlot == b1 :> p1 @@ b2 :> p1 @@ b3 :> p2 @@ b4 :> p3
TwoTiers   == b1 :> 0 @@ b2 :> 0 @@ b3 :> 0 @@ b4 :> 1

\* Three providers, the last one a fallback.
ThreeSlots == b1 :> p1 @@ b2 :> p2 @@ b3 :> p3
ThreeTiers == b1 :> 0 @@ b2 :> 0 @@ b3 :> 1

Symmetry == Permutations(Sessions)
=============================================================================
