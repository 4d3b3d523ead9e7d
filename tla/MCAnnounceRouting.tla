------------------------- MODULE MCAnnounceRouting -------------------------
(***************************************************************************)
(* Instances of AnnounceRouting for TLC.                                   *)
(***************************************************************************)
EXTENDS AnnounceRouting, TLC

CONSTANTS a1, a2, p1, p2, small, wide, dtype

\* One data type: subscriptions to different types do not interact.
MCTypeOf == [id \in Ids |-> dtype]

\* The small id comes back once after its eviction, which takes a second id.
MCMaxAccepts == [id \in Ids |-> IF id = small THEN 2 ELSE 1]

\* Every id once.
MCAcceptOnce == [id \in Ids |-> 1]

\* API users are interchangeable, and so are peers (not used for liveness).
Symmetry == Permutations(Apis) \cup Permutations(Peers)
=============================================================================
