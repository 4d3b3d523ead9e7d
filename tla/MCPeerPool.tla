----------------------------- MODULE MCPeerPool -----------------------------
(***************************************************************************)
(* Instances of PeerPool for TLC.                                          *)
(***************************************************************************)
EXTENDS PeerPool, TLC

CONSTANTS c1, c2, c3, o1, o2

\* The connections that are opened to us are interchangeable.
InboundSymmetry == Permutations(Inbound)
=============================================================================
