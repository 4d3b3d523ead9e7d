------------------------------- MODULE MCLink -------------------------------
(***************************************************************************)
(* Instances of Link for TLC.                                              *)
(***************************************************************************)
EXTENDS Link

CONSTANTS i, r

\* The receiver's discoveries may cross an unanswered one, and offers and
\* discoveries of both ends each other.
MCMaxDiscoveries == [e \in Ends |-> IF e = Receiver THEN 2 ELSE 1]
MCMaxAnnounces == [e \in Ends |-> 1]

\* The receiver evicts a push peer.  Its verifier keeps the other lock.
MCMayBlock == [e \in Ends |-> IF e = Receiver THEN {"push"} ELSE {}]
=============================================================================
