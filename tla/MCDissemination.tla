--------------------------- MODULE MCDissemination ---------------------------
(***************************************************************************)
(* Networks for TLC.                                                       *)
(***************************************************************************)
EXTENDS Dissemination

CONSTANTS a, b, c, ab, ba, bc, ca, i, w

\* A ring of three nodes, two of which have two connections.
DoubleRing ==
    [l \in {ab, ba, bc, ca} |->
        CASE l \in {ab, ba} -> {a, b} [] l = bc -> {b, c} [] l = ca -> {c, a}]

\* One node samples two of its three connections; the others, with three and
\* two, have the smallest degrees with which they sample all.
SomeDegrees == [n \in Nodes |-> IF n = a THEN 3 ELSE 2]

\* A ring of three, in which everybody sends to both others.
Ring == [l \in {ab, bc, ca} |->
            CASE l = ab -> {a, b} [] l = bc -> {b, c} [] l = ca -> {c, a}]
BothPeers == [n \in Nodes |-> 2]

\* One forgets one of two ids; or all do.
SmallCache == [n \in Nodes |-> IF n = c THEN 1 ELSE 2]
RoomForOne == [n \in Nodes |-> 1]
=============================================================================
