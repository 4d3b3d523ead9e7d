---------------------------- MODULE MCDiscovery ----------------------------
(***************************************************************************)
(* Instances of Discovery for TLC.                                         *)
(***************************************************************************)
EXTENDS Discovery, TLC

CONSTANTS t1, t2, a, b, n, boot, own, users, bad, taken, junk

MCAddresses == {a, b, boot, own, users, bad, taken}
MCNames == {n, junk}

\* n is a name of a, junk is neither an address nor a name.
MCResolve ==
    [text \in MCAddresses \cup MCNames |-> IF text = n THEN a ELSE text]

Normal ==
    [found |-> TRUE,
     number |-> [cache_size |-> 1, degree |-> 1, min_connections |-> 1,
                 max_connections |-> 2, search_cooldown |-> Missing,
                 challenge_cooldown |-> Missing],
     address |-> [bootstrapper |-> boot, p2p_address |-> own,
                  api_address |-> users],
     known_peers |-> <<>>]

\* More known peers than pull peers, of which there is room for one; and room
\* for two.
Serving ==
    {[Normal EXCEPT !.known_peers = <<a, b>>],
     [Normal EXCEPT !.known_peers = <<n>>, !.number["max_connections"] = 3]}

\* The rest is about the start, which ends when the port of the peer server is
\* taken.
Starting == [Normal EXCEPT !.address["p2p_address"] = taken]

\* Each key at, below and beyond its limits, alone and with its neighbours.
Numbers ==
    {[Starting EXCEPT !.number[key] = value] :
        key \in NumberKeys, value \in {-1, 0, 1, 2, 3, Missing, NotANumber}}
Connections ==
    {[Starting EXCEPT !.number["min_connections"] = min,
                      !.number["max_connections"] = max,
                      !.number["degree"] = degree] :
        min \in {1, 2, 4}, max \in {1, 2, 3, 4}, degree \in {2, 3}}
Addressed ==
    {[Starting EXCEPT !.address[key] = text] :
        key \in AddressKeys, text \in {a, n, bad, taken, junk, Missing}}
Known ==
    {[Starting EXCEPT !.known_peers = peers] :
        peers \in {<<a>>, <<n>>, <<junk>>, <<a, b>>, <<b, n>>, <<a, n>>,
                   <<b, b>>}}

MCFiles ==
    Serving \cup Numbers \cup Connections \cup Addressed \cup Known
        \cup {[Normal EXCEPT !.found = FALSE]}

\* The connections that bring offers are interchangeable.
OffererSymmetry == Permutations(Offerers)
=============================================================================
