--------------------------- MODULE Dissemination ---------------------------
(***************************************************************************)
(* Announcements in a network of nodes that all run this program           *)
(* (modules/gossip.py, 436-616).  Every node is what RelayGate says of it, *)
(* and a step is an announcement that one node makes, reads or decides,    *)
(* with the messages that follow from it.                                  *)
(*                                                                         *)
(* Connections have completed their handshake (Link): each end lists the   *)
(* connection until it closes it, and reads in order what the other end    *)
(* wrote.  Two nodes may have two connections, one opened by each.  The    *)
(* users of a node are one user here, whose answer is the last acceptance, *)
(* or a refusal; there is one data type.  A node draws ids nobody has      *)
(* drawn before (randint(0, 2^64-1)).                                      *)
(***************************************************************************)
EXTENDS Integers, Sequences, FiniteSets

CONSTANTS
    Nodes, Connections,
    EndsOf,        \* the two nodes of each connection
    Ids,
    WideIds,       \* ids that do not fit the 16 bits of a GOSSIP NOTIFICATION
    Subscribed,    \* nodes with a user who subscribed to the data type
    Refusing,      \* nodes whose user may refuse
    Degree,        \* degree of each node
    CacheSize,     \* cache_size of each node
    Ttls,          \* time to live of the announcements of users
    Fragile,       \* bound: connections that may be closed, again and again
    NoNode, NoConnection

ASSUME ConnectionsAssumption ==
    /\ EndsOf \in [Connections -> SUBSET Nodes]
    /\ \A c \in Connections :
          \E m, n \in Nodes : m # n /\ EndsOf[c] = {m, n}
    /\ Fragile \subseteq Connections
    /\ NoNode \notin Nodes /\ NoConnection \notin Connections
ASSUME NodesAssumption ==
    /\ Subscribed \subseteq Nodes /\ WideIds \subseteq Ids
    /\ Degree \in [Nodes -> Nat \ {0}] /\ CacheSize \in [Nodes -> Nat \ {0}]
ASSUME TtlsAssumption == Ttls \subseteq Nat

\* Ids have 64 bits.
ASSUME IdsAssumption == IsFiniteSet(Ids)

VARIABLES
    up,         \* the ends of a connection that have not closed it
    deaf,       \* ends whose task has died: <<connection, node>>
    wire,       \* wire[c][n]: what n has yet to read from c
    ids,        \* peer_announce_ids of each node
    toVerify,   \* announces_to_verify of each node
    origin,     \* history: who announced an id
    limit,      \* history: and with which time to live
    notified    \* history: whether the user was notified, once or more often

vars == <<up, deaf, wire, ids, toVerify, origin, limit, notified>>

\* An entry that is not there.
NoEntry == [ttl |-> 0, hops |-> 0, from |-> NoConnection]

Init ==
    /\ up = EndsOf
    /\ deaf = {}
    /\ wire = [c \in Connections |-> [n \in Nodes |-> <<>>]]
    /\ ids = [n \in Nodes |-> {}]
    /\ toVerify = [n \in Nodes |-> [id \in Ids |-> NoEntry]]
    /\ origin = [id \in Ids |-> NoNode]
    /\ limit = [id \in Ids |-> 0]
    /\ notified = [n \in Nodes |-> [id \in Ids |-> 0]]

-----------------------------------------------------------------------------
(* What the nodes do.                                                       *)

\* __get_verified_pull_push_peers.
Peers(n) == {c \in Connections : n \in up[c]}

\* A fault: one less than degree.
SmallSamples(n) ==
    IF Cardinality(Peers(n)) < Degree[n] THEN {Peers(n)}
    ELSE {s \in SUBSET Peers(n) : Cardinality(s) = Degree[n] - 1}

\* __get_peer_sample: all peers, or degree of them.
GetPeerSample(n) ==
    IF Cardinality(Peers(n)) < Degree[n] THEN {Peers(n)}
    ELSE {s \in SUBSET Peers(n) : Cardinality(s) = Degree[n]}

\* send_peer_announce on each of some connections; what is written to one that
\* the other end has closed is lost.
SendPeerAnnounce(n, connections, message, wires) ==
    [c \in Connections |-> [m \in Nodes |->
        IF c \in connections /\ m \in up[c] /\ m # n
        THEN Append(wires[c][m], message) ELSE wires[c][m]]]

\* A fault: the id is not remembered.
Forgetful(n, id) == ids' = ids

\* __add_peer_announce_id: if the set is full any id is removed for the new one.
AddPeerAnnounceId(n, id) ==
    \/ /\ Cardinality(ids[n]) < CacheSize[n]
       /\ ids' = [ids EXCEPT ![n] = @ \cup {id}]
    \/ /\ Cardinality(ids[n]) >= CacheSize[n]
       /\ \E old \in ids[n] :
             ids' = [ids EXCEPT ![n] = (@ \ {old}) \cup {id}]

\* handle_gossip_announce: the user of n announces.
HandleGossipAnnounce(n, id, ttl) ==
    /\ origin[id] = NoNode
    /\ origin' = [origin EXCEPT ![id] = n]
    /\ limit' = [limit EXCEPT ![id] = ttl]
    /\ AddPeerAnnounceId(n, id)
    /\ \E sample \in GetPeerSample(n) :
          wire' = SendPeerAnnounce(n, sample,
                                   [id |-> id, ttl |-> ttl, hops |-> 1], wire)
    /\ UNCHANGED <<up, deaf, toVerify, notified>>

\* Faults: the time to live is passed on as it came, or counted down when
\* there is none.
SameTtl(ttl) == ttl
CountedDown(ttl) == ttl - 1

OneHopLess(ttl) == IF ttl > 0 THEN ttl - 1 ELSE ttl

\* hops is history, of announcements with a limit only.
NextHop(message) ==
    IF limit[message.id] = 0 THEN 1 ELSE message.hops + 1

\* handle_peer_announce, for the next message n reads from c.  At the last hop
\* nobody is notified (the forwarding is a coroutine that is never awaited);
\* without a subscriber nothing follows; and the notification of a wide id ends
\* the task of c.
HandlePeerAnnounce(n, c) ==
    /\ n \in up[c] /\ <<c, n>> \notin deaf
    /\ wire[c][n] # <<>>
    /\ wire' = [wire EXCEPT ![c][n] = Tail(@)]
    /\ LET message == Head(wire[c][n])
           id == message.id
       IN  \/ /\ id \in ids[n]
              /\ UNCHANGED <<deaf, ids, toVerify, notified>>
           \/ /\ id \notin ids[n]
              /\ AddPeerAnnounceId(n, id)
              /\ IF message.ttl = 1 \/ n \notin Subscribed
                 THEN UNCHANGED <<deaf, toVerify, notified>>
                 ELSE /\ toVerify' = [toVerify EXCEPT ![n][id] =
                            [ttl |-> OneHopLess(message.ttl),
                             hops |-> NextHop(message), from |-> c]]
                      /\ \/ /\ id \in WideIds
                            /\ deaf' = deaf \cup {<<c, n>>}
                            /\ UNCHANGED notified
                         \/ /\ id \notin WideIds
                            /\ notified' = [notified EXCEPT ![n][id] =
                                               IF @ = 0 THEN 1 ELSE 2]
                            /\ UNCHANGED deaf
    /\ UNCHANGED <<up, origin, limit>>

\* A user answers a notification: ids of GOSSIP VALIDATION have 16 bits.
Answers(n, id) == toVerify[n][id] # NoEntry /\ id \notin WideIds

\* handle_gossip_validation, the last acceptance: the announcement goes to a
\* sample without the connection it came from.
Accepted(n, id) ==
    /\ Answers(n, id)
    /\ LET entry == toVerify[n][id]
       IN  \E sample \in GetPeerSample(n) :
              wire' = SendPeerAnnounce(n, sample \ {entry.from},
                          [id |-> id, ttl |-> entry.ttl, hops |-> entry.hops],
                          wire)
    /\ toVerify' = [toVerify EXCEPT ![n][id] = NoEntry]
    /\ UNCHANGED <<up, deaf, ids, origin, limit, notified>>

\* handle_gossip_validation, a refusal.
Refused(n, id) ==
    /\ n \in Refusing /\ Answers(n, id)
    /\ toVerify' = [toVerify EXCEPT ![n][id] = NoEntry]
    /\ UNCHANGED <<up, deaf, wire, ids, origin, limit, notified>>

-----------------------------------------------------------------------------
(* Connections end, from either end, and new ones are made.                 *)

\* A fault: what n has yet to read is kept for the next connection.
ClosePeerUnread(n, c) ==
    /\ c \in Fragile /\ n \in up[c]
    /\ up' = [up EXCEPT ![c] = @ \ {n}]
    /\ deaf' = deaf \ {<<c, n>>}
    /\ UNCHANGED <<wire, ids, toVerify, origin, limit, notified>>

\* close_peer: what n has yet to read is lost.  An entry keeps the connection
\* it came from, which is in no list any more.
ClosePeer(n, c) ==
    /\ c \in Fragile /\ n \in up[c]
    /\ up' = [up EXCEPT ![c] = @ \ {n}]
    /\ deaf' = deaf \ {<<c, n>>}
    /\ wire' = [wire EXCEPT ![c][n] = <<>>]
    /\ toVerify' = [toVerify EXCEPT ![n] = [id \in Ids |->
          IF @[id] # NoEntry /\ @[id].from = c
          THEN [@[id] EXCEPT !.from = NoConnection] ELSE @[id]]]
    /\ UNCHANGED <<ids, origin, limit, notified>>

\* The two nodes connect again, and validate each other.
Reconnect(c) ==
    /\ up[c] = {}
    /\ up' = [up EXCEPT ![c] = EndsOf[c]]
    /\ UNCHANGED <<deaf, wire, ids, toVerify, origin, limit, notified>>

-----------------------------------------------------------------------------
Next ==
    \/ \E n \in Nodes, id \in Ids :
          \/ \E ttl \in Ttls : HandleGossipAnnounce(n, id, ttl)
          \/ Accepted(n, id) \/ Refused(n, id)
    \/ \E n \in Nodes, c \in Connections :
          HandlePeerAnnounce(n, c) \/ ClosePeer(n, c)
    \/ \E c \in Connections : Reconnect(c)

Spec == Init /\ [][Next]_vars

\* A node goes on while it has something to read or its user something to
\* answer: WF.  Nobody has to announce, and no connection has to close.
NodeProceeds(n) ==
    \/ \E c \in Connections : HandlePeerAnnounce(n, c)
    \/ \E id \in Ids : Accepted(n, id) \/ Refused(n, id)

FairSpec == Spec /\ \A n \in Nodes : WF_vars(NodeProceeds(n))

-----------------------------------------------------------------------------
(* Properties.                                                              *)

Message == [id : Ids, ttl : Nat, hops : Nat]

Entry == [ttl : Nat, hops : Nat, from : Connections \cup {NoConnection}]

TypeOK ==
    /\ up \in [Connections -> SUBSET Nodes]
    /\ deaf \subseteq Connections \X Nodes
    /\ \A c \in Connections, n \in Nodes :
          \A i \in DOMAIN wire[c][n] : wire[c][n][i] \in Message
    /\ ids \in [Nodes -> SUBSET Ids]
    /\ toVerify \in [Nodes -> [Ids -> Entry \cup {NoEntry}]]
    /\ origin \in [Ids -> Nodes \cup {NoNode}]
    /\ limit \in [Ids -> Nat]
    /\ notified \in [Nodes -> [Ids -> 0 .. 2]]

\* "The TTL tells Gossip how many hops this data should traverse": no message
\* of a limited announcement goes further, whatever the paths its copies take,
\* the answers they wait for and the copies that come back to a node that has
\* forgotten them; and none becomes unlimited on the way.
HopsWithinTtl ==
    \A c \in Connections, n \in Nodes : \A i \in DOMAIN wire[c][n] :
        LET message == wire[c][n][i]
        IN  limit[message.id] > 0 =>
                message.ttl > 0 /\ message.hops <= limit[message.id]

\* A user whose node has room for all ids is notified of an announcement once,
\* although it arrives over several connections, over two from the same node,
\* and again from nodes that have forgotten it; and never of one of its own,
\* which comes back to it.
NotifiedOnce ==
    \A n \in Nodes, id \in Ids :
        Cardinality(Ids) <= CacheSize[n] =>
            notified[n][id] <= IF origin[id] = n THEN 0 ELSE 1

\* A relay goes to somebody if there is somebody else to send it to: the
\* connection it came from is taken out of the sample after it was drawn, so
\* that this takes a degree of at least two.  (With a degree of one the sample
\* may be that connection alone.)
Relayed(n, id) ==
    n \notin Refusing /\ toVerify[n][id] # NoEntry /\ toVerify'[n][id] = NoEntry

RelayReachesSomebody ==
    [][\A n \in Nodes, id \in Ids :
          /\ Relayed(n, id) /\ Degree[n] >= 2
          /\ Peers(n) \ {toVerify[n][id].from} # {}
          /\ \A c \in Peers(n) : up[c] = EndsOf[c]
          => \E c \in Peers(n) \ {toVerify[n][id].from}, m \in Nodes \ {n} :
                Len(wire'[c][m]) > Len(wire[c][m])]_vars

\* Nodes there is a path to from o over connections that stay, and over nodes
\* that send to all their peers and whose users accept.
Reach(o) ==
    LET senders == {n \in Nodes :
            Cardinality({c \in Connections : n \in EndsOf[c]}) <= Degree[n]}
        forwarders == senders \cap ((Subscribed \ Refusing) \cup {o})
        OneHop(nodes) ==
            nodes \cup UNION {EndsOf[c] : c \in
                {l \in Connections \ Fragile :
                    EndsOf[l] \cap nodes \cap forwarders # {}}}
        reach[k \in 0 .. Cardinality(Nodes)] ==
            IF k = 0 THEN {o} ELSE OneHop(reach[k - 1])
    IN  reach[Cardinality(Nodes)]

\* An unlimited announcement reaches the user of every node there is such a
\* path to, whatever becomes of the copies that take other ways: they wait for
\* an answer, are refused, sent to a sample, lost when a connection closes, or
\* come back to a node that has forgotten the id.  Unless a task has died of a
\* wide id, and reads no more.
EverybodyNotified ==
    \A id \in Ids :
        (origin[id] # NoNode /\ limit[id] = 0) ~>
            \A n \in (Reach(origin[id]) \cap Subscribed) \ {origin[id]} :
                notified[n][id] > 0 \/ deaf # {}

\* Announcements come to rest: after the last one no message is under way any
\* more, also of those without a limit ("keep track of known IDs to prevent
\* routing loops", "prevent spreading of duplicate messages e.g. in a loop").
\* They do when one node of every ring has room for all ids.  Where none has,
\* each id comes back after the next one has taken its place.
DiesOut ==
    <>[](\A c \in Connections, n \in Nodes :
            wire[c][n] = <<>> \/ <<c, n>> \in deaf)
=============================================================================
