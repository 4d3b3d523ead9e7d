-------------------------- MODULE AnnounceRouting --------------------------
(***************************************************************************)
(* The announcement path of one Gossip instance (modules/gossip.py):       *)
(* an announcement arrives from an API user or from a peer, is remembered  *)
(* by its id, is shown to the API users subscribed to its data type, and   *)
(* is relayed to a sample of the peers once all of them have accepted it.  *)
(*                                                                         *)
(* Every connection has one asyncio task (Peer_connection.run and          *)
(* Api_connection.run) that reads a message, handles it to the end and     *)
(* reads the next one.  A task can be suspended only where it waits for an *)
(* asyncio.Lock that another task holds or for a StreamWriter to drain, so *)
(* a step of this module is what a task does between two such points.  A   *)
(* lock is a variable that names its owner; the two locks that are held    *)
(* across a suspension are datasubs_lock and announces_to_verify_lock.  Of *)
(* the locks of the two peer lists a task that draws a sample waits for,   *)
(* the module keeps only whether an eviction has blocked with the second   *)
(* one, which is never released then (PeerPool).                           *)
(* apis_lock and peer_announce_ids_lock never are: their critical sections *)
(* are part of the step that enters them.  The logging done after every    *)
(* message waits for locks one at a time, holds nothing while it waits and *)
(* changes nothing: here it is a task that is late to read.                *)
(*                                                                         *)
(* The lists of the code that hold connections (the subscribers of a type, *)
(* the validators of an announcement) are counted, not ordered: an API     *)
(* user may be in one several times and list.remove takes one away.        *)
(***************************************************************************)
EXTENDS Integers, FiniteSets

CONSTANTS
    Apis,          \* connections of API users
    Peers,         \* connections to other peers
    PullPeers,     \* those of them that are listed in pull_peers
    NoTask,        \* the owner of a free lock; the sender of an own message
    Ids,           \* message ids of PEER ANNOUNCEs
    WideIds,       \* ids that do not fit the 16 bits of a GOSSIP NOTIFICATION
    OversizedIds,  \* own messages whose data does not fit a PEER ANNOUNCE
    DataTypes,     \* data types of announcements
    TypeOf,        \* the data type a message carries
    Ttls,          \* TTL values of received messages (0: unlimited)
    CacheSize,     \* config.cache_size: capacity of peer_announce_ids
    Degree,        \* config.degree: how many peers a message is sent to
    MaxAccepts,    \* bound: how often each id is accepted
    MaxNotifies,   \* bound: GOSSIP NOTIFYs of one API user for one type
    MayBlock       \* bound: whether there are evictions, which may block

ASSUME TasksAssumption == Apis \cap Peers = {} /\ NoTask \notin Apis \cup Peers
ASSUME PeersAssumption ==
    PullPeers \subseteq Peers /\ MayBlock \in BOOLEAN
ASSUME IdsAssumption ==
    Ids # {} /\ WideIds \subseteq Ids /\ OversizedIds \subseteq Ids
ASSUME DataAssumption == TypeOf \in [Ids -> DataTypes] /\ Ttls \subseteq Nat
ASSUME ConfigAssumption == CacheSize \in Nat \ {0} /\ Degree \in Nat \ {0}
ASSUME BoundAssumption == MaxAccepts \in [Ids -> Nat] /\ MaxNotifies \in Nat

Tasks == Apis \cup Peers

\* A list of API connections, by how often each is in it.
ApiList == [Apis -> Nat]
Nobody == [a \in Apis |-> 0]

\* An announcement on its way through the instance.
Message == [id : Ids, ttl : Nat, from : Peers \cup {NoTask}]

\* What a task that handles none has (its local variables are out of scope).
NoMessage == [id |-> CHOOSE i \in Ids : TRUE, ttl |-> 0, from |-> NoTask]

\* The value kept under a message id in announces_to_verify.
Entry == [ttl : Nat, from : Peers, validators : ApiList]

VARIABLES
    pc,            \* where each task is
    msg,           \* the announcement each task is handling
    todo,          \* peer task: subscribers it has yet to notify
    out,           \* API task: pull_peers it has found for its sample, and
                   \* then the peers it has yet to send the message to
    connected,     \* fully validated connections in pull_peers or push_peers
    blocked,       \* an eviction keeps push_peers_lock for good
    datasubs,      \* data type -> list of subscribers
    datasubsLock,  \* owner of datasubs_lock
    knownIds,      \* peer_announce_ids
    toVerify,      \* announces_to_verify: id -> Entry
    verifyLock,    \* owner of announces_to_verify_lock
    inbox,         \* GOSSIP NOTIFICATIONs an API user has not answered yet
    accepts,       \* history: how often an id was new to this instance
    evictions,     \* history: how often an id was evicted from knownIds
    relays,        \* history: how often an id was sent on to a sample
    heard,         \* history: the TTLs an id was received with
    ballot,        \* history: validators of the last entry stored for an id
    agreed,        \* history: positive answers read since that entry
    refused,       \* history: a negative answer was read since that entry
    aborted        \* history: ids whose last loop over the subscribers was
                   \* ended by an exception

taskVars == <<pc, msg, todo, out>>
peerVars == <<connected, blocked>>
lockVars == <<datasubsLock, verifyLock>>
voteVars == <<ballot, agreed, refused, aborted>>
history == <<accepts, evictions, relays, heard, ballot, agreed, refused,
             aborted>>
vars == <<pc, msg, todo, out, connected, blocked, datasubs, datasubsLock,
          knownIds, toVerify, verifyLock, inbox, accepts, evictions, relays,
          heard, ballot, agreed, refused, aborted>>

\* Faults the checks must notice: d.get(k) in place of d.pop(k), and a lock
\* that is acquired without a "with".
GetOnly(d, k) == d
KeepLock(lock, t) == lock

\* A Python dictionary: d[k] = v and d.pop(k).
Put(d, k, v) == [x \in DOMAIN d \cup {k} |-> IF x = k THEN v ELSE d[x]]
Pop(d, k) == [x \in DOMAIN d \ {k} |-> d[x]]

\* A fault: list.remove without looking whether the element is there.
Remove1Unchecked(list, a) == [list EXCEPT ![a] = @ - 1]

\* A list: append(a), and remove(a) of one occurrence if there is one.
Append1(list, a) == [list EXCEPT ![a] = @ + 1]
Remove1(list, a) == [list EXCEPT ![a] = IF @ > 0 THEN @ - 1 ELSE 0]

\* Leaving an "async with": the lock is free if it was this task's.
Release(lock, t) == IF lock = t THEN NoTask ELSE lock

-----------------------------------------------------------------------------
Init ==
    /\ pc = [t \in Tasks |-> "new"]
    /\ msg = [t \in Tasks |-> NoMessage]
    /\ todo = [p \in Peers |-> Nobody]
    /\ out = [a \in Apis |-> {}]
    /\ connected = {}
    /\ blocked = FALSE
    /\ datasubs = [d \in {} |-> Nobody]
    /\ datasubsLock = NoTask
    /\ knownIds = {}
    /\ toVerify = [i \in {} |-> Nobody]
    /\ verifyLock = NoTask
    /\ inbox = [a \in Apis |-> [i \in Ids |-> 0]]
    /\ accepts = [i \in Ids |-> 0]
    /\ evictions = [i \in Ids |-> 0]
    /\ relays = [i \in Ids |-> 0]
    /\ heard = [i \in Ids |-> {}]
    /\ ballot = [i \in Ids |-> Nobody]
    /\ agreed = [i \in Ids |-> Nobody]
    /\ refused = [i \in Ids |-> FALSE]
    /\ aborted = {}

-----------------------------------------------------------------------------
(* Connections and subscriptions.                                          *)

\* A connection is accepted, listed, and its task started.
ApiConnects(a) ==
    /\ pc[a] = "new"
    /\ pc' = [pc EXCEPT ![a] = "read"]
    /\ UNCHANGED <<msg, todo, out, peerVars, datasubs, lockVars, knownIds,
                   toVerify, inbox, history>>

\* The peer is in push_peers or in pull_peers, validated on both sides.
PeerJoins(p) ==
    /\ pc[p] = "new"
    /\ pc' = [pc EXCEPT ![p] = "read"]
    /\ connected' = connected \cup {p}
    /\ UNCHANGED <<msg, todo, out, blocked, datasubs, lockVars, knownIds,
                   toVerify, inbox, history>>

\* close_peer removes it whatever its own task is doing.
PeerLeaves(p) ==
    /\ p \in connected
    /\ connected' = connected \ {p}
    /\ UNCHANGED <<taskVars, blocked, datasubs, lockVars, knownIds, toVerify,
                   inbox, history>>

\* validate_peer takes push_peers_lock, finds push_peers full and closes the
\* oldest member: the log of close_peer waits for that lock, which is never
\* released.  (The peer control, which takes pull_peers_lock first, then keeps
\* that one as well: for which of the two a task waits makes no difference.)
EvictionBlocks ==
    /\ MayBlock /\ ~blocked
    /\ blocked' = TRUE
    /\ UNCHANGED <<taskVars, connected, datasubs, lockVars, knownIds, toVerify,
                   inbox, history>>

\* GOSSIP NOTIFY.  The list is created or appended to under datasubs_lock;
\* nothing stops an API user from being in it twice.
AddSubscriber(a, d) ==
    /\ pc[a] = "read"
    /\ datasubsLock = NoTask
    /\ d \in DOMAIN datasubs => datasubs[d][a] < MaxNotifies
    /\ LET list == IF d \in DOMAIN datasubs THEN datasubs[d] ELSE Nobody
       IN  datasubs' = Put(datasubs, d, Append1(list, a))
    /\ UNCHANGED <<taskVars, peerVars, lockVars, knownIds, toVerify, inbox,
                   history>>

\* The API user hung up or sent something malformed.  One occurrence is
\* removed from every list of subscribers, announces_to_verify is not looked
\* at, and the notifications it has not answered are lost with it.
CloseApi(a) ==
    /\ pc[a] = "read"
    /\ datasubsLock = NoTask
    /\ datasubs' = [d \in DOMAIN datasubs |-> Remove1(datasubs[d], a)]
    /\ pc' = [pc EXCEPT ![a] = "closed"]
    /\ inbox' = [inbox EXCEPT ![a] = [i \in Ids |-> 0]]
    /\ UNCHANGED <<msg, todo, out, peerVars, lockVars, knownIds, toVerify,
                   history>>

-----------------------------------------------------------------------------
(* An announcement arrives.                                                *)

\* A fault: an id for which there is no room is not remembered.
AddIdUnlessFull(id) ==
    /\ accepts[id] < MaxAccepts[id]
    /\ accepts' = [accepts EXCEPT ![id] = @ + 1]
    /\ knownIds' = IF Cardinality(knownIds) < CacheSize
                   THEN knownIds \cup {id} ELSE knownIds
    /\ UNCHANGED evictions

\* peer_announce_ids is a bounded set: when it is full some element of it,
\* not the oldest, makes room for the new one.
AddPeerAnnounceId(id) ==
    /\ accepts[id] < MaxAccepts[id]
    /\ accepts' = [accepts EXCEPT ![id] = @ + 1]
    /\ \/ /\ Cardinality(knownIds) < CacheSize
          /\ knownIds' = knownIds \cup {id}
          /\ UNCHANGED evictions
       \/ /\ Cardinality(knownIds) >= CacheSize
          /\ \E e \in knownIds :
                /\ knownIds' = (knownIds \ {e}) \cup {id}
                /\ evictions' = [evictions EXCEPT ![e] = @ + 1]

KnownId(id) == id \in knownIds

\* GOSSIP ANNOUNCE: a fresh id is drawn for the API user's message.
HandleGossipAnnounce(a, id, ttl) ==
    /\ pc[a] = "read"
    /\ ~KnownId(id)
    /\ AddPeerAnnounceId(id)
    /\ msg' = [msg EXCEPT ![a] = [id |-> id, ttl |-> ttl, from |-> NoTask]]
    /\ pc' = [pc EXCEPT ![a] = "sample"]
    /\ UNCHANGED <<todo, out, peerVars, datasubs, lockVars, toVerify, inbox,
                   relays, heard, voteVars>>

\* A fault: the message ends one hop late, after 1 has become 0.
LastHopAtZero(ttl) == ttl = 0

\* 1 ends the journey, 0 means no limit, anything else is decremented.
DecrementTtl(ttl) == IF ttl > 0 THEN ttl - 1 ELSE ttl
LastHop(ttl) == ttl = 1

\* PEER ANNOUNCE.  One whose id is known is dropped, which changes nothing.
\* The last one may be handled after close_peer has unlisted the connection.
HandlePeerAnnounce(p, id, ttl) ==
    /\ pc[p] = "read"
    /\ ~KnownId(id)
    /\ AddPeerAnnounceId(id)
    /\ heard' = [heard EXCEPT ![id] = @ \cup {ttl}]
    /\ IF LastHop(ttl)
       THEN /\ msg' = [msg EXCEPT ![p] = [id |-> id, ttl |-> ttl, from |-> p]]
            /\ pc' = [pc EXCEPT ![p] = "last"]
       ELSE /\ msg' = [msg EXCEPT ![p] =
                           [id |-> id, ttl |-> DecrementTtl(ttl), from |-> p]]
            /\ pc' = [pc EXCEPT ![p] = "subs"]
    /\ UNCHANGED <<todo, out, peerVars, datasubs, lockVars, toVerify, inbox,
                   relays, voteVars>>

\* The task is done with its message and reads the next one, or ends when the
\* connection was closed in the meantime.
Done(t) ==
    /\ pc' = [pc EXCEPT ![t] = IF t \in Peers \ connected
                                THEN "closed" ELSE "read"]
    /\ msg' = [msg EXCEPT ![t] = NoMessage]

\* The last hop walks over the subscribers, but send_gossip_notification is
\* a coroutine and is not awaited: nothing is sent.
EndHere(p) ==
    /\ pc[p] = "last"
    /\ datasubsLock = NoTask
    /\ Done(p)
    /\ UNCHANGED <<todo, out, peerVars, datasubs, lockVars, knownIds,
                   toVerify, inbox, history>>

\* Without a list for the type the message is not propagated.
LookUpSubscribers(p) ==
    /\ pc[p] = "subs"
    /\ datasubsLock = NoTask
    /\ \/ /\ TypeOf[msg[p].id] \in DOMAIN datasubs
          /\ datasubsLock' = p
          /\ pc' = [pc EXCEPT ![p] = "store"]
          /\ UNCHANGED msg
       \/ /\ TypeOf[msg[p].id] \notin DOMAIN datasubs
          /\ Done(p)
          /\ UNCHANGED datasubsLock
    /\ UNCHANGED <<todo, out, peerVars, datasubs, knownIds, toVerify,
                   verifyLock, inbox, history>>

\* Still holding datasubs_lock, the task stores a copy of the list as the
\* validators of the message; the loop over the list begins in the same step.
StoreAnnounce(p) ==
    /\ pc[p] = "store"
    /\ verifyLock = NoTask
    /\ LET m == msg[p]
           subs == datasubs[TypeOf[m.id]]
       IN  /\ toVerify' = Put(toVerify, m.id,
                              [ttl |-> m.ttl, from |-> p, validators |-> subs])
           /\ todo' = [todo EXCEPT ![p] = subs]
           /\ ballot' = [ballot EXCEPT ![m.id] = subs]
           /\ agreed' = [agreed EXCEPT ![m.id] = Nobody]
           /\ refused' = [refused EXCEPT ![m.id] = FALSE]
           /\ aborted' = aborted \ {m.id}
    /\ pc' = [pc EXCEPT ![p] = "notify"]
    /\ UNCHANGED <<msg, out, peerVars, datasubs, lockVars, knownIds, inbox,
                   accepts, evictions, relays, heard>>

\* A fault (the one of the last hop): the coroutine is not awaited.
DeliverNotAwaited(a, id) == inbox

\* What is written to a closed connection is lost (a reset is caught).
Deliver(a, id) ==
    IF pc[a] = "closed" THEN inbox ELSE [inbox EXCEPT ![a][id] = @ + 1]

\* One GOSSIP NOTIFICATION is written and drained.
SendGossipNotification(p, a) ==
    /\ pc[p] = "notify"
    /\ todo[p][a] > 0
    /\ msg[p].id \notin WideIds
    /\ todo' = [todo EXCEPT ![p][a] = @ - 1]
    /\ inbox' = Deliver(a, msg[p].id)
    /\ UNCHANGED <<pc, msg, out, peerVars, datasubs, lockVars, knownIds,
                   toVerify, history>>

\* For an id of more than 16 bits build_gossip_notification returns None, and
\* writing None raises out of the handler; so does the drain when the
\* connection of the subscriber has failed otherwise than by a reset.
\* datasubs_lock is released on the way and the task of the peer's connection
\* ends, the connection stays.
SendGossipNotificationFails(p) ==
    /\ pc[p] = "notify"
    /\ todo[p] # Nobody
    /\ aborted' = aborted \cup {msg[p].id}
    /\ pc' = [pc EXCEPT ![p] = "dead"]
    /\ msg' = [msg EXCEPT ![p] = NoMessage]
    /\ todo' = [todo EXCEPT ![p] = Nobody]
    /\ datasubsLock' = Release(datasubsLock, p)
    /\ UNCHANGED <<out, peerVars, datasubs, knownIds, toVerify, verifyLock,
                   inbox, accepts, evictions, relays, heard, ballot, agreed,
                   refused>>

NotifiedAll(p) ==
    /\ pc[p] = "notify"
    /\ todo[p] = Nobody
    /\ Done(p)
    /\ datasubsLock' = Release(datasubsLock, p)
    /\ UNCHANGED <<todo, out, peerVars, datasubs, knownIds, toVerify,
                   verifyLock, inbox, history>>

-----------------------------------------------------------------------------
(* An API user answers a notification it was sent (it is honest) with a    *)
(* GOSSIP VALIDATION; handle_gossip_validation.                            *)

Answers(a, id) ==
    /\ pc[a] = "read"
    /\ inbox[a][id] > 0
    /\ verifyLock = NoTask
    /\ inbox' = [inbox EXCEPT ![a][id] = @ - 1]

\* Invalid: the entry is deleted, whoever says so.
Rejects(a, id) ==
    /\ Answers(a, id)
    /\ toVerify' = Pop(toVerify, id)
    /\ refused' = [refused EXCEPT ![id] = TRUE]
    /\ UNCHANGED <<taskVars, peerVars, datasubs, lockVars, knownIds, accepts,
                   evictions, relays, heard, ballot, agreed, aborted>>

IsValidator(a, id) ==
    id \in DOMAIN toVerify /\ toVerify[id].validators[a] > 0

\* A fault: list comprehension instead of list.remove, all occurrences go.
RemainingNone(a, id) == [toVerify[id].validators EXCEPT ![a] = 0]

Remaining(a, id) == Remove1(toVerify[id].validators, a)

\* Valid, but there is no entry or the API user is not (any more) in it.
AcceptIgnored(a, id) ==
    /\ Answers(a, id)
    /\ ~IsValidator(a, id)
    /\ agreed' = [agreed EXCEPT ![id][a] = @ + 1]
    /\ UNCHANGED <<taskVars, peerVars, datasubs, lockVars, knownIds, toVerify,
                   accepts, evictions, relays, heard, ballot, refused,
                   aborted>>

\* Valid, and others still have to answer.
AcceptCounted(a, id) ==
    /\ Answers(a, id)
    /\ IsValidator(a, id)
    /\ Remaining(a, id) # Nobody
    /\ toVerify' = [toVerify EXCEPT ![id].validators = Remaining(a, id)]
    /\ agreed' = [agreed EXCEPT ![id][a] = @ + 1]
    /\ UNCHANGED <<taskVars, peerVars, datasubs, lockVars, knownIds, accepts,
                   evictions, relays, heard, ballot, refused,
                   aborted>>

\* Valid, and the last answer: the task keeps announces_to_verify_lock while
\* it waits for the locks of the peer lists and sends the message on.
AcceptCompletes(a, id) ==
    /\ Answers(a, id)
    /\ IsValidator(a, id)
    /\ Remaining(a, id) = Nobody
    /\ toVerify' = Pop(toVerify, id)
    /\ msg' = [msg EXCEPT ![a] = [id |-> id, ttl |-> toVerify[id].ttl,
                                  from |-> toVerify[id].from]]
    /\ pc' = [pc EXCEPT ![a] = "sample"]
    /\ verifyLock' = a
    /\ agreed' = [agreed EXCEPT ![id][a] = @ + 1]
    /\ UNCHANGED <<todo, out, peerVars, datasubs, datasubsLock, knownIds,
                   accepts, evictions, relays, heard, ballot, refused,
                   aborted>>

-----------------------------------------------------------------------------
(* Sending to a sample of the peers.                                       *)

\* The list is put together under pull_peers_lock first and push_peers_lock
\* then; the task of a peer's message holds announces_to_verify_lock.
GetPullPeers(a) ==
    /\ pc[a] = "sample"
    /\ out' = [out EXCEPT ![a] = connected \cap PullPeers]
    /\ pc' = [pc EXCEPT ![a] = "push"]
    /\ UNCHANGED <<msg, todo, peerVars, datasubs, lockVars, knownIds, toVerify,
                   inbox, history>>

\* degree many of those found, or all of them when there are fewer.
Samples(a) ==
    LET found == out[a] \cup (connected \ PullPeers)
    IN  {S \in SUBSET found :
            Cardinality(S) = IF Cardinality(found) < Degree
                             THEN Cardinality(found) ELSE Degree}

\* The original sender is taken out of the sample after it was drawn.
GetPeerSample(a, sample) ==
    /\ pc[a] = "push"
    /\ ~blocked
    /\ out' = [out EXCEPT ![a] = sample \ {msg[a].from}]
    /\ pc' = [pc EXCEPT ![a] = "forward"]
    /\ relays' = [relays EXCEPT ![msg[a].id] = @ + 1]
    /\ UNCHANGED <<msg, todo, peerVars, datasubs, lockVars, knownIds,
                   toVerify, inbox, accepts, evictions, heard, voteVars>>

\* GOSSIP ANNOUNCE allows 8 bytes of data more than PEER ANNOUNCE.
CannotPack(a) == msg[a].from = NoTask /\ msg[a].id \in OversizedIds

SendPeerAnnounce(a, p) ==
    /\ pc[a] = "forward"
    /\ p \in out[a]
    /\ ~CannotPack(a)
    /\ out' = [out EXCEPT ![a] = @ \ {p}]
    /\ UNCHANGED <<pc, msg, todo, peerVars, datasubs, lockVars, knownIds,
                   toVerify, inbox, history>>

\* pack raises struct.error: the task of the API connection ends (it holds
\* no lock), the connection and its subscriptions stay.
SendPeerAnnounceFails(a) ==
    /\ pc[a] = "forward"
    /\ out[a] # {}
    /\ CannotPack(a)
    /\ pc' = [pc EXCEPT ![a] = "dead"]
    /\ msg' = [msg EXCEPT ![a] = NoMessage]
    /\ out' = [out EXCEPT ![a] = {}]
    /\ UNCHANGED <<todo, peerVars, datasubs, lockVars, knownIds, toVerify,
                   inbox, history>>

SentToAll(a) ==
    /\ pc[a] = "forward"
    /\ out[a] = {}
    /\ Done(a)
    /\ verifyLock' = Release(verifyLock, a)
    /\ UNCHANGED <<todo, out, peerVars, datasubs, datasubsLock, knownIds,
                   toVerify, inbox, history>>

-----------------------------------------------------------------------------
PeerTask(p) ==
    \/ EndHere(p) \/ LookUpSubscribers(p) \/ StoreAnnounce(p)
    \/ SendGossipNotificationFails(p) \/ NotifiedAll(p)
    \/ \E a \in Apis : SendGossipNotification(p, a)

ForwardTask(a) ==
    \/ GetPullPeers(a)
    \/ \E sample \in Samples(a) : GetPeerSample(a, sample)
    \/ \E p \in Peers : SendPeerAnnounce(a, p)
    \/ SendPeerAnnounceFails(a) \/ SentToAll(a)

Vote(a, id) ==
    \/ Rejects(a, id) \/ AcceptIgnored(a, id)
    \/ AcceptCounted(a, id) \/ AcceptCompletes(a, id)

Next ==
    \/ EvictionBlocks
    \/ \E p \in Peers :
          \/ PeerJoins(p) \/ PeerLeaves(p) \/ PeerTask(p)
          \/ \E id \in Ids, ttl \in Ttls : HandlePeerAnnounce(p, id, ttl)
    \/ \E a \in Apis :
          \/ ApiConnects(a) \/ CloseApi(a) \/ ForwardTask(a)
          \/ \E d \in DataTypes : AddSubscriber(a, d)
          \/ \E id \in Ids, ttl \in Ttls : HandleGossipAnnounce(a, id, ttl)
          \/ \E id \in Ids : Vote(a, id)

Spec == Init /\ [][Next]_vars

(***************************************************************************)
(* Fairness.  The event loop runs every callback that is ready, so a task  *)
(* that is not waiting for a lock is run (WF).  asyncio.Lock wakes waiters *)
(* in the order they came, so a task whose lock is free again and again    *)
(* gets it (SF); the locks of the peer lists are, until an eviction blocks *)
(* (TasksProceed of PeerPool).  What the code does not guarantee and the   *)
(* liveness properties assume: API users answer the notifications they     *)
(* were sent, and both API users and peers read what is written to them,   *)
(* so that a drain returns.  Nobody has to send an announcement, join or   *)
(* leave.                                                                  *)
(***************************************************************************)
Fairness ==
    /\ \A p \in Peers : SF_vars(PeerTask(p))
    /\ \A a \in Apis : WF_vars(ForwardTask(a))
    /\ \A a \in Apis : SF_vars(\E id \in Ids : Vote(a, id))

FairSpec == Spec /\ Fairness

-----------------------------------------------------------------------------
(* Properties.                                                             *)

TypeOK ==
    /\ pc \in [Tasks -> {"new", "read", "last", "subs", "store", "notify",
                         "sample", "push", "forward", "dead", "closed"}]
    /\ msg \in [Tasks -> Message]
    /\ todo \in [Peers -> ApiList]
    /\ out \in [Apis -> SUBSET Peers]
    /\ connected \subseteq Peers /\ blocked \in BOOLEAN
    /\ DOMAIN datasubs \subseteq DataTypes
    /\ \A d \in DOMAIN datasubs : datasubs[d] \in ApiList
    /\ datasubsLock \in Peers \cup {NoTask}
    /\ knownIds \subseteq Ids
    /\ DOMAIN toVerify \subseteq Ids
    /\ \A id \in DOMAIN toVerify : toVerify[id] \in Entry
    /\ verifyLock \in Apis \cup {NoTask}
    /\ inbox \in [Apis -> [Ids -> Nat]]
    /\ accepts \in [Ids -> Nat]
    /\ evictions \in [Ids -> Nat]
    /\ relays \in [Ids -> Nat]
    /\ heard \in [Ids -> SUBSET Nat]
    /\ ballot \in [Ids -> ApiList]
    /\ agreed \in [Ids -> ApiList]
    /\ refused \in [Ids -> BOOLEAN]
    /\ aborted \subseteq Ids

\* An announcement is accepted, and sent on, at most once between two
\* evictions of its id from peer_announce_ids: what comes back on a loop of
\* the network, and what two peers send at the same time, is dropped
\* (handle_peer_announce, handle_gossip_announce and handle_gossip_validation
\* together).
RelayedOncePerResidency ==
    \A id \in Ids : /\ accepts[id] <= evictions[id] + 1
                    /\ relays[id] <= evictions[id] + 1

IsRelaying(a) ==
    pc[a] \in {"sample", "push", "forward"} /\ msg[a].from # NoTask

\* A message of a peer is sent on only after everybody it was put before has
\* accepted its id, as often as it was put before them, and nobody has refused
\* it, since its entry was stored ("Only after all notified API users validate
\* the message"): no interleaving of answers, of a second entry and of a late
\* refusal makes up for a missing one.  An answer counts when it is read: the
\* code tells no rounds apart, and one to a notification that is left from an
\* earlier entry of the same id is as good as one to the new.
UnanimousRelay ==
    \A a \in Apis : IsRelaying(a) =>
        /\ \A b \in Apis : ballot[msg[a].id][b] <= agreed[msg[a].id][b]
        /\ ~refused[msg[a].id]

\* A limited message never becomes an unlimited one, and each hop takes one
\* from its limit: what is stored for relaying, or being relayed, carries a
\* TTL one less than one it was received with, or 0 if that was 0.
AttenuatedFrom(ttl, received) ==
    IF ttl = 0 THEN 0 \in received ELSE ttl + 1 \in received

TtlAttenuated ==
    /\ \A id \in DOMAIN toVerify : AttenuatedFrom(toVerify[id].ttl, heard[id])
    /\ \A a \in Apis :
          IsRelaying(a) => AttenuatedFrom(msg[a].ttl, heard[msg[a].id])

\* Notifications the task that holds datasubs_lock has yet to send to a.
StillToAsk(a, id) ==
    IF /\ datasubsLock # NoTask
       /\ pc[datasubsLock] = "notify"
       /\ msg[datasubsLock].id = id
    THEN todo[datasubsLock][a] ELSE 0

\* The instance never waits for an answer to a question it did not ask and
\* will not ask: every answer of an open API connection that an entry of
\* announces_to_verify still needs is matched by a notification on its way
\* or unanswered.  The exception is an entry whose notifications an exception
\* has broken off: it stays, and waits for whom nobody asked.
AwaitedWasAsked ==
    \A id \in DOMAIN toVerify \ aborted, a \in Apis :
        pc[a] # "closed" =>
            toVerify[id].validators[a] <= inbox[a][id] + StillToAsk(a, id)

Settled(id) ==
    \/ id \notin DOMAIN toVerify
    \/ toVerify[id].validators = Nobody
    \/ \E a \in Apis : /\ toVerify[id].validators[a] > 0
                       /\ pc[a] \in {"closed", "dead"}

\* A stored announcement is decided: relayed or deleted, unless one of its
\* validators has gone (close_api leaves the entry as it is), there was no
\* validator to begin with (a type all of whose subscribers have left), its
\* notifications were broken off, or an eviction has blocked: the vote that
\* waits for push_peers_lock holds announces_to_verify_lock.
PendingSettles ==
    \A id \in Ids : (id \in DOMAIN toVerify) ~>
        Settled(id) \/ id \in aborted \/ blocked

\* Until an eviction blocks, no task keeps one of the two locks for good:
\* handle_peer_announce takes the second while it holds
\* the first, handle_gossip_validation draws its sample and sends while it
\* holds the second, and neither waits for the other forever.
LocksReleased ==
    /\ \A p \in Peers :
          (datasubsLock = p) ~> (datasubsLock # p \/ blocked)
    /\ \A a \in Apis : (verifyLock = a) ~> (verifyLock # a \/ blocked)

-----------------------------------------------------------------------------
(* The announcements that are not decided yet: those a task is handling on  *)
(* the way to being stored, those that wait for answers, and those that are *)
(* about to be sent.  No other copy of an id will be relayed.               *)
Undecided(id) ==
    {p \in Peers : pc[p] \in {"last", "subs", "store"} /\ msg[p].id = id}
        \cup {a \in Apis : /\ pc[a] \in {"sample", "push"} /\ msg[a].id = id
                          /\ msg[a].from # NoTask}

Unsent(id) ==
    {a \in Apis : /\ pc[a] \in {"sample", "push"} /\ msg[a].id = id
                  /\ msg[a].from = NoTask}

Gate == INSTANCE RelayGate WITH
    known <- knownIds,
    mine <- [id \in Ids |-> Cardinality(Unsent(id))],
    open <- [id \in Ids |-> Cardinality(Undecided(id))
                             + (IF id \in DOMAIN toVerify THEN 1 ELSE 0)]

\* The tasks, the dictionary and the locks of this module together keep the
\* promise of RelayGate: no interleaving relays an id more often than it was
\* accepted, or one whose last ballot is not unanimous.
ImplementsRelayGate == Gate!Spec

-----------------------------------------------------------------------------
(* What the documentation says and the code does not do.                   *)

\* Peer_connection.run: "Waits for incoming messages and handles them. Runs
\* until the connection is closed".
RunsUntilClosed == \A p \in connected : pc[p] # "dead"

\* Documentation, GOSSIP NOTIFY: "the subscription is cancelled should the
\* API user disconnect" (close_api).
SubscriptionCancelled ==
    \A a \in Apis : pc[a] = "closed" =>
        \A d \in DOMAIN datasubs : datasubs[d][a] = 0

=============================================================================
