------------------------------ MODULE PeerPool ------------------------------
(***************************************************************************)
(* The peer lists of one Gossip instance (modules/gossip.py) and the tasks *)
(* that change them: unverified_peers and push_peers hold the connections  *)
(* that were opened to us, before and after their proof of work, pull_peers*)
(* those that we opened.  Each list has a lock.                            *)
(*                                                                         *)
(* The tasks are the ones of the event loop: one per connection (it        *)
(* accepts it, Gossip.__on_peer_connection, and then runs it,              *)
(* Peer_connection.run), the verifier that sends challenges and the peer   *)
(* control that looks for more peers.  A step is what a task does between  *)
(* two points where it may be suspended: while another task has the lock   *)
(* it asks for, or while what it wrote is drained.  close_peer and the log *)
(* of the connected peers are procedures several tasks run, each one with  *)
(* its own target, place and return point.  A lock that is held only while *)
(* a socket closes, with nothing else awaited, is taken and released in    *)
(* one step; a connection that is accepted or promoted is added to its     *)
(* list in a step after the one that takes the lock, also when nothing has *)
(* to be closed in between.                                                *)
(*                                                                         *)
(* Of the peers it is assumed that every message has the size and the      *)
(* encoding its type asks for.  Whatever else a peer sends, at any time,   *)
(* changes nothing here, or ends in HandlerCloses, or in HandlerRaises: an *)
(* exception out of a handler ends the task of the connection, and nothing *)
(* else: the connection stays open, and in its list.                       *)
(***************************************************************************)
EXTENDS Integers, Sequences, FiniteSets, SequencesExt

CONSTANTS
    Inbound,         \* connections other peers open to us
    Outbound,        \* connections we open
    KnownPeers,      \* those of them that are open when the instance starts
    Verifier,        \* the task of __run_verifier
    Control,         \* the task of __run_peer_control
    NoTask,          \* the owner of a free lock, the target of nobody
    CacheSize,       \* config.cache_size: capacity of unverified_peers
    MaxPush,         \* capacity of push_peers
    MaxPull,         \* capacity of pull_peers
    MinConnections   \* config.min_connections

Conns == Inbound \cup Outbound
Tasks == Conns \cup {Verifier, Control}
Lists == {"unverified", "pull", "push"}

ASSUME ConnsAssumption ==
    /\ Inbound \cap Outbound = {} /\ KnownPeers \subseteq Outbound
    /\ IsFiniteSet(Outbound)
ASSUME TasksAssumption ==
    Verifier # Control /\ {Verifier, Control, NoTask} \cap Conns = {}
        /\ NoTask \notin {Verifier, Control}
ASSUME ConfigAssumption ==
    /\ CacheSize \in Nat \ {0} /\ MinConnections \in Nat
    /\ MaxPush \in Nat \ {0} /\ MaxPull \in {MaxPush, MaxPush + 1}

VARIABLES
    peers,       \* the three lists, newest first (pull_peers: newest last)
    lock,        \* the owner of each list's lock
    pc,          \* where each task is
    at,          \* in close_peer and in the log: the list it is at
    target,      \* in close_peer: the connection to close
    after,       \* in close_peer and in the log: where it returns to
    round,       \* verifier: the connections it has yet to challenge
    challenge,   \* the challenge of each inbound connection
    trusted,     \* validated_them: connections whose peer we trust
    trustsUs,    \* validated_us: connections whose peer trusts us
    asked,       \* connections with a peer discovery that is unanswered
    closed,      \* connections whose writer is closing or closed
    repeated     \* history: connections whose peer was verified once more

frame == <<at, target, after>>
flags == <<challenge, trusted, trustsUs, asked, repeated>>
vars == <<peers, lock, pc, at, target, after, round, challenge, trusted,
          trustsUs, asked, closed, repeated>>

FullyValidated(c) == c \in trusted /\ c \in trustsUs

\* deque(maxlen).appendleft: a full deque drops its last element.
AppendLeft(list, c, maxlen) ==
    IF Len(list) < maxlen THEN <<c>> \o list
    ELSE SubSeq(<<c>> \o list, 1, maxlen)

Capacity == [unverified |-> CacheSize, push |-> MaxPush, pull |-> MaxPull]
\* A fault: room is made only beyond the capacity.
FullBeyond(l) == Len(peers[l]) > Capacity[l]

\* At its capacity a list makes room before it takes another connection.
Full(l) == Len(peers[l]) >= Capacity[l]

\* ceil(n / 2)
HalfUp(n) == (n + 1) \div 2

-----------------------------------------------------------------------------
(* Gossip.run: the known peers have been connected to, one may be the       *)
(* bootstrapping node, and the tasks are started.                           *)
Init ==
    /\ peers = [l \in Lists |-> IF l = "pull" THEN SetToSeq(KnownPeers)
                                ELSE <<>>]
    /\ lock = [l \in Lists |-> NoTask]
    /\ pc = [t \in Tasks |-> IF t \in KnownPeers THEN "read"
                             ELSE IF t \in Conns THEN "new" ELSE "sleep"]
    /\ at = [t \in Tasks |-> "push"]
    /\ target = [t \in Tasks |-> NoTask]
    /\ after = [t \in Tasks |-> "read"]
    /\ round = <<>>
    /\ challenge = [c \in Inbound |-> "none"]
    /\ trusted = KnownPeers
    /\ trustsUs = {}
    /\ asked = {}
    /\ closed = {}
    /\ repeated = {}

-----------------------------------------------------------------------------
(* Gossip.close_peer and the log of the connected peers.                    *)

\* A fault: the connection of the caller is looked for.
CloseCaller(t, c, next) ==
    /\ pc' = [pc EXCEPT ![t] = "close"]
    /\ at' = [at EXCEPT ![t] = "unverified"]
    /\ target' = [target EXCEPT ![t] = t]
    /\ after' = [after EXCEPT ![t] = next]

\* close_peer(c): task t begins to look for c, and will go on at next.
CallClose(t, c, next) ==
    /\ pc' = [pc EXCEPT ![t] = "close"]
    /\ at' = [at EXCEPT ![t] = "unverified"]
    /\ target' = [target EXCEPT ![t] = c]
    /\ after' = [after EXCEPT ![t] = next]

\* __log_connected_peers takes the locks in this order, one at a time.
CallLog(t, next) ==
    /\ pc' = [pc EXCEPT ![t] = "log"]
    /\ at' = [at EXCEPT ![t] = "push"]
    /\ after' = [after EXCEPT ![t] = next]

\* The lock the caller says it holds: only the two calls that make room in a
\* full list pass one.
HasLock(t, l) == \/ l = "unverified" /\ after[t] = "admit"
                 \/ l = "push" /\ after[t] = "joinPush"

\* The order in which the lists are searched, and the one in which they are
\* logged.
Searched == [unverified |-> 1, pull |-> 2, push |-> 3]
Logged == [unverified |-> 3, pull |-> 2, push |-> 1]
\* A fault: the list at hand is passed over.
FromNext(l, order) == {k \in Lists : order[k] > order[l]}
From(l, order) == {k \in Lists : order[k] >= order[l]}
FirstOf(S, order) == CHOOSE l \in S : \A k \in S : order[l] <= order[k]

\* A free lock is taken without waiting: the search goes on to the first list
\* that has the connection or whose lock is held.  Found, or found nowhere,
\* the connection is closed and the lists are logged.
CloseSearch(t) ==
    /\ pc[t] = "close"
    /\ HasLock(t, at[t]) \/ lock[at[t]] = NoTask
    /\ LET c == target[t]
           Held(l) == lock[l] # NoTask /\ ~HasLock(t, l)
           stops == {l \in From(at[t], Searched) :
                        Held(l) \/ Contains(peers[l], c)}
           stop == FirstOf(stops, Searched)
       IN  \/ /\ stops # {} /\ Held(stop)
              /\ at' = [at EXCEPT ![t] = stop]
              /\ UNCHANGED <<peers, pc, target, after, closed>>
           \/ /\ stops # {} => ~Held(stop)
              /\ peers' = IF stops = {} THEN peers
                          ELSE [peers EXCEPT ![stop] = RemoveFirst(@, c)]
              /\ closed' = closed \cup {c}
              /\ target' = [target EXCEPT ![t] = NoTask]
              /\ CallLog(t, after[t])
    /\ UNCHANGED <<lock, round, flags>>

\* The lists are read one after the other, each under its lock.
Walk(t, order, next) ==
    /\ lock[at[t]] = NoTask
    /\ LET stops == {l \in From(at[t], order) : lock[l] # NoTask}
       IN  \/ /\ stops # {}
              /\ at' = [at EXCEPT ![t] = FirstOf(stops, order)]
              /\ UNCHANGED <<pc, after>>
           \/ /\ stops = {}
              /\ pc' = [pc EXCEPT ![t] = next]
              /\ at' = [at EXCEPT ![t] = "push"]
              /\ after' = [after EXCEPT ![t] = "read"]
    /\ UNCHANGED <<peers, lock, target, round, flags, closed>>

LogPeers(t) == pc[t] = "log" /\ Walk(t, Logged, after[t])

-----------------------------------------------------------------------------
(* A connection is opened to us.                                            *)

\* __on_peer_connection.  When unverified_peers is full its oldest member is
\* taken out and closed first, under the lock.
OnPeerConnection(c) ==
    /\ pc[c] = "new" /\ c \in Inbound
    /\ lock["unverified"] = NoTask
    /\ lock' = [lock EXCEPT !["unverified"] = c]
    /\ trustsUs' = trustsUs \cup {c}
    /\ \/ /\ ~Full("unverified")
          /\ pc' = [pc EXCEPT ![c] = "admit"]
          /\ UNCHANGED <<peers, frame>>
       \/ /\ Full("unverified")
          /\ peers' = [peers EXCEPT !["unverified"] = Front(@)]
          /\ CallClose(c, Last(peers["unverified"]), "admit")
    /\ UNCHANGED <<round, challenge, trusted, asked, closed, repeated>>

\* appendleft, the lock is released and the task of the connection runs.
Admit(c) ==
    /\ pc[c] = "admit"
    /\ peers' = [peers EXCEPT !["unverified"] = AppendLeft(@, c, CacheSize)]
    /\ lock' = [lock EXCEPT !["unverified"] = NoTask]
    /\ pc' = [pc EXCEPT ![c] = "read"]
    /\ UNCHANGED <<frame, round, flags, closed>>

-----------------------------------------------------------------------------
(* __run_verifier: holds unverified_peers_lock for a round of challenges.   *)

VerifierStarts ==
    /\ pc[Verifier] = "sleep"
    /\ lock["unverified"] = NoTask
    /\ Len(peers["unverified"]) > 0
    /\ lock' = [lock EXCEPT !["unverified"] = Verifier]
    /\ round' = peers["unverified"]
    /\ pc' = [pc EXCEPT ![Verifier] = "send"]
    /\ UNCHANGED <<peers, frame, flags, closed>>

\* send_peer_challenge: one is sent, or was sent before and has expired, or
\* was sent before and is waited for.  The call that closes an expired one
\* does not say that the lock is held.
SendPeerChallenge ==
    /\ pc[Verifier] = "send"
    /\ round # <<>>
    /\ round' = Tail(round)
    /\ CASE challenge[Head(round)] = "none" ->
              /\ challenge' = [challenge EXCEPT ![Head(round)] = "sent"]
              /\ UNCHANGED <<pc, frame>>
         [] challenge[Head(round)] = "expired" ->
              /\ CallClose(Verifier, Head(round), "send")
              /\ UNCHANGED challenge
         [] OTHER -> UNCHANGED <<pc, frame, challenge>>
    /\ UNCHANGED <<peers, lock, trusted, trustsUs, asked, closed, repeated>>

\* A fault: a path out of the round without the release.
VerifierKeepsLock ==
    /\ pc[Verifier] = "send"
    /\ round = <<>>
    /\ pc' = [pc EXCEPT ![Verifier] = "sleep"]
    /\ UNCHANGED <<peers, lock, frame, round, flags, closed>>

VerifierSleeps ==
    /\ pc[Verifier] = "send"
    /\ round = <<>>
    /\ lock' = [lock EXCEPT !["unverified"] = NoTask]
    /\ pc' = [pc EXCEPT ![Verifier] = "sleep"]
    /\ UNCHANGED <<peers, frame, round, flags, closed>>

\* CHALLENGE_TIMEOUT seconds have passed.
Expire(c) ==
    /\ challenge[c] = "sent"
    /\ Contains(peers["unverified"], c)
    /\ challenge' = [challenge EXCEPT ![c] = "expired"]
    /\ UNCHANGED <<peers, lock, pc, frame, round, trusted, trustsUs, asked,
                   closed, repeated>>

-----------------------------------------------------------------------------
(* Messages of a peer, and the end of its connection.                       *)

Reading(c) == pc[c] = "read" /\ c \notin closed

\* A fault: validated_them is not set.
VerificationUntrusted(c) ==
    /\ Reading(c) /\ c \in Inbound
    /\ challenge[c] = "sent"
    /\ pc' = [pc EXCEPT ![c] = "leaveUnverified"]
    /\ UNCHANGED <<peers, lock, frame, round, flags, closed>>

\* A valid PEER VERIFICATION in time: a PEER VALIDATION is sent, then
\* validate_peer is called.  Of a peer that is validated every message is
\* handled, this one once more, too.
PeerVerification(c) ==
    /\ Reading(c) /\ c \in Inbound
    /\ c \in trusted => c \in trustsUs
    /\ challenge[c] = "sent"
    /\ trusted' = trusted \cup {c}
    /\ repeated' = IF c \in trusted THEN repeated \cup {c} ELSE repeated
    /\ pc' = [pc EXCEPT ![c] = "leaveUnverified"]
    /\ UNCHANGED <<peers, lock, frame, round, challenge, trustsUs, asked,
                   closed>>

\* A fault: the connection is not removed.
StayUnverified(c) ==
    /\ pc[c] = "leaveUnverified"
    /\ lock["unverified"] = NoTask
    /\ CallLog(c, "lockPush")
    /\ UNCHANGED <<peers, lock, target, round, flags, closed>>

\* validate_peer, first part: out of unverified_peers.  One that is not
\* there (it was taken out to make room, or was promoted before) goes on
\* without the log.
LeaveUnverified(c) ==
    /\ pc[c] = "leaveUnverified"
    /\ lock["unverified"] = NoTask
    /\ peers' = [peers EXCEPT !["unverified"] = RemoveFirst(@, c)]
    /\ IF Contains(peers["unverified"], c)
       THEN CallLog(c, "lockPush")
       ELSE pc' = [pc EXCEPT ![c] = "lockPush"] /\ UNCHANGED <<at, after>>
    /\ UNCHANGED <<lock, target, round, flags, closed>>

\* Second part: when push_peers is full its oldest member is taken out and
\* closed first, under the lock.
LockPush(c) ==
    /\ pc[c] = "lockPush"
    /\ lock["push"] = NoTask
    /\ lock' = [lock EXCEPT !["push"] = c]
    /\ \/ /\ ~Full("push")
          /\ pc' = [pc EXCEPT ![c] = "joinPush"]
          /\ UNCHANGED <<peers, frame>>
       \/ /\ Full("push")
          /\ peers' = [peers EXCEPT !["push"] = Front(@)]
          /\ CallClose(c, Last(peers["push"]), "joinPush")
    /\ UNCHANGED <<round, flags, closed>>

JoinPush(c) ==
    /\ pc[c] = "joinPush"
    /\ peers' = [peers EXCEPT !["push"] = AppendLeft(@, c, MaxPush)]
    /\ lock' = [lock EXCEPT !["push"] = NoTask]
    /\ pc' = [pc EXCEPT ![c] = "read"]
    /\ UNCHANGED <<frame, round, flags, closed>>

\* PEER VALIDATION by a peer we connected to.
PeerValidation(c) ==
    /\ Reading(c) /\ c \in Outbound \ trustsUs
    /\ trustsUs' = trustsUs \cup {c}
    /\ UNCHANGED <<peers, lock, pc, frame, round, challenge, trusted, asked,
                   closed, repeated>>

\* The handler closes the connection: end of file, a message that is not
\* allowed in this state, malformed, late or wrong.  Between validated peers
\* an unknown type (end of file reads as one) ends our trust first, and a
\* PEER VALIDATION that says no ends theirs.
HandlerCloses(c) ==
    /\ Reading(c)
    /\ \/ UNCHANGED <<trusted, trustsUs>>
       \/ /\ FullyValidated(c)
          /\ trusted' = trusted \ {c} /\ UNCHANGED trustsUs
       \/ /\ FullyValidated(c)
          /\ trustsUs' = trustsUs \ {c} /\ UNCHANGED trusted
    /\ CallClose(c, c, "read")
    /\ UNCHANGED <<peers, lock, round, challenge, asked, closed, repeated>>

\* The handler raises and nobody catches it: the id of a PEER ANNOUNCE does
\* not fit the notification of a subscriber.  The task ends, and close_peer
\* is not called.
HandlerRaises(c) ==
    /\ Reading(c) /\ FullyValidated(c)
    /\ pc' = [pc EXCEPT ![c] = "dead"]
    /\ UNCHANGED <<peers, lock, frame, round, flags, closed>>

\* The loop of run ends, by a ConnectionError or because the writer is
\* closing, and closes the connection once more.
RunEnds(c) ==
    /\ pc[c] = "read"
    /\ CallClose(c, c, "gone")
    /\ UNCHANGED <<peers, lock, round, flags, closed>>

-----------------------------------------------------------------------------
(* __run_peer_control and the offers it asks for.                           *)

ControlLocksPull ==
    /\ pc[Control] = "sleep"
    /\ lock["pull"] = NoTask
    /\ lock' = [lock EXCEPT !["pull"] = Control]
    /\ pc' = [pc EXCEPT ![Control] = "lockBoth"]
    /\ UNCHANGED <<peers, frame, round, flags, closed>>

WantsPeers ==
    LET pull == Len(peers["pull"]) push == Len(peers["push"])
    IN  /\ pull < MaxPull
        /\ pull + push < MinConnections \/ pull < HalfUp(MinConnections)

ControlLocksPush ==
    /\ pc[Control] = "lockBoth"
    /\ lock["push"] = NoTask
    /\ lock' = [lock EXCEPT !["push"] = Control]
    /\ asked' = IF WantsPeers
                THEN asked \cup {c \in ToSet(peers["push"] \o peers["pull"]) :
                                    FullyValidated(c)}
                ELSE asked
    /\ pc' = [pc EXCEPT ![Control] = "discover"]
    /\ UNCHANGED <<peers, frame, round, challenge, trusted, trustsUs, closed,
                   repeated>>

\* A fault: the log is inside the "async with".
ControlLogsFirst ==
    /\ pc[Control] = "discover"
    /\ CallLog(Control, "sleep")
    /\ UNCHANGED <<peers, lock, target, round, flags, closed>>

\* The discoveries are drained, both locks are released.
ControlReleases ==
    /\ pc[Control] = "discover"
    /\ lock' = [lock EXCEPT !["push"] = NoTask, !["pull"] = NoTask]
    /\ CallLog(Control, "sleep")
    /\ UNCHANGED <<peers, target, round, flags, closed>>

\* An offer that was asked for: it is ignored when it is late or there is no
\* room in pull_peers, otherwise it is looked at.
PeerOffer(c) ==
    /\ Reading(c) /\ FullyValidated(c) /\ c \in asked
    /\ asked' = asked \ {c}
    /\ \/ UNCHANGED <<pc, at>>
       \/ /\ lock["pull"] = NoTask /\ Len(peers["pull"]) <= MaxPull
          /\ pc' = [pc EXCEPT ![c] = "offer"]
          /\ at' = [at EXCEPT ![c] = "unverified"]
    /\ UNCHANGED <<peers, lock, target, after, round, challenge, trusted,
                   trustsUs, closed, repeated>>

\* The addresses of the connected peers are collected.
CollectPeers(c) == pc[c] = "offer" /\ Walk(c, Searched, "missing")

Missing == MaxPull - Len(peers["pull"])

\* pull_peers_lock is held while connections are opened.
OpenConnections(c) ==
    /\ pc[c] = "missing"
    /\ lock["pull"] = NoTask
    /\ IF Missing > 0
       THEN /\ lock' = [lock EXCEPT !["pull"] = c]
            /\ pc' = [pc EXCEPT ![c] = "connect"]
       ELSE /\ pc' = [pc EXCEPT ![c] = "read"]
            /\ UNCHANGED lock
    /\ UNCHANGED <<peers, frame, round, flags, closed>>

\* Those that answered are listed, and run; the lock is released.
ListAndRun(c, new, next) ==
    /\ pc[c] = "connect"
    /\ \A o \in new : pc[o] = "new"
    /\ peers' = [peers EXCEPT !["pull"] = @ \o SetToSeq(new)]
    /\ trusted' = trusted \cup new
    /\ lock' = [lock EXCEPT !["pull"] = NoTask]
    /\ pc' = [t \in Tasks |-> IF t \in new THEN "read"
                              ELSE IF t = c THEN next ELSE pc[t]]
    /\ UNCHANGED <<frame, round, challenge, trustsUs, asked, closed, repeated>>

\* The loop ends: none is missing, or no candidate is left.
ConnectionsOpened(c, new) ==
    Cardinality(new) <= Missing /\ ListAndRun(c, new, "read")

\* An attempt is not refused but fails in another way, and
\* peer_connection_factory raises: what it had opened is lost, those of the
\* batches before are listed, and the task of the connection that offered
\* them ends.
FactoryRaises(c, new) ==
    Cardinality(new) < Missing /\ ListAndRun(c, new, "dead")

-----------------------------------------------------------------------------
ConnTask(c) ==
    \/ Admit(c) \/ LeaveUnverified(c) \/ LockPush(c) \/ JoinPush(c)
    \/ CollectPeers(c) \/ OpenConnections(c)
    \/ \E new \in SUBSET Outbound :
          ConnectionsOpened(c, new) \/ FactoryRaises(c, new)
    \/ CloseSearch(c) \/ LogPeers(c)

VerifierTask ==
    \/ VerifierStarts \/ SendPeerChallenge \/ VerifierSleeps
    \/ CloseSearch(Verifier) \/ LogPeers(Verifier)

ControlTask ==
    ControlLocksPull \/ ControlLocksPush \/ ControlReleases \/ LogPeers(Control)

Next ==
    \/ VerifierTask
    \/ ControlTask
    \/ \E c \in Inbound :
          OnPeerConnection(c) \/ PeerVerification(c) \/ Expire(c)
    \/ \E c \in Outbound : PeerValidation(c)
    \/ \E c \in Conns :
          \/ ConnTask(c) \/ PeerOffer(c)
          \/ HandlerCloses(c) \/ HandlerRaises(c) \/ RunEnds(c)

Spec == Init /\ [][Next]_vars

\* A task goes on when it can, and asyncio.Lock serves its waiters in order:
\* a task that gets its lock again and again at last runs.  Nothing is
\* assumed of the peers.
FairSpec ==
    /\ Spec
    /\ \A c \in Conns : SF_vars(ConnTask(c))
    /\ SF_vars(VerifierTask)
    /\ SF_vars(ControlTask)

-----------------------------------------------------------------------------
(* Properties.                                                              *)

Owners == Tasks \cup {NoTask}

TypeOK ==
    /\ peers \in [Lists -> Seq(Conns)]
    /\ lock \in [Lists -> Owners]
    /\ pc \in [Tasks -> {"new", "admit", "read", "close", "log", "gone",
                         "leaveUnverified", "lockPush", "joinPush", "offer",
                         "missing", "connect", "dead", "sleep", "send",
                         "lockBoth", "discover"}]
    /\ at \in [Tasks -> Lists]
    /\ target \in [Tasks -> Conns \cup {NoTask}]
    /\ after \in [Tasks -> {"read", "gone", "admit", "lockPush", "joinPush",
                            "send", "sleep"}]
    /\ round \in Seq(Inbound)
    /\ challenge \in [Inbound -> {"none", "sent", "expired"}]
    /\ trusted \subseteq Conns /\ trustsUs \subseteq Conns
    /\ asked \subseteq Conns /\ closed \subseteq Conns
    /\ repeated \subseteq Inbound

\* A task that closes a connection other than its own: the oldest of a full
\* list, or one whose challenge has expired.
Evicting(t) ==
    pc[t] \in {"close", "log"} /\ after[t] \in {"admit", "joinPush", "send"}

\* The lock a task is asking for.
WaitsFor(t) ==
    CASE pc[t] = "close" /\ ~HasLock(t, at[t]) -> {at[t]}
      [] pc[t] \in {"log", "offer"} -> {at[t]}
      [] pc[t] = "leaveUnverified" -> {"unverified"}
      [] pc[t] \in {"lockPush", "lockBoth"} -> {"push"}
      [] pc[t] = "missing" -> {"pull"}
      [] OTHER -> {}

\* Whenever tasks wait for each other's locks in a circle, one of them is
\* evicting: nothing else in the code, neither the peer control that nests
\* two locks nor the searches of close_peer, can block itself or another task
\* for good.
DeadlockOnlyByEviction ==
    \A S \in (SUBSET Tasks) \ {{}} :
        (\A t \in S : \E l \in WaitsFor(t) : lock[l] \in S)
            => \E t \in S : Evicting(t)

Listed(c, l) == Contains(peers[l], c)

\* Every connection whose writer is open, and whose task is reading or was
\* ended by an exception, is in the list of its state (and so can be evicted,
\* asked for peers and sent announcements), unless a task has just taken it
\* out to close it: no path through accepting, verifying and evicting loses
\* one, and a deque that reaches its maxlen never drops one.
OpenIsListed ==
    \A c \in Conns : pc[c] \in {"read", "dead"} /\ c \notin closed =>
        \/ Listed(c, IF c \in Outbound THEN "pull"
                     ELSE IF c \in trusted THEN "push" ELSE "unverified")
        \/ \E t \in Tasks : target[t] = c

Single(list, c) ==
    \A i, j \in DOMAIN list : list[i] = c /\ list[j] = c => i = j

\* A connection is in one list at most and there once, whoever accepts,
\* promotes, evicts and closes at the same time: a second occurrence would
\* survive its closing.  The exception is one whose peer was verified a second
\* time: validate_peer appends it without looking whether it is there.
ListedOnce ==
    \A c \in Conns \ repeated :
        /\ \A l \in Lists : Single(peers[l], c)
        /\ \A k, l \in Lists : k # l => ~(Listed(c, k) /\ Listed(c, l))

\* When run has returned its connection is in no list (with the same exception
\* as above).  A task that an exception has ended did not get there: it is
\* dead, not gone, and its connection stays listed until it is evicted.
GoneIsUnlisted ==
    \A c \in Conns \ repeated :
        pc[c] = "gone" => \A l \in Lists : ~Listed(c, l)

\* push_peers "are assumed to be always verified": a member whose trust was
\* withdrawn is about to be closed by its own task.
PushIsValidated ==
    \A c \in ToSet(peers["push"]) :
        FullyValidated(c) \/ c \in closed \/ target[c] = c

\* Until an eviction blocks, whoever waits for a lock gets it: every
\* acceptance, verification, offer and closing comes to its end, so that the
\* messages of the connection are read again, or it is gone, or an exception
\* has ended its task.
Resting(c) == pc[c] \in {"new", "read", "gone", "dead"}
TasksProceed ==
    \A c \in Conns : ~Resting(c) ~> Resting(c) \/ \E t \in Tasks : Evicting(t)

\* Gossip: "The locks should be acquired in the following order": a task asks
\* for a lock only while those it holds come before it.
Documented == [unverified |-> 1, pull |-> 2, push |-> 3]
LockOrder ==
    \A t \in Tasks, l, k \in Lists :
        l \in WaitsFor(t) /\ lock[k] = t => Documented[k] < Documented[l]
=============================================================================
