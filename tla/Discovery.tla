----------------------------- MODULE Discovery -----------------------------
(***************************************************************************)
(* How one node comes by its peers: main and Gossip.run, which read the    *)
(* configuration and connect to the known peers or to the bootstrapping    *)
(* node, and Gossip.handle_peer_offer, which connects to peers others      *)
(* offer.  A peer is the address it listens on.                            *)
(*                                                                         *)
(* The tasks are Main and the connections whose peer sends offers.  A step *)
(* is what a task does between two points where it may be suspended: it    *)
(* waits for a lock, or for peer_connection_factory, which opens several   *)
(* connections at once and is over when all of them are open or refused,   *)
(* or when one of them raised.  Of the locks only pull_peers_lock is held  *)
(* while something else is awaited; the other two are taken and released   *)
(* in one step, and what happens when they are not free is left to         *)
(* PeerPool, and so is what makes an offer welcome.  Peers connect to this *)
(* node, are promoted and disconnect at any time.                          *)
(***************************************************************************)
EXTENDS Config, Functions

CONSTANTS
    Main,        \* the task of main and Gossip.run
    Offerers,    \* the tasks of the connections whose peers send offers
    NoTask,      \* the owner of a lock that is free
    ConfigFiles, \* the files the program may be started with
    Others,      \* addresses of other nodes, which are offered
    Callers,     \* those of them that connect to this node
    BadPort,     \* addresses whose port is negative, which the check accepts
    TakenPort,   \* addresses another program of the host listens on
    MaxOffer     \* bound: addresses in an offer

Tasks == Offerers \cup {Main}

ASSUME TasksAssumption == Main \notin Offerers /\ NoTask \notin Tasks
ASSUME FilesAssumption == ConfigFiles \subseteq Files
ASSUME NodesAssumption ==
    /\ Others \cup BadPort \cup TakenPort \subseteq Addresses
    /\ Callers \subseteq Others
\* A run is with finitely many other nodes, over finitely many connections.
ASSUME FiniteAssumption == IsFiniteSet(Others) /\ IsFiniteSet(Offerers)
ASSUME DiscoveryBounds == MaxOffer \in Nat

VARIABLES
    file,        \* the configuration file
    pc,          \* where each task is
    lock,        \* the owner of pull_peers_lock
    pull,        \* pull_peers: how many connections to each address
    unverified,  \* addresses of the unverified peers that said where they are
    moving,      \* those of connections that are on their way to push_peers
    push,        \* addresses of the push peers
    api,         \* the server for API users
    seen,        \* the addresses an offer is filtered by, as far as collected
    candidates,  \* what is left of an offer
    trying,      \* the connections peer_connection_factory is opening
    opened,      \* those that are open and not yet returned by it
    lost,        \* open connections nobody has a reference to
    failures,    \* history: configured addresses that could not be reached
    steady,      \* history: connections there were all the time since the
                 \* offer arrived, to one of its addresses
    unlisted,    \* history: connections that were in no list while the offer
                 \* was compared with the lists
    unused       \* history: addresses of the offer that were neither listed
                 \* nor tried since it arrived

offerVars == <<seen, candidates>>
factory == <<trying, opened, lost>>
history == <<failures, steady, unlisted, unused>>
vars == <<file, pc, lock, pull, unverified, moving, push, api, offerVars,
          factory, history>>

config == Parsed(file)

-----------------------------------------------------------------------------
(* Lists of addresses, of which only the number of occurrences matters.     *)

Lists == [Addresses -> Nat]
Empty == [address \in Addresses |-> 0]
In(address, list) == list[address] > 0
Members(list) == {address \in Addresses : In(address, list)}
Size(list) == SumFunctionOnSet(list, Members(list))
Plus(list, other) ==
    [address \in Addresses |-> list[address] + other[address]]
Minus(list, other) ==
    [address \in Addresses |-> list[address] - other[address]]
Listing(addresses) ==
    [address \in Addresses |-> IF address \in addresses THEN 1 ELSE 0]

\* The lists of n addresses of some, none of them more than n times.
ListsOf(some, n) ==
    {[address \in Addresses |-> IF address \in some THEN f[address] ELSE 0] :
        f \in {g \in [some -> 0 .. n] : SumFunction(g) = n}}

\* A fault: an element that was taken is left in the list.
DrawnAndKept(list, n) == ListsOf(Members(list), n)

\* What the first n elements of a list that was shuffled may be.
Drawn(list, n) ==
    {some \in ListsOf(Members(list), n) :
        \A address \in Addresses : some[address] <= list[address]}

Smaller(m, n) == IF m < n THEN m ELSE n

Listed == Members(pull) \cup unverified \cup push

\* The connections, by their address and who opened them.
Links ==
    (Members(pull) \X {"us"})
        \cup ((unverified \cup moving \cup push) \X {"them"})
Moving == moving \X {"them"}

\* Other nodes offer, connect and disconnect from when the program serves them
\* until it ends.  (The peers it has connected to could do so a few cycles of
\* the event loop earlier, but have a challenge to send and wait for first.)
Running == pc[Main] = "serve"

\* The histories of the offers, after a step in which a task begins to try the
\* addresses of batch.
Observe(batch) ==
    LET over(t) == pc'[t] \in {"read", "dead"}
    IN  /\ steady' = [t \in Offerers |->
                         IF over(t) THEN {} ELSE steady[t] \cap Links']
        /\ unlisted' = [t \in Offerers |->
                           CASE over(t) -> {}
                             [] pc'[t] = "collect" -> unlisted[t] \cap Moving'
                             [] OTHER -> unlisted[t]]
        /\ unused' = [t \in Offerers |->
                         IF over(t) THEN {}
                         ELSE (unused[t] \ Listed') \ batch[t]]
NoBatch == [t \in Offerers |-> {}]

Init ==
    /\ file \in ConfigFiles
    /\ pc = [t \in Tasks |-> IF t = Main THEN "config" ELSE "read"]
    /\ lock = NoTask
    /\ pull = Empty
    /\ unverified = {} /\ moving = {} /\ push = {}
    /\ api = "none"
    /\ seen = [t \in Offerers |-> {}]
    /\ candidates = [t \in Offerers |-> Empty]
    /\ trying = [t \in Tasks |-> Empty]
    /\ opened = [t \in Tasks |-> Empty]
    /\ lost = 0
    /\ failures = {}
    /\ steady = [t \in Offerers |-> {}]
    /\ unlisted = [t \in Offerers |-> {}]
    /\ unused = [t \in Offerers |-> {}]

-----------------------------------------------------------------------------
(* peer_connection_factory: one attempt for each address, all at once.      *)

Trying(t, address) == (t = Main \/ Running) /\ In(address, trying[t])

\* PEER INFO is sent with the own port, which has to fit 16 bits.
Opens(t, address) ==
    /\ Trying(t, address)
    /\ config.address["p2p_address"] \notin BadPort
    /\ trying' = [trying EXCEPT ![t][address] = @ - 1]
    /\ opened' = [opened EXCEPT ![t][address] = @ + 1]
    /\ UNCHANGED <<file, pc, lock, pull, unverified, moving, push, api,
                   offerVars, lost, history>>

\* ConnectionRefusedError is caught.
Refuses(t, address) ==
    /\ Trying(t, address)
    /\ trying' = [trying EXCEPT ![t][address] = @ - 1]
    /\ failures' = IF t = Main THEN failures \cup {address} ELSE failures
    /\ UNCHANGED <<file, pc, lock, pull, unverified, moving, push, api,
                   offerVars, opened, lost, steady, unlisted, unused>>

\* Everything else is not caught: a timeout, a host or network that cannot be
\* reached, a reset while PEER INFO is written, a port that cannot be packed.
\* gather passes it on at once.  The attempts it has waited for go on, and
\* those that succeed have no task; what was open is lost, too.  The offering
\* connection's task ends, or the whole program, with all it had open.
Raises(t, address) ==
    /\ Trying(t, address)
    /\ pc' = [pc EXCEPT ![t] = IF t = Main THEN "aborted" ELSE "dead"]
    /\ lock' = NoTask
    /\ trying' = [trying EXCEPT ![t] = Empty]
    /\ opened' = [opened EXCEPT ![t] = Empty]
    /\ IF t = Main
       THEN UNCHANGED <<lost, candidates>>
       ELSE /\ \E more \in 0 .. Size(trying[t]) :
                  lost' = lost + Size(opened[t]) + more
            /\ candidates' = [candidates EXCEPT ![t] = Empty]
    /\ failures' = IF t = Main THEN failures \cup {address} ELSE failures
    /\ UNCHANGED <<file, pull, unverified, moving, push, api, seen>>
    /\ Observe(NoBatch)

Attempt(t) ==
    \E address \in Addresses :
        Opens(t, address) \/ Refuses(t, address) \/ Raises(t, address)

AllTried(t) == trying[t] = Empty

-----------------------------------------------------------------------------
(* main, Gossip.run.                                                        *)

MainGoesOn(from, to) ==
    /\ pc[Main] = from
    /\ pc' = [pc EXCEPT ![Main] = to]
    /\ UNCHANGED <<file, unverified, moving, push, offerVars, lost, history>>

\* A configuration that raises ValueError or IOError is logged.
ReadConfig ==
    /\ MainGoesOn("config", IF Accepts(file) THEN "known" ELSE "returned")
    /\ UNCHANGED <<lock, pull, api, trying, opened>>

\* The list of pull peers is locked while main connects.
Contact(addresses) ==
    /\ lock' = Main
    /\ trying' = [trying EXCEPT ![Main] = Listing(addresses)]
    /\ UNCHANGED <<pull, api, opened>>

Contacted ==
    /\ AllTried(Main)
    /\ lock' = NoTask
    /\ pull' = opened[Main]
    /\ opened' = [opened EXCEPT ![Main] = Empty]
    /\ UNCHANGED <<api, trying>>

KnownPeers == Range(config.known_peers)

ContactKnownPeers ==
    IF KnownPeers = {}
    THEN /\ MainGoesOn("known", "bootstrap")
         /\ UNCHANGED <<lock, pull, api, trying, opened>>
    ELSE MainGoesOn("known", "connectKnown") /\ Contact(KnownPeers)

KnownPeersContacted == MainGoesOn("connectKnown", "bootstrap") /\ Contacted

\* A fault: the bootstrapping node is contacted only if no peer is known.
FallbackUnlessKnown ==
    IF Size(pull) = 0 /\ KnownPeers = {}
    THEN /\ MainGoesOn("bootstrap", "connectBootstrapper")
         /\ Contact({config.address["bootstrapper"]})
    ELSE /\ MainGoesOn("bootstrap", "tasks")
         /\ UNCHANGED <<lock, pull, api, trying, opened>>

\* No known peers, or none that could be reached.
ContactBootstrapper ==
    IF Size(pull) = 0
    THEN /\ MainGoesOn("bootstrap", "connectBootstrapper")
         /\ Contact({config.address["bootstrapper"]})
    ELSE /\ MainGoesOn("bootstrap", "tasks")
         /\ UNCHANGED <<lock, pull, api, trying, opened>>

BootstrapperContacted ==
    MainGoesOn("connectBootstrapper", "tasks") /\ Contacted

\* The tasks of the connections, of the peer control, of the verifier and of
\* the server for API users are created.
CreateTasks ==
    /\ MainGoesOn("tasks", "start")
    /\ api' = "starting"
    /\ UNCHANGED <<lock, pull, trying, opened>>

\* connection_handler for peers: an OSError (the port is taken) is caught and
\* ends the program, what a negative port raises is not an OSError.
Served(address) ==
    CASE address \in BadPort -> "aborted"
      [] address \in TakenPort -> "returned"
      [] OTHER -> "serve"

StartPeerServer ==
    /\ MainGoesOn("start", Served(config.address["p2p_address"]))
    /\ UNCHANGED <<lock, pull, api, trying, opened>>

\* connection_handler for API users runs in a task nobody awaits: whatever it
\* raises ends this task only, also the OSError that the code tries to catch.
StartApiServer ==
    /\ pc[Main] \in {"start", "serve"} /\ api = "starting"
    /\ api' = IF Served(config.address["api_address"]) = "serve" THEN "up"
              ELSE "dead"
    /\ UNCHANGED <<file, pc, lock, pull, unverified, moving, push, offerVars,
                   factory, history>>

-----------------------------------------------------------------------------
(* Gossip.handle_peer_offer, called by the task of a connection.            *)

OfferGoesOn(t, from, to) ==
    /\ Running
    /\ pc[t] = from
    /\ pc' = [pc EXCEPT ![t] = to]

\* An offer that is not empty, may list an address twice (a peer can be a push
\* and a pull peer of the one that offers it), and does not list this node.
\* It is ignored if there are more pull peers than the capacity.  The addresses
\* of the first list, the unverified peers, are collected.
PeerOffer(t, offer) ==
    /\ OfferGoesOn(t, "read", "collect")
    /\ lock = NoTask /\ Size(pull) <= MaxPull(config)
    /\ candidates' = [candidates EXCEPT ![t] = offer]
    /\ seen' = [seen EXCEPT ![t] = unverified]
    /\ steady' = [steady EXCEPT ![t] =
                     {link \in Links : In(link[1], offer)}]
    /\ unlisted' = [unlisted EXCEPT ![t] = Moving]
    /\ unused' = [unused EXCEPT ![t] = Members(offer) \ Listed]
    /\ UNCHANGED <<file, lock, pull, unverified, moving, push, api, factory,
                   failures>>

\* A fault: the unverified peers are not collected.
FilterListed(t) ==
    /\ OfferGoesOn(t, "collect", "missing")
    /\ lock = NoTask
    /\ candidates' = [candidates EXCEPT ![t] =
                         [address \in Addresses |->
                             IF address \in Members(pull) \cup push THEN 0
                             ELSE @[address]]]
    /\ seen' = [seen EXCEPT ![t] = {}]
    /\ UNCHANGED <<file, lock, pull, unverified, moving, push, api, factory,
                   failures>>
    /\ Observe(NoBatch)

\* The other two lists are read, and the offer is filtered.
Filter(t) ==
    /\ OfferGoesOn(t, "collect", "missing")
    /\ lock = NoTask
    /\ LET connected == seen[t] \cup Members(pull) \cup push
       IN  candidates' = [candidates EXCEPT ![t] =
                             [address \in Addresses |->
                                 IF address \in connected THEN 0
                                 ELSE @[address]]]
    /\ seen' = [seen EXCEPT ![t] = {}]
    /\ UNCHANGED <<file, lock, pull, unverified, moving, push, api, factory,
                   failures>>
    /\ Observe(NoBatch)

\* As many candidates as are missing are connected to, until none is missing or
\* no candidate is left.
Loop(t, listed, left) ==
    LET missing == MaxPull(config) - Size(listed)
    IN  IF missing > 0 /\ left # Empty
        THEN \E batch \in Drawn(left, Smaller(missing, Size(left))) :
                /\ OfferGoesOn(t, pc[t], "connect")
                /\ lock' = t
                /\ trying' = [trying EXCEPT ![t] = batch]
                /\ candidates' = [candidates EXCEPT ![t] = Minus(left, batch)]
                /\ Observe([NoBatch EXCEPT ![t] = Members(batch)])
        ELSE /\ OfferGoesOn(t, pc[t], "read")
             /\ lock' = NoTask
             /\ candidates' = [candidates EXCEPT ![t] = Empty]
             /\ UNCHANGED trying
             /\ Observe(NoBatch)

\* The lock is taken, and kept until all of the loop is over.
ConnectMissing(t) ==
    /\ pc[t] = "missing" /\ lock = NoTask
    /\ UNCHANGED <<file, pull, unverified, moving, push, api, seen, opened,
                   lost, failures>>
    /\ Loop(t, pull, candidates[t])

\* A fault: the number that is missing is not reduced.
ConnectNextStale(t) ==
    /\ pc[t] = "connect" /\ AllTried(t)
    /\ pull' = Plus(pull, opened[t])
    /\ opened' = [opened EXCEPT ![t] = Empty]
    /\ UNCHANGED <<file, unverified, moving, push, api, seen, lost, failures>>
    /\ Loop(t, pull, candidates[t])

\* A fault: those that refused are not made up for.
ConnectOnce(t) ==
    /\ pc[t] = "connect" /\ AllTried(t)
    /\ pull' = Plus(pull, opened[t])
    /\ opened' = [opened EXCEPT ![t] = Empty]
    /\ UNCHANGED <<file, unverified, moving, push, api, seen, lost, failures>>
    /\ Loop(t, pull, Empty)

ConnectNext(t) ==
    /\ pc[t] = "connect" /\ AllTried(t)
    /\ pull' = Plus(pull, opened[t])
    /\ opened' = [opened EXCEPT ![t] = Empty]
    /\ UNCHANGED <<file, unverified, moving, push, api, seen, lost, failures>>
    /\ Loop(t, Plus(pull, opened[t]), candidates[t])

-----------------------------------------------------------------------------
(* The other nodes.                                                         *)

OthersDo ==
    /\ Running
    /\ UNCHANGED <<file, pc, lock, api, offerVars, factory, failures>>
    /\ Observe(NoBatch)

\* A node that has connected to this one says on which port it listens.
SaysWhere(address) ==
    /\ address \notin unverified \cup moving \cup push
    /\ unverified' = unverified \cup {address}
    /\ UNCHANGED <<pull, moving, push>>
    /\ OthersDo

\* validate_peer takes a connection from the unverified peers, waits for other
\* locks, and adds it to the push peers.
Promoted(address) ==
    /\ address \in unverified
    /\ unverified' = unverified \ {address}
    /\ moving' = moving \cup {address}
    /\ UNCHANGED <<pull, push>>
    /\ OthersDo

Joins(address) ==
    /\ address \in moving
    /\ moving' = moving \ {address}
    /\ push' = push \cup {address}
    /\ UNCHANGED <<pull, unverified>>
    /\ OthersDo

InboundCloses(address) ==
    /\ address \in unverified \cup push
    /\ unverified' = unverified \ {address}
    /\ push' = push \ {address}
    /\ UNCHANGED <<pull, moving>>
    /\ OthersDo

OutboundCloses(address) ==
    /\ In(address, pull) /\ lock = NoTask
    /\ pull' = [pull EXCEPT ![address] = @ - 1]
    /\ UNCHANGED <<unverified, moving, push>>
    /\ OthersDo

-----------------------------------------------------------------------------
MainTask ==
    \/ ReadConfig \/ ContactKnownPeers \/ KnownPeersContacted
    \/ ContactBootstrapper \/ BootstrapperContacted \/ CreateTasks
    \/ StartPeerServer

LockTask(t) == Filter(t) \/ ConnectMissing(t)

Offers == UNION {ListsOf(Others, n) : n \in 1 .. MaxOffer}

Next ==
    \/ MainTask \/ StartApiServer
    \/ \E t \in Tasks : Attempt(t)
    \/ \E t \in Offerers :
          \/ LockTask(t) \/ ConnectNext(t)
          \/ \E offer \in Offers : PeerOffer(t, offer)
    \/ \E address \in Others :
          \/ address \in Callers /\ SaysWhere(address)
          \/ Promoted(address) \/ Joins(address)
          \/ InboundCloses(address) \/ OutboundCloses(address)

Spec == Init /\ [][Next]_vars

-----------------------------------------------------------------------------
(* Properties.                                                              *)

MainStates ==
    {"config", "known", "connectKnown", "bootstrap", "connectBootstrapper",
     "tasks", "start", "serve", "returned", "aborted"}
OffererStates ==
    {"read", "collect", "missing", "connect", "dead"}

TypeOK ==
    /\ file \in Files
    /\ pc \in [Tasks -> MainStates \cup OffererStates]
    /\ pc[Main] \in MainStates
    /\ lock \in Tasks \cup {NoTask}
    /\ pull \in Lists
    /\ unverified \subseteq Addresses /\ moving \subseteq Addresses
    /\ push \subseteq Addresses
    /\ api \in {"none", "starting", "up", "dead"}
    /\ seen \in [Offerers -> SUBSET Addresses]
    /\ candidates \in [Offerers -> Lists]
    /\ trying \in [Tasks -> Lists] /\ opened \in [Tasks -> Lists]
    /\ lost \in Nat
    /\ failures \subseteq Addresses
    /\ steady \in [Offerers -> SUBSET (Addresses \X {"us", "them"})]
    /\ unlisted \in [Offerers -> SUBSET (Addresses \X {"us", "them"})]
    /\ unused \in [Offerers -> SUBSET Addresses]

\* The checks of config.py do what the documentation of the configuration says,
\* whether a value is written in the file or is a default and whether an
\* address is a name or a number: a file it allows is accepted, unless it names
\* a known peer twice, and a file that is accepted is one it allows, but for
\* the value of challenge_cooldown, which no check looks at.  The values that
\* pass are those the rest of the program can work with: no list of peers
\* without room, no degree that min_connections cannot satisfy.
ConfigAsDocumented ==
    [][LET accepted == pc'[Main] = "known"
       IN  pc[Main] = "config" =>
              /\ Documented(file) /\ ~KnownTwice(file) => accepted
              /\ accepted => /\ Documented(ButForChallenges(file))
                             /\ ~KnownTwice(file)
                             /\ Workable(config)]_vars

\* The connections this node has opened, listed or being opened, are never more
\* than the capacity of pull_peers, however many offers are handled at the same
\* time: the number that is missing is computed, and the connections are
\* opened, under one lock.  The configuration may name more known peers than
\* that, which are all connected to, and each task that ended by an exception
\* has left at most as many behind.
CapacityKept ==
    LET underway == [t \in Tasks |-> Size(trying[t]) + Size(opened[t])]
        known == Len(config.known_peers)
        failed == {t \in Offerers : pc[t] = "dead"}
    IN  pc[Main] # "config" /\ Accepts(file) =>
            /\ Size(pull) + SumFunction(underway)
                  <= (IF known > MaxPull(config) THEN known
                      ELSE MaxPull(config))
            /\ lost <= Cardinality(failed) * MaxPull(config)

\* No second connection is opened to a node with which there was one all the
\* time since the offer arrived, although the lists are read one after the
\* other and the connection may have moved from one to the next in between
\* ("get addresses of all peers and remove already connected peers").  One that
\* was in no list all the while (validate_peer has taken it from the first and
\* waits to add it to the last) is not seen.  One that was made meanwhile, by
\* the peer or for another offer, does not count: the lists are read before the
\* lock is taken again.
NoSecondConnection ==
    [][\A t \in Offerers :
          /\ pc[t] \in {"missing", "connect"} /\ pc'[t] = "connect"
          /\ trying[t] = Empty
          => \A link \in steady[t] \ unlisted[t] :
                ~In(link[1], trying'[t])]_vars

\* When an offer has been handled without an exception, there is no room for
\* another peer or no address of the offer was passed over: each one was tried,
\* or was that of a peer ("repeat until we reach the max_pull_peers or no
\* candidates are left").
NothingPassedOver ==
    [][\A t \in Offerers :
          pc[t] \in {"missing", "connect"} /\ pc'[t] = "read" =>
              Size(pull') >= MaxPull(config) \/ unused[t] \ Listed' = {}]_vars

\* The bootstrapping node is contacted only when none of the known peers could
\* be reached, and the tasks are started without a peer only when it could not
\* be reached either: "used as a fallback in case no known_peers are given or
\* none can be reached" (documentation, bootstrapper).
FallbackTaken ==
    [][/\ pc[Main] = "bootstrap" /\ pc'[Main] = "connectBootstrapper"
            => KnownPeers \subseteq failures
       /\ pc[Main] # "tasks" /\ pc'[Main] = "tasks" /\ pull' = Empty
            => KnownPeers \cup {config.address["bootstrapper"]}
                  \subseteq failures]_vars

\* The other half of that sentence: when the last of the known peers turns out
\* to be out of reach, the program goes on, to the bootstrapping node.
FallbackReached ==
    [][pc[Main] = "connectKnown" /\ KnownPeers \subseteq failures'
          => pc'[Main] \in {"connectKnown", "bootstrap"}]_vars
=============================================================================
