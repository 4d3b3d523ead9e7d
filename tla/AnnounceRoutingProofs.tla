----------------------- MODULE AnnounceRoutingProofs -----------------------
(***************************************************************************)
(* What holds of AnnounceRouting for every set of API users, peers and     *)
(* ids, every capacity and every degree.                                   *)
(***************************************************************************)
EXTENDS AnnounceRouting, FiniteSetTheorems, TLAPS

USE DEF Tasks, peerVars

\* append and remove keep a list of API connections one.
LEMMA ListFacts ==
    ASSUME NEW list \in ApiList, NEW a \in Apis
    PROVE  /\ Append1(list, a) \in ApiList
           /\ Remove1(list, a) \in ApiList
           /\ Nobody \in ApiList
           /\ \A b \in Apis : Nobody[b] = 0
           /\ \A b \in Apis : b # a => Remove1(list, a)[b] = list[b]
           /\ list[a] > 0 => Remove1(list, a)[a] = list[a] - 1
  BY DEF ApiList, Append1, Remove1, Nobody

LEMMA NobodyIsList == Nobody \in ApiList /\ \A a \in Apis : Nobody[a] = 0
  BY DEF ApiList, Nobody

LEMMA NoMessageIsMessage == NoMessage \in Message
  <1>1. (CHOOSE i \in Ids : TRUE) \in Ids
    BY IdsAssumption
  <1>2. QED
    BY <1>1 DEF NoMessage, Message

-----------------------------------------------------------------------------
(***************************************************************************)
(* Types.  The list a task reads after it waited for the second lock is    *)
(* there because a key of datasubs is never removed; that is the only fact *)
(* besides the types that the types rest on.                               *)
(***************************************************************************)
StoreReady ==
    \A p \in Peers : pc[p] = "store" => TypeOf[msg[p].id] \in DOMAIN datasubs

TypeInv == TypeOK /\ StoreReady

LEMMA TypeInit == Init => TypeInv
  <1> SUFFICES ASSUME Init PROVE TypeInv
    OBVIOUS
  <1>1. /\ agreed \in [Ids -> ApiList] /\ ballot \in [Ids -> ApiList]
        /\ todo \in [Peers -> ApiList]
        /\ msg \in [Tasks -> Message]
    BY NobodyIsList, NoMessageIsMessage DEF Init
  <1>2. /\ pc = [t \in Tasks |-> "new"]
        /\ out = [a \in Apis |-> {}]
        /\ connected = {} /\ blocked = FALSE
        /\ DOMAIN datasubs = {} /\ DOMAIN toVerify = {}
        /\ datasubsLock = NoTask /\ verifyLock = NoTask
        /\ knownIds = {} /\ aborted = {}
    BY DEF Init
  <1>3. /\ inbox \in [Apis -> [Ids -> Nat]]
        /\ accepts \in [Ids -> Nat] /\ evictions \in [Ids -> Nat]
        /\ relays \in [Ids -> Nat]
        /\ heard \in [Ids -> SUBSET Nat]
        /\ refused \in [Ids -> BOOLEAN]
    BY DEF Init
  <1>4. QED
    BY <1>1, <1>2, <1>3 DEF TypeInv, TypeOK, StoreReady

\* What a task changes of its own state keeps the types.
LEMMA DoneTypes ==
    ASSUME TypeOK, NEW t \in Tasks, Done(t)
    PROVE  /\ pc'[t] \in {"read", "closed"}
           /\ \A u \in Tasks : u # t => pc'[u] = pc[u]
           /\ pc' \in [Tasks -> {"new", "read", "last", "subs", "store",
                                 "notify", "sample", "push", "forward",
                                 "dead", "closed"}]
           /\ msg' \in [Tasks -> Message]
           /\ \A u \in Tasks : u # t => msg'[u] = msg[u]
  BY NoMessageIsMessage DEF TypeOK, Done

\* Remembering an id keeps the types.
LEMMA AddIdTypes ==
    ASSUME TypeOK, NEW id \in Ids, AddPeerAnnounceId(id)
    PROVE  /\ knownIds' \subseteq Ids
           /\ accepts' \in [Ids -> Nat]
           /\ evictions' \in [Ids -> Nat]
  <1>1. /\ knownIds \subseteq Ids
        /\ accepts \in [Ids -> Nat]
        /\ evictions \in [Ids -> Nat]
    BY DEF TypeOK
  <1>2. QED
    BY <1>1 DEF AddPeerAnnounceId

LEMMA PoolStepTypes ==
    ASSUME TypeInv,
           \/ EvictionBlocks
           \/ \E a \in Apis : ApiConnects(a)
           \/ \E p \in Peers : PeerJoins(p) \/ PeerLeaves(p)
    PROVE  TypeInv'
  <1> USE TasksAssumption DEF TypeInv, TypeOK, StoreReady
  <1>1. ASSUME NEW a \in Apis, ApiConnects(a) PROVE TypeInv'
    BY <1>1 DEF ApiConnects, lockVars, history
  <1>2. ASSUME NEW p \in Peers, PeerJoins(p) PROVE TypeInv'
    BY <1>2 DEF PeerJoins, lockVars, history
  <1>3. ASSUME NEW p \in Peers, PeerLeaves(p) PROVE TypeInv'
    BY <1>3 DEF PeerLeaves, lockVars, taskVars, history
  <1>4. CASE EvictionBlocks
    BY <1>4 DEF EvictionBlocks, lockVars, taskVars, history
  <1>5. QED
    BY <1>1, <1>2, <1>3, <1>4

LEMMA SubscriberStepTypes ==
    ASSUME TypeInv, NEW a \in Apis,
           CloseApi(a) \/ \E d \in DataTypes : AddSubscriber(a, d)
    PROVE  TypeInv'
  <1>1. ASSUME NEW d \in DataTypes, AddSubscriber(a, d) PROVE TypeInv'
    <2> DEFINE list == IF d \in DOMAIN datasubs THEN datasubs[d] ELSE Nobody
    <2>1. list \in ApiList
      BY NobodyIsList DEF TypeInv, TypeOK
    <2>2. Append1(list, a) \in ApiList
      BY <2>1, ListFacts
    <2>3. datasubs' = Put(datasubs, d, Append1(list, a))
      BY <1>1 DEF AddSubscriber
    <2> HIDE DEF list
    <2>4. /\ DOMAIN datasubs' = DOMAIN datasubs \cup {d}
          /\ \A x \in DOMAIN datasubs' : datasubs'[x] \in ApiList
      BY <2>2, <2>3 DEF Put, TypeInv, TypeOK
    <2>5. QED
      BY <1>1, <2>4
      DEF AddSubscriber, TypeInv, TypeOK, StoreReady, lockVars, taskVars,
          history
  <1>2. ASSUME CloseApi(a) PROVE TypeInv'
    <2>1. /\ DOMAIN datasubs' = DOMAIN datasubs
          /\ \A x \in DOMAIN datasubs' : datasubs'[x] \in ApiList
      BY <1>2, ListFacts DEF CloseApi, TypeInv, TypeOK
    <2>2. QED
      BY <1>2, <2>1, TasksAssumption
      DEF CloseApi, TypeInv, TypeOK, StoreReady, lockVars, history
  <1>3. QED
    BY <1>1, <1>2

LEMMA ArrivalStepTypes ==
    ASSUME TypeInv, NEW id \in Ids, NEW ttl \in Ttls,
           \/ \E a \in Apis : HandleGossipAnnounce(a, id, ttl)
           \/ \E p \in Peers : HandlePeerAnnounce(p, id, ttl)
    PROVE  TypeInv'
  <1>1. ttl \in Nat /\ DecrementTtl(ttl) \in Nat
    BY DataAssumption DEF DecrementTtl
  <1>2. ASSUME NEW a \in Apis, HandleGossipAnnounce(a, id, ttl)
        PROVE  TypeInv'
    <2>1. msg' \in [Tasks -> Message]
      BY <1>1, <1>2 DEF HandleGossipAnnounce, Message, TypeInv, TypeOK
    <2>2. QED
      BY <1>2, <2>1, AddIdTypes, TasksAssumption
      DEF HandleGossipAnnounce, TypeInv, TypeOK, StoreReady, lockVars,
          voteVars
  <1>3. ASSUME NEW p \in Peers, HandlePeerAnnounce(p, id, ttl)
        PROVE  TypeInv'
    <2>1. PICK stop \in {"last", "subs"}, rest \in Nat :
            /\ pc' = [pc EXCEPT ![p] = stop]
            /\ msg' = [msg EXCEPT ![p] =
                          [id |-> id, ttl |-> rest, from |-> p]]
      BY <1>1, <1>3 DEF HandlePeerAnnounce
    <2>2. [id |-> id, ttl |-> rest, from |-> p] \in Message
      BY DEF Message
    <2>3. /\ msg' \in [Tasks -> Message]
          /\ \A q \in Peers : pc'[q] = "store" =>
                pc[q] = "store" /\ msg'[q] = msg[q]
      BY <2>1, <2>2 DEF TypeInv, TypeOK
    <2>4. heard' \in [Ids -> SUBSET Nat]
      BY <1>1, <1>3 DEF HandlePeerAnnounce, TypeInv, TypeOK
    <2>5. QED
      BY <1>3, <2>1, <2>3, <2>4, AddIdTypes
      DEF HandlePeerAnnounce, TypeInv, TypeOK, StoreReady, lockVars, voteVars
  <1>4. QED
    BY <1>2, <1>3

LEMMA PeerTaskTypes ==
    ASSUME TypeInv, NEW p \in Peers, PeerTask(p)
    PROVE  TypeInv'
  <1>1. CASE EndHere(p)
    BY <1>1, DoneTypes
    DEF EndHere, TypeInv, TypeOK, StoreReady, lockVars, history
  <1>2. CASE LookUpSubscribers(p)
    <2>1. CASE TypeOf[msg[p].id] \in DOMAIN datasubs
      BY <1>2, <2>1
      DEF LookUpSubscribers, TypeInv, TypeOK, StoreReady, history
    <2>2. CASE TypeOf[msg[p].id] \notin DOMAIN datasubs
      BY <1>2, <2>2, DoneTypes
      DEF LookUpSubscribers, TypeInv, TypeOK, StoreReady, history
    <2>3. QED
      BY <2>1, <2>2
  <1>3. CASE StoreAnnounce(p)
    <2> DEFINE m == msg[p]
               subs == datasubs[TypeOf[m.id]]
               entry == [ttl |-> m.ttl, from |-> p, validators |-> subs]
    <2>1. m.id \in Ids /\ m.ttl \in Nat /\ subs \in ApiList
      BY <1>3 DEF StoreAnnounce, TypeInv, TypeOK, StoreReady, Message
    <2>2. entry \in Entry
      BY <2>1 DEF Entry
    <2>3. toVerify' = Put(toVerify, m.id, entry)
      BY <1>3 DEF StoreAnnounce
    <2>4. /\ todo' \in [Peers -> ApiList]
          /\ ballot' \in [Ids -> ApiList]
          /\ agreed' \in [Ids -> ApiList]
          /\ refused' \in [Ids -> BOOLEAN]
          /\ aborted' \subseteq Ids
      BY <1>3, <2>1, NobodyIsList DEF StoreAnnounce, TypeInv, TypeOK
    <2>5. UNCHANGED <<msg, out, connected, blocked, datasubs, datasubsLock, verifyLock,
                      knownIds, inbox, accepts, evictions, relays, heard>>
      BY <1>3 DEF StoreAnnounce, lockVars
    <2>6. pc' = [pc EXCEPT ![p] = "notify"]
      BY <1>3 DEF StoreAnnounce
    <2> HIDE DEF m, subs, entry
    <2>7. /\ DOMAIN toVerify' \subseteq Ids
          /\ \A id \in DOMAIN toVerify' : toVerify'[id] \in Entry
      BY <2>1, <2>2, <2>3 DEF Put, TypeInv, TypeOK
    <2>8. QED
      BY <2>4, <2>5, <2>6, <2>7 DEF TypeInv, TypeOK, StoreReady
  <1>4. CASE SendGossipNotificationFails(p)
    <2>1. msg[p].id \in Ids
      BY DEF TypeInv, TypeOK, Message
    <2>2. QED
      BY <1>4, <2>1, NobodyIsList, NoMessageIsMessage
      DEF SendGossipNotificationFails, Release, TypeInv, TypeOK, StoreReady
  <1>5. CASE NotifiedAll(p)
    BY <1>5, DoneTypes
    DEF NotifiedAll, Release, TypeInv, TypeOK, StoreReady, history
  <1>6. ASSUME NEW a \in Apis, SendGossipNotification(p, a) PROVE TypeInv'
    <2>1. todo' \in [Peers -> ApiList]
      <3>1. todo[p] \in ApiList /\ todo[p][a] \in Nat \ {0}
        BY <1>6 DEF SendGossipNotification, TypeInv, TypeOK, ApiList
      <3>2. [todo[p] EXCEPT ![a] = @ - 1] \in ApiList
        BY <3>1 DEF ApiList
      <3>3. QED
        BY <1>6, <3>2 DEF SendGossipNotification, TypeInv, TypeOK
    <2>2. inbox' \in [Apis -> [Ids -> Nat]]
      <3>1. msg[p].id \in Ids
        BY DEF TypeInv, TypeOK, Message
      <3>2. QED
        BY <1>6, <3>1 DEF SendGossipNotification, Deliver, TypeInv, TypeOK
    <2>3. QED
      BY <1>6, <2>1, <2>2
      DEF SendGossipNotification, TypeInv, TypeOK, StoreReady, lockVars,
          history
  <1>7. QED
    BY <1>1, <1>2, <1>3, <1>4, <1>5, <1>6 DEF PeerTask

LEMMA VoteTypes ==
    ASSUME TypeInv, NEW a \in Apis, NEW id \in Ids, Vote(a, id)
    PROVE  TypeInv'
  <1>1. ASSUME Answers(a, id) PROVE inbox' \in [Apis -> [Ids -> Nat]]
    <2>1. inbox[a] \in [Ids -> Nat] /\ inbox[a][id] \in Nat \ {0}
      BY <1>1 DEF Answers, TypeInv, TypeOK
    <2>2. [inbox[a] EXCEPT ![id] = @ - 1] \in [Ids -> Nat]
      BY <2>1
    <2>3. QED
      BY <1>1, <2>2 DEF Answers, TypeInv, TypeOK
  <1>2. [agreed EXCEPT ![id][a] = @ + 1] \in [Ids -> ApiList]
    BY DEF TypeInv, TypeOK, ApiList
  <1>3. /\ DOMAIN Pop(toVerify, id) \subseteq Ids
        /\ \A i \in DOMAIN Pop(toVerify, id) : Pop(toVerify, id)[i] \in Entry
    BY DEF Pop, TypeInv, TypeOK
  <1>4. CASE Rejects(a, id)
    BY <1>1, <1>3, <1>4
    DEF Rejects, Answers, TypeInv, TypeOK, StoreReady, taskVars, lockVars
  <1>5. CASE AcceptIgnored(a, id)
    BY <1>1, <1>2, <1>5
    DEF AcceptIgnored, Answers, TypeInv, TypeOK, StoreReady, taskVars,
        lockVars
  <1>6. CASE AcceptCounted(a, id)
    <2>1. Remaining(a, id) \in ApiList
      BY <1>6, ListFacts
      DEF AcceptCounted, IsValidator, Remaining, TypeInv, TypeOK, Entry
    <2>2. /\ DOMAIN toVerify' \subseteq Ids
          /\ \A i \in DOMAIN toVerify' : toVerify'[i] \in Entry
      BY <1>6, <2>1 DEF AcceptCounted, TypeInv, TypeOK, Entry
    <2>3. QED
      BY <1>1, <1>2, <1>6, <2>2
      DEF AcceptCounted, Answers, TypeInv, TypeOK, StoreReady, taskVars,
          lockVars
  <1>7. CASE AcceptCompletes(a, id)
    <2>1. [id |-> id, ttl |-> toVerify[id].ttl, from |-> toVerify[id].from]
             \in Message
      BY <1>7
      DEF AcceptCompletes, IsValidator, TypeInv, TypeOK, Entry, Message
    <2>2. /\ msg' \in [Tasks -> Message]
          /\ \A p \in Peers : msg'[p] = msg[p] /\ pc'[p] = pc[p]
      BY <1>7, <2>1, TasksAssumption DEF AcceptCompletes, TypeInv, TypeOK
    <2>3. QED
      BY <1>1, <1>2, <1>3, <1>7, <2>2
      DEF AcceptCompletes, Answers, TypeInv, TypeOK, StoreReady
  <1>8. QED
    BY <1>4, <1>5, <1>6, <1>7 DEF Vote

LEMMA ForwardTaskTypes ==
    ASSUME TypeInv, NEW a \in Apis, ForwardTask(a)
    PROVE  TypeInv'
  <1> USE TasksAssumption
  <1>1. ASSUME NEW sample \in Samples(a), GetPeerSample(a, sample)
        PROVE  TypeInv'
    <2>1. sample \subseteq Peers /\ msg[a].id \in Ids
      BY DEF Samples, TypeInv, TypeOK, Message
    <2>2. QED
      BY <1>1, <2>1
      DEF GetPeerSample, TypeInv, TypeOK, StoreReady, lockVars, voteVars
  <1>2. ASSUME NEW p \in Peers, SendPeerAnnounce(a, p) PROVE TypeInv'
    BY <1>2
    DEF SendPeerAnnounce, TypeInv, TypeOK, StoreReady, lockVars, history
  <1>3. CASE SendPeerAnnounceFails(a)
    BY <1>3, NoMessageIsMessage
    DEF SendPeerAnnounceFails, TypeInv, TypeOK, StoreReady, lockVars, history
  <1>4. CASE SentToAll(a)
    BY <1>4, DoneTypes
    DEF SentToAll, Release, TypeInv, TypeOK, StoreReady, history
  <1>5. CASE GetPullPeers(a)
    BY <1>5
    DEF GetPullPeers, TypeInv, TypeOK, StoreReady, lockVars, history
  <1>6. QED
    BY <1>1, <1>2, <1>3, <1>4, <1>5 DEF ForwardTask

LEMMA TypeStep == TypeInv /\ [Next]_vars => TypeInv'
  <1>1. ASSUME TypeInv, Next PROVE TypeInv'
    BY <1>1, PoolStepTypes, SubscriberStepTypes, ArrivalStepTypes,
       PeerTaskTypes, VoteTypes, ForwardTaskTypes DEF Next
  <1>2. ASSUME TypeInv, UNCHANGED vars PROVE TypeInv'
    BY <1>2 DEF vars, TypeInv, TypeOK, StoreReady
  <1>3. QED
    BY <1>1, <1>2

\* Type correctness (TypeOK) of every reachable state, whatever the numbers
\* of connections, ids and data types.
THEOREM TypeCorrect == Spec => []TypeOK
  <1>1. Spec => []TypeInv
    BY TypeInit, TypeStep, PTL DEF Spec
  <1>2. TypeInv => TypeOK
    BY DEF TypeInv
  <1>3. QED
    BY <1>1, <1>2, PTL

-----------------------------------------------------------------------------
(***************************************************************************)
(* Nothing is relayed that was not accepted by everybody it was put        *)
(* before.  While an entry is stored, what its validators list has lost    *)
(* against the ballot has been read as a positive answer; when it is gone  *)
(* the task that relays the message holds announces_to_verify_lock, so no  *)
(* new ballot and no answer gets in between.                               *)
(***************************************************************************)
EntriesCounted ==
    \A id \in DOMAIN toVerify :
        /\ ~refused[id]
        /\ \A b \in Apis :
              ballot[id][b] <= toVerify[id].validators[b] + agreed[id][b]

RelayLocked == \A a \in Apis : IsRelaying(a) => verifyLock = a

RelayInv == EntriesCounted /\ RelayLocked /\ UnanimousRelay

\* A step that begins no relaying and leaves votes and entries alone.
LEMMA RelayFrame ==
    ASSUME RelayInv,
           UNCHANGED <<toVerify, verifyLock, ballot, agreed, refused>>,
           \A a \in Apis : IsRelaying(a)' => /\ IsRelaying(a)
                                             /\ msg'[a].id = msg[a].id
    PROVE  RelayInv'
  BY DEF RelayInv, EntriesCounted, RelayLocked, UnanimousRelay

\* The tasks of peers relay nothing; storing an entry needs the lock.
LEMMA RelayPeerTask ==
    ASSUME TypeInv, RelayInv, NEW p \in Peers, PeerTask(p)
    PROVE  RelayInv'
  <1> USE TasksAssumption
  <1>1. \A a \in Apis : pc'[a] = pc[a] /\ msg'[a] = msg[a]
    BY DEF PeerTask, EndHere, LookUpSubscribers, StoreAnnounce,
           SendGossipNotificationFails, NotifiedAll, SendGossipNotification,
           Done, TypeInv, TypeOK
  <1>2. CASE StoreAnnounce(p)
    <2> DEFINE m == msg[p]
               subs == datasubs[TypeOf[m.id]]
               entry == [ttl |-> m.ttl, from |-> p, validators |-> subs]
    <2>1. m.id \in Ids /\ subs \in ApiList
      BY <1>2 DEF StoreAnnounce, TypeInv, TypeOK, StoreReady, Message
    <2>2. /\ toVerify' = Put(toVerify, m.id, entry)
          /\ ballot' = [ballot EXCEPT ![m.id] = subs]
          /\ agreed' = [agreed EXCEPT ![m.id] = Nobody]
          /\ refused' = [refused EXCEPT ![m.id] = FALSE]
          /\ verifyLock = NoTask /\ verifyLock' = NoTask
      BY <1>2 DEF StoreAnnounce, lockVars
    <2>3. \A a \in Apis : ~IsRelaying(a) /\ ~IsRelaying(a)'
      BY <1>1, <2>2 DEF RelayInv, RelayLocked, IsRelaying
    <2> HIDE DEF m, subs
    <2>4. ASSUME NEW id \in DOMAIN toVerify'
          PROVE  /\ ~refused'[id]
                 /\ \A b \in Apis :
                      ballot'[id][b] <= toVerify'[id].validators[b]
                                            + agreed'[id][b]
      <3>1. CASE id = m.id
        BY <2>1, <2>2, <3>1, NobodyIsList DEF Put, TypeInv, TypeOK, ApiList
      <3>2. CASE id # m.id
        BY <2>1, <2>2, <3>2
        DEF Put, TypeInv, TypeOK, RelayInv, EntriesCounted
      <3>3. QED
        BY <3>1, <3>2
    <2>5. QED
      BY <2>3, <2>4
      DEF RelayInv, EntriesCounted, RelayLocked, UnanimousRelay
  <1>3. CASE ~StoreAnnounce(p)
    <2>1. UNCHANGED <<toVerify, verifyLock, ballot, agreed, refused>>
      BY <1>3
      DEF PeerTask, EndHere, LookUpSubscribers, SendGossipNotificationFails,
          NotifiedAll, SendGossipNotification, lockVars, history
    <2>2. QED
      BY <1>1, <2>1, RelayFrame DEF IsRelaying
  <1>4. QED
    BY <1>2, <1>3

\* An answer is read only while nobody relays; the last one starts relaying
\* with the whole ballot accepted.
LEMMA RelayVote ==
    ASSUME TypeInv, RelayInv, NEW a \in Apis, NEW id \in Ids, Vote(a, id)
    PROVE  RelayInv'
  <1> USE TasksAssumption
  <1>1. verifyLock = NoTask /\ pc[a] = "read"
    BY DEF Vote, Rejects, AcceptIgnored, AcceptCounted, AcceptCompletes,
           Answers
  <1>2. \A b \in Apis : ~IsRelaying(b)
    BY <1>1 DEF RelayInv, RelayLocked
  <1>3. CASE Rejects(a, id)
    <2>1. \A b \in Apis : ~IsRelaying(b)'
      BY <1>2, <1>3 DEF Rejects, taskVars, IsRelaying
    <2>2. EntriesCounted'
      BY <1>3 DEF Rejects, Pop, EntriesCounted, RelayInv, TypeInv, TypeOK
    <2>3. QED
      BY <2>1, <2>2 DEF RelayInv, RelayLocked, UnanimousRelay
  <1>4. ASSUME agreed' = [agreed EXCEPT ![id][a] = @ + 1]
        PROVE  \A i \in Ids, b \in Apis :
                  /\ agreed'[i][b] \in Nat
                  /\ agreed[i][b] <= agreed'[i][b]
                  /\ i = id /\ b = a => agreed'[i][b] = agreed[i][b] + 1
    BY <1>4 DEF TypeInv, TypeOK, ApiList
  <1>5. \A i \in Ids, b \in Apis : ballot[i][b] \in Nat /\ agreed[i][b] \in Nat
    BY DEF TypeInv, TypeOK, ApiList
  <1>6. \A i \in DOMAIN toVerify, b \in Apis :
           i \in Ids /\ toVerify[i].validators[b] \in Nat
    BY DEF TypeInv, TypeOK, Entry, ApiList
  <1>7. CASE AcceptIgnored(a, id)
    <2>1. \A b \in Apis : ~IsRelaying(b)'
      BY <1>2, <1>7 DEF AcceptIgnored, taskVars, IsRelaying
    <2>2. EntriesCounted'
      BY <1>4, <1>5, <1>6, <1>7 DEF AcceptIgnored, EntriesCounted, RelayInv
    <2>3. QED
      BY <2>1, <2>2 DEF RelayInv, RelayLocked, UnanimousRelay
  <1>8. ASSUME IsValidator(a, id)
        PROVE  /\ id \in DOMAIN toVerify
               /\ \A b \in Apis : b # a =>
                     Remaining(a, id)[b] = toVerify[id].validators[b]
               /\ Remaining(a, id)[a] = toVerify[id].validators[a] - 1
    <2>1. /\ id \in DOMAIN toVerify
          /\ toVerify[id].validators \in ApiList
          /\ toVerify[id].validators[a] > 0
      BY <1>8 DEF IsValidator, TypeInv, TypeOK, Entry
    <2>2. QED
      BY <2>1, ListFacts DEF Remaining
  <1>9. CASE AcceptCounted(a, id)
    <2>1. \A b \in Apis : ~IsRelaying(b)'
      BY <1>2, <1>9 DEF AcceptCounted, taskVars, IsRelaying
    <2>2. /\ DOMAIN toVerify' = DOMAIN toVerify
          /\ \A i \in DOMAIN toVerify : i # id => toVerify'[i] = toVerify[i]
          /\ toVerify'[id].validators = Remaining(a, id)
          /\ agreed' = [agreed EXCEPT ![id][a] = @ + 1]
          /\ UNCHANGED <<ballot, refused>>
      BY <1>8, <1>9 DEF AcceptCounted, TypeInv, TypeOK, Entry
    <2>3. ASSUME NEW i \in DOMAIN toVerify, NEW b \in Apis
          PROVE  ballot[i][b] <= toVerify'[i].validators[b] + agreed'[i][b]
      <3>1. ballot[i][b] <= toVerify[i].validators[b] + agreed[i][b]
        BY DEF RelayInv, EntriesCounted
      <3>2. CASE i = id /\ b = a
        BY <1>4, <1>5, <1>6, <1>8, <1>9, <2>2, <3>1, <3>2 DEF AcceptCounted
      <3>3. CASE ~(i = id /\ b = a)
        BY <1>4, <1>5, <1>6, <1>8, <1>9, <2>2, <3>1, <3>3 DEF AcceptCounted
      <3>4. QED
        BY <3>2, <3>3
    <2>4. QED
      BY <2>1, <2>2, <2>3
      DEF RelayInv, EntriesCounted, RelayLocked, UnanimousRelay
  <1>10. CASE AcceptCompletes(a, id)
    <2>1. /\ verifyLock' = a
          /\ pc'[a] = "sample" /\ msg'[a].id = id
          /\ \A b \in Apis : b # a => pc'[b] = pc[b] /\ msg'[b] = msg[b]
      BY <1>10 DEF AcceptCompletes, TypeInv, TypeOK
    <2>2. \A b \in Apis : b # a => ~IsRelaying(b)'
      BY <1>2, <2>1 DEF IsRelaying
    <2>3. \A b \in Apis : ballot[id][b] <= agreed'[id][b]
      <3>1. \A b \in Apis : Remaining(a, id)[b] = 0
        BY <1>10, NobodyIsList DEF AcceptCompletes
      <3>2. IsValidator(a, id) /\ agreed' = [agreed EXCEPT ![id][a] = @ + 1]
        BY <1>10 DEF AcceptCompletes
      <3>3. \A b \in Apis :
               ballot[id][b] <= toVerify[id].validators[b] + agreed[id][b]
        BY <1>8, <3>2 DEF RelayInv, EntriesCounted
      <3>4. QED
        BY <1>4, <1>5, <1>6, <1>8, <3>1, <3>2, <3>3
    <2>4. ~refused[id] /\ UNCHANGED <<refused, ballot>>
      BY <1>8, <1>10 DEF AcceptCompletes, RelayInv, EntriesCounted
    <2>5. EntriesCounted'
      <3>1. /\ DOMAIN toVerify' = DOMAIN toVerify \ {id}
            /\ \A i \in DOMAIN toVerify' : toVerify'[i] = toVerify[i]
            /\ agreed' = [agreed EXCEPT ![id][a] = @ + 1]
        BY <1>10 DEF AcceptCompletes, Pop
      <3>2. QED
        BY <1>4, <1>5, <1>6, <2>4, <3>1 DEF EntriesCounted, RelayInv
    <2>6. QED
      BY <2>1, <2>2, <2>3, <2>4, <2>5
      DEF RelayInv, RelayLocked, UnanimousRelay
  <1>11. QED
    BY <1>3, <1>7, <1>9, <1>10 DEF Vote

LEMMA RelayForwardTask ==
    ASSUME TypeInv, RelayInv, NEW a \in Apis, ForwardTask(a)
    PROVE  RelayInv'
  <1>1. CASE SentToAll(a)
    <2>1. /\ ~IsRelaying(a)'
          /\ \A b \in Apis : b # a => /\ IsRelaying(b)' <=> IsRelaying(b)
                                      /\ msg'[b] = msg[b]
          /\ UNCHANGED <<toVerify, ballot, agreed, refused>>
      BY <1>1 DEF SentToAll, Done, IsRelaying, history, TypeInv, TypeOK
    <2>2. \A b \in Apis : b # a /\ verifyLock = b => verifyLock' = b
      BY <1>1 DEF SentToAll, Release
    <2>3. QED
      BY <2>1, <2>2 DEF RelayInv, EntriesCounted, RelayLocked, UnanimousRelay
  <1>2. CASE ~SentToAll(a)
    <2>1. /\ UNCHANGED <<toVerify, verifyLock, ballot, agreed, refused>>
          /\ \A b \in Apis : IsRelaying(b)' => /\ IsRelaying(b)
                                               /\ msg'[b].id = msg[b].id
      BY <1>2
      DEF ForwardTask, GetPullPeers, GetPeerSample, SendPeerAnnounce,
          SendPeerAnnounceFails,
          IsRelaying, lockVars, voteVars, history, TypeInv, TypeOK
    <2>2. QED
      BY <2>1, RelayFrame
  <1>3. QED
    BY <1>1, <1>2

LEMMA RelayStep == TypeInv /\ RelayInv /\ [Next]_vars => RelayInv'
  <1> SUFFICES ASSUME TypeInv, RelayInv, [Next]_vars PROVE RelayInv'
    OBVIOUS
  <1> USE TasksAssumption
  <1>1. ASSUME NEW p \in Peers, PeerJoins(p) \/ PeerLeaves(p) PROVE RelayInv'
    BY <1>1, RelayFrame
    DEF PeerJoins, PeerLeaves, IsRelaying, taskVars, lockVars, history,
        TypeInv, TypeOK
  <1>0. CASE EvictionBlocks
    BY <1>0, RelayFrame
    DEF EvictionBlocks, IsRelaying, taskVars, lockVars, history
  <1>2. ASSUME NEW p \in Peers, NEW id \in Ids, NEW ttl \in Ttls,
               HandlePeerAnnounce(p, id, ttl)
        PROVE  RelayInv'
    BY <1>2, RelayFrame
    DEF HandlePeerAnnounce, IsRelaying, lockVars, voteVars, TypeInv, TypeOK
  <1>3. ASSUME NEW a \in Apis, ApiConnects(a) \/ CloseApi(a) PROVE RelayInv'
    BY <1>3, RelayFrame
    DEF ApiConnects, CloseApi, IsRelaying, lockVars, history, TypeInv, TypeOK
  <1>4. ASSUME NEW a \in Apis, NEW d \in DataTypes, AddSubscriber(a, d)
        PROVE  RelayInv'
    BY <1>4, RelayFrame
    DEF AddSubscriber, IsRelaying, taskVars, lockVars, history
  <1>5. ASSUME NEW a \in Apis, NEW id \in Ids, NEW ttl \in Ttls,
               HandleGossipAnnounce(a, id, ttl)
        PROVE  RelayInv'
    BY <1>5, RelayFrame
    DEF HandleGossipAnnounce, IsRelaying, lockVars, voteVars, TypeInv, TypeOK
  <1>6. CASE UNCHANGED vars
    BY <1>6, RelayFrame DEF vars, IsRelaying
  <1>7. QED
    BY <1>0, <1>1, <1>2, <1>3, <1>4, <1>5, <1>6, RelayPeerTask, RelayVote,
       RelayForwardTask DEF Next

\* A peer's message is sent on only after everybody it was put before has
\* accepted its id, and nobody has refused it, since its entry was stored, in
\* every reachable state of every instance: handle_gossip_validation and
\* handle_peer_announce need no bound on APIs, peers or ids for that.
THEOREM RelayIsUnanimous == Spec => []UnanimousRelay
  <1>1. Init => RelayInv
    BY DEF Init, RelayInv, EntriesCounted, RelayLocked, UnanimousRelay,
           IsRelaying
  <1>2. Spec => []RelayInv
    BY TypeInit, TypeStep, RelayStep, <1>1, PTL DEF Spec
  <1>3. RelayInv => UnanimousRelay
    BY DEF RelayInv
  <1>4. QED
    BY <1>2, <1>3, PTL

-----------------------------------------------------------------------------
(***************************************************************************)
(* Nothing is awaited that was not asked for.  Whoever stores an entry or  *)
(* notifies its validators owns datasubs_lock, so there is at most one     *)
(* unfinished loop over subscribers, and its rest makes up for the         *)
(* notifications that are still missing.                                   *)
(***************************************************************************)
NotifierOwnsLock ==
    \A p \in Peers : pc[p] \in {"store", "notify"} => datasubsLock = p

AwaitInv == NotifierOwnsLock /\ AwaitedWasAsked

\* A step that leaves entries, notifications and open loops as they are.
LEMMA AwaitFrame ==
    ASSUME TypeInv, AwaitInv, NotifierOwnsLock',
           UNCHANGED <<toVerify, inbox>>, aborted \subseteq aborted',
           \A a \in Apis : pc'[a] # "closed" => pc[a] # "closed",
           \A a \in Apis, id \in DOMAIN toVerify \ aborted' :
               StillToAsk(a, id)' = StillToAsk(a, id)
    PROVE  AwaitInv'
  <1>1. ASSUME NEW id \in DOMAIN toVerify' \ aborted', NEW a \in Apis,
               pc'[a] # "closed"
        PROVE  toVerify'[id].validators[a]
                   <= inbox'[a][id] + StillToAsk(a, id)'
    BY <1>1 DEF AwaitInv, AwaitedWasAsked
  <1>2. QED
    BY <1>1 DEF AwaitInv, AwaitedWasAsked

LEMMA AwaitPeerTask ==
    ASSUME TypeInv, AwaitInv, NEW p \in Peers, PeerTask(p)
    PROVE  AwaitInv'
  <1> USE TasksAssumption
  <1>0. /\ \A q \in Tasks : q # p => pc'[q] = pc[q] /\ msg'[q] = msg[q]
        /\ \A q \in Peers : q # p => todo'[q] = todo[q]
        /\ \A a \in Apis : a # p
    BY DEF PeerTask, EndHere, LookUpSubscribers, StoreAnnounce,
           SendGossipNotificationFails, NotifiedAll, SendGossipNotification,
           Done, TypeInv, TypeOK
  <1>1. CASE EndHere(p)
    <2>1. /\ datasubsLock = NoTask
          /\ UNCHANGED <<datasubsLock, toVerify, inbox, aborted>>
          /\ pc'[p] \in {"read", "closed"}
      BY <1>1, DoneTypes DEF EndHere, lockVars, history, TypeInv
    <2>2. NotifierOwnsLock'
      BY <1>0, <2>1 DEF NotifierOwnsLock, AwaitInv
    <2>3. \A a \in Apis, id \in Ids : StillToAsk(a, id)' = StillToAsk(a, id)
      BY <2>1 DEF StillToAsk
    <2>4. QED
      BY <1>0, <2>1, <2>2, <2>3, AwaitFrame DEF TypeInv, TypeOK
  <1>2. CASE LookUpSubscribers(p)
    <2>1. /\ datasubsLock = NoTask
          /\ UNCHANGED <<toVerify, inbox, aborted>>
          /\ \/ datasubsLock' = p /\ pc'[p] = "store"
             \/ datasubsLock' = NoTask /\ pc'[p] \in {"read", "closed"}
      BY <1>2, DoneTypes DEF LookUpSubscribers, history, TypeInv, TypeOK
    <2>2. NotifierOwnsLock'
      BY <1>0, <2>1 DEF NotifierOwnsLock, AwaitInv
    <2>3. \A a \in Apis, id \in Ids : StillToAsk(a, id)' = StillToAsk(a, id)
      BY <2>1 DEF StillToAsk
    <2>4. QED
      BY <1>0, <2>1, <2>2, <2>3, AwaitFrame DEF TypeInv, TypeOK
  <1>3. CASE StoreAnnounce(p)
    <2> DEFINE m == msg[p]
               subs == datasubs[TypeOf[m.id]]
               entry == [ttl |-> m.ttl, from |-> p, validators |-> subs]
    <2>1. /\ pc[p] = "store" /\ datasubsLock = p /\ datasubsLock' = p
          /\ pc'[p] = "notify" /\ msg'[p] = m /\ todo'[p] = subs
          /\ toVerify' = Put(toVerify, m.id, entry)
          /\ aborted' = aborted \ {m.id}
          /\ UNCHANGED inbox
      BY <1>3
      DEF StoreAnnounce, lockVars, AwaitInv, NotifierOwnsLock, TypeInv, TypeOK
    <2>2. subs \in ApiList /\ m.id \in Ids
      BY <1>3 DEF StoreAnnounce, TypeInv, TypeOK, StoreReady, Message
    <2>3. NotifierOwnsLock'
      BY <1>0, <2>1 DEF NotifierOwnsLock, AwaitInv
    <2> HIDE DEF m, subs
    <2>4. ASSUME NEW id \in DOMAIN toVerify' \ aborted', NEW a \in Apis,
                 pc'[a] # "closed"
          PROVE  toVerify'[id].validators[a]
                     <= inbox'[a][id] + StillToAsk(a, id)'
      <3>1. CASE id = m.id
        <4>1. toVerify'[id].validators = subs
          BY <2>1, <3>1 DEF Put
        <4>2. StillToAsk(a, id)' = subs[a]
          BY <2>1, <3>1 DEF StillToAsk
        <4>3. inbox'[a][id] \in Nat /\ subs[a] \in Nat
          BY <2>1, <2>2, <3>1 DEF TypeInv, TypeOK, ApiList
        <4>4. QED
          BY <4>1, <4>2, <4>3
      <3>2. CASE id # m.id
        <4>1. /\ id \in DOMAIN toVerify \ aborted
              /\ toVerify'[id] = toVerify[id]
          BY <2>1, <3>2 DEF Put
        <4>2. StillToAsk(a, id)' = 0 /\ StillToAsk(a, id) = 0
          BY <2>1, <3>2 DEF StillToAsk
        <4>3. pc[a] # "closed"
          BY <1>0, <2>4
        <4>4. QED
          BY <2>1, <2>4, <4>1, <4>2, <4>3 DEF AwaitInv, AwaitedWasAsked
      <3>3. QED
        BY <3>1, <3>2
    <2>5. QED
      BY <2>3, <2>4 DEF AwaitInv, AwaitedWasAsked
  <1>4. CASE SendGossipNotificationFails(p)
    <2>1. /\ pc[p] = "notify" /\ datasubsLock = p
          /\ aborted' = aborted \cup {msg[p].id}
          /\ datasubsLock' = NoTask /\ pc'[p] = "dead"
          /\ UNCHANGED <<toVerify, inbox>>
      BY <1>4
      DEF SendGossipNotificationFails, Release, AwaitInv, NotifierOwnsLock,
          TypeInv, TypeOK
    <2>2. NotifierOwnsLock'
      BY <1>0, <2>1 DEF NotifierOwnsLock, AwaitInv
    <2>3. \A a \in Apis, id \in Ids \ aborted' :
             StillToAsk(a, id)' = StillToAsk(a, id)
      BY <2>1 DEF StillToAsk
    <2>4. QED
      BY <1>0, <2>1, <2>2, <2>3, AwaitFrame DEF TypeInv, TypeOK
  <1>5. CASE NotifiedAll(p)
    <2>1. /\ pc[p] = "notify" /\ datasubsLock = p /\ todo[p] = Nobody
          /\ datasubsLock' = NoTask /\ pc'[p] \in {"read", "closed"}
          /\ UNCHANGED <<toVerify, inbox, aborted>>
      BY <1>5, DoneTypes
      DEF NotifiedAll, Release, AwaitInv, NotifierOwnsLock, history, TypeInv
    <2>2. NotifierOwnsLock'
      BY <1>0, <2>1 DEF NotifierOwnsLock, AwaitInv
    <2>3. \A a \in Apis, id \in Ids : StillToAsk(a, id)' = StillToAsk(a, id)
      BY <2>1, NobodyIsList DEF StillToAsk
    <2>4. QED
      BY <1>0, <2>1, <2>2, <2>3, AwaitFrame DEF TypeInv, TypeOK
  <1>6. ASSUME NEW b \in Apis, SendGossipNotification(p, b) PROVE AwaitInv'
    <2> DEFINE id == msg[p].id
    <2>1. /\ pc[p] = "notify" /\ datasubsLock = p /\ datasubsLock' = p
          /\ UNCHANGED <<pc, msg, toVerify, aborted>>
          /\ todo' = [todo EXCEPT ![p][b] = @ - 1]
          /\ inbox' = Deliver(b, id)
      BY <1>6
      DEF SendGossipNotification, lockVars, history, AwaitInv,
          NotifierOwnsLock
    <2>2. NotifierOwnsLock'
      BY <2>1 DEF NotifierOwnsLock, AwaitInv
    <2>3. id \in Ids /\ \A a \in Apis : todo[p][a] \in Nat
      BY DEF TypeInv, TypeOK, Message, ApiList
    <2>4. /\ todo'[p][b] = todo[p][b] - 1
          /\ \A a \in Apis : a # b => todo'[p][a] = todo[p][a]
      BY <2>1 DEF TypeInv, TypeOK, ApiList
    <2>5. /\ pc[b] # "closed" => inbox'[b][id] = inbox[b][id] + 1
          /\ \A a \in Apis, i \in Ids :
                ~(a = b /\ i = id) => inbox'[a][i] = inbox[a][i]
      BY <2>1, <2>3 DEF Deliver, TypeInv, TypeOK
    <2>6. ASSUME NEW i \in DOMAIN toVerify' \ aborted', NEW a \in Apis,
                 pc'[a] # "closed"
          PROVE  toVerify'[i].validators[a] <= inbox'[a][i] + StillToAsk(a, i)'
      <3>1. /\ i \in Ids /\ pc[a] # "closed"
            /\ toVerify[i].validators[a] <= inbox[a][i] + StillToAsk(a, i)
        BY <2>1, <2>6 DEF AwaitInv, AwaitedWasAsked, TypeInv, TypeOK
      <3>2. /\ StillToAsk(a, i) = IF i = id THEN todo[p][a] ELSE 0
            /\ StillToAsk(a, i)' = IF i = id THEN todo'[p][a] ELSE 0
        BY <2>1, TasksAssumption DEF StillToAsk
      <3>3. inbox[a][i] \in Nat
        BY <3>1 DEF TypeInv, TypeOK
      <3> HIDE DEF id
      <3>4. CASE i = id /\ a = b
        BY <2>1, <2>3, <2>4, <2>5, <3>1, <3>2, <3>3, <3>4
      <3>5. CASE ~(i = id /\ a = b)
        BY <2>1, <2>3, <2>4, <2>5, <3>1, <3>2, <3>3, <3>5
      <3>6. QED
        BY <3>4, <3>5
    <2>7. QED
      BY <2>2, <2>6 DEF AwaitInv, AwaitedWasAsked
  <1>7. QED
    BY <1>1, <1>2, <1>3, <1>4, <1>5, <1>6 DEF PeerTask

\* The steps of an API task do not touch the loop of the lock's owner.
LEMMA StillToAskFrame ==
    ASSUME TypeInv, UNCHANGED <<datasubsLock, todo>>,
           \A p \in Peers : pc'[p] = pc[p] /\ msg'[p] = msg[p]
    PROVE  \A a \in Apis, id \in Ids : StillToAsk(a, id)' = StillToAsk(a, id)
  BY TasksAssumption DEF StillToAsk, TypeInv, TypeOK

LEMMA AwaitVote ==
    ASSUME TypeInv, AwaitInv, NEW a \in Apis, NEW id \in Ids, Vote(a, id)
    PROVE  AwaitInv'
  <1> USE TasksAssumption
  <1>1. /\ UNCHANGED <<datasubsLock, todo, aborted>>
        /\ \A p \in Peers : pc'[p] = pc[p] /\ msg'[p] = msg[p]
        /\ \A b \in Apis : pc'[b] # "closed" => pc[b] # "closed"
        /\ pc[a] # "closed"
    BY DEF Vote, Rejects, AcceptIgnored, AcceptCounted, AcceptCompletes,
           Answers, taskVars, lockVars, TypeInv, TypeOK
  <1>2. NotifierOwnsLock'
    BY <1>1 DEF NotifierOwnsLock, AwaitInv
  <1>3. /\ inbox'[a][id] = inbox[a][id] - 1
        /\ inbox[a][id] \in Nat \ {0}
        /\ \A b \in Apis, i \in Ids :
              ~(b = a /\ i = id) => inbox'[b][i] = inbox[b][i]
    BY DEF Vote, Rejects, AcceptIgnored, AcceptCounted, AcceptCompletes,
           Answers, TypeInv, TypeOK
  <1>4. /\ DOMAIN toVerify' \subseteq DOMAIN toVerify
        /\ \A i \in DOMAIN toVerify' : i # id => toVerify'[i] = toVerify[i]
        /\ id \in DOMAIN toVerify' =>
              /\ \A b \in Apis : b # a =>
                    toVerify'[id].validators[b] = toVerify[id].validators[b]
              /\ \/ toVerify[id].validators[a] = 0
                    /\ toVerify'[id].validators[a] = 0
                 \/ toVerify'[id].validators[a] =
                       toVerify[id].validators[a] - 1
    <2>1. CASE Rejects(a, id) \/ AcceptCompletes(a, id)
      BY <2>1 DEF Rejects, AcceptCompletes, Pop
    <2>2. CASE AcceptIgnored(a, id)
      <3>1. id \in DOMAIN toVerify => toVerify[id].validators[a] \in Nat
        BY DEF TypeInv, TypeOK, Entry, ApiList
      <3>2. QED
        BY <2>2, <3>1 DEF AcceptIgnored, IsValidator
    <2>3. CASE AcceptCounted(a, id)
      <3>1. /\ id \in DOMAIN toVerify
            /\ toVerify[id] \in Entry
            /\ toVerify[id].validators \in ApiList
            /\ toVerify[id].validators[a] > 0
        BY <2>3 DEF AcceptCounted, IsValidator, TypeInv, TypeOK, Entry
      <3>2. /\ DOMAIN toVerify' = DOMAIN toVerify
            /\ \A i \in DOMAIN toVerify : i # id => toVerify'[i] = toVerify[i]
            /\ toVerify'[id].validators =
                  Remove1(toVerify[id].validators, a)
        BY <2>3, <3>1 DEF AcceptCounted, Remaining, Entry
      <3>3. QED
        BY <3>1, <3>2, ListFacts
    <2>4. QED
      BY <2>1, <2>2, <2>3 DEF Vote
  <1>5. \A b \in Apis, i \in Ids : /\ StillToAsk(b, i)' = StillToAsk(b, i)
                                  /\ StillToAsk(b, i) \in Nat
    BY <1>1, StillToAskFrame DEF StillToAsk, TypeInv, TypeOK, ApiList
  <1>6. ASSUME NEW i \in DOMAIN toVerify' \ aborted', NEW b \in Apis,
               pc'[b] # "closed"
        PROVE  toVerify'[i].validators[b] <= inbox'[b][i] + StillToAsk(b, i)'
    <2>1. /\ i \in Ids /\ i \in DOMAIN toVerify /\ pc[b] # "closed"
          /\ toVerify[i].validators[b] <= inbox[b][i] + StillToAsk(b, i)
          /\ toVerify[i].validators[b] \in Nat
      BY <1>1, <1>4, <1>6
      DEF AwaitInv, AwaitedWasAsked, TypeInv, TypeOK, Entry, ApiList
    <2>2. inbox[b][i] \in Nat
      BY <2>1 DEF TypeInv, TypeOK
    <2>3. CASE i = id /\ b = a
      BY <1>3, <1>4, <1>5, <2>1, <2>3
    <2>4. CASE ~(i = id /\ b = a)
      BY <1>3, <1>4, <1>5, <2>1, <2>2, <2>4
    <2>5. QED
      BY <2>3, <2>4
  <1>7. QED
    BY <1>2, <1>6 DEF AwaitInv, AwaitedWasAsked

LEMMA AwaitStep == TypeInv /\ AwaitInv /\ [Next]_vars => AwaitInv'
  <1> SUFFICES ASSUME TypeInv, AwaitInv, [Next]_vars PROVE AwaitInv'
    OBVIOUS
  <1> USE TasksAssumption
  <1>1. ASSUME UNCHANGED <<datasubsLock, todo, toVerify, inbox, aborted>>,
               \A p \in Peers : pc'[p] = pc[p] /\ msg'[p] = msg[p],
               \A a \in Apis : pc'[a] # "closed" => pc[a] # "closed"
        PROVE  AwaitInv'
    <2>1. NotifierOwnsLock'
      BY <1>1 DEF NotifierOwnsLock, AwaitInv
    <2>2. QED
      BY <1>1, <2>1, StillToAskFrame, AwaitFrame DEF TypeInv, TypeOK
  <1>2. ASSUME EvictionBlocks \/ \E p \in Peers : PeerLeaves(p)
        PROVE  AwaitInv'
    BY <1>1, <1>2
    DEF EvictionBlocks, PeerLeaves, taskVars, lockVars, history
  <1>3. ASSUME NEW p \in Peers,
               \/ PeerJoins(p)
               \/ \E id \in Ids, ttl \in Ttls : HandlePeerAnnounce(p, id, ttl)
        PROVE  AwaitInv'
    <2>1. /\ pc[p] \notin {"store", "notify"}
          /\ pc'[p] \notin {"store", "notify"}
          /\ UNCHANGED <<datasubsLock, todo, toVerify, inbox, aborted>>
          /\ \A q \in Tasks : q # p => pc'[q] = pc[q] /\ msg'[q] = msg[q]
      BY <1>3
      DEF PeerJoins, HandlePeerAnnounce, lockVars, history, voteVars, TypeInv,
          TypeOK
    <2>2. NotifierOwnsLock'
      BY <2>1 DEF NotifierOwnsLock, AwaitInv
    <2>3. \A a \in Apis, id \in Ids : StillToAsk(a, id)' = StillToAsk(a, id)
      BY <2>1 DEF StillToAsk, TypeInv, TypeOK
    <2>4. QED
      BY <2>1, <2>2, <2>3, AwaitFrame DEF TypeInv, TypeOK
  <1>4. ASSUME NEW a \in Apis,
               \/ ApiConnects(a)
               \/ \E d \in DataTypes : AddSubscriber(a, d)
               \/ \E id \in Ids, ttl \in Ttls : HandleGossipAnnounce(a, id, ttl)
        PROVE  AwaitInv'
    <2>1. /\ UNCHANGED <<datasubsLock, todo, toVerify, inbox, aborted>>
          /\ \A p \in Peers : pc'[p] = pc[p] /\ msg'[p] = msg[p]
          /\ \A b \in Apis : pc'[b] # "closed" => pc[b] # "closed"
      BY <1>4
      DEF ApiConnects, AddSubscriber, HandleGossipAnnounce, taskVars,
          lockVars, history, voteVars, TypeInv, TypeOK
    <2>2. QED
      BY <1>1, <2>1
  <1>5. ASSUME NEW a \in Apis, ForwardTask(a) PROVE AwaitInv'
    <2>1. /\ UNCHANGED <<datasubsLock, todo, toVerify, inbox, aborted>>
          /\ \A p \in Peers : pc'[p] = pc[p] /\ msg'[p] = msg[p]
          /\ \A b \in Apis : pc'[b] # "closed" => pc[b] # "closed"
      BY <1>5
      DEF ForwardTask, GetPullPeers, GetPeerSample, SendPeerAnnounce,
          SendPeerAnnounceFails,
          SentToAll, Done, lockVars, history, voteVars, TypeInv, TypeOK
    <2>2. QED
      BY <1>1, <2>1
  <1>6. ASSUME NEW a \in Apis, CloseApi(a) PROVE AwaitInv'
    <2>1. /\ UNCHANGED <<datasubsLock, todo, toVerify, aborted>>
          /\ \A p \in Peers : pc'[p] = pc[p] /\ msg'[p] = msg[p]
          /\ \A b \in Apis : pc'[b] # "closed" =>
                b # a /\ pc[b] # "closed" /\ inbox'[b] = inbox[b]
      BY <1>6 DEF CloseApi, lockVars, history, TypeInv, TypeOK
    <2>2. NotifierOwnsLock'
      BY <2>1 DEF NotifierOwnsLock, AwaitInv
    <2>3. QED
      BY <2>1, <2>2, StillToAskFrame
      DEF AwaitInv, AwaitedWasAsked, TypeInv, TypeOK
  <1>7. CASE UNCHANGED vars
    BY <1>1, <1>7 DEF vars
  <1>8. QED
    BY <1>2, <1>3, <1>4, <1>5, <1>6, <1>7, AwaitPeerTask, AwaitVote DEF Next

\* Every answer an entry of announces_to_verify still needs from an open API
\* connection was asked for and not answered, or is about to be asked for, in
\* every reachable state of every instance, except where an exception ended
\* the loop over the subscribers.
THEOREM NothingAwaitedUnasked == Spec => []AwaitedWasAsked
  <1>1. Init => AwaitInv
    BY TasksAssumption DEF Init, AwaitInv, NotifierOwnsLock, AwaitedWasAsked
  <1>2. Spec => []AwaitInv
    BY TypeInit, TypeStep, AwaitStep, <1>1, PTL DEF Spec
  <1>3. AwaitInv => AwaitedWasAsked
    BY DEF AwaitInv
  <1>4. QED
    BY <1>2, <1>3, PTL

-----------------------------------------------------------------------------
(***************************************************************************)
(* TTLs.  What counts is that the last hop is recognised before the        *)
(* decrement: the tasks on their way to storing a message carry a TTL that *)
(* is attenuated already.                                                  *)
(***************************************************************************)
TtlInv ==
    /\ TtlAttenuated
    /\ \A p \in Peers : pc[p] \in {"subs", "store"} =>
          AttenuatedFrom(msg[p].ttl, heard[msg[p].id])

\* A step that starts nothing new and forgets no TTL.
LEMMA TtlFrame ==
    ASSUME TypeInv, TtlInv,
           \A id \in Ids : heard[id] \subseteq heard'[id],
           \A id \in DOMAIN toVerify' :
               id \in DOMAIN toVerify /\ toVerify'[id].ttl = toVerify[id].ttl,
           \A a \in Apis : IsRelaying(a)' =>
               IsRelaying(a) /\ msg'[a] = msg[a],
           \A p \in Peers : pc'[p] \in {"subs", "store"} =>
               pc[p] \in {"subs", "store"} /\ msg'[p] = msg[p]
    PROVE  TtlInv'
  <1>1. \A t \in Tasks : msg[t].id \in Ids
    BY DEF TypeInv, TypeOK, Message
  <1>2. \A ttl \in Nat, id \in Ids :
           AttenuatedFrom(ttl, heard[id]) => AttenuatedFrom(ttl, heard'[id])
    BY DEF AttenuatedFrom
  <1>3. ASSUME NEW id \in DOMAIN toVerify'
        PROVE  AttenuatedFrom(toVerify'[id].ttl, heard'[id])
    BY <1>2 DEF TtlInv, TtlAttenuated, TypeInv, TypeOK, Entry
  <1>4. ASSUME NEW a \in Apis, IsRelaying(a)'
        PROVE  AttenuatedFrom(msg'[a].ttl, heard'[msg'[a].id])
    BY <1>1, <1>2, <1>4 DEF TtlInv, TtlAttenuated, TypeInv, TypeOK, Message
  <1>5. ASSUME NEW p \in Peers, pc'[p] \in {"subs", "store"}
        PROVE  AttenuatedFrom(msg'[p].ttl, heard'[msg'[p].id])
    BY <1>1, <1>2, <1>5 DEF TtlInv, TypeInv, TypeOK, Message
  <1>6. QED
    BY <1>3, <1>4, <1>5 DEF TtlInv, TtlAttenuated

LEMMA TtlPeerStep ==
    ASSUME TypeInv, TtlInv, NEW p \in Peers,
           \/ PeerJoins(p) \/ PeerLeaves(p) \/ PeerTask(p)
           \/ \E id \in Ids, ttl \in Ttls : HandlePeerAnnounce(p, id, ttl)
    PROVE  TtlInv'
  <1> USE TasksAssumption
  <1>1. ASSUME NEW id \in Ids, NEW ttl \in Ttls, HandlePeerAnnounce(p, id, ttl)
        PROVE  TtlInv'
    <2>1. /\ UNCHANGED toVerify
          /\ heard' = [heard EXCEPT ![id] = @ \cup {ttl}]
          /\ \A t \in Tasks : t # p => pc'[t] = pc[t] /\ msg'[t] = msg[t]
          /\ pc'[p] = "subs" => /\ ttl # 1
                                /\ msg'[p].id = id
                                /\ msg'[p].ttl = DecrementTtl(ttl)
          /\ pc'[p] \in {"subs", "last"}
      BY <1>1 DEF HandlePeerAnnounce, LastHop, TypeInv, TypeOK
    <2>2. \A i \in Ids : heard[i] \subseteq heard'[i]
      BY <2>1 DEF TypeInv, TypeOK
    <2>3. ttl \in heard'[id] /\ ttl \in Nat
      BY <2>1, DataAssumption DEF TypeInv, TypeOK
    <2>4. pc'[p] = "subs" => AttenuatedFrom(msg'[p].ttl, heard'[msg'[p].id])
      BY <2>1, <2>3 DEF AttenuatedFrom, DecrementTtl
    <2>5. \A r \in Nat, i \in Ids :
             AttenuatedFrom(r, heard[i]) => AttenuatedFrom(r, heard'[i])
      BY <2>2 DEF AttenuatedFrom
    <2>6. \A i \in DOMAIN toVerify' :
             AttenuatedFrom(toVerify'[i].ttl, heard'[i])
      BY <2>1, <2>5 DEF TtlInv, TtlAttenuated, TypeInv, TypeOK, Entry
    <2>7. \A a \in Apis : IsRelaying(a)' =>
             AttenuatedFrom(msg'[a].ttl, heard'[msg'[a].id])
      BY <2>1, <2>5
      DEF TtlInv, TtlAttenuated, IsRelaying, TypeInv, TypeOK, Message
    <2>8. \A q \in Peers : q # p /\ pc'[q] \in {"subs", "store"} =>
             AttenuatedFrom(msg'[q].ttl, heard'[msg'[q].id])
      BY <2>1, <2>5 DEF TtlInv, TypeInv, TypeOK, Message
    <2>9. QED
      BY <2>1, <2>4, <2>6, <2>7, <2>8 DEF TtlInv, TtlAttenuated
  <1>2. CASE StoreAnnounce(p)
    <2> DEFINE m == msg[p]
               entry == [ttl |-> m.ttl, from |-> p,
                         validators |-> datasubs[TypeOf[m.id]]]
    <2>1. /\ UNCHANGED <<msg, heard>>
          /\ toVerify' = Put(toVerify, m.id, entry)
          /\ pc[p] = "store"
          /\ pc'[p] = "notify"
          /\ \A t \in Tasks : t # p => pc'[t] = pc[t]
      BY <1>2 DEF StoreAnnounce, TypeInv, TypeOK
    <2>2. AttenuatedFrom(m.ttl, heard[m.id])
      BY <2>1 DEF TtlInv
    <2>3. ASSUME NEW i \in DOMAIN toVerify'
          PROVE  AttenuatedFrom(toVerify'[i].ttl, heard'[i])
      <3>1. CASE i = m.id
        BY <2>1, <2>2, <3>1 DEF Put
      <3>2. CASE i # m.id
        BY <2>1, <3>2 DEF Put, TtlInv, TtlAttenuated
      <3>3. QED
        BY <3>1, <3>2
    <2>4. QED
      BY <2>1, <2>3 DEF TtlInv, TtlAttenuated, IsRelaying
  <1>3. ASSUME \/ PeerJoins(p) \/ PeerLeaves(p)
               \/ PeerTask(p) /\ ~StoreAnnounce(p)
        PROVE  TtlInv'
    <2>1. /\ UNCHANGED <<heard, toVerify>>
          /\ \A t \in Tasks : t # p => pc'[t] = pc[t] /\ msg'[t] = msg[t]
          /\ pc'[p] \in {"subs", "store"} =>
                pc[p] \in {"subs", "store"} /\ msg'[p] = msg[p]
      BY <1>3
      DEF PeerJoins, PeerLeaves, PeerTask, EndHere, LookUpSubscribers,
          SendGossipNotificationFails, NotifiedAll, SendGossipNotification,
          Done, taskVars, history, TypeInv, TypeOK
    <2>2. QED
      BY <2>1, TtlFrame DEF IsRelaying, TypeInv, TypeOK
  <1>4. QED
    BY <1>1, <1>2, <1>3

LEMMA TtlApiStep ==
    ASSUME TypeInv, TtlInv, NEW a \in Apis,
           \/ ApiConnects(a) \/ CloseApi(a) \/ ForwardTask(a)
           \/ \E d \in DataTypes : AddSubscriber(a, d)
           \/ \E id \in Ids, ttl \in Ttls : HandleGossipAnnounce(a, id, ttl)
           \/ \E id \in Ids : Vote(a, id)
    PROVE  TtlInv'
  <1> USE TasksAssumption
  <1>1. ASSUME NEW id \in Ids, AcceptCompletes(a, id) PROVE TtlInv'
    <2>1. /\ UNCHANGED heard
          /\ id \in DOMAIN toVerify
          /\ toVerify' = Pop(toVerify, id)
          /\ msg'[a].id = id /\ msg'[a].ttl = toVerify[id].ttl
          /\ \A t \in Tasks : t # a => pc'[t] = pc[t] /\ msg'[t] = msg[t]
      BY <1>1 DEF AcceptCompletes, IsValidator, TypeInv, TypeOK
    <2>2. QED
      BY <2>1 DEF TtlInv, TtlAttenuated, Pop, IsRelaying
  <1>2. ASSUME NEW id \in Ids, Vote(a, id), ~AcceptCompletes(a, id)
        PROVE  TtlInv'
    <2>1. UNCHANGED <<heard, pc, msg>>
      BY <1>2 DEF Vote, Rejects, AcceptIgnored, AcceptCounted, taskVars
    <2>2. \A i \in DOMAIN toVerify' :
             i \in DOMAIN toVerify /\ toVerify'[i].ttl = toVerify[i].ttl
      <3>1. CASE Rejects(a, id)
        BY <3>1 DEF Rejects, Pop
      <3>2. CASE AcceptIgnored(a, id)
        BY <3>2 DEF AcceptIgnored
      <3>3. CASE AcceptCounted(a, id)
        BY <3>3 DEF AcceptCounted, TypeInv, TypeOK, Entry
      <3>4. QED
        BY <1>2, <3>1, <3>2, <3>3 DEF Vote
    <2>3. QED
      BY <2>1, <2>2, TtlFrame DEF IsRelaying
  <1>3. ASSUME \/ ApiConnects(a) \/ CloseApi(a) \/ ForwardTask(a)
               \/ \E d \in DataTypes : AddSubscriber(a, d)
               \/ \E id \in Ids, ttl \in Ttls : HandleGossipAnnounce(a, id, ttl)
        PROVE  TtlInv'
    <2>1. /\ UNCHANGED <<heard, toVerify>>
          /\ \A t \in Tasks : t # a => pc'[t] = pc[t] /\ msg'[t] = msg[t]
          /\ IsRelaying(a)' => IsRelaying(a) /\ msg'[a] = msg[a]
      BY <1>3
      DEF ApiConnects, CloseApi, AddSubscriber, HandleGossipAnnounce,
          ForwardTask, GetPullPeers, GetPeerSample, SendPeerAnnounce,
          SendPeerAnnounceFails, SentToAll, Done, IsRelaying, taskVars, history, TypeInv, TypeOK
    <2>2. QED
      BY <2>1, TtlFrame DEF IsRelaying
  <1>4. QED
    BY <1>1, <1>2, <1>3

\* No instance turns a limited message into an unlimited one or gives it more
\* hops than its sender did (handle_peer_announce).
THEOREM TtlsAttenuate == Spec => []TtlAttenuated
  <1>1. Init => TtlInv
    BY DEF Init, TtlInv, TtlAttenuated, IsRelaying
  <1>2. TypeInv /\ TtlInv /\ [Next]_vars => TtlInv'
    <2>1. ASSUME TypeInv, TtlInv, Next, ~EvictionBlocks PROVE TtlInv'
      BY <2>1, TtlPeerStep, TtlApiStep DEF Next
    <2>0. ASSUME TypeInv, TtlInv, EvictionBlocks PROVE TtlInv'
      BY <2>0
      DEF EvictionBlocks, TtlInv, TtlAttenuated, IsRelaying, taskVars, history
    <2>2. ASSUME TypeInv, TtlInv, UNCHANGED vars PROVE TtlInv'
      BY <2>2 DEF vars, TtlInv, TtlAttenuated, IsRelaying
    <2>3. QED
      BY <2>0, <2>1, <2>2
  <1>3. TtlInv => TtlAttenuated
    BY DEF TtlInv
  <1>4. QED
    BY TypeInit, TypeStep, <1>1, <1>2, <1>3, PTL DEF Spec

-----------------------------------------------------------------------------
(***************************************************************************)
(* Loops.  An accepted id gives one permission to send it on.  The         *)
(* permission is with the task that accepted the id, then with the entry   *)
(* in announces_to_verify, then with the task of the API user who answered *)
(* last; it is lost when the message is dropped, refused, or when a newer  *)
(* entry replaces its entry; it is used up when a sample is drawn.  An id  *)
(* is accepted only when it is not known, and it stops being known only    *)
(* by an eviction.                                                         *)
(***************************************************************************)
Permissions(id) ==
    {t \in Tasks : /\ pc[t] \in {"subs", "store", "sample", "push"}
                   /\ msg[t].id = id}
        \cup {e \in {NoTask} : id \in DOMAIN toVerify}

PermissionsCounted ==
    \A id \in Ids : /\ IsFiniteSet(Permissions(id))
                    /\ relays[id] + Cardinality(Permissions(id)) <= accepts[id]

ResidencyCounted ==
    \A id \in Ids :
        accepts[id] <= evictions[id] + IF id \in knownIds THEN 1 ELSE 0

LoopInv == PermissionsCounted /\ ResidencyCounted

\* One element more.
LEMMA OneMore ==
    ASSUME NEW S, NEW x, IsFiniteSet(S)
    PROVE  /\ IsFiniteSet(S \cup {x})
           /\ Cardinality(S) \in Nat
           /\ Cardinality(S \cup {x}) <= Cardinality(S) + 1
  <1>1. Cardinality(S) \in Nat
    BY FS_CardinalityType
  <1>2. /\ IsFiniteSet(S \cup {x})
        /\ Cardinality(S \cup {x}) =
              IF x \in S THEN Cardinality(S) ELSE Cardinality(S) + 1
    BY FS_AddElement
  <1>3. QED
    BY <1>1, <1>2

\* Permissions that are lost or handed on do not become more.
LEMMA FewerPermissions ==
    ASSUME NEW S, NEW T, IsFiniteSet(S),
           \/ T \subseteq S
           \/ \E x \in S : \E y : T \subseteq (S \ {x}) \cup {y}
    PROVE  /\ IsFiniteSet(T)
           /\ Cardinality(T) \in Nat /\ Cardinality(S) \in Nat
           /\ Cardinality(T) <= Cardinality(S)
  <1>1. CASE T \subseteq S
    BY <1>1, FS_Subset, FS_CardinalityType
  <1>2. ASSUME NEW x \in S, NEW y, T \subseteq (S \ {x}) \cup {y}
        PROVE  /\ IsFiniteSet(T)
               /\ Cardinality(T) <= Cardinality(S)
    <2>1. /\ IsFiniteSet(S \ {x})
          /\ Cardinality(S \ {x}) = Cardinality(S) - 1
      BY FS_RemoveElement
    <2>2. /\ IsFiniteSet((S \ {x}) \cup {y})
          /\ Cardinality((S \ {x}) \cup {y}) <= Cardinality(S)
      <3> DEFINE R == S \ {x}
      <3>1. IsFiniteSet(R) /\ Cardinality(R) = Cardinality(S) - 1
        BY <2>1
      <3> HIDE DEF R
      <3>2. /\ IsFiniteSet(R \cup {y})
            /\ Cardinality(R \cup {y}) <= Cardinality(S)
        <4>1. /\ IsFiniteSet(R \cup {y})
              /\ Cardinality(R) \in Nat
              /\ Cardinality(R \cup {y}) <= Cardinality(R) + 1
          BY <3>1, OneMore
        <4>2. Cardinality(S) \in Nat
          BY FS_CardinalityType
        <4>3. QED
          BY <3>1, <4>1, <4>2, FS_CardinalityType
      <3>3. QED
        BY <3>2 DEF R
    <2>3. /\ IsFiniteSet(T)
          /\ Cardinality(T) <= Cardinality((S \ {x}) \cup {y})
      BY <1>2, <2>2, FS_Subset
    <2>4. QED
      BY <2>2, <2>3, FS_CardinalityType
  <1>3. QED
    BY <1>1, <1>2, FS_CardinalityType

\* A step that accepts nothing, sends nothing on, and only hands on or loses
\* permissions.
LEMMA LoopFrame ==
    ASSUME TypeInv, LoopInv,
           UNCHANGED <<knownIds, accepts, evictions, relays>>,
           \A id \in Ids :
               \/ Permissions(id)' \subseteq Permissions(id)
               \/ \E x \in Permissions(id) : \E y :
                     Permissions(id)' \subseteq (Permissions(id) \ {x}) \cup {y}
    PROVE  LoopInv'
  <1>1. ASSUME NEW id \in Ids
        PROVE  /\ IsFiniteSet(Permissions(id)')
               /\ relays'[id] + Cardinality(Permissions(id)') <= accepts'[id]
    <2>1. /\ IsFiniteSet(Permissions(id))
          /\ relays[id] + Cardinality(Permissions(id)) <= accepts[id]
          /\ relays[id] \in Nat /\ accepts[id] \in Nat
      BY DEF LoopInv, PermissionsCounted, TypeInv, TypeOK
    <2>2. /\ IsFiniteSet(Permissions(id)')
          /\ Cardinality(Permissions(id)') \in Nat
          /\ Cardinality(Permissions(id)) \in Nat
          /\ Cardinality(Permissions(id)') <= Cardinality(Permissions(id))
      BY <2>1, FewerPermissions
    <2>3. QED
      BY <2>1, <2>2
  <1>2. QED
    BY <1>1 DEF LoopInv, PermissionsCounted, ResidencyCounted

\* Accepting an id that was not known.
LEMMA LoopAccept ==
    ASSUME TypeInv, LoopInv, NEW t \in Tasks, NEW id \in Ids,
           id \notin knownIds, AddPeerAnnounceId(id), UNCHANGED relays,
           Permissions(id)' \subseteq Permissions(id) \cup {t},
           \A i \in Ids : i # id => Permissions(i)' \subseteq Permissions(i)
    PROVE  LoopInv'
  <1>1. /\ accepts'[id] = accepts[id] + 1
        /\ \A i \in Ids : i # id => accepts'[i] = accepts[i]
        /\ \A i \in Ids : accepts[i] \in Nat /\ relays[i] \in Nat
                             /\ evictions[i] \in Nat
    BY DEF AddPeerAnnounceId, TypeInv, TypeOK
  <1>2. ASSUME NEW i \in Ids
        PROVE  /\ IsFiniteSet(Permissions(i)')
               /\ relays'[i] + Cardinality(Permissions(i)') <= accepts'[i]
    <2>1. /\ IsFiniteSet(Permissions(i))
          /\ relays[i] + Cardinality(Permissions(i)) <= accepts[i]
      BY DEF LoopInv, PermissionsCounted
    <2>2. CASE i # id
      BY <1>1, <2>1, <2>2, FewerPermissions
    <2>3. CASE i = id
      <3>1. /\ IsFiniteSet(Permissions(i) \cup {t})
            /\ Cardinality(Permissions(i) \cup {t})
                  <= Cardinality(Permissions(i)) + 1
        BY <2>1, OneMore
      <3>2. /\ IsFiniteSet(Permissions(i)')
            /\ Cardinality(Permissions(i)')
                  <= Cardinality(Permissions(i) \cup {t})
            /\ Cardinality(Permissions(i)') \in Nat
            /\ Cardinality(Permissions(i) \cup {t}) \in Nat
        BY <2>3, <3>1, FewerPermissions
      <3>3. Cardinality(Permissions(i)) \in Nat
        BY <2>1, FS_CardinalityType
      <3>4. QED
        BY <1>1, <2>1, <2>3, <3>1, <3>2, <3>3
    <2>4. QED
      BY <2>2, <2>3
  <1>3. ASSUME NEW i \in Ids
        PROVE  accepts'[i] <= evictions'[i] + IF i \in knownIds' THEN 1 ELSE 0
    <2>1. accepts[i] <= evictions[i] + IF i \in knownIds THEN 1 ELSE 0
      BY DEF LoopInv, ResidencyCounted
    <2>2. CASE knownIds' = knownIds \cup {id} /\ UNCHANGED evictions
      BY <1>1, <2>1, <2>2
    <2>3. ASSUME NEW e \in knownIds,
                 knownIds' = (knownIds \ {e}) \cup {id},
                 evictions' = [evictions EXCEPT ![e] = @ + 1]
          PROVE  accepts'[i] <= evictions'[i]
                                   + IF i \in knownIds' THEN 1 ELSE 0
      <3>1. /\ e \in Ids /\ e # id
            /\ evictions'[e] = evictions[e] + 1
            /\ \A j \in Ids : j # e => evictions'[j] = evictions[j]
        BY <2>3 DEF TypeInv, TypeOK
      <3>2. QED
        BY <1>1, <2>1, <2>3, <3>1
    <2>4. QED
      BY <2>2, <2>3 DEF AddPeerAnnounceId
  <1>4. QED
    BY <1>2, <1>3 DEF LoopInv, PermissionsCounted, ResidencyCounted

\* A step in which nobody gets a permission.
LEMMA NoNewPermission ==
    ASSUME TypeInv, LoopInv,
           UNCHANGED <<knownIds, accepts, evictions, relays>>,
           DOMAIN toVerify' \subseteq DOMAIN toVerify,
           \A t \in Tasks : pc'[t] \in {"subs", "store", "sample", "push"} =>
               /\ pc[t] \in {"subs", "store", "sample", "push"}
               /\ msg'[t].id = msg[t].id
    PROVE  LoopInv'
  <1>1. \A id \in Ids : Permissions(id)' \subseteq Permissions(id)
    BY DEF Permissions
  <1>2. QED
    BY <1>1, LoopFrame

LEMMA LoopPeerStep ==
    ASSUME TypeInv, LoopInv, NEW p \in Peers,
           \/ PeerJoins(p) \/ PeerLeaves(p) \/ PeerTask(p)
           \/ \E id \in Ids, ttl \in Ttls : HandlePeerAnnounce(p, id, ttl)
    PROVE  LoopInv'
  <1> USE TasksAssumption
  <1>1. ASSUME NEW id \in Ids, NEW ttl \in Ttls, HandlePeerAnnounce(p, id, ttl)
        PROVE  LoopInv'
    <2>1. /\ UNCHANGED <<toVerify, relays>>
          /\ id \notin knownIds /\ AddPeerAnnounceId(id)
          /\ msg'[p].id = id
          /\ \A t \in Tasks : t # p => pc'[t] = pc[t] /\ msg'[t] = msg[t]
      BY <1>1 DEF HandlePeerAnnounce, KnownId, TypeInv, TypeOK
    <2>2. Permissions(id)' \subseteq Permissions(id) \cup {p}
      BY <2>1 DEF Permissions
    <2>3. \A i \in Ids : i # id => Permissions(i)' \subseteq Permissions(i)
      BY <2>1 DEF Permissions
    <2>4. QED
      BY <2>1, <2>2, <2>3, LoopAccept
  <1>2. CASE StoreAnnounce(p)
    <2> DEFINE m == msg[p]
    <2>1. /\ UNCHANGED <<knownIds, accepts, evictions, relays, msg>>
          /\ DOMAIN toVerify' = DOMAIN toVerify \cup {m.id}
          /\ pc[p] = "store" /\ pc'[p] = "notify"
          /\ \A t \in Tasks : t # p => pc'[t] = pc[t]
      BY <1>2 DEF StoreAnnounce, Put, TypeInv, TypeOK
    <2>2. ASSUME NEW id \in Ids, id # m.id
          PROVE  Permissions(id)' \subseteq Permissions(id)
      BY <2>1, <2>2 DEF Permissions
    <2>3. /\ p \in Permissions(m.id)
          /\ Permissions(m.id)' \subseteq (Permissions(m.id) \ {p}) \cup {NoTask}
      BY <2>1 DEF Permissions
    <2>4. QED
      BY <2>1, <2>2, <2>3, LoopFrame
  <1>3. ASSUME \/ PeerJoins(p) \/ PeerLeaves(p)
               \/ PeerTask(p) /\ ~StoreAnnounce(p)
        PROVE  LoopInv'
    <2>1. /\ UNCHANGED <<knownIds, accepts, evictions, relays, toVerify>>
          /\ \A t \in Tasks : t # p => pc'[t] = pc[t] /\ msg'[t] = msg[t]
          /\ pc'[p] \in {"subs", "store", "sample", "push"} =>
                /\ pc[p] \in {"subs", "store", "sample", "push"}
                /\ msg'[p] = msg[p]
      BY <1>3
      DEF PeerJoins, PeerLeaves, PeerTask, EndHere, LookUpSubscribers,
          SendGossipNotificationFails, NotifiedAll, SendGossipNotification,
          Done, taskVars, history, TypeInv, TypeOK
    <2>2. QED
      BY <2>1, NoNewPermission
  <1>4. QED
    BY <1>1, <1>2, <1>3

LEMMA LoopApiStep ==
    ASSUME TypeInv, LoopInv, NEW a \in Apis,
           \/ ApiConnects(a) \/ CloseApi(a) \/ ForwardTask(a)
           \/ \E d \in DataTypes : AddSubscriber(a, d)
           \/ \E id \in Ids, ttl \in Ttls : HandleGossipAnnounce(a, id, ttl)
           \/ \E id \in Ids : Vote(a, id)
    PROVE  LoopInv'
  <1> USE TasksAssumption
  <1>1. ASSUME NEW id \in Ids, NEW ttl \in Ttls,
               HandleGossipAnnounce(a, id, ttl)
        PROVE  LoopInv'
    <2>1. /\ UNCHANGED <<toVerify, relays>>
          /\ id \notin knownIds /\ AddPeerAnnounceId(id)
          /\ msg'[a].id = id
          /\ \A t \in Tasks : t # a => pc'[t] = pc[t] /\ msg'[t] = msg[t]
      BY <1>1 DEF HandleGossipAnnounce, KnownId, TypeInv, TypeOK
    <2>2. Permissions(id)' \subseteq Permissions(id) \cup {a}
      BY <2>1 DEF Permissions
    <2>3. \A i \in Ids : i # id => Permissions(i)' \subseteq Permissions(i)
      BY <2>1 DEF Permissions
    <2>4. QED
      BY <2>1, <2>2, <2>3, LoopAccept
  <1>2. ASSUME NEW id \in Ids, AcceptCompletes(a, id) PROVE LoopInv'
    <2>1. /\ UNCHANGED <<knownIds, accepts, evictions, relays>>
          /\ id \in DOMAIN toVerify
          /\ DOMAIN toVerify' = DOMAIN toVerify \ {id}
          /\ pc[a] = "read" /\ pc'[a] = "sample" /\ msg'[a].id = id
          /\ \A t \in Tasks : t # a => pc'[t] = pc[t] /\ msg'[t] = msg[t]
      BY <1>2
      DEF AcceptCompletes, Answers, IsValidator, Pop, TypeInv, TypeOK
    <2>2. ASSUME NEW i \in Ids, i # id
          PROVE  Permissions(i)' \subseteq Permissions(i)
      BY <2>1, <2>2 DEF Permissions
    <2>3. /\ NoTask \in Permissions(id)
          /\ Permissions(id)' \subseteq (Permissions(id) \ {NoTask}) \cup {a}
      BY <2>1 DEF Permissions
    <2>4. QED
      BY <2>1, <2>2, <2>3, LoopFrame
  <1>3. ASSUME NEW sample \in Samples(a), GetPeerSample(a, sample)
        PROVE  LoopInv'
    <2> DEFINE id == msg[a].id
    <2>1. /\ UNCHANGED <<knownIds, accepts, evictions, toVerify, msg>>
          /\ id \in Ids
          /\ relays'[id] = relays[id] + 1
          /\ \A i \in Ids : i # id => relays'[i] = relays[i]
          /\ pc[a] = "push" /\ pc'[a] = "forward"
          /\ \A t \in Tasks : t # a => pc'[t] = pc[t]
      BY <1>3 DEF GetPeerSample, TypeInv, TypeOK, Message
    <2>2. /\ a \in Permissions(id)
          /\ Permissions(id)' \subseteq Permissions(id) \ {a}
          /\ \A i \in Ids : Permissions(i)' \subseteq Permissions(i)
      BY <2>1 DEF Permissions
    <2>3. ASSUME NEW i \in Ids
          PROVE  /\ IsFiniteSet(Permissions(i)')
                 /\ relays'[i] + Cardinality(Permissions(i)') <= accepts'[i]
      <3>1. /\ IsFiniteSet(Permissions(i))
            /\ relays[i] + Cardinality(Permissions(i)) <= accepts[i]
            /\ relays[i] \in Nat /\ accepts[i] \in Nat
        BY DEF LoopInv, PermissionsCounted, TypeInv, TypeOK
      <3>2. CASE i # id
        BY <2>1, <2>2, <3>1, <3>2, FewerPermissions
      <3>3. CASE i = id
        <4>1. /\ IsFiniteSet(Permissions(id) \ {a})
              /\ Cardinality(Permissions(id) \ {a}) =
                    Cardinality(Permissions(id)) - 1
          BY <2>2, <3>1, <3>3, FS_RemoveElement
        <4>2. /\ IsFiniteSet(Permissions(id)')
              /\ Cardinality(Permissions(id)') \in Nat
              /\ Cardinality(Permissions(id) \ {a}) \in Nat
              /\ Cardinality(Permissions(id)')
                    <= Cardinality(Permissions(id) \ {a})
          BY <2>2, <4>1, FewerPermissions
        <4>3. Cardinality(Permissions(id)) \in Nat
          BY <3>1, <3>3, FS_CardinalityType
        <4>4. QED
          BY <2>1, <3>1, <3>3, <4>1, <4>2, <4>3
      <3>4. QED
        BY <3>2, <3>3
    <2>4. QED
      BY <2>1, <2>3 DEF LoopInv, PermissionsCounted, ResidencyCounted
  <1>4. ASSUME NEW id \in Ids, Vote(a, id), ~AcceptCompletes(a, id)
        PROVE  LoopInv'
    <2>1. /\ UNCHANGED <<knownIds, accepts, evictions, relays, pc, msg>>
          /\ DOMAIN toVerify' \subseteq DOMAIN toVerify
      BY <1>4 DEF Vote, Rejects, AcceptIgnored, AcceptCounted, Pop, taskVars
    <2>2. QED
      BY <2>1, NoNewPermission
  <1>5. ASSUME \/ ApiConnects(a) \/ CloseApi(a)
               \/ ForwardTask(a)
                  /\ ~ \E sample \in Samples(a) : GetPeerSample(a, sample)
               \/ \E d \in DataTypes : AddSubscriber(a, d)
        PROVE  LoopInv'
    <2>1. /\ UNCHANGED <<knownIds, accepts, evictions, relays, toVerify>>
          /\ \A t \in Tasks : t # a => pc'[t] = pc[t] /\ msg'[t] = msg[t]
          /\ pc'[a] \in {"subs", "store", "sample", "push"} =>
                /\ pc[a] \in {"subs", "store", "sample", "push"}
                /\ msg'[a] = msg[a]
      BY <1>5
      DEF ApiConnects, CloseApi, AddSubscriber, ForwardTask, GetPullPeers,
          SendPeerAnnounce, SendPeerAnnounceFails, SentToAll, Done, taskVars, history, TypeInv,
          TypeOK
    <2>2. QED
      BY <2>1, NoNewPermission
  <1>6. QED
    BY <1>1, <1>2, <1>3, <1>4, <1>5

\* Between two evictions of an id every instance accepts it, and sends it on,
\* at most once, however many peers and API users deliver it at once.
THEOREM NoLoop == Spec => []RelayedOncePerResidency
  <1>1. Init => LoopInv
    <2> SUFFICES ASSUME Init PROVE LoopInv
      OBVIOUS
    <2>1. \A id \in Ids : Permissions(id) = {}
      BY DEF Init, Permissions
    <2>2. \A id \in Ids : /\ IsFiniteSet(Permissions(id))
                          /\ Cardinality(Permissions(id)) = 0
      BY <2>1, FS_EmptySet
    <2>3. \A id \in Ids : relays[id] = 0 /\ accepts[id] = 0 /\ evictions[id] = 0
      BY DEF Init
    <2>4. QED
      BY <2>2, <2>3 DEF LoopInv, PermissionsCounted, ResidencyCounted
  <1>2. TypeInv /\ LoopInv /\ [Next]_vars => LoopInv'
    <2>1. ASSUME TypeInv, LoopInv, Next, ~EvictionBlocks PROVE LoopInv'
      BY <2>1, LoopPeerStep, LoopApiStep DEF Next
    <2>0. ASSUME TypeInv, LoopInv, EvictionBlocks PROVE LoopInv'
      BY <2>0, NoNewPermission DEF EvictionBlocks, taskVars, history
    <2>2. ASSUME TypeInv, LoopInv, UNCHANGED vars PROVE LoopInv'
      BY <2>2, NoNewPermission DEF vars
    <2>3. QED
      BY <2>0, <2>1, <2>2
  <1>3. TypeInv /\ LoopInv => RelayedOncePerResidency
    <2> SUFFICES ASSUME TypeInv, LoopInv, NEW id \in Ids
                 PROVE  /\ accepts[id] <= evictions[id] + 1
                        /\ relays[id] <= evictions[id] + 1
      BY DEF RelayedOncePerResidency
    <2>1. Cardinality(Permissions(id)) \in Nat
      BY FS_CardinalityType DEF LoopInv, PermissionsCounted
    <2>2. accepts[id] \in Nat /\ evictions[id] \in Nat /\ relays[id] \in Nat
      BY DEF TypeInv, TypeOK
    <2>3. relays[id] + Cardinality(Permissions(id)) <= accepts[id]
      BY DEF LoopInv, PermissionsCounted
    <2>4. accepts[id] <= evictions[id] + IF id \in knownIds THEN 1 ELSE 0
      BY DEF LoopInv, ResidencyCounted
    <2>5. QED
      BY <2>1, <2>2, <2>3, <2>4
  <1>4. QED
    BY TypeInit, TypeStep, <1>1, <1>2, <1>3, PTL DEF Spec

=============================================================================
