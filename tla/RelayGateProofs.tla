--------------------------- MODULE RelayGateProofs ---------------------------
(***************************************************************************)
(* AnnounceRouting implements RelayGate, for every set of API users, peers *)
(* and ids, every capacity and every degree: each step of a task is a step *)
(* of the gate, or one the gate does not see.                              *)
(*                                                                         *)
(* The gate counts announcements; here they are tasks at certain places    *)
(* and keys of announces_to_verify.  The connections need not be finitely  *)
(* many, but the tasks that handle one id always are (CountsFinite): that, *)
(* the types and the unanimity of what is being relayed (RelayInv) is the  *)
(* invariant under which the steps correspond.                             *)
(***************************************************************************)
EXTENDS AnnounceRoutingProofs

USE DEF Tasks, peerVars

\* What the gate's mine[id] and open[id] are here.
MineCount(id) == Cardinality(Unsent(id))
OpenCount(id) ==
    Cardinality(Undecided(id)) + (IF id \in DOMAIN toVerify THEN 1 ELSE 0)

Mine == [id \in Ids |-> MineCount(id)]
Open == [id \in Ids |-> OpenCount(id)]

CountsFinite ==
    \A id \in Ids : IsFiniteSet(Undecided(id)) /\ IsFiniteSet(Unsent(id))

One(condition) == IF condition THEN 1 ELSE 0

\* Sets that differ in one element at most.
Apart(S, T, x) == \A y : y # x => (y \in S <=> y \in T)

LEMMA CountChanges ==
    ASSUME NEW S, NEW T, NEW x, IsFiniteSet(S), Apart(S, T, x)
    PROVE  /\ IsFiniteSet(T)
           /\ Cardinality(S) \in Nat /\ Cardinality(T) \in Nat
           /\ Cardinality(T) = Cardinality(S) + One(x \in T) - One(x \in S)
  <1> DEFINE R == S \ {x}
  <1>1. /\ IsFiniteSet(R) /\ x \notin R
        /\ Cardinality(R) = Cardinality(S) - One(x \in S)
    BY FS_RemoveElement, FS_CardinalityType DEF One
  <1>2. T = R \/ T = R \cup {x}
    BY DEF Apart
  <1>3. x \in T <=> T # R
    BY <1>1, <1>2
  <1> HIDE DEF R
  <1>4. /\ IsFiniteSet(R \cup {x})
        /\ Cardinality(R \cup {x}) = Cardinality(R) + 1
    BY <1>1, FS_AddElement
  <1>5. /\ IsFiniteSet(T)
        /\ Cardinality(T) = Cardinality(R) + One(x \in T)
    <2>1. CASE x \in T
      BY <1>2, <1>3, <1>4, <2>1 DEF One
    <2>2. CASE x \notin T
      <3>1. Cardinality(R) \in Nat
        BY <1>1, FS_CardinalityType
      <3>2. QED
        BY <1>1, <1>3, <2>2, <3>1 DEF One
    <2>3. QED
      BY <2>1, <2>2
  <1>6. /\ Cardinality(S) \in Nat /\ Cardinality(T) \in Nat
        /\ Cardinality(R) \in Nat
    BY <1>1, <1>5, FS_CardinalityType
  <1>7. QED
    BY <1>1, <1>5, <1>6 DEF One

LEMMA CountTypes ==
    ASSUME CountsFinite, NEW id \in Ids
    PROVE  MineCount(id) \in Nat /\ OpenCount(id) \in Nat
  BY FS_CardinalityType DEF CountsFinite, MineCount, OpenCount

\* A step of one task changes the counts by what becomes of that task.
OneTaskMoves(t) ==
    \A u \in Tasks : u # t => pc'[u] = pc[u] /\ msg'[u] = msg[u]

LEMMA TaskMovesCounts ==
    ASSUME CountsFinite, NEW t \in Tasks, OneTaskMoves(t), NEW id \in Ids
    PROVE  /\ IsFiniteSet(Undecided(id)') /\ IsFiniteSet(Unsent(id)')
           /\ MineCount(id) \in Nat /\ OpenCount(id) \in Nat
           /\ MineCount(id)' \in Nat /\ OpenCount(id)' \in Nat
           /\ MineCount(id)' = MineCount(id) + One(t \in Unsent(id)')
                                             - One(t \in Unsent(id))
           /\ OpenCount(id)' = OpenCount(id)
                  + One(t \in Undecided(id)') - One(t \in Undecided(id))
                  + One(id \in DOMAIN toVerify') - One(id \in DOMAIN toVerify)
  <1>1. /\ Apart(Undecided(id), Undecided(id)', t)
        /\ Apart(Unsent(id), Unsent(id)', t)
    BY DEF Apart, Undecided, Unsent, OneTaskMoves
  <1>2. IsFiniteSet(Undecided(id)) /\ IsFiniteSet(Unsent(id))
    BY DEF CountsFinite
  <1>3. /\ IsFiniteSet(Undecided(id)')
        /\ Cardinality(Undecided(id)) \in Nat
        /\ Cardinality(Undecided(id)') \in Nat
        /\ Cardinality(Undecided(id)') = Cardinality(Undecided(id))
              + One(t \in Undecided(id)') - One(t \in Undecided(id))
    BY <1>1, <1>2, CountChanges DEF One
  <1>4. /\ IsFiniteSet(Unsent(id)')
        /\ Cardinality(Unsent(id)) \in Nat
        /\ Cardinality(Unsent(id)') \in Nat
        /\ Cardinality(Unsent(id)') = Cardinality(Unsent(id))
              + One(t \in Unsent(id)') - One(t \in Unsent(id))
    BY <1>1, <1>2, CountChanges DEF One
  <1>5. QED
    BY <1>3, <1>4 DEF MineCount, OpenCount, One

-----------------------------------------------------------------------------
(***************************************************************************)
(* What a step of one task does to the gate's two counters, read off from  *)
(* where the task was and is, and from the keys of announces_to_verify.    *)
(***************************************************************************)
SamePlaces(t, id) ==
    /\ t \in Unsent(id)' <=> t \in Unsent(id)
    /\ t \in Undecided(id)' <=> t \in Undecided(id)
    /\ id \in DOMAIN toVerify' <=> id \in DOMAIN toVerify

\* A step of task t that concerns no announcement but those with this id.
Concerns(t, id) ==
    OneTaskMoves(t) /\ \A i \in Ids : i # id => SamePlaces(t, i)

AddsMine(id) == Mine' = [Mine EXCEPT ![id] = @ + 1]
TakesMine(id) == Mine[id] > 0 /\ Mine' = [Mine EXCEPT ![id] = @ - 1]
AddsOpen(id) == Open' = [Open EXCEPT ![id] = @ + 1]
TakesOpen(id) == Open[id] > 0 /\ Open' = [Open EXCEPT ![id] = @ - 1]

MineGain(t, id) == One(t \in Unsent(id)') - One(t \in Unsent(id))
OpenGain(t, id) ==
    One(t \in Undecided(id)') - One(t \in Undecided(id))
        + One(id \in DOMAIN toVerify') - One(id \in DOMAIN toVerify)

LEMMA OneValueMoves ==
    ASSUME NEW f \in [Ids -> Nat], NEW g \in [Ids -> Nat], NEW id \in Ids,
           NEW n \in Int, g[id] = f[id] + n,
           \A i \in Ids : i # id => g[i] = f[i]
    PROVE  /\ n = 1 => g = [f EXCEPT ![id] = @ + 1]
           /\ n = 0 => g = f
           /\ n = -1 => f[id] > 0 /\ g = [f EXCEPT ![id] = @ - 1]
  OBVIOUS

LEMMA GainsCount ==
    ASSUME CountsFinite, NEW t \in Tasks, NEW id \in Ids, Concerns(t, id)
    PROVE  /\ MineGain(t, id) = 1 => AddsMine(id)
           /\ MineGain(t, id) = 0 => UNCHANGED Mine
           /\ MineGain(t, id) = -1 => TakesMine(id)
           /\ OpenGain(t, id) = 1 => AddsOpen(id)
           /\ OpenGain(t, id) = 0 => UNCHANGED Open
           /\ OpenGain(t, id) = -1 => TakesOpen(id)
  <1>1. OneTaskMoves(t)
    BY DEF Concerns
  <1>2. /\ MineCount(id) \in Nat /\ OpenCount(id) \in Nat
        /\ MineCount(id)' \in Nat /\ OpenCount(id)' \in Nat
        /\ MineCount(id)' = MineCount(id) + MineGain(t, id)
        /\ OpenCount(id)' = OpenCount(id) + OpenGain(t, id)
    BY <1>1, TaskMovesCounts DEF MineGain, OpenGain, One
  <1>3. ASSUME NEW i \in Ids, i # id
        PROVE  /\ MineCount(i)' = MineCount(i)
               /\ OpenCount(i)' = OpenCount(i)
    <2>1. SamePlaces(t, i)
      BY <1>3 DEF Concerns
    <2>2. QED
      BY <1>1, <2>1, TaskMovesCounts DEF SamePlaces, One
  <1>4. MineGain(t, id) \in Int /\ OpenGain(t, id) \in Int
    BY DEF MineGain, OpenGain, One
  <1>5. ASSUME NEW i \in Ids
        PROVE  /\ Mine[i] = MineCount(i) /\ Mine'[i] = MineCount(i)'
               /\ Open[i] = OpenCount(i) /\ Open'[i] = OpenCount(i)'
    BY DEF Mine, Open
  <1>6. /\ Mine \in [Ids -> Nat] /\ Mine' \in [Ids -> Nat]
        /\ Open \in [Ids -> Nat] /\ Open' \in [Ids -> Nat]
    <2>1. ASSUME NEW i \in Ids
          PROVE  /\ MineCount(i) \in Nat /\ MineCount(i)' \in Nat
                 /\ OpenCount(i) \in Nat /\ OpenCount(i)' \in Nat
      BY <1>1, TaskMovesCounts
    <2>2. QED
      BY <2>1 DEF Mine, Open
  <1>7. /\ MineGain(t, id) = 1 => AddsMine(id)
        /\ MineGain(t, id) = 0 => UNCHANGED Mine
        /\ MineGain(t, id) = -1 => TakesMine(id)
    <2>1. /\ Mine'[id] = Mine[id] + MineGain(t, id)
          /\ \A i \in Ids : i # id => Mine'[i] = Mine[i]
      BY <1>2, <1>3, <1>5
    <2>2. QED
      BY <1>4, <1>6, <2>1, OneValueMoves DEF AddsMine, TakesMine
  <1>8. /\ OpenGain(t, id) = 1 => AddsOpen(id)
        /\ OpenGain(t, id) = 0 => UNCHANGED Open
        /\ OpenGain(t, id) = -1 => TakesOpen(id)
    <2>1. /\ Open'[id] = Open[id] + OpenGain(t, id)
          /\ \A i \in Ids : i # id => Open'[i] = Open[i]
      BY <1>2, <1>3, <1>5
    <2>2. QED
      BY <1>4, <1>6, <2>1, OneValueMoves DEF AddsOpen, TakesOpen
  <1>9. QED
    BY <1>7, <1>8

\* A step that moves no announcement and casts no vote.
LEMMA GateStutters ==
    ASSUME CountsFinite, NEW t \in Tasks, OneTaskMoves(t),
           \A i \in Ids : SamePlaces(t, i)
    PROVE  UNCHANGED <<Mine, Open>>
  <1>1. ASSUME NEW i \in Ids
        PROVE  MineCount(i)' = MineCount(i) /\ OpenCount(i)' = OpenCount(i)
    <2>1. SamePlaces(t, i)
      OBVIOUS
    <2>2. QED
      BY <2>1, TaskMovesCounts DEF SamePlaces, One
  <1>2. QED
    BY <1>1 DEF Mine, Open

-----------------------------------------------------------------------------
(* The steps of the gate.                                                  *)

LEMMA IdIsLearnt ==
    ASSUME NEW id \in Ids, ~KnownId(id), AddPeerAnnounceId(id)
    PROVE  Gate!Learn(id)
  BY DEF KnownId, AddPeerAnnounceId, Gate!Learn

LEMMA OwnIsAccepted ==
    ASSUME TypeInv, CountsFinite, NEW a \in Apis, NEW id \in Ids,
           NEW ttl \in Ttls, HandleGossipAnnounce(a, id, ttl)
    PROVE  Gate!AcceptOwn(id)
  <1>1. /\ pc[a] = "read" /\ pc'[a] = "sample"
        /\ msg'[a].id = id /\ msg'[a].from = NoTask
        /\ OneTaskMoves(a)
        /\ UNCHANGED toVerify
    BY DEF HandleGossipAnnounce, OneTaskMoves, TypeInv, TypeOK
  <1>2. a \in Tasks /\ a \notin Peers
    BY TasksAssumption
  <1>3. Concerns(a, id)
    BY <1>1, <1>2 DEF Concerns, SamePlaces, Unsent, Undecided
  <1>4. MineGain(a, id) = 1 /\ OpenGain(a, id) = 0
    BY <1>1, <1>2 DEF MineGain, OpenGain, One, Unsent, Undecided
  <1>5. AddsMine(id) /\ UNCHANGED Open
    BY <1>2, <1>3, <1>4, GainsCount
  <1>6. Gate!Learn(id) /\ UNCHANGED <<ballot, agreed, refused, relays>>
    BY IdIsLearnt DEF HandleGossipAnnounce, voteVars
  <1>7. QED
    BY <1>5, <1>6
    DEF Gate!AcceptOwn, AddsMine, Mine, MineCount, Open, OpenCount

LEMMA PeersIsAccepted ==
    ASSUME TypeInv, CountsFinite, NEW p \in Peers, NEW id \in Ids,
           NEW ttl \in Ttls, HandlePeerAnnounce(p, id, ttl)
    PROVE  Gate!AcceptPeer(id)
  <1>1. /\ pc[p] = "read" /\ pc'[p] \in {"last", "subs"}
        /\ msg'[p].id = id
        /\ OneTaskMoves(p)
        /\ UNCHANGED toVerify
    BY DEF HandlePeerAnnounce, OneTaskMoves, TypeInv, TypeOK
  <1>2. p \in Tasks /\ p \notin Apis
    BY TasksAssumption
  <1>3. Concerns(p, id)
    BY <1>1, <1>2 DEF Concerns, SamePlaces, Unsent, Undecided
  <1>4. MineGain(p, id) = 0 /\ OpenGain(p, id) = 1
    BY <1>1, <1>2 DEF MineGain, OpenGain, One, Unsent, Undecided
  <1>5. AddsOpen(id) /\ UNCHANGED Mine
    BY <1>2, <1>3, <1>4, GainsCount
  <1>6. Gate!Learn(id) /\ UNCHANGED <<ballot, agreed, refused, relays>>
    BY IdIsLearnt DEF HandlePeerAnnounce, voteVars
  <1>7. QED
    BY <1>5, <1>6
    DEF Gate!AcceptPeer, AddsOpen, Mine, MineCount, Open, OpenCount

\* The gate does not see a step that touches neither votes nor ids and moves
\* no announcement.
Unseen == UNCHANGED <<knownIds, Mine, Open, ballot, agreed, refused, relays>>

LEMMA UnseenStutters == Unseen => UNCHANGED Gate!gateVars
  BY DEF Unseen, Gate!gateVars, Mine, MineCount, Open, OpenCount

LEMMA Discards ==
    ASSUME TypeInv, CountsFinite, NEW p \in Peers, NEW id \in Ids,
           msg[p].id = id, pc[p] \in {"last", "subs"},
           pc'[p] \in {"read", "closed"}, OneTaskMoves(p),
           UNCHANGED <<toVerify, knownIds, ballot, agreed, refused, relays>>
    PROVE  Gate!Drop(id)
  <1>1. p \in Tasks /\ p \notin Apis
    BY TasksAssumption
  <1>2. Concerns(p, id)
    BY <1>1 DEF Concerns, SamePlaces, Unsent, Undecided
  <1>3. MineGain(p, id) = 0 /\ OpenGain(p, id) = -1
    BY <1>1 DEF MineGain, OpenGain, One, Unsent, Undecided
  <1>4. TakesOpen(id) /\ UNCHANGED Mine
    BY <1>1, <1>2, <1>3, GainsCount
  <1>5. QED
    BY <1>4
    DEF Gate!Drop, Gate!OneLess, TakesOpen, Mine, MineCount, Open, OpenCount

\* Storing an entry asks its validators; an entry it replaces is dropped.
LEMMA StoringAsks ==
    ASSUME TypeInv, CountsFinite, NEW p \in Peers, NEW id \in Ids,
           msg[p].id = id, StoreAnnounce(p)
    PROVE  Gate!Ask(id)
  <1> DEFINE subs == datasubs[TypeOf[id]]
  <1>1. p \in Tasks /\ p \notin Apis /\ subs \in ApiList
    BY TasksAssumption DEF StoreAnnounce, TypeInv, TypeOK, StoreReady
  <1>2. /\ pc[p] = "store" /\ pc'[p] = "notify"
        /\ OneTaskMoves(p)
        /\ DOMAIN toVerify' = DOMAIN toVerify \cup {id}
        /\ ballot' = [ballot EXCEPT ![id] = subs]
        /\ agreed' = [agreed EXCEPT ![id] = Nobody]
        /\ refused' = [refused EXCEPT ![id] = FALSE]
        /\ UNCHANGED <<knownIds, relays>>
    BY DEF StoreAnnounce, Put, OneTaskMoves, TypeInv, TypeOK
  <1>3. Concerns(p, id)
    BY <1>1, <1>2 DEF Concerns, SamePlaces, Unsent, Undecided
  <1>4. /\ MineGain(p, id) = 0
        /\ OpenGain(p, id) = IF id \in DOMAIN toVerify THEN -1 ELSE 0
    BY <1>1, <1>2 DEF MineGain, OpenGain, One, Unsent, Undecided
  <1>5. ballot'[id] \in [Apis -> Nat]
    BY <1>1, <1>2 DEF TypeInv, TypeOK, ApiList
  <1>6. ballot' = [ballot EXCEPT ![id] = ballot'[id]]
    BY <1>1, <1>2 DEF TypeInv, TypeOK
  <1> HIDE DEF subs
  <1>7. /\ TakesOpen(id) \/ UNCHANGED Open
        /\ UNCHANGED Mine
    BY <1>1, <1>3, <1>4, GainsCount
  <1>8. Open'[id] > 0
    <2>1. id \in DOMAIN toVerify' /\ IsFiniteSet(Undecided(id)')
      BY <1>1, <1>2, TaskMovesCounts DEF One
    <2>2. Cardinality(Undecided(id)') \in Nat
      BY <2>1, FS_CardinalityType
    <2>3. QED
      BY <1>1, <2>1, <2>2 DEF Open, OpenCount
  <1>9. QED
    BY <1>2, <1>5, <1>6, <1>7, <1>8
    DEF Gate!Ask, Gate!OneLess, Nobody, TakesOpen, Mine, MineCount, Open,
        OpenCount

\* A step of the implementation as the gate sees it.
InGate == Gate!Next \/ UNCHANGED Gate!gateVars

LEMMA GateStep ==
    ASSUME NEW id \in Ids,
           \/ Gate!AcceptOwn(id) \/ Gate!AcceptPeer(id) \/ Gate!Drop(id)
           \/ Gate!Ask(id) \/ Gate!Refuse(id) \/ Gate!RelayOwn(id)
           \/ Gate!RelayPeer(id) \/ \E a \in Apis : Gate!Agree(id, a)
    PROVE  InGate
  BY DEF Gate!Next, InGate

LEMMA UnseenInGate == Unseen => InGate
  BY UnseenStutters DEF InGate

LEMMA PeerTaskInGate ==
    ASSUME TypeInv, CountsFinite, NEW p \in Peers, PeerTask(p)
    PROVE  OneTaskMoves(p) /\ InGate
  <1>1. p \in Tasks /\ p \notin Apis
    BY TasksAssumption
  <1>2. OneTaskMoves(p)
    BY DEF PeerTask, EndHere, LookUpSubscribers, StoreAnnounce,
           SendGossipNotificationFails, NotifiedAll, SendGossipNotification,
           Done, OneTaskMoves, TypeInv, TypeOK
  <1>0. PICK id \in Ids : msg[p].id = id
    BY DEF TypeInv, TypeOK, Message
  <1>3. CASE StoreAnnounce(p)
    BY <1>0, <1>2, <1>3, StoringAsks, GateStep
  <1>4. CASE EndHere(p) \/ (LookUpSubscribers(p) /\ pc'[p] # "store")
    <2>1. /\ pc[p] \in {"last", "subs"} /\ pc'[p] \in {"read", "closed"}
          /\ UNCHANGED <<toVerify, knownIds, ballot, agreed, refused, relays>>
      BY <1>4, DoneTypes
      DEF EndHere, LookUpSubscribers, history, TypeInv, TypeOK
    <2>3. Gate!Drop(id)
      BY <1>0, <1>2, <2>1, Discards
    <2>2. QED
      BY <1>2, <2>3, GateStep
  <1>5. ASSUME \/ (LookUpSubscribers(p) /\ pc'[p] = "store")
               \/ SendGossipNotificationFails(p) \/ NotifiedAll(p)
               \/ \E a \in Apis : SendGossipNotification(p, a)
        PROVE  InGate
    <2>1. /\ UNCHANGED <<knownIds, ballot, agreed, refused, relays, toVerify>>
          /\ \/ /\ pc[p] = "subs" /\ pc'[p] = "store" /\ msg'[p] = msg[p]
             \/ /\ pc[p] = "notify"
                /\ pc'[p] \in {"dead", "read", "closed", "notify"}
      BY <1>5
      DEF LookUpSubscribers, SendGossipNotificationFails, NotifiedAll,
          SendGossipNotification, Done, history, TypeInv, TypeOK
    <2>2. ASSUME NEW i \in Ids PROVE SamePlaces(p, i)
      BY <1>1, <2>1 DEF SamePlaces, Unsent, Undecided
    <2>3. UNCHANGED <<Mine, Open>>
      BY <1>1, <1>2, <2>2, GateStutters
    <2>4. QED
      BY <2>1, <2>3, UnseenInGate DEF Unseen
  <1>6. QED
    BY <1>2, <1>3, <1>4, <1>5 DEF PeerTask

\* A refusal pops the entry, whoever refuses, and drops it that way; an answer
\* that completes a ballot hands the announcement on to the task that sends.
LEMMA VoteInGate ==
    ASSUME TypeInv, CountsFinite, NEW a \in Apis, NEW id \in Ids, Vote(a, id)
    PROVE  OneTaskMoves(a) /\ InGate
  <1>1. a \in Tasks /\ a \notin Peers
    BY TasksAssumption
  <1>2. OneTaskMoves(a)
    BY DEF Vote, Rejects, AcceptIgnored, AcceptCounted, AcceptCompletes,
           taskVars, OneTaskMoves, TypeInv, TypeOK
  <1>3. CASE Rejects(a, id)
    <2>1. /\ DOMAIN toVerify' = DOMAIN toVerify \ {id}
          /\ refused' = [refused EXCEPT ![id] = TRUE]
          /\ UNCHANGED <<pc, msg, knownIds, ballot, agreed, relays>>
      BY <1>3 DEF Rejects, Pop, taskVars
    <2>2. Concerns(a, id)
      BY <1>1, <1>2, <2>1 DEF Concerns, SamePlaces, Unsent, Undecided
    <2>3. /\ MineGain(a, id) = 0
          /\ OpenGain(a, id) = IF id \in DOMAIN toVerify THEN -1 ELSE 0
      BY <1>1, <2>1 DEF MineGain, OpenGain, One, Unsent, Undecided
    <2>4. /\ TakesOpen(id) \/ UNCHANGED Open
          /\ UNCHANGED Mine
      BY <1>1, <2>2, <2>3, GainsCount
    <2>5. Gate!Refuse(id)
      BY <2>1, <2>4
      DEF Gate!Refuse, Gate!OneLess, TakesOpen, Mine, MineCount, Open,
          OpenCount
    <2>6. QED
      BY <1>2, <2>5, GateStep
  <1>4. ASSUME agreed' = [agreed EXCEPT ![id][a] = @ + 1],
               UNCHANGED <<Mine, Open, knownIds, ballot, refused, relays>>
        PROVE  InGate
    <2>1. Gate!Agree(id, a)
      BY <1>4 DEF Gate!Agree, Mine, MineCount, Open, OpenCount
    <2>2. QED
      BY <2>1, GateStep
  <1>5. CASE AcceptIgnored(a, id) \/ AcceptCounted(a, id)
    <2>1. /\ UNCHANGED <<pc, msg, knownIds, ballot, refused, relays>>
          /\ agreed' = [agreed EXCEPT ![id][a] = @ + 1]
          /\ DOMAIN toVerify' = DOMAIN toVerify
      BY <1>5 DEF AcceptIgnored, AcceptCounted, taskVars
    <2>2. \A i \in Ids : SamePlaces(a, i)
      BY <1>1, <2>1 DEF SamePlaces, Unsent, Undecided
    <2>3. UNCHANGED <<Mine, Open>>
      BY <1>1, <1>2, <2>2, GateStutters
    <2>4. QED
      BY <1>2, <1>4, <2>1, <2>3
  <1>6. CASE AcceptCompletes(a, id)
    <2>1. /\ pc[a] = "read" /\ pc'[a] = "sample"
          /\ id \in DOMAIN toVerify
          /\ msg'[a].id = id /\ msg'[a].from # NoTask
          /\ DOMAIN toVerify' = DOMAIN toVerify \ {id}
          /\ agreed' = [agreed EXCEPT ![id][a] = @ + 1]
          /\ UNCHANGED <<knownIds, ballot, refused, relays>>
      BY <1>6, TasksAssumption
      DEF AcceptCompletes, Answers, IsValidator, Pop, TypeInv, TypeOK, Entry
    <2>2. Concerns(a, id)
      BY <1>1, <1>2, <2>1 DEF Concerns, SamePlaces, Unsent, Undecided
    <2>3. MineGain(a, id) = 0 /\ OpenGain(a, id) = 0
      BY <1>1, <2>1 DEF MineGain, OpenGain, One, Unsent, Undecided
    <2>4. UNCHANGED <<Mine, Open>>
      BY <1>1, <2>2, <2>3, GainsCount
    <2>5. QED
      BY <1>2, <1>4, <2>1, <2>4
  <1>7. QED
    BY <1>3, <1>5, <1>6 DEF Vote

\* Drawing the sample is the moment at which the gate lets a message through:
\* the ballot of a peer's message is unanimous then (RelayInv).
LEMMA SamplingRelays ==
    ASSUME TypeInv, CountsFinite, RelayInv, NEW a \in Apis, NEW id \in Ids,
           msg[a].id = id,
           NEW sample \in Samples(a), GetPeerSample(a, sample)
    PROVE  OneTaskMoves(a) /\ InGate
  <1>1. a \in Tasks /\ a \notin Peers
    BY TasksAssumption
  <1>2. /\ pc[a] = "push" /\ pc'[a] = "forward"
        /\ relays' = [relays EXCEPT ![id] = @ + 1]
        /\ UNCHANGED <<msg, toVerify, knownIds, ballot, agreed, refused>>
    BY DEF GetPeerSample, voteVars, TypeInv, TypeOK
  <1>3. OneTaskMoves(a)
    BY DEF GetPeerSample, OneTaskMoves, TypeInv, TypeOK
  <1>4. Concerns(a, id)
    BY <1>1, <1>2, <1>3 DEF Concerns, SamePlaces, Unsent, Undecided
  <1>5. CASE msg[a].from = NoTask
    <2>1. MineGain(a, id) = -1 /\ OpenGain(a, id) = 0
      BY <1>1, <1>2, <1>5 DEF MineGain, OpenGain, One, Unsent, Undecided
    <2>2. TakesMine(id) /\ UNCHANGED Open
      BY <1>1, <1>4, <2>1, GainsCount
    <2>3. Gate!RelayOwn(id)
      BY <1>2, <2>2
      DEF Gate!RelayOwn, TakesMine, Mine, MineCount, Open, OpenCount
    <2>4. QED
      BY <1>3, <2>3, GateStep
  <1>6. CASE msg[a].from # NoTask
    <2>1. MineGain(a, id) = 0 /\ OpenGain(a, id) = -1
      BY <1>1, <1>2, <1>6 DEF MineGain, OpenGain, One, Unsent, Undecided
    <2>2. TakesOpen(id) /\ UNCHANGED Mine
      BY <1>1, <1>4, <2>1, GainsCount
    <2>3. Gate!Unanimous(id)
      BY <1>2, <1>6
      DEF RelayInv, UnanimousRelay, IsRelaying, Gate!Unanimous
    <2>4. Gate!RelayPeer(id)
      BY <1>2, <2>2, <2>3
      DEF Gate!RelayPeer, Gate!OneLess, TakesOpen, Mine, MineCount, Open,
          OpenCount
    <2>5. QED
      BY <1>3, <2>4, GateStep
  <1>7. QED
    BY <1>5, <1>6

\* What the gate does not see of connections, subscriptions and sending.
LEMMA RestIsUnseen ==
    ASSUME TypeInv, CountsFinite, NEW t \in Tasks,
           \/ t \in Peers /\ (PeerJoins(t) \/ PeerLeaves(t))
           \/ t \in Apis /\ \/ ApiConnects(t) \/ CloseApi(t)
                            \/ GetPullPeers(t)
                            \/ SendPeerAnnounceFails(t) \/ SentToAll(t)
                            \/ \E d \in DataTypes : AddSubscriber(t, d)
                            \/ \E p \in Peers : SendPeerAnnounce(t, p)
    PROVE  OneTaskMoves(t) /\ InGate
  <1>1. /\ UNCHANGED <<knownIds, toVerify, ballot, agreed, refused, relays>>
        /\ \/ UNCHANGED <<pc, msg>>
           \/ /\ pc[t] \notin {"last", "subs", "store", "sample", "push"}
              /\ pc'[t] \notin {"last", "subs", "store", "sample", "push"}
              /\ OneTaskMoves(t)
           \/ /\ t \in Apis /\ pc[t] = "sample" /\ pc'[t] = "push"
              /\ UNCHANGED msg /\ OneTaskMoves(t)
    BY TasksAssumption
    DEF PeerJoins, PeerLeaves, ApiConnects, CloseApi, GetPullPeers,
        SendPeerAnnounceFails, SentToAll, AddSubscriber, SendPeerAnnounce,
        Done, OneTaskMoves,
        taskVars, history, TypeInv, TypeOK
  <1>2. OneTaskMoves(t)
    BY <1>1 DEF OneTaskMoves
  <1>3. \A i \in Ids : SamePlaces(t, i)
    BY <1>1, TasksAssumption DEF SamePlaces, Unsent, Undecided
  <1>4. UNCHANGED <<Mine, Open>>
    BY <1>2, <1>3, GateStutters
  <1>5. QED
    BY <1>1, <1>2, <1>4, UnseenInGate DEF Unseen

LEMMA CountsStep ==
    ASSUME CountsFinite, NEW t \in Tasks, OneTaskMoves(t)
    PROVE  CountsFinite'
  BY TaskMovesCounts DEF CountsFinite

LEMMA NextInGate ==
    ASSUME TypeInv, RelayInv, CountsFinite, Next
    PROVE  CountsFinite' /\ InGate
  <1>0. CASE EvictionBlocks
    <2>1. UNCHANGED <<pc, msg, toVerify, knownIds, ballot, agreed, refused,
                      relays>>
      BY <1>0 DEF EvictionBlocks, taskVars, history
    <2>2. QED
      BY <2>1, UnseenInGate
      DEF Unseen, Mine, MineCount, Open, OpenCount, Undecided, Unsent,
          CountsFinite
  <1>1. ASSUME NEW p \in Peers,
               \/ PeerJoins(p) \/ PeerLeaves(p) \/ PeerTask(p)
               \/ \E id \in Ids, ttl \in Ttls : HandlePeerAnnounce(p, id, ttl)
        PROVE  OneTaskMoves(p) /\ InGate
    <2>1. ASSUME NEW id \in Ids, NEW ttl \in Ttls,
                 HandlePeerAnnounce(p, id, ttl)
          PROVE  OneTaskMoves(p) /\ InGate
      <3>1. OneTaskMoves(p)
        BY <2>1 DEF HandlePeerAnnounce, OneTaskMoves, TypeInv, TypeOK
      <3>2. QED
        BY <2>1, <3>1, PeersIsAccepted, GateStep
    <2>2. QED
      BY <1>1, <2>1, PeerTaskInGate, RestIsUnseen
  <1>2. ASSUME NEW a \in Apis, ForwardTask(a)
        PROVE  OneTaskMoves(a) /\ InGate
    <2>1. ASSUME NEW sample \in Samples(a), GetPeerSample(a, sample)
          PROVE  OneTaskMoves(a) /\ InGate
      <3>1. PICK id \in Ids : msg[a].id = id
        BY DEF TypeInv, TypeOK, Message
      <3>2. QED
        BY <2>1, <3>1, SamplingRelays
    <2>2. QED
      BY <1>2, <2>1, RestIsUnseen DEF ForwardTask
  <1>3. ASSUME NEW a \in Apis,
               \/ ApiConnects(a) \/ CloseApi(a)
               \/ \E d \in DataTypes : AddSubscriber(a, d)
               \/ \E id \in Ids, ttl \in Ttls : HandleGossipAnnounce(a, id, ttl)
               \/ \E id \in Ids : Vote(a, id)
        PROVE  OneTaskMoves(a) /\ InGate
    <2>1. ASSUME NEW id \in Ids, NEW ttl \in Ttls,
                 HandleGossipAnnounce(a, id, ttl)
          PROVE  OneTaskMoves(a) /\ InGate
      <3>1. OneTaskMoves(a)
        BY <2>1 DEF HandleGossipAnnounce, OneTaskMoves, TypeInv, TypeOK
      <3>2. QED
        BY <2>1, <3>1, OwnIsAccepted, GateStep
    <2>2. QED
      BY <1>3, <2>1, VoteInGate, RestIsUnseen
  <1>4. QED
    BY <1>0, <1>1, <1>2, <1>3, CountsStep DEF Next

\* The whole announcement path keeps the promise of the gate, whatever the
\* number of connections and ids: an id is sent on at most as often as it was
\* accepted, and one of a peer only when all it was put before have accepted.
THEOREM GateIsKept == Spec => ImplementsRelayGate
  <1>1. Init => Gate!Init /\ CountsFinite
    <2> SUFFICES ASSUME Init PROVE Gate!Init /\ CountsFinite
      OBVIOUS
    <2>1. ASSUME NEW id \in Ids
          PROVE  Undecided(id) = {} /\ Unsent(id) = {}
      BY TasksAssumption DEF Init, Undecided, Unsent
    <2>2. CountsFinite
      BY <2>1, FS_EmptySet DEF CountsFinite
    <2>3. /\ DOMAIN toVerify = {}
          /\ \A id \in Ids : /\ Cardinality(Undecided(id)) = 0
                             /\ Cardinality(Unsent(id)) = 0
      BY <2>1, FS_EmptySet DEF Init
    <2>4. QED
      BY <2>2, <2>3 DEF Init, Nobody, Gate!Init
  <1>2. TypeInv /\ RelayInv /\ CountsFinite /\ [Next]_vars
            => CountsFinite' /\ [Gate!Next]_(Gate!gateVars)
    <2>1. ASSUME TypeInv, RelayInv, CountsFinite, Next
          PROVE  CountsFinite' /\ InGate
      BY <2>1, NextInGate
    <2>2. ASSUME UNCHANGED vars, CountsFinite
          PROVE  CountsFinite' /\ UNCHANGED Gate!gateVars
      BY <2>2 DEF vars, CountsFinite, Undecided, Unsent, Gate!gateVars
    <2>3. QED
      BY <2>1, <2>2 DEF InGate
  <1>3. Init => RelayInv
    BY DEF Init, RelayInv, EntriesCounted, RelayLocked, UnanimousRelay,
           IsRelaying
  <1>4. QED
    BY TypeInit, TypeStep, RelayStep, <1>1, <1>2, <1>3, PTL
    DEF Spec, ImplementsRelayGate, Gate!Spec
=============================================================================
