------------------------ MODULE DisseminationProofs ------------------------
(***************************************************************************)
(* What holds of Dissemination in every network, for all degrees, caches,  *)
(* times to live and subscriptions.                                        *)
(***************************************************************************)
EXTENDS Dissemination, FiniteSetTheorems, SequenceTheorems, TLAPS

\* What n has yet to read, and the entries it keeps.
Wires == [Connections -> [Nodes -> Seq(Message)]]

Types ==
    /\ up \in [Connections -> SUBSET Nodes]
    /\ deaf \subseteq Connections \X Nodes
    /\ wire \in Wires
    /\ ids \in [Nodes -> SUBSET Ids]
    /\ toVerify \in [Nodes -> [Ids -> Entry]]
    /\ origin \in [Ids -> Nodes \cup {NoNode}]
    /\ limit \in [Ids -> Nat]
    /\ notified \in [Nodes -> [Ids -> 0 .. 2]]

LEMMA TypesImplyTypeOK == Types => TypeOK
  <1> SUFFICES ASSUME Types PROVE TypeOK
    OBVIOUS
  <1>1. ASSUME NEW c \in Connections, NEW n \in Nodes,
               NEW i \in DOMAIN wire[c][n]
        PROVE  wire[c][n][i] \in Message
    <2>1. wire[c][n] \in Seq(Message)
      BY DEF Types, Wires
    <2>2. QED
      BY <2>1, LenProperties, ElementOfSeq
  <1>2. QED
    BY <1>1 DEF Types, TypeOK

LEMMA InitTypes == Init => Types
  <1> SUFFICES ASSUME Init PROVE Types
    OBVIOUS
  <1>1. <<>> \in Seq(Message) /\ NoEntry \in Entry
    BY EmptySeq DEF NoEntry, Entry
  <1>2. QED
    BY <1>1, ConnectionsAssumption DEF Init, Types, Wires

LEMMA SendTypes ==
    ASSUME NEW n \in Nodes, NEW connections, NEW message \in Message,
           NEW wires \in Wires
    PROVE  SendPeerAnnounce(n, connections, message, wires) \in Wires
  <1>1. ASSUME NEW c \in Connections, NEW m \in Nodes
        PROVE  /\ wires[c][m] \in Seq(Message)
               /\ Append(wires[c][m], message) \in Seq(Message)
    BY AppendProperties DEF Wires
  <1>2. QED
    BY <1>1 DEF SendPeerAnnounce, Wires

LEMMA LearnTypes ==
    ASSUME Types, NEW n \in Nodes, NEW id \in Ids, AddPeerAnnounceId(n, id)
    PROVE  ids' \in [Nodes -> SUBSET Ids]
  <1>1. ids \in [Nodes -> SUBSET Ids]
    BY DEF Types
  <1>2. CASE ids' = [ids EXCEPT ![n] = @ \cup {id}]
    BY <1>1, <1>2
  <1>3. ASSUME NEW old, ids' = [ids EXCEPT ![n] = (@ \ {old}) \cup {id}]
        PROVE  ids' \in [Nodes -> SUBSET Ids]
    BY <1>1, <1>3
  <1>4. QED
    BY <1>2, <1>3 DEF AddPeerAnnounceId

LEMMA UpdateTypes ==
    ASSUME NEW S, NEW f \in [Nodes -> [Ids -> S]], NEW n \in Nodes,
           NEW id \in Ids, NEW v \in S
    PROVE  [f EXCEPT ![n][id] = v] \in [Nodes -> [Ids -> S]]
  <1>1. [f[n] EXCEPT ![id] = v] \in [Ids -> S]
    OBVIOUS
  <1>2. QED
    BY <1>1

LEMMA AnnounceTypes ==
    ASSUME Types, NEW n \in Nodes, NEW id \in Ids, NEW ttl \in Ttls,
           HandleGossipAnnounce(n, id, ttl)
    PROVE  Types'
  <1>1. [id |-> id, ttl |-> ttl, hops |-> 1] \in Message
    BY TtlsAssumption DEF Message
  <1>2. wire' \in Wires
    BY <1>1, SendTypes DEF HandleGossipAnnounce, Types
  <1>3. ids' \in [Nodes -> SUBSET Ids]
    BY LearnTypes DEF HandleGossipAnnounce
  <1>4. origin' \in [Ids -> Nodes \cup {NoNode}] /\ limit' \in [Ids -> Nat]
    BY TtlsAssumption DEF HandleGossipAnnounce, Types
  <1>5. QED
    BY <1>2, <1>3, <1>4 DEF HandleGossipAnnounce, Types

\* What there is to read is read from the head of a sequence of messages.
LEMMA ReadTypes ==
    ASSUME Types, NEW n \in Nodes, NEW c \in Connections, wire[c][n] # <<>>
    PROVE  /\ Head(wire[c][n]) \in Message
           /\ Tail(wire[c][n]) \in Seq(Message)
           /\ [wire EXCEPT ![c][n] = Tail(@)] \in Wires
  <1>1. wire[c][n] \in Seq(Message)
    BY DEF Types, Wires
  <1>2. Head(wire[c][n]) \in Message /\ Tail(wire[c][n]) \in Seq(Message)
    BY <1>1, HeadTailProperties
  <1>3. QED
    BY <1>2 DEF Types, Wires

LEMMA HandleTypes ==
    ASSUME Types, NEW n \in Nodes, NEW c \in Connections,
           HandlePeerAnnounce(n, c)
    PROVE  Types'
  <1> DEFINE message == Head(wire[c][n])
             entry == [ttl |-> OneHopLess(message.ttl),
                       hops |-> NextHop(message), from |-> c]
  <1>1. message \in Message /\ wire' \in Wires
    BY ReadTypes DEF HandlePeerAnnounce
  <1>2. message.id \in Ids /\ message.ttl \in Nat /\ message.hops \in Nat
    BY <1>1 DEF Message
  <1>3. entry \in Entry
    BY <1>2 DEF Entry, OneHopLess, NextHop, Types
  <1> HIDE DEF message, entry
  <1>4. ids' \in [Nodes -> SUBSET Ids]
    BY <1>2, LearnTypes DEF HandlePeerAnnounce, message, Types
  <1>5. toVerify' \in [Nodes -> [Ids -> Entry]]
    <2>1. \/ UNCHANGED toVerify
          \/ toVerify' = [toVerify EXCEPT ![n][message.id] = entry]
      BY DEF HandlePeerAnnounce, message, entry
    <2>2. toVerify \in [Nodes -> [Ids -> Entry]]
      BY DEF Types
    <2>3. [toVerify EXCEPT ![n][message.id] = entry]
             \in [Nodes -> [Ids -> Entry]]
      BY <1>2, <1>3, <2>2, UpdateTypes
    <2>4. QED
      BY <2>1, <2>2, <2>3
  <1>6. notified' \in [Nodes -> [Ids -> 0 .. 2]]
    <2>1. \/ UNCHANGED notified
          \/ notified' = [notified EXCEPT ![n][message.id] =
                             IF notified[n][message.id] = 0 THEN 1 ELSE 2]
      BY DEF HandlePeerAnnounce, message
    <2>2. notified \in [Nodes -> [Ids -> 0 .. 2]]
      BY DEF Types
    <2>3. ASSUME NEW v \in 0 .. 2
          PROVE  [notified EXCEPT ![n][message.id] = v]
                    \in [Nodes -> [Ids -> 0 .. 2]]
      BY <1>2, <2>2, UpdateTypes
    <2>4. (IF notified[n][message.id] = 0 THEN 1 ELSE 2) \in 0 .. 2
      OBVIOUS
    <2>5. QED
      BY <2>1, <2>2, <2>3, <2>4
  <1>7. deaf' \subseteq Connections \X Nodes
    BY DEF HandlePeerAnnounce, Types
  <1>8. QED
    BY <1>1, <1>4, <1>5, <1>6, <1>7 DEF HandlePeerAnnounce, Types

LEMMA AnswerTypes ==
    ASSUME Types, NEW n \in Nodes, NEW id \in Ids,
           Accepted(n, id) \/ Refused(n, id)
    PROVE  Types'
  <1>1. toVerify' \in [Nodes -> [Ids -> Entry]]
    <2>1. NoEntry \in Entry
      BY DEF NoEntry, Entry
    <2>2. toVerify' = [toVerify EXCEPT ![n][id] = NoEntry]
      BY DEF Accepted, Refused
    <2>3. QED
      BY <2>1, <2>2, UpdateTypes DEF Types
  <1>2. [id |-> id, ttl |-> toVerify[n][id].ttl,
         hops |-> toVerify[n][id].hops] \in Message
    <2>1. toVerify[n][id] \in Entry
      BY DEF Types
    <2>2. QED
      BY <2>1 DEF Entry, Message
  <1>3. wire' \in Wires
    <2>1. wire \in Wires
      BY DEF Types
    <2>2. CASE Refused(n, id)
      BY <2>1, <2>2 DEF Refused
    <2>3. CASE Accepted(n, id)
      <3>1. PICK sample :
               wire' = SendPeerAnnounce(n, sample,
                          [id |-> id, ttl |-> toVerify[n][id].ttl,
                           hops |-> toVerify[n][id].hops], wire)
        BY <2>3 DEF Accepted
      <3>2. QED
        BY <1>2, <2>1, <3>1, SendTypes
    <2>4. QED
      BY <2>2, <2>3
  <1>4. QED
    BY <1>1, <1>3 DEF Accepted, Refused, Types

LEMMA ConnectionTypes ==
    ASSUME Types, NEW c \in Connections,
           (\E n \in Nodes : ClosePeer(n, c)) \/ Reconnect(c)
    PROVE  Types'
  <1>1. CASE Reconnect(c)
    BY <1>1, ConnectionsAssumption DEF Reconnect, Types
  <1>2. ASSUME NEW n \in Nodes, ClosePeer(n, c) PROVE Types'
    <2>1. <<>> \in Seq(Message)
      BY EmptySeq
    <2>2. wire' \in Wires
      BY <1>2, <2>1 DEF ClosePeer, Types, Wires
    <2>3. toVerify' \in [Nodes -> [Ids -> Entry]]
      <3>1. \A id \in Ids : toVerify[n][id] \in Entry
        BY DEF Types
      <3>2. \A entry \in Entry :
               [entry EXCEPT !.from = NoConnection] \in Entry
        BY DEF Entry
      <3>3. QED
        BY <1>2, <3>1, <3>2 DEF ClosePeer, Types
    <2>4. up' \in [Connections -> SUBSET Nodes]
      BY <1>2 DEF ClosePeer, Types
    <2>5. QED
      BY <1>2, <2>2, <2>3, <2>4 DEF ClosePeer, Types
  <1>3. QED
    BY <1>1, <1>2

LEMMA TypesStep == Types /\ [Next]_vars => Types'
  <1> SUFFICES ASSUME Types, [Next]_vars PROVE Types'
    OBVIOUS
  <1>1. CASE UNCHANGED vars
    BY <1>1 DEF vars, Types
  <1>2. CASE Next
    BY <1>2, AnnounceTypes, HandleTypes, AnswerTypes, ConnectionTypes
    DEF Next
  <1>3. QED
    BY <1>1, <1>2

\* Every reachable state of every network has the declared types.
THEOREM NetworkTypes == Spec => []TypeOK
  BY InitTypes, TypesStep, TypesImplyTypeOK, PTL DEF Spec

-----------------------------------------------------------------------------
(* Hops and times to live.                                                  *)

\* What is left to go and what has been gone add up to the limit.
Right(id, ttl, hops) ==
    /\ origin[id] # NoNode
    /\ limit[id] > 0 => ttl > 0 /\ hops + ttl = limit[id] + 1

OnTheWay(c, n, message) ==
    \E i \in DOMAIN wire[c][n] : wire[c][n][i] = message

WiresRight ==
    \A c \in Connections, n \in Nodes, message \in Message :
        OnTheWay(c, n, message) =>
            Right(message.id, message.ttl, message.hops)

EntriesRight ==
    \A n \in Nodes, id \in Ids :
        toVerify[n][id] # NoEntry =>
            Right(id, toVerify[n][id].ttl, toVerify[n][id].hops)

HopInv == Types /\ WiresRight /\ EntriesRight

LEMMA HopsImplied == HopInv => HopsWithinTtl
  <1> SUFFICES ASSUME HopInv, NEW c \in Connections, NEW n \in Nodes,
                      NEW i \in DOMAIN wire[c][n],
                      limit[wire[c][n][i].id] > 0
               PROVE  /\ wire[c][n][i].ttl > 0
                      /\ wire[c][n][i].hops <= limit[wire[c][n][i].id]
    BY DEF HopsWithinTtl
  <1> DEFINE message == wire[c][n][i]
  <1>1. message \in Message
    BY TypesImplyTypeOK DEF HopInv, TypeOK
  <1>2. message.ttl \in Nat /\ message.hops \in Nat /\ limit[message.id] \in Nat
    BY <1>1 DEF Message, HopInv, Types
  <1>3. Right(message.id, message.ttl, message.hops)
    BY <1>1 DEF HopInv, WiresRight, OnTheWay
  <1>4. QED
    BY <1>2, <1>3 DEF Right

\* Appending a message to some streams puts nothing else on its way.
LEMMA SentIsNew ==
    ASSUME Types, NEW n \in Nodes, NEW connections, NEW new \in Message,
           wire' = SendPeerAnnounce(n, connections, new, wire),
           NEW c \in Connections, NEW m \in Nodes, NEW message \in Message,
           OnTheWay(c, m, message)'
    PROVE  message = new \/ OnTheWay(c, m, message)
  <1>1. wire[c][m] \in Seq(Message)
    BY DEF Types, Wires
  <1>2. \/ wire'[c][m] = wire[c][m]
        \/ wire'[c][m] = Append(wire[c][m], new)
    BY DEF SendPeerAnnounce
  <1>3. CASE wire'[c][m] = wire[c][m]
    BY <1>3 DEF OnTheWay
  <1>4. CASE wire'[c][m] = Append(wire[c][m], new)
    <2> DEFINE s == wire[c][m]
               t == Append(s, new)
    <2>1. /\ t \in Seq(Message) /\ Len(t) = Len(s) + 1
          /\ \A i \in 1 .. Len(s) : t[i] = s[i]
          /\ t[Len(s) + 1] = new
      BY <1>1, AppendProperties
    <2>2. /\ Len(s) \in Nat /\ DOMAIN s = 1 .. Len(s)
          /\ DOMAIN t = 1 .. Len(s) + 1
      BY <1>1, <2>1, LenProperties
    <2>3. PICK i \in DOMAIN t : t[i] = message
      BY <1>4 DEF OnTheWay
    <2>4. i \in 1 .. Len(s) \/ i = Len(s) + 1
      BY <2>2
    <2>5. QED
      BY <2>1, <2>2, <2>3, <2>4 DEF OnTheWay
  <1>5. QED
    BY <1>2, <1>3, <1>4

\* What is left of a stream was in it.
LEMMA TailWasThere ==
    ASSUME Types, NEW n \in Nodes, NEW c \in Connections, wire[c][n] # <<>>,
           wire' = [wire EXCEPT ![c][n] = Tail(@)],
           NEW d \in Connections, NEW m \in Nodes, NEW message \in Message,
           OnTheWay(d, m, message)'
    PROVE  OnTheWay(d, m, message)
  <1> DEFINE s == wire[c][n]
  <1>1. s \in Seq(Message) /\ wire \in Wires
    BY DEF Types, Wires
  <1>2. CASE d = c /\ m = n
    <2>1. wire'[d][m] = Tail(s)
      BY <1>1, <1>2 DEF Wires
    <2>2. /\ Tail(s) \in Seq(Message) /\ Len(Tail(s)) = Len(s) - 1
          /\ \A i \in 1 .. Len(Tail(s)) : Tail(s)[i] = s[i + 1]
      BY <1>1, HeadTailProperties
    <2>3. /\ Len(s) \in Nat /\ DOMAIN s = 1 .. Len(s)
          /\ DOMAIN Tail(s) = 1 .. Len(s) - 1
      BY <1>1, <2>2, LenProperties
    <2>4. PICK i \in DOMAIN Tail(s) : Tail(s)[i] = message
      BY <2>1 DEF OnTheWay
    <2>5. i + 1 \in DOMAIN s /\ s[i + 1] = message
      BY <2>2, <2>3, <2>4
    <2>6. QED
      BY <1>2, <2>5 DEF OnTheWay
  <1>3. CASE ~(d = c /\ m = n)
    <2>1. wire'[d][m] = wire[d][m]
      BY <1>1, <1>3 DEF Wires
    <2>2. QED
      BY <2>1 DEF OnTheWay
  <1>4. QED
    BY <1>2, <1>3

LEMMA HeadWasThere ==
    ASSUME Types, NEW n \in Nodes, NEW c \in Connections, wire[c][n] # <<>>
    PROVE  OnTheWay(c, n, Head(wire[c][n]))
  <1>1. wire[c][n] \in Seq(Message)
    BY DEF Types, Wires
  <1>2. /\ Len(wire[c][n]) \in Nat /\ Len(wire[c][n]) > 0
        /\ DOMAIN wire[c][n] = 1 .. Len(wire[c][n])
        /\ Head(wire[c][n]) = wire[c][n][1]
    BY <1>1, LenProperties, EmptySeq
  <1>3. QED
    BY <1>2 DEF OnTheWay

LEMMA HopsInit == Init => WiresRight /\ EntriesRight
  BY DEF Init, WiresRight, EntriesRight, OnTheWay

\* As long as histories stay, what was right is.
LEMMA StillRight ==
    ASSUME UNCHANGED <<origin, limit>>, NEW id, NEW ttl, NEW hops,
           Right(id, ttl, hops)
    PROVE  Right(id, ttl, hops)'
  BY DEF Right

LEMMA AnnounceHops ==
    ASSUME HopInv, NEW n \in Nodes, NEW id \in Ids, NEW ttl \in Ttls,
           HandleGossipAnnounce(n, id, ttl)
    PROVE  WiresRight' /\ EntriesRight'
  <1> DEFINE new == [id |-> id, ttl |-> ttl, hops |-> 1]
  <1>1. /\ origin[id] = NoNode /\ n # NoNode
        /\ origin' = [origin EXCEPT ![id] = n]
        /\ limit' = [limit EXCEPT ![id] = ttl]
        /\ toVerify' = toVerify /\ ttl \in Nat
        /\ origin \in [Ids -> Nodes \cup {NoNode}] /\ limit \in [Ids -> Nat]
    BY ConnectionsAssumption, TtlsAssumption
    DEF HandleGossipAnnounce, HopInv, Types
  <1>2. origin'[id] # NoNode /\ limit'[id] = ttl
    BY <1>1
  <1>3. Right(id, ttl, 1)'
    BY <1>1, <1>2 DEF Right
  <1>4. ASSUME NEW other \in Ids, NEW t, NEW h, Right(other, t, h)
        PROVE  Right(other, t, h)'
    <2>1. other # id
      BY <1>1, <1>4 DEF Right
    <2>2. origin'[other] = origin[other] /\ limit'[other] = limit[other]
      BY <1>1, <2>1
    <2>3. QED
      BY <1>4, <2>2 DEF Right
  <1>5. EntriesRight'
    BY <1>1, <1>4 DEF EntriesRight, HopInv
  <1>6. PICK sample : wire' = SendPeerAnnounce(n, sample, new, wire)
    BY DEF HandleGossipAnnounce
  <1>7. new \in Message /\ new.id = id /\ new.ttl = ttl /\ new.hops = 1
    BY <1>1 DEF Message
  <1> HIDE DEF new
  <1>8. ASSUME NEW c \in Connections, NEW m \in Nodes,
               NEW message \in Message, OnTheWay(c, m, message)'
        PROVE  Right(message.id, message.ttl, message.hops)'
    <2>1. message = new \/ OnTheWay(c, m, message)
      BY <1>6, <1>7, <1>8, SentIsNew DEF HopInv
    <2>2. CASE message = new
      BY <1>3, <1>7, <2>2
    <2>3. CASE OnTheWay(c, m, message)
      <3>1. Right(message.id, message.ttl, message.hops)
        BY <2>3 DEF HopInv, WiresRight
      <3>2. message.id \in Ids
        BY DEF Message
      <3>3. QED
        BY <1>4, <3>1, <3>2
    <2>4. QED
      BY <2>1, <2>2, <2>3
  <1>9. WiresRight'
    BY <1>8 DEF WiresRight
  <1>10. QED
    BY <1>5, <1>9

LEMMA HandleHops ==
    ASSUME HopInv, NEW n \in Nodes, NEW c \in Connections,
           HandlePeerAnnounce(n, c)
    PROVE  WiresRight' /\ EntriesRight'
  <1> DEFINE message == Head(wire[c][n])
             entry == [ttl |-> OneHopLess(message.ttl),
                       hops |-> NextHop(message), from |-> c]
  <1>1. /\ wire[c][n] # <<>> /\ wire' = [wire EXCEPT ![c][n] = Tail(@)]
        /\ UNCHANGED <<origin, limit>> /\ Types
    BY DEF HandlePeerAnnounce, HopInv
  <1>2. message \in Message /\ OnTheWay(c, n, message)
    BY <1>1, ReadTypes, HeadWasThere
  <1>3. /\ message.id \in Ids /\ message.ttl \in Nat /\ message.hops \in Nat
        /\ limit[message.id] \in Nat
    BY <1>1, <1>2 DEF Message, Types
  <1>4. Right(message.id, message.ttl, message.hops)
    BY <1>2 DEF HopInv, WiresRight
  <1>5. ASSUME message.ttl # 1
        PROVE  Right(message.id, entry.ttl, entry.hops)
    BY <1>3, <1>4, <1>5 DEF Right, OneHopLess, NextHop
  <1>6. \/ toVerify' = toVerify
        \/ /\ message.ttl # 1
           /\ toVerify' = [toVerify EXCEPT ![n][message.id] = entry]
    BY DEF HandlePeerAnnounce
  <1> HIDE DEF message, entry
  <1>7. EntriesRight'
    <2>1. ASSUME NEW m \in Nodes, NEW id \in Ids, toVerify'[m][id] # NoEntry
          PROVE  Right(id, toVerify'[m][id].ttl, toVerify'[m][id].hops)
      <3>1. \/ toVerify'[m][id] = toVerify[m][id]
            \/ /\ message.ttl # 1 /\ id = message.id
               /\ toVerify'[m][id] = entry
        <4>1. toVerify \in [Nodes -> [Ids -> Entry]]
          BY <1>1 DEF Types
        <4>2. QED
          BY <1>3, <1>6, <4>1
      <3>2. CASE toVerify'[m][id] = toVerify[m][id]
        BY <2>1, <3>2 DEF HopInv, EntriesRight
      <3>3. QED
        BY <1>5, <3>1, <3>2
    <2>2. QED
      BY <1>1, <2>1 DEF EntriesRight, Right
  <1>8. WiresRight'
    <2>1. ASSUME NEW d \in Connections, NEW m \in Nodes, NEW q \in Message,
                 OnTheWay(d, m, q)'
          PROVE  Right(q.id, q.ttl, q.hops)'
      <3>1. OnTheWay(d, m, q)
        BY <1>1, <2>1, TailWasThere
      <3>2. Right(q.id, q.ttl, q.hops)
        BY <3>1 DEF HopInv, WiresRight
      <3>3. QED
        BY <1>1, <3>2, StillRight
    <2>2. QED
      BY <2>1 DEF WiresRight
  <1>9. QED
    BY <1>7, <1>8

LEMMA AnswerHops ==
    ASSUME HopInv, NEW n \in Nodes, NEW id \in Ids,
           Accepted(n, id) \/ Refused(n, id)
    PROVE  WiresRight' /\ EntriesRight'
  <1> DEFINE new == [id |-> id, ttl |-> toVerify[n][id].ttl,
                     hops |-> toVerify[n][id].hops]
  <1>1. /\ UNCHANGED <<origin, limit>> /\ Types
        /\ toVerify[n][id] # NoEntry
        /\ toVerify' = [toVerify EXCEPT ![n][id] = NoEntry]
        /\ toVerify \in [Nodes -> [Ids -> Entry]]
    BY DEF Accepted, Refused, Answers, HopInv, Types
  <1>2. EntriesRight'
    <2>1. \A m \in Nodes, i \in Ids : toVerify'[m][i] # NoEntry =>
             toVerify'[m][i] = toVerify[m][i]
      BY <1>1
    <2>2. QED
      BY <1>1, <2>1 DEF HopInv, EntriesRight, Right
  <1>3. toVerify[n][id] \in Entry
    BY <1>1
  <1>4. /\ new \in Message /\ new.id = id
        /\ new.ttl = toVerify[n][id].ttl /\ new.hops = toVerify[n][id].hops
    BY <1>3 DEF Entry, Message
  <1>5. Right(new.id, new.ttl, new.hops)
    BY <1>1, <1>4 DEF HopInv, EntriesRight
  <1>6. \/ wire' = wire
        \/ \E connections : wire' = SendPeerAnnounce(n, connections, new, wire)
    BY DEF Accepted, Refused
  <1> HIDE DEF new
  <1>7. WiresRight'
    <2>1. ASSUME NEW c \in Connections, NEW m \in Nodes,
                 NEW message \in Message, OnTheWay(c, m, message)'
          PROVE  Right(message.id, message.ttl, message.hops)'
      <3>1. message = new \/ OnTheWay(c, m, message)
        BY <1>1, <1>4, <1>6, <2>1, SentIsNew DEF OnTheWay
      <3>2. Right(message.id, message.ttl, message.hops)
        BY <1>5, <3>1 DEF HopInv, WiresRight
      <3>3. QED
        BY <1>1, <3>2, StillRight
    <2>2. QED
      BY <2>1 DEF WiresRight
  <1>8. QED
    BY <1>2, <1>7

LEMMA ConnectionHops ==
    ASSUME HopInv, NEW c \in Connections,
           (\E n \in Nodes : ClosePeer(n, c)) \/ Reconnect(c)
    PROVE  WiresRight' /\ EntriesRight'
  <1>1. CASE Reconnect(c)
    BY <1>1
    DEF Reconnect, HopInv, WiresRight, EntriesRight, OnTheWay, Right
  <1>2. ASSUME NEW n \in Nodes, ClosePeer(n, c)
        PROVE  WiresRight' /\ EntriesRight'
    <2>1. /\ UNCHANGED <<origin, limit>>
          /\ wire' = [wire EXCEPT ![c][n] = <<>>] /\ wire \in Wires
          /\ toVerify \in [Nodes -> [Ids -> Entry]]
      BY <1>2 DEF ClosePeer, HopInv, Types
    <2>2. \A d \in Connections, m \in Nodes :
             wire'[d][m] = wire[d][m] \/ wire'[d][m] = <<>>
      BY <2>1 DEF Wires
    <2>3. ASSUME NEW d \in Connections, NEW m \in Nodes,
                 NEW q \in Message, OnTheWay(d, m, q)'
          PROVE  OnTheWay(d, m, q)
      <3>1. wire'[d][m] # <<>>
        BY <2>3 DEF OnTheWay
      <3>2. QED
        BY <2>2, <2>3, <3>1 DEF OnTheWay
    <2>4. WiresRight'
      BY <2>1, <2>3 DEF HopInv, WiresRight, Right
    <2>5. ASSUME NEW m \in Nodes, NEW id \in Ids, toVerify'[m][id] # NoEntry
          PROVE  /\ toVerify[m][id] # NoEntry
                 /\ toVerify'[m][id].ttl = toVerify[m][id].ttl
                 /\ toVerify'[m][id].hops = toVerify[m][id].hops
      <3>1. toVerify[m][id] \in Entry
        BY <2>1
      <3>2. \/ toVerify'[m][id] = toVerify[m][id]
            \/ /\ toVerify[m][id] # NoEntry
               /\ toVerify'[m][id] =
                     [toVerify[m][id] EXCEPT !.from = NoConnection]
        BY <1>2, <2>1 DEF ClosePeer
      <3>3. QED
        BY <2>5, <3>1, <3>2 DEF Entry
    <2>6. EntriesRight'
      BY <2>1, <2>5 DEF HopInv, EntriesRight, Right
    <2>7. QED
      BY <2>4, <2>6
  <1>3. QED
    BY <1>1, <1>2

LEMMA HopsStep == HopInv /\ [Next]_vars => HopInv'
  <1> SUFFICES ASSUME HopInv, [Next]_vars PROVE WiresRight' /\ EntriesRight'
    BY TypesStep DEF HopInv
  <1>1. CASE UNCHANGED vars
    BY <1>1 DEF vars, HopInv, WiresRight, EntriesRight, OnTheWay, Right
  <1>2. CASE Next
    BY <1>2, AnnounceHops, HandleHops, AnswerHops, ConnectionHops DEF Next
  <1>3. QED
    BY <1>1, <1>2

\* No message of a limited announcement goes further than its TTL allows, in
\* any network, with any number of nodes that forget ids and of connections
\* that close and come back (gossip.py:523-531, 578-592).
THEOREM HopsAreLimited == Spec => []HopsWithinTtl
  <1>1. Init => HopInv
    BY InitTypes, HopsInit DEF HopInv
  <1>2. QED
    BY <1>1, HopsStep, HopsImplied, PTL DEF Spec

-----------------------------------------------------------------------------
(***************************************************************************)
(* Notifications.  A node whose set of ids has room for all of them        *)
(* forgets none: it remembers what it was notified of and what it has      *)
(* announced itself.  That an id that is in the set or was notified of has *)
(* been announced is needed when a node draws a new one.                   *)
(***************************************************************************)
Roomy(n) == Cardinality(Ids) <= CacheSize[n]

Known(n, id) == id \in ids[n] \/ notified[n][id] > 0

KnownIsAnnounced ==
    \A n \in Nodes, id \in Ids : Known(n, id) => origin[id] # NoNode

Remembered(n, id) ==
    /\ notified[n][id] > 0 \/ origin[id] = n => id \in ids[n]
    /\ notified[n][id] <= IF origin[id] = n THEN 0 ELSE 1

AllRemembered == \A n \in Nodes, id \in Ids : Roomy(n) => Remembered(n, id)

OnceInv == HopInv /\ KnownIsAnnounced /\ AllRemembered

\* An id that was not in the set is added, and none goes if there is room.
LEMMA Learning ==
    ASSUME Types, NEW n \in Nodes, NEW id \in Ids, id \notin ids[n],
           AddPeerAnnounceId(n, id)
    PROVE  /\ \A m \in Nodes : ids'[m] \subseteq ids[m] \cup {id}
           /\ \A m \in Nodes : m # n => ids'[m] = ids[m]
           /\ Roomy(n) => ids'[n] = ids[n] \cup {id}
  <1>1. ids \in [Nodes -> SUBSET Ids]
    BY DEF Types
  <1>2. CASE ids' = [ids EXCEPT ![n] = @ \cup {id}]
    BY <1>1, <1>2
  <1>3. CASE /\ Cardinality(ids[n]) >= CacheSize[n]
             /\ \E old \in ids[n] :
                   ids' = [ids EXCEPT ![n] = (@ \ {old}) \cup {id}]
    <2>1. ASSUME Roomy(n) PROVE FALSE
      <3>1. IsFiniteSet(Ids) /\ ids[n] \subseteq Ids /\ ids[n] # Ids
        BY <1>1, IdsAssumption
      <3>2. /\ Cardinality(ids[n]) <= Cardinality(Ids)
            /\ Cardinality(ids[n]) # Cardinality(Ids)
            /\ Cardinality(ids[n]) \in Nat /\ Cardinality(Ids) \in Nat
        BY <3>1, FS_Subset, FS_CardinalityType
      <3>3. CacheSize[n] \in Nat
        BY NodesAssumption
      <3>4. QED
        BY <1>3, <2>1, <3>2, <3>3 DEF Roomy
    <2>2. QED
      BY <1>1, <1>3, <2>1
  <1>4. QED
    BY <1>2, <1>3 DEF AddPeerAnnounceId

LEMMA OnceInit == Init => KnownIsAnnounced /\ AllRemembered
  BY ConnectionsAssumption
  DEF Init, KnownIsAnnounced, Known, AllRemembered, Remembered

LEMMA AnnounceOnce ==
    ASSUME OnceInv, NEW n \in Nodes, NEW id \in Ids, NEW ttl \in Ttls,
           HandleGossipAnnounce(n, id, ttl)
    PROVE  KnownIsAnnounced' /\ AllRemembered'
  <1>1. Types /\ n # NoNode
    BY ConnectionsAssumption DEF OnceInv, HopInv
  <1>2. /\ origin[id] = NoNode /\ origin' = [origin EXCEPT ![id] = n]
        /\ AddPeerAnnounceId(n, id) /\ notified' = notified
        /\ origin \in [Ids -> Nodes \cup {NoNode}]
        /\ notified \in [Nodes -> [Ids -> 0 .. 2]]
    BY <1>1 DEF HandleGossipAnnounce, Types
  <1>3. \A m \in Nodes : id \notin ids[m] /\ notified[m][id] = 0
    <2>1. \A m \in Nodes : ~Known(m, id) /\ notified[m][id] \in 0 .. 2
      BY <1>2 DEF OnceInv, KnownIsAnnounced
    <2>2. QED
      BY <2>1 DEF Known
  <1>4. /\ \A m \in Nodes : ids'[m] \subseteq ids[m] \cup {id}
        /\ \A m \in Nodes : m # n => ids'[m] = ids[m]
        /\ Roomy(n) => ids'[n] = ids[n] \cup {id}
    BY <1>1, <1>2, <1>3, Learning
  <1>5. /\ origin'[id] = n
        /\ \A other \in Ids : other # id => origin'[other] = origin[other]
    BY <1>2
  <1>6. KnownIsAnnounced'
    BY <1>1, <1>2, <1>4, <1>5 DEF OnceInv, KnownIsAnnounced, Known
  <1>7. ASSUME NEW m \in Nodes, NEW other \in Ids, Roomy(m)
        PROVE  Remembered(m, other)'
    <2>1. CASE other = id
      BY <1>2, <1>3, <1>4, <1>5, <1>7, <2>1 DEF Remembered
    <2>2. CASE other # id
      <3>1. Remembered(m, other)
        BY <1>7 DEF OnceInv, AllRemembered
      <3>2. other \in ids[m] => other \in ids'[m]
        BY <1>4, <1>7
      <3>3. QED
        BY <1>2, <1>5, <2>2, <3>1, <3>2 DEF Remembered
    <2>3. QED
      BY <2>1, <2>2
  <1>8. QED
    BY <1>6, <1>7 DEF AllRemembered, Roomy

LEMMA HandleOnce ==
    ASSUME OnceInv, NEW n \in Nodes, NEW c \in Connections,
           HandlePeerAnnounce(n, c)
    PROVE  KnownIsAnnounced' /\ AllRemembered'
  <1> DEFINE message == Head(wire[c][n])
             id == message.id
  <1>1. Types /\ UNCHANGED origin
    BY DEF OnceInv, HopInv, HandlePeerAnnounce
  <1>2. message \in Message /\ OnTheWay(c, n, message)
    BY <1>1, ReadTypes, HeadWasThere DEF HandlePeerAnnounce
  <1>3. id \in Ids /\ origin[id] # NoNode
    BY <1>2 DEF Message, OnceInv, HopInv, WiresRight, Right
  <1>4. CASE UNCHANGED <<ids, notified>>
    BY <1>1, <1>4
    DEF OnceInv, KnownIsAnnounced, AllRemembered, Known, Remembered, Roomy
  <1>5. CASE /\ id \notin ids[n] /\ AddPeerAnnounceId(n, id)
             /\ \/ UNCHANGED notified
                \/ notified' = [notified EXCEPT ![n][id] =
                                   IF @ = 0 THEN 1 ELSE 2]
    <2> HIDE DEF id
    <2>1. /\ \A m \in Nodes : ids'[m] \subseteq ids[m] \cup {id}
          /\ \A m \in Nodes : m # n => ids'[m] = ids[m]
          /\ Roomy(n) => ids'[n] = ids[n] \cup {id}
      BY <1>1, <1>3, <1>5, Learning
    <2>2. notified \in [Nodes -> [Ids -> 0 .. 2]]
      BY <1>1 DEF Types
    <2>3. \A m \in Nodes, other \in Ids :
             \/ notified'[m][other] = notified[m][other]
             \/ /\ m = n /\ other = id
                /\ notified'[m][other] =
                      IF notified[n][id] = 0 THEN 1 ELSE 2
      BY <1>3, <1>5, <2>2
    <2>4. KnownIsAnnounced'
      BY <1>1, <1>3, <2>1, <2>3 DEF OnceInv, KnownIsAnnounced, Known
    <2>5. ASSUME NEW m \in Nodes, NEW other \in Ids, Roomy(m)
          PROVE  Remembered(m, other)'
      <3>1. Remembered(m, other) /\ notified[m][other] \in 0 .. 2
        BY <2>2, <2>5 DEF OnceInv, AllRemembered
      <3>2. other \in ids[m] => other \in ids'[m]
        BY <2>1, <2>5
      <3>3. CASE notified'[m][other] = notified[m][other]
        BY <1>1, <3>1, <3>2, <3>3 DEF Remembered
      <3>4. CASE /\ m = n /\ other = id
                 /\ notified'[m][other] =
                       IF notified[n][id] = 0 THEN 1 ELSE 2
        <4>1. other \notin ids[m] /\ other \in ids'[m]
          BY <1>5, <2>1, <2>5, <3>4
        <4>2. notified[m][other] = 0 /\ origin[other] # m
          BY <3>1, <4>1 DEF Remembered
        <4>3. QED
          BY <1>1, <3>4, <4>1, <4>2 DEF Remembered
      <3>5. QED
        BY <2>3, <3>3, <3>4
    <2>6. QED
      BY <2>4, <2>5 DEF AllRemembered, Roomy
  <1>6. QED
    BY <1>4, <1>5 DEF HandlePeerAnnounce

LEMMA OnceStep == OnceInv /\ [Next]_vars => OnceInv'
  <1> SUFFICES ASSUME OnceInv, [Next]_vars
               PROVE  KnownIsAnnounced' /\ AllRemembered'
    BY HopsStep DEF OnceInv
  <1>1. ASSUME UNCHANGED <<ids, notified, origin>>
        PROVE  KnownIsAnnounced' /\ AllRemembered'
    BY <1>1
    DEF OnceInv, KnownIsAnnounced, AllRemembered, Known, Remembered, Roomy
  <1>2. CASE UNCHANGED vars
    BY <1>1, <1>2 DEF vars
  <1>3. CASE Next
    BY <1>1, <1>3, AnnounceOnce, HandleOnce
    DEF Next, Accepted, Refused, ClosePeer, Reconnect
  <1>4. QED
    BY <1>2, <1>3

\* A user whose node has room for all ids is notified of an announcement once,
\* and of none of its own, in any network: whatever the number of connections
\* and the paths by which copies arrive (gossip.py:471, 517-542).
THEOREM NotifiedOnlyOnce == Spec => []NotifiedOnce
  <1>1. Init => OnceInv
    BY InitTypes, HopsInit, OnceInit DEF OnceInv, HopInv
  <1>2. OnceInv => NotifiedOnce
    BY DEF OnceInv, AllRemembered, Remembered, Roomy, NotifiedOnce
  <1>3. QED
    BY <1>1, OnceStep, <1>2, PTL DEF Spec

-----------------------------------------------------------------------------
(***************************************************************************)
(* Relays.  An entry is not lost by a connection that closes: it has come  *)
(* one hop at least, also when nothing else of it is left.                 *)
(***************************************************************************)
HasHops(entry) == entry # NoEntry => entry.hops > 0

EntriesHaveHops ==
    Types /\ \A n \in Nodes, id \in Ids : HasHops(toVerify[n][id])

LEMMA HopsStayStep == EntriesHaveHops /\ [Next]_vars => EntriesHaveHops'
  <1> SUFFICES ASSUME EntriesHaveHops, [Next]_vars,
                      NEW m \in Nodes, NEW other \in Ids
               PROVE  HasHops(toVerify'[m][other])
    BY TypesStep DEF EntriesHaveHops, HasHops
  <1>1. /\ Types /\ toVerify \in [Nodes -> [Ids -> Entry]]
        /\ HasHops(toVerify[m][other]) /\ HasHops(NoEntry)
    BY DEF EntriesHaveHops, Types, HasHops
  <1>2. CASE UNCHANGED toVerify
    BY <1>1, <1>2
  <1>3. ASSUME NEW n \in Nodes, NEW id \in Ids,
               Accepted(n, id) \/ Refused(n, id)
        PROVE  HasHops(toVerify'[m][other])
    BY <1>1, <1>3 DEF Accepted, Refused
  <1>4. ASSUME NEW n \in Nodes, NEW c \in Connections,
               HandlePeerAnnounce(n, c)
        PROVE  HasHops(toVerify'[m][other])
    <2> DEFINE message == Head(wire[c][n])
               entry == [ttl |-> OneHopLess(message.ttl),
                         hops |-> NextHop(message), from |-> c]
    <2>1. message \in Message
      BY <1>1, <1>4, ReadTypes DEF HandlePeerAnnounce
    <2>2. entry.hops > 0
      BY <2>1 DEF Message, NextHop
    <2>3. \/ toVerify' = toVerify
          \/ toVerify' = [toVerify EXCEPT ![n][message.id] = entry]
      BY <1>4 DEF HandlePeerAnnounce
    <2> HIDE DEF entry, message
    <2>4. toVerify'[m][other] = toVerify[m][other]
             \/ toVerify'[m][other] = entry
      BY <1>1, <2>3
    <2>5. QED
      BY <1>1, <2>2, <2>4 DEF HasHops
  <1>5. ASSUME NEW n \in Nodes, NEW c \in Connections, ClosePeer(n, c)
        PROVE  HasHops(toVerify'[m][other])
    <2>1. toVerify[m][other] \in Entry
      BY <1>1
    <2>2. \/ toVerify'[m][other] = toVerify[m][other]
          \/ /\ toVerify[m][other] # NoEntry
             /\ toVerify'[m][other] =
                   [toVerify[m][other] EXCEPT !.from = NoConnection]
      BY <1>1, <1>5 DEF ClosePeer
    <2>3. QED
      BY <1>1, <2>1, <2>2 DEF Entry, HasHops
  <1>6. QED
    BY <1>2, <1>3, <1>4, <1>5 DEF Next, HandleGossipAnnounce, Reconnect, vars

\* Only the last acceptance makes an entry of a node that does not refuse go.
LEMMA RelayIsAccepted ==
    ASSUME EntriesHaveHops, EntriesHaveHops', Next,
           NEW m \in Nodes, NEW other \in Ids, Relayed(m, other)
    PROVE  Accepted(m, other)
  <1>1. /\ Types /\ toVerify \in [Nodes -> [Ids -> Entry]]
        /\ m \notin Refusing /\ toVerify[m][other] # NoEntry
        /\ toVerify'[m][other] = NoEntry
    BY DEF EntriesHaveHops, Types, Relayed
  <1>2. toVerify' # toVerify
    BY <1>1
  <1>3. ASSUME NEW n \in Nodes, NEW c \in Connections,
               HandlePeerAnnounce(n, c)
        PROVE  FALSE
    <2> DEFINE message == Head(wire[c][n])
               entry == [ttl |-> OneHopLess(message.ttl),
                         hops |-> NextHop(message), from |-> c]
    <2>1. message \in Message
      BY <1>1, <1>3, ReadTypes DEF HandlePeerAnnounce
    <2>2. entry.hops > 0
      BY <2>1 DEF Message, NextHop
    <2>3. toVerify' = [toVerify EXCEPT ![n][message.id] = entry]
      BY <1>2, <1>3 DEF HandlePeerAnnounce
    <2> HIDE DEF entry, message
    <2>4. toVerify'[m][other] = toVerify[m][other]
             \/ toVerify'[m][other] = entry
      BY <1>1, <2>3
    <2>5. NoEntry.hops = 0
      BY DEF NoEntry
    <2>6. QED
      BY <1>1, <2>2, <2>4, <2>5
  <1>4. ASSUME NEW n \in Nodes, NEW c \in Connections, ClosePeer(n, c)
        PROVE  FALSE
    <2>1. toVerify[m][other] \in Entry /\ toVerify[m][other].hops > 0
      BY <1>1 DEF EntriesHaveHops, HasHops
    <2>2. toVerify'[m][other] =
             [toVerify[m][other] EXCEPT !.from = NoConnection]
      BY <1>1, <1>4 DEF ClosePeer
    <2>3. toVerify'[m][other].hops = toVerify[m][other].hops
      BY <2>1, <2>2 DEF Entry
    <2>4. NoEntry.hops = 0
      BY DEF NoEntry
    <2>5. QED
      BY <1>1, <2>1, <2>3, <2>4
  <1>5. ASSUME NEW n \in Nodes, NEW id \in Ids, Accepted(n, id) \/ Refused(n, id)
        PROVE  Accepted(m, other)
    <2>1. n = m /\ id = other
      BY <1>1, <1>5 DEF Accepted, Refused
    <2>2. QED
      BY <1>1, <1>5, <2>1 DEF Refused
  <1>6. QED
    BY <1>2, <1>3, <1>4, <1>5 DEF Next, HandleGossipAnnounce, Reconnect

\* A sample of two or more has somebody else in it.
LEMMA SampleOfTwo ==
    ASSUME NEW n \in Nodes, NEW sample \in GetPeerSample(n), Degree[n] >= 2,
           NEW from, Peers(n) \ {from} # {}
    PROVE  \E c \in Peers(n) : c \in sample /\ c # from
  <1>1. CASE sample = Peers(n)
    BY <1>1
  <1>2. CASE sample \subseteq Peers(n) /\ Cardinality(sample) = Degree[n]
    <2>1. ASSUME sample \subseteq {from} PROVE FALSE
      <3>1. IsFiniteSet({from}) /\ Cardinality({from}) = 1
        BY FS_Singleton
      <3>2. IsFiniteSet(sample) /\ Cardinality(sample) <= 1
        BY <2>1, <3>1, FS_Subset
      <3>3. Cardinality(sample) \in Nat
        BY <3>2, FS_CardinalityType
      <3>4. QED
        BY <1>2, <3>2, <3>3, NodesAssumption
    <2>2. QED
      BY <1>2, <2>1
  <1>3. QED
    BY <1>1, <1>2 DEF GetPeerSample

LEMMA RelayIsWritten ==
    ASSUME Types, NEW n \in Nodes, NEW id \in Ids, Accepted(n, id),
           Degree[n] >= 2, Peers(n) \ {toVerify[n][id].from} # {},
           \A c \in Peers(n) : up[c] = EndsOf[c]
    PROVE  \E c \in Peers(n) \ {toVerify[n][id].from}, m \in Nodes \ {n} :
              Len(wire'[c][m]) > Len(wire[c][m])
  <1> DEFINE entry == toVerify[n][id]
             new == [id |-> id, ttl |-> entry.ttl, hops |-> entry.hops]
  <1>1. PICK sample \in GetPeerSample(n) :
           wire' = SendPeerAnnounce(n, sample \ {entry.from}, new, wire)
    BY DEF Accepted
  <1>2. PICK c \in Peers(n) : c \in sample /\ c # entry.from
    BY <1>1, SampleOfTwo
  <1>3. c \in Connections /\ n \in EndsOf[c] /\ up[c] = EndsOf[c]
    BY <1>2 DEF Peers
  <1>4. PICK m \in Nodes : m # n /\ m \in up[c]
    BY <1>3, ConnectionsAssumption
  <1>5. wire[c][m] \in Seq(Message)
    BY <1>3 DEF Types, Wires
  <1>6. new \in Message
    BY DEF Types, Entry, Message
  <1> HIDE DEF new
  <1>7. wire'[c][m] = Append(wire[c][m], new)
    BY <1>1, <1>2, <1>3, <1>4 DEF SendPeerAnnounce
  <1>8. Len(wire'[c][m]) = Len(wire[c][m]) + 1 /\ Len(wire[c][m]) \in Nat
    BY <1>5, <1>6, <1>7, AppendProperties, LenProperties
  <1>9. QED
    BY <1>2, <1>4, <1>8

\* With a degree of two or more, a relay goes to somebody if there is somebody
\* else to send it to, although the connection it came from is taken out of the
\* sample only after it was drawn (gossip.py:583-591).
THEOREM RelaysReachSomebody == Spec => RelayReachesSomebody
  <1>1. Init => EntriesHaveHops
    BY InitTypes DEF Init, EntriesHaveHops, HasHops
  <1>2. ASSUME EntriesHaveHops, EntriesHaveHops', [Next]_vars
        PROVE  [\A n \in Nodes, id \in Ids :
                   /\ Relayed(n, id) /\ Degree[n] >= 2
                   /\ Peers(n) \ {toVerify[n][id].from} # {}
                   /\ \A c \in Peers(n) : up[c] = EndsOf[c]
                   => \E c \in Peers(n) \ {toVerify[n][id].from},
                         m \in Nodes \ {n} :
                         Len(wire'[c][m]) > Len(wire[c][m])]_vars
    BY <1>2, RelayIsAccepted, RelayIsWritten DEF EntriesHaveHops
  <1>3. QED
    BY <1>1, <1>2, HopsStayStep, PTL DEF Spec, RelayReachesSomebody
=============================================================================
