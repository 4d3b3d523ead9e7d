----------------------------- MODULE LinkProofs -----------------------------
(***************************************************************************)
(* What holds of Link for all lengths of data and every number of          *)
(* discoveries and announcements.                                          *)
(***************************************************************************)
EXTENDS Link, SequenceTheorems, TLAPS

-----------------------------------------------------------------------------
(* Messages as they are packed.                                             *)

Genuine ==
    {p \in OnTheWire :
        /\ p.len = p.size
        /\ p.type \in HasData => p.len >= FormatSize(p.type)
        /\ p.type \notin HasData => p.len = FormatSize(p.type)}

Streams == [Ends -> Seq(Genuine)]

LEMMA SizeFits == MaxSize \in Nat /\ MaxSize > 16
  BY SMT DEF MaxSize

\* Every message the program packs is genuine (pack_peer_...).
LEMMA PackedIsGenuine ==
    ASSUME NEW type \in PeerTypes, NEW data \in 0 .. MaxSize - 16,
           data # 0 => type \in HasData
    PROVE  Pack(type, data) \in Genuine /\ Pack(type, data).type = type
  <1>1. FormatSize(type) \in 4 .. 16
    BY DEF FormatSize, PeerTypes, Handshake, ApiTypes
  <1>2. /\ Pack(type, data).type = type
        /\ Pack(type, data).size = FormatSize(type) + data
        /\ Pack(type, data).len = FormatSize(type) + data
        /\ FormatSize(type) + data \in 4 .. MaxSize
        /\ Pack(type, data) \in [type : PeerTypes, size : 4 .. MaxSize,
                                 len : 4 .. MaxSize]
    BY <1>1, SizeFits DEF Pack, Packet
  <1>3. data \in Nat /\ (type \notin HasData => data = 0)
    BY SizeFits
  <1>4. /\ FormatSize(type) + data >= FormatSize(type)
        /\ data = 0 => FormatSize(type) + data = FormatSize(type)
    BY <1>1, <1>3
  <1>5. QED
    BY <1>2, <1>3, <1>4 DEF Genuine, OnTheWire

\* The parser of its type returns what a genuine message says, and returns
\* nothing of a part of it (__check_size).
LEMMA GenuineIsTaken ==
    ASSUME NEW p \in Genuine
    PROVE  TakenWhole(p)
  <1>1. /\ p.type \in PeerTypes /\ p.len = p.size /\ p.len \in 4 .. MaxSize
        /\ p.type = "PEER_ANNOUNCE" => p.len >= 16
        /\ p.type = "PEER_DISCOVERY" => p.len = 4
        /\ p.type = "PEER_INFO" => p.len = 8
        /\ p.type = "PEER_CHALLENGE" => p.len = 12
        /\ p.type = "PEER_VERIFICATION" => p.len = 12
        /\ p.type = "PEER_VALIDATION" => p.len = 8
    BY DEF Genuine, OnTheWire, HasData, FormatSize, ApiTypes
  <1>2. Parse(p) = "ok"
    BY <1>1
    DEF Parse, PeerTypes, Handshake, Returns, CheckSize, ParsePeerAnnounce,
        CheckPeerDiscovery, ParsePeerOffer, ParsePeerInfo, UnpackAll,
        ParsePeerChallenge, ParsePeerVerification, ParsePeerValidation
  <1>3. ASSUME NEW n \in 4 .. p.len - 1 PROVE Parse(Cut(p, n)) = "none"
    <2>1. Cut(p, n).type = p.type /\ ~CheckSize(Cut(p, n))
      BY <1>1 DEF Cut, CheckSize, Genuine, OnTheWire
    <2>2. QED
      BY <1>1, <2>1
      DEF Parse, PeerTypes, Handshake, Returns, ParsePeerAnnounce,
          CheckPeerDiscovery, ParsePeerOffer, ParsePeerInfo, UnpackAll,
          ParsePeerChallenge, ParsePeerVerification, ParsePeerValidation
  <1>4. QED
    BY <1>2, <1>3 DEF TakenWhole

LEMMA HandshakeIsGenuine ==
    /\ Pack("PEER_INFO", 0) \in Genuine
    /\ Pack("PEER_CHALLENGE", 0) \in Genuine
    /\ Pack("PEER_VERIFICATION", 0) \in Genuine
    /\ Pack("PEER_VALIDATION", 0) \in Genuine
    /\ Pack("PEER_DISCOVERY", 0) \in Genuine
  <1>1. ASSUME NEW type \in PeerTypes PROVE Pack(type, 0) \in Genuine
    <2>1. 0 \in 0 .. MaxSize - 16
      BY SizeFits
    <2>2. QED
      BY <2>1, PackedIsGenuine
  <1>2. QED
    BY <1>1 DEF PeerTypes, Handshake

LEMMA DataIsGenuine ==
    ASSUME NEW data \in DataLengths
    PROVE  /\ Pack("PEER_OFFER", data) \in Genuine
           /\ Pack("PEER_ANNOUNCE", data) \in Genuine
  <1>1. data \in 0 .. MaxSize - 16
    BY LengthsAssumption, SizeFits
  <1>2. {"PEER_OFFER", "PEER_ANNOUNCE"} \subseteq PeerTypes \cap HasData
    BY DEF PeerTypes, HasData
  <1>3. QED
    BY <1>1, <1>2, PackedIsGenuine

-----------------------------------------------------------------------------
(* Types: the streams hold genuine messages.                                *)

TypeInv ==
    /\ stream \in Streams
    /\ open \in [Ends -> BOOLEAN]
    /\ run \in [Ends -> Runs]
    /\ waits \in [Ends -> BOOLEAN]
    /\ us \in [Ends -> BOOLEAN] /\ them \in [Ends -> BOOLEAN]
    /\ port \in [Ends -> BOOLEAN]
    /\ asked \in [Ends -> {"none", "fresh", "late"}]
    /\ challenge \in {"none", "sent", "expired"}
    /\ place \in {"none", "unverified", "push"}
    /\ kept \in [Ends -> Locks \cup {"none"}]
    /\ promotions \in Nat
    /\ crossed \in [Ends -> BOOLEAN]
    /\ discoveries \in [Ends -> Nat] /\ announces \in [Ends -> Nat]

LEMMA OtherEnd ==
    /\ Initiator \in Ends /\ Receiver \in Ends /\ Initiator # Receiver
    /\ \A e \in Ends : Other(e) \in Ends /\ Other(e) # e
    /\ Other(Initiator) = Receiver /\ Other(Receiver) = Initiator
  BY EndsAssumption DEF Ends, Other

LEMMA StreamsAreTyped ==
    ASSUME stream \in Streams
    PROVE  \A e \in Ends : \A i \in DOMAIN stream[e] :
              stream[e][i] \in Genuine /\ stream[e][i] \in OnTheWire
  <1>1. ASSUME NEW e \in Ends, NEW i \in DOMAIN stream[e]
        PROVE  stream[e][i] \in Genuine
    <2>1. stream[e] \in Seq(Genuine)
      BY DEF Streams
    <2>2. DOMAIN stream[e] = 1 .. Len(stream[e])
      BY <2>1, LenProperties
    <2>3. QED
      BY <2>1, <2>2, ElementOfSeq
  <1>2. QED
    BY <1>1 DEF Genuine

LEMMA StreamChanged ==
    ASSUME NEW streams \in Streams, NEW e \in Ends, NEW s \in Seq(Genuine)
    PROVE  [streams EXCEPT ![e] = s] \in Streams
  BY DEF Streams

LEMMA SentTypes ==
    ASSUME NEW e \in Ends, NEW p \in Genuine, NEW streams \in Streams
    PROVE  Sent(e, p, streams) \in Streams
  <1>1. Other(e) \in Ends /\ streams[Other(e)] \in Seq(Genuine)
    BY OtherEnd DEF Streams
  <1>2. Append(streams[Other(e)], p) \in Seq(Genuine)
    BY <1>1
  <1>3. QED
    BY <1>1, <1>2, StreamChanged DEF Sent

LEMMA TakenTypes ==
    ASSUME TypeInv, NEW e \in Ends, waits[e] \/ stream[e] # <<>>
    PROVE  Taken(e) \in Streams
  <1>1. stream[e] \in Seq(Genuine) /\ <<>> \in Seq(Genuine)
    BY EmptySeq DEF TypeInv, Streams
  <1>2. CASE waits[e]
    BY <1>1, <1>2, StreamChanged DEF Taken, TypeInv
  <1>3. CASE ~waits[e]
    <2>1. Tail(stream[e]) \in Seq(Genuine)
      BY <1>1, <1>3, HeadTailProperties
    <2>2. QED
      BY <1>3, <2>1, StreamChanged DEF Taken, TypeInv
  <1>4. QED
    BY <1>2, <1>3

LEMMA TypeInit == Init => TypeInv
  <1> SUFFICES ASSUME Init PROVE TypeInv
    OBVIOUS
  <1>1. <<Pack("PEER_INFO", 0)>> \in Seq(Genuine) /\ <<>> \in Seq(Genuine)
    BY HandshakeIsGenuine
  <1>2. stream \in Streams
    BY <1>1 DEF Init, Streams
  <1>3. QED
    BY <1>2, OtherEnd DEF Init, Runs, TypeInv

\* The other parts of the state that change when a task does not go on.
LEMMA CloseTypes ==
    ASSUME TypeInv, NEW e \in Ends,
           Close(e) \/ Gone(e) \/ Blocks(e) \/ Raises(e)
    PROVE  /\ stream' \in Streams
           /\ open' \in [Ends -> BOOLEAN]
           /\ run' \in [Ends -> Runs]
           /\ place' \in {"none", "unverified", "push"}
  <1>1. [stream EXCEPT ![e] = <<>>] \in Streams
    BY EmptySeq, StreamChanged DEF TypeInv
  <1>2. stream' \in Streams
    BY <1>1 DEF Close, Gone, Blocks, Raises, TypeInv
  <1>3. QED
    BY <1>2 DEF Close, Gone, Blocks, Raises, Runs, TypeInv

\* The parts of the state a message that is handled can change.
HandledTypes ==
    /\ stream' \in Streams
    /\ open' \in [Ends -> BOOLEAN]
    /\ run' \in [Ends -> Runs]
    /\ us' \in [Ends -> BOOLEAN] /\ them' \in [Ends -> BOOLEAN]
    /\ port' \in [Ends -> BOOLEAN]
    /\ asked' \in [Ends -> {"none", "fresh", "late"}]
    /\ challenge' \in {"none", "sent", "expired"}
    /\ place' \in {"none", "unverified", "push"}
    /\ promotions' \in Nat

LEMMA HandlerTypes ==
    ASSUME TypeInv, NEW e \in Ends, waits[e] \/ stream[e] # <<>>,
           NEW type, Handler(e, type)
    PROVE  HandledTypes
  <1> USE DEF HandledTypes
  <1>1. Taken(e) \in Streams
    BY TakenTypes
  <1>2. CASE HandlePeerAnnounce(e)
    BY <1>1, <1>2, CloseTypes DEF HandlePeerAnnounce, GoesOn, TypeInv
  <1>3. CASE HandlePeerDiscovery(e)
    <2>1. CASE Blocks(e)
      BY <1>3, <2>1, CloseTypes DEF HandlePeerDiscovery, TypeInv
    <2>2. CASE ~Blocks(e)
      <3>1. stream' \in Streams
        BY <1>1, <1>3, <2>2, DataIsGenuine, SentTypes
        DEF HandlePeerDiscovery, GoesOn
      <3>2. QED
        BY <1>3, <2>2, <3>1 DEF HandlePeerDiscovery, GoesOn, TypeInv
    <2>3. QED
      BY <2>1, <2>2
  <1>4. CASE HandlePeerOffer(e)
    BY <1>1, <1>4, CloseTypes DEF HandlePeerOffer, GoesOn, TypeInv
  <1>5. CASE HandlePeerInfo(e)
    BY <1>1, <1>5 DEF HandlePeerInfo, TypeInv
  <1>6. CASE HandlePeerChallenge(e)
    <2>1. stream' \in Streams
      BY <1>1, <1>6, HandshakeIsGenuine, SentTypes DEF HandlePeerChallenge
    <2>2. QED
      BY <1>6, <2>1 DEF HandlePeerChallenge, TypeInv
  <1>7. CASE HandlePeerVerification(e)
    <2>1. Sent(e, Pack("PEER_VALIDATION", 0), Taken(e)) \in Streams
      BY <1>1, HandshakeIsGenuine, SentTypes
    <2>2. QED
      BY <1>7, <2>1, CloseTypes DEF HandlePeerVerification, Runs, TypeInv
  <1>8. CASE HandlePeerValidation(e)
    BY <1>1, <1>8 DEF HandlePeerValidation, TypeInv
  <1>9. QED
    BY <1>2, <1>3, <1>4, <1>5, <1>6, <1>7, <1>8 DEF Handler

\* A message with a type was there to be read.
LEMMA IncomingTypes ==
    ASSUME TypeInv, NEW e \in Ends, NEW p, HandleIncoming(e, p),
           HeaderType(p) \in PeerTypes => waits[e] \/ stream[e] # <<>>,
           waits' \in [Ends -> BOOLEAN]
    PROVE  TypeInv'
  <1> DEFINE type == HeaderType(p)
  <1>1. ASSUME HandledTypes, UNCHANGED <<kept, crossed, sent>>
        PROVE  TypeInv'
    BY <1>1 DEF HandledTypes, TypeInv, sent
  <1>2. UNCHANGED <<kept, crossed, sent>>
    BY DEF HandleIncoming
  <1>3. CASE type \in PeerTypes /\ Handler(e, type)
    BY <1>1, <1>2, <1>3, HandlerTypes
  <1>4. CASE Close(e) /\ UNCHANGED <<us, them, port, asked, challenge,
                                     promotions>>
    BY <1>1, <1>2, <1>4, CloseTypes DEF HandledTypes, TypeInv
  <1>5. CASE /\ type = "PEER_DISCOVERY" /\ stream' = Taken(e)
             /\ UNCHANGED <<open, run, us, them, port, asked, challenge,
                            place, promotions>>
    <2>1. type \in PeerTypes
      BY <1>5 DEF PeerTypes
    <2>2. stream' \in Streams
      BY <1>5, <2>1, TakenTypes
    <2>3. QED
      BY <1>1, <1>2, <1>5, <2>2 DEF HandledTypes, TypeInv
  <1>6. CASE /\ them' = [them EXCEPT ![e] = FALSE]
             /\ Close(e)
             /\ UNCHANGED <<us, port, asked, challenge, promotions>>
    BY <1>1, <1>2, <1>6, CloseTypes DEF HandledTypes, TypeInv
  <1>7. QED
    BY <1>3, <1>4, <1>5, <1>6 DEF HandleIncoming

LEMMA ReadTypes ==
    ASSUME TypeInv, NEW e \in Ends,
           \/ Read(e) \/ ReadCut(e) \/ ReadOneByte(e)
           \/ ReadNothing(e) \/ ReadAll(e)
    PROVE  TypeInv'
  <1>1. CASE Read(e) \/ ReadCut(e)
    BY <1>1, IncomingTypes DEF Read, ReadCut, TypeInv
  <1>2. CASE ReadOneByte(e)
    BY <1>2 DEF ReadOneByte, TypeInv, sent
  <1>3. CASE ReadNothing(e)
    <2>1. HeaderType(Packet("none", 0, 0)) \notin PeerTypes
      BY DEF HeaderType, Packet, PeerTypes, Handshake
    <2>2. QED
      BY <1>3, <2>1, IncomingTypes DEF ReadNothing, TypeInv
  <1>4. CASE ReadAll(e)
    BY <1>4, IncomingTypes DEF ReadAll, TypeInv
  <1>5. QED
    BY <1>1, <1>2, <1>3, <1>4

LEMMA SendTypes ==
    ASSUME TypeInv, NEW e \in Ends,
           \/ SendPeerDiscovery(e)
           \/ \E data \in DataLengths : SendPeerAnnounce(e, data)
    PROVE  TypeInv'
  <1>1. stream' \in Streams
    BY DataIsGenuine, HandshakeIsGenuine, SentTypes
    DEF SendPeerDiscovery, SendPeerAnnounce, TypeInv
  <1>2. CASE SendPeerDiscovery(e)
    <2>1. Unanswered(e) \in BOOLEAN
      BY DEF Unanswered, OnItsWay
    <2>2. crossed' \in [Ends -> BOOLEAN]
      BY <1>2, <2>1 DEF SendPeerDiscovery, TypeInv
    <2>3. QED
      BY <1>1, <1>2, <2>2 DEF SendPeerDiscovery, TypeInv
  <1>3. CASE \E data \in DataLengths : SendPeerAnnounce(e, data)
    BY <1>1, <1>3 DEF SendPeerAnnounce, TypeInv
  <1>4. QED
    BY <1>2, <1>3

LEMMA ReceiverTypes ==
    ASSUME TypeInv,
           \/ OnPeerConnection \/ ValidatePeer
           \/ SendPeerChallenge \/ ChallengeExpires
    PROVE  TypeInv'
  <1>1. CASE SendPeerChallenge
    <2>1. stream' \in Streams
      BY <1>1, OtherEnd, HandshakeIsGenuine, SentTypes
      DEF SendPeerChallenge, TypeInv
    <2>2. QED
      BY <1>1, <2>1 DEF SendPeerChallenge, Locks, TypeInv, sent
  <1>2. CASE OnPeerConnection
    BY <1>2 DEF OnPeerConnection, Runs, TypeInv, sent
  <1>3. CASE ValidatePeer
    <2>1. promotions' \in Nat
      BY <1>3 DEF ValidatePeer, TypeInv
    <2>2. run' \in [Ends -> Runs]
      BY <1>3 DEF ValidatePeer, Runs, TypeInv
    <2>3. UNCHANGED <<stream, open, waits, us, them, port, asked, challenge,
                      kept, crossed, sent>> /\ place' \in {"none", "push"}
      BY <1>3 DEF ValidatePeer
    <2>4. QED
      BY <2>1, <2>2, <2>3 DEF TypeInv, sent
  <1>4. CASE ChallengeExpires
    BY <1>4 DEF ChallengeExpires, TypeInv, sent
  <1>5. QED
    BY <1>1, <1>2, <1>3, <1>4

LEMMA EndTypes ==
    ASSUME TypeInv, NEW e \in Ends,
           Reset(e) \/ Stops(e) \/ EvictionBlocks(e) \/ OfferExpires(e)
    PROVE  TypeInv'
  <1>1. CASE Reset(e) \/ Stops(e)
    <2>1. /\ stream' \in Streams /\ open' \in [Ends -> BOOLEAN]
          /\ run' \in [Ends -> Runs]
          /\ place' \in {"none", "unverified", "push"}
      BY <1>1, CloseTypes DEF Reset, Stops
    <2>2. QED
      BY <1>1, <2>1 DEF Reset, Stops, TypeInv, sent
  <1>2. CASE OfferExpires(e)
    BY <1>2 DEF OfferExpires, TypeInv, sent
  <1>3. CASE EvictionBlocks(e)
    <2>1. kept' \in [Ends -> Locks \cup {"none"}]
      <3>1. PICK lock \in MayBlock[e] : kept' = [kept EXCEPT ![e] = lock]
        BY <1>3 DEF EvictionBlocks
      <3>2. MayBlock[e] \in SUBSET Locks
        BY LinkBounds
      <3>3. QED
        BY <3>1, <3>2 DEF TypeInv
    <2>2. UNCHANGED <<stream, open, run, waits, us, them, port, asked,
                      challenge, place, promotions, crossed, sent>>
      BY <1>3 DEF EvictionBlocks
    <2>3. QED
      BY <2>1, <2>2 DEF TypeInv, sent
  <1>4. QED
    BY <1>1, <1>2, <1>3

LEMMA TypeStep == TypeInv /\ [Next]_vars => TypeInv'
  <1> SUFFICES ASSUME TypeInv, [Next]_vars PROVE TypeInv'
    OBVIOUS
  <1>1. CASE Next
    BY <1>1, ReadTypes, SendTypes, ReceiverTypes, EndTypes
    DEF Next, ReaderTask
  <1>2. CASE UNCHANGED vars
    BY <1>2 DEF vars, sent, TypeInv
  <1>3. QED
    BY <1>1, <1>2

\* Every reachable state of every instance has the declared types.
THEOREM LinkTypes == Spec => []TypeOK
  <1>1. TypeInv => TypeOK
    BY StreamsAreTyped DEF TypeInv, TypeOK
  <1>2. QED
    BY TypeInit, TypeStep, <1>1, PTL DEF Spec

\* A message is taken as it was packed or not at all, whatever the two reads
\* of run return (peer_connection.py:119): what is under way was packed by the
\* program, and all parsers compare the size with the one in the header first.
THEOREM TakenWholeOrNotAtAll == Spec => []WholeOrNothing
  <1>1. TypeInv => WholeOrNothing
    BY StreamsAreTyped, GenuineIsTaken DEF TypeInv, WholeOrNothing
  <1>2. QED
    BY TypeInit, TypeStep, <1>1, PTL DEF Spec

-----------------------------------------------------------------------------
(* What is on its way.                                                      *)

Holds(s, type) == \E i \in DOMAIN s : s[i].type = type

LEMMA HoldsAppended ==
    ASSUME NEW s \in Seq(Genuine), NEW p \in Genuine, NEW type
    PROVE  /\ Append(s, p) \in Seq(Genuine)
           /\ Holds(Append(s, p), type) <=> Holds(s, type) \/ p.type = type
           /\ s # <<>> => Append(s, p) # <<>> /\ Head(Append(s, p)) = Head(s)
  <1>1. /\ Append(s, p) \in Seq(Genuine) /\ Append(s, p) # <<>>
        /\ Len(Append(s, p)) = Len(s) + 1
        /\ \A i \in 1 .. Len(s) : Append(s, p)[i] = s[i]
        /\ Append(s, p)[Len(s) + 1] = p
    BY AppendProperties
  <1>2. /\ Len(s) \in Nat /\ DOMAIN s = 1 .. Len(s)
        /\ DOMAIN Append(s, p) = 1 .. Len(s) + 1
    BY <1>1, LenProperties
  <1>3. \A i \in 1 .. Len(s) + 1 : i \in 1 .. Len(s) \/ i = Len(s) + 1
    BY <1>2
  <1>4. Len(s) + 1 \in 1 .. Len(s) + 1
        /\ \A i \in 1 .. Len(s) : i \in 1 .. Len(s) + 1
    BY <1>2
  <1>5. Holds(Append(s, p), type) <=> Holds(s, type) \/ p.type = type
    BY <1>1, <1>2, <1>3, <1>4 DEF Holds
  <1>6. s # <<>> => Head(Append(s, p)) = Head(s)
    BY HeadTailAppend
  <1>7. QED
    BY <1>1, <1>5, <1>6

LEMMA HoldsTail ==
    ASSUME NEW s \in Seq(Genuine), s # <<>>, NEW type
    PROVE  /\ Tail(s) \in Seq(Genuine) /\ Head(s) \in Genuine
           /\ Holds(s, type) <=> Head(s).type = type \/ Holds(Tail(s), type)
  <1>1. /\ Tail(s) \in Seq(Genuine) /\ Head(s) \in Genuine
        /\ Len(Tail(s)) = Len(s) - 1
        /\ \A i \in 1 .. Len(Tail(s)) : Tail(s)[i] = s[i + 1]
    BY HeadTailProperties
  <1>2. /\ Len(s) \in Nat /\ Len(s) > 0 /\ DOMAIN s = 1 .. Len(s)
        /\ DOMAIN Tail(s) = 1 .. Len(s) - 1 /\ Head(s) = s[1]
    BY <1>1, LenProperties, EmptySeq
  <1>3. /\ 1 \in 1 .. Len(s)
        /\ \A i \in 1 .. Len(s) - 1 : i + 1 \in 1 .. Len(s)
        /\ \A i \in 1 .. Len(s) :
              i = 1 \/ (i - 1 \in 1 .. Len(s) - 1 /\ (i - 1) + 1 = i)
    BY <1>2
  <1>4. \A i \in 1 .. Len(s) - 1 : Tail(s)[i] = s[i + 1]
    BY <1>1
  <1>5. ASSUME Holds(s, type)
        PROVE  Head(s).type = type \/ Holds(Tail(s), type)
    <2>1. PICK i \in 1 .. Len(s) : s[i].type = type
      BY <1>2, <1>5 DEF Holds
    <2>2. CASE i = 1
      BY <1>2, <2>1, <2>2
    <2>3. CASE i - 1 \in 1 .. Len(s) - 1 /\ (i - 1) + 1 = i
      <3>1. Tail(s)[i - 1].type = type
        BY <1>4, <2>1, <2>3
      <3>2. QED
        BY <1>2, <2>3, <3>1 DEF Holds
    <2>4. QED
      BY <1>3, <2>2, <2>3
  <1>6. ASSUME Head(s).type = type \/ Holds(Tail(s), type)
        PROVE  Holds(s, type)
    BY <1>2, <1>3, <1>4, <1>6 DEF Holds
  <1>7. QED
    BY <1>1, <1>5, <1>6

-----------------------------------------------------------------------------
(* The verdict of the receiver and what the initiator knows of it.          *)

Connected == \A e \in Ends : open[e] /\ run[e] # "blocked"

LEMMA ClosingIsApart ==
    ASSUME TypeInv, NEW e \in Ends, Close(e) \/ Gone(e) \/ Blocks(e)
    PROVE  ~Connected'
  BY DEF Close, Gone, Blocks, Connected, TypeInv

Verdict ==
    them[Receiver] <=> us[Initiator]
                       \/ Holds(stream[Initiator], "PEER_VALIDATION")

LEMMA VerdictIsAgreed == VerdictsAgree <=> (Connected => Verdict)
  BY DEF VerdictsAgree, Connected, Verdict, OnItsWay, Holds

LEMMA SentTo ==
    ASSUME TypeInv, Connected, NEW e \in Ends, NEW p \in Genuine,
           NEW streams \in Streams
    PROVE  /\ e = Initiator =>
                Sent(e, p, streams)[Initiator] = streams[Initiator]
           /\ e = Receiver =>
                Sent(e, p, streams)[Initiator] = Append(streams[Initiator], p)
  <1>1. open[e] /\ open[Other(e)]
    BY OtherEnd DEF Connected
  <1>2. Sent(e, p, streams) =
            [streams EXCEPT ![Other(e)] = Append(@, p)]
    BY <1>1 DEF Sent
  <1>3. DOMAIN streams = Ends
    BY DEF Streams
  <1>4. QED
    BY <1>2, <1>3, OtherEnd

\* Sending anything but a verdict does not change which verdicts are on their
\* way.
LEMMA SendingKeepsVerdict ==
    ASSUME TypeInv, Connected, NEW e \in Ends, NEW p \in Genuine,
           p.type # "PEER_VALIDATION", NEW streams \in Streams
    PROVE  Holds(Sent(e, p, streams)[Initiator], "PEER_VALIDATION")
               <=> Holds(streams[Initiator], "PEER_VALIDATION")
  <1>1. streams[Initiator] \in Seq(Genuine)
    BY OtherEnd DEF Streams
  <1>2. \/ Sent(e, p, streams)[Initiator] = streams[Initiator]
        \/ Sent(e, p, streams)[Initiator] = Append(streams[Initiator], p)
    BY SentTo DEF Ends
  <1>3. Holds(Append(streams[Initiator], p), "PEER_VALIDATION")
            <=> Holds(streams[Initiator], "PEER_VALIDATION")
    BY <1>1, HoldsAppended
  <1>4. QED
    BY <1>2, <1>3

\* Taking a message takes a verdict if it is one that the initiator takes.
LEMMA TakingAVerdict ==
    ASSUME TypeInv, NEW e \in Ends, ~waits[e], stream[e] # <<>>
    PROVE  /\ Taken(e) \in Streams
           /\ Holds(stream[Initiator], "PEER_VALIDATION")
                 <=> \/ Holds(Taken(e)[Initiator], "PEER_VALIDATION")
                     \/ /\ e = Initiator
                        /\ Head(stream[e]).type = "PEER_VALIDATION"
  <1>1. Taken(e) \in Streams
    BY TakenTypes
  <1>2. stream[e] \in Seq(Genuine) /\ DOMAIN stream = Ends
    BY DEF TypeInv, Streams
  <1>3. Taken(e) = [stream EXCEPT ![e] = Tail(stream[e])]
    BY DEF Taken
  <1>4. CASE e = Initiator
    <2>1. Taken(e)[Initiator] = Tail(stream[Initiator])
      BY <1>2, <1>3, <1>4
    <2>2. Holds(stream[Initiator], "PEER_VALIDATION")
              <=> \/ Head(stream[Initiator]).type = "PEER_VALIDATION"
                  \/ Holds(Tail(stream[Initiator]), "PEER_VALIDATION")
      BY <1>2, <1>4, HoldsTail
    <2>3. QED
      BY <1>1, <1>4, <2>1, <2>2
  <1>5. CASE e # Initiator
    <2>1. Taken(e)[Initiator] = stream[Initiator]
      BY <1>2, <1>3, <1>5, OtherEnd
    <2>2. QED
      BY <1>1, <1>5, <2>1
  <1>6. QED
    BY <1>4, <1>5

LEMMA HandlingKeepsVerdict ==
    ASSUME TypeInv, Connected, Verdict, Connected', NEW e \in Ends, NEW type,
           ~waits[e], stream[e] # <<>>, Head(stream[e]).type = type,
           Handler(e, type)
    PROVE  Verdict'
  <1>1. /\ Taken(e) \in Streams
        /\ Holds(stream[Initiator], "PEER_VALIDATION")
              <=> \/ Holds(Taken(e)[Initiator], "PEER_VALIDATION")
                  \/ e = Initiator /\ type = "PEER_VALIDATION"
    BY TakingAVerdict
  <1>2. ~Close(e) /\ ~Blocks(e)
    BY ClosingIsApart
  <1>3. ASSUME type # "PEER_VALIDATION", UNCHANGED <<us, them>>,
               \/ stream' = Taken(e)
               \/ \E q \in Genuine : /\ q.type # "PEER_VALIDATION"
                                     /\ stream' = Sent(e, q, Taken(e))
        PROVE  Verdict'
    <2>1. Holds(stream'[Initiator], "PEER_VALIDATION")
              <=> Holds(Taken(e)[Initiator], "PEER_VALIDATION")
      BY <1>1, <1>3, SendingKeepsVerdict
    <2>2. QED
      BY <1>1, <1>3, <2>1 DEF Verdict
  <1>10. CASE Raises(e) /\ UNCHANGED <<us, them>>
    BY <1>10 DEF Raises, Verdict
  <1>4. CASE \/ type = "PEER_ANNOUNCE" /\ HandlePeerAnnounce(e)
             \/ type = "PEER_INFO" /\ HandlePeerInfo(e)
    BY <1>2, <1>3, <1>4, <1>10
    DEF HandlePeerAnnounce, HandlePeerInfo, GoesOn
  <1>5. CASE type = "PEER_DISCOVERY" /\ HandlePeerDiscovery(e)
    <2>1. ASSUME NEW data \in DataLengths
          PROVE  /\ Pack("PEER_OFFER", data) \in Genuine
                 /\ Pack("PEER_OFFER", data).type # "PEER_VALIDATION"
      BY DataIsGenuine DEF Pack, Packet
    <2>2. QED
      BY <1>2, <1>3, <1>5, <2>1 DEF HandlePeerDiscovery, GoesOn
  <1>6. CASE type = "PEER_OFFER" /\ HandlePeerOffer(e)
    BY <1>2, <1>3, <1>6, <1>10 DEF HandlePeerOffer, GoesOn
  <1>7. CASE type = "PEER_CHALLENGE" /\ HandlePeerChallenge(e)
    <2>1. /\ Pack("PEER_VERIFICATION", 0) \in Genuine
          /\ Pack("PEER_VERIFICATION", 0).type # "PEER_VALIDATION"
      BY HandshakeIsGenuine DEF Pack, Packet
    <2>2. QED
      BY <1>3, <1>7, <2>1 DEF HandlePeerChallenge
  <1>8. CASE type = "PEER_VERIFICATION" /\ HandlePeerVerification(e)
    <2> DEFINE q == Pack("PEER_VALIDATION", 0)
    <2>1. /\ e = Receiver /\ them' = [them EXCEPT ![e] = TRUE]
          /\ stream' = Sent(e, q, Taken(e))
      BY <1>2, <1>8 DEF HandlePeerVerification, Ends
    <2>2. q \in Genuine /\ q.type = "PEER_VALIDATION"
      BY HandshakeIsGenuine DEF Pack, Packet
    <2>3. stream'[Initiator] = Append(Taken(e)[Initiator], q)
      BY <1>1, <2>1, <2>2, SentTo
    <2>4. Taken(e)[Initiator] \in Seq(Genuine)
      BY <1>1, OtherEnd DEF Streams
    <2>5. Holds(Append(Taken(e)[Initiator], q), "PEER_VALIDATION")
      BY <2>2, <2>4, HoldsAppended
    <2>6. them'[Receiver]
      BY <2>1, OtherEnd DEF TypeInv
    <2>7. QED
      BY <2>3, <2>5, <2>6 DEF Verdict
  <1>9. CASE type = "PEER_VALIDATION" /\ HandlePeerValidation(e)
    <2>1. /\ us' = [us EXCEPT ![e] = TRUE] /\ them' = them
          /\ stream' = Taken(e)
      BY <1>9 DEF HandlePeerValidation
    <2>2. CASE e = Initiator
      <3>1. them[Receiver]
        BY <1>1, <1>9, <2>2 DEF Verdict
      <3>2. us'[Initiator]
        BY <2>1, <2>2 DEF TypeInv
      <3>3. QED
        BY <2>1, <3>1, <3>2 DEF Verdict
    <2>3. CASE e # Initiator
      <3>1. us'[Initiator] = us[Initiator]
        BY <2>1, <2>3, OtherEnd DEF TypeInv
      <3>2. QED
        BY <1>1, <2>1, <2>3, <3>1 DEF Verdict
    <2>4. QED
      BY <2>2, <2>3
  <1>11. QED
    BY <1>4, <1>5, <1>6, <1>7, <1>8, <1>9 DEF Handler

\* A connection that is apart, or whose task is blocked, stays so.
LEMMA NotReconnected == TypeInv /\ Next /\ Connected' => Connected
  <1> SUFFICES ASSUME TypeInv, Next, Connected', NEW e \in Ends
               PROVE  open[e] /\ run[e] # "blocked"
    BY DEF Connected
  <1>1. open'[e] /\ run'[e] # "blocked"
    BY DEF Connected
  <1>2. CASE SendPeerChallenge \/ ChallengeExpires
    BY <1>1, <1>2 DEF SendPeerChallenge, ChallengeExpires
  <1>3. ASSUME NEW f \in Ends, \/ SendPeerDiscovery(f) \/ OfferExpires(f)
                               \/ ReadOneByte(f) \/ EvictionBlocks(f)
                               \/ \E data \in DataLengths :
                                     SendPeerAnnounce(f, data)
        PROVE  UNCHANGED <<open, run>>
    BY <1>3
    DEF SendPeerDiscovery, OfferExpires, ReadOneByte, EvictionBlocks,
        SendPeerAnnounce
  <1>4. ASSUME NEW f \in Ends, Reset(f) \/ Stops(f) PROVE FALSE
    BY <1>4, ClosingIsApart DEF Reset, Stops
  <1>5. ASSUME OnPeerConnection \/ ValidatePeer
        PROVE  /\ UNCHANGED open
               /\ run[Receiver] \in {"new", "promote"}
               /\ run' = [run EXCEPT ![Receiver] = "read"]
    <2>1. run'[Receiver] # "blocked"
      BY OtherEnd DEF Connected
    <2>2. QED
      BY <1>5, <2>1, OtherEnd DEF OnPeerConnection, ValidatePeer, TypeInv
  <1>6. ASSUME NEW f \in Ends,
               Read(f) \/ ReadCut(f) \/ ReadNothing(f) \/ ReadAll(f)
        PROVE  /\ UNCHANGED open /\ run[f] = "read"
               /\ \/ UNCHANGED run
                  \/ run' = [run EXCEPT ![f] = "promote"]
                  \/ run' = [run EXCEPT ![f] = "dead"]
    <2>1. run[f] = "read"
      BY <1>6 DEF Read, ReadCut, ReadNothing, ReadAll, Reading
    <2>2. PICK q : HandleIncoming(f, q)
      BY <1>6 DEF Read, ReadCut, ReadNothing, ReadAll
    <2>3. ~Close(f) /\ ~Blocks(f)
      BY ClosingIsApart
    <2>4. CASE Handler(f, HeaderType(q))
      BY <2>1, <2>3, <2>4
      DEF Handler, HandlePeerAnnounce, HandlePeerDiscovery, HandlePeerOffer,
          HandlePeerInfo, HandlePeerChallenge, HandlePeerVerification,
          HandlePeerValidation, GoesOn, Raises
    <2>5. CASE UNCHANGED <<open, run>>
      BY <2>1, <2>5
    <2>6. QED
      BY <2>2, <2>3, <2>4, <2>5 DEF HandleIncoming
  <1>7. ASSUME UNCHANGED <<open, run>> PROVE open[e] /\ run[e] # "blocked"
    BY <1>1, <1>7
  <1>8. ASSUME NEW f \in Ends, UNCHANGED open, run[f] # "blocked", NEW to,
               run' = [run EXCEPT ![f] = to]
        PROVE  open[e] /\ run[e] # "blocked"
    BY <1>1, <1>8 DEF TypeInv
  <1>9. QED
    BY <1>1, <1>2, <1>3, <1>4, <1>5, <1>6, <1>7, <1>8, OtherEnd
    DEF Next, ReaderTask

LEMMA VerdictStep == TypeInv /\ VerdictsAgree /\ [Next]_vars => VerdictsAgree'
  <1> SUFFICES ASSUME TypeInv, Connected => Verdict, [Next]_vars, Connected'
               PROVE  Verdict'
    BY DEF VerdictsAgree, Connected, Verdict, OnItsWay, Holds
  <1>1. CASE UNCHANGED <<stream, us, them, open, run>>
    BY <1>1 DEF Connected, Verdict
  <1>2. CASE Next
    <2>1. Connected /\ Verdict
      BY <1>2, NotReconnected
    <2>2. ASSUME NEW e \in Ends, NEW q \in Genuine,
                 q.type # "PEER_VALIDATION",
                 stream' = Sent(e, q, stream), UNCHANGED <<us, them>>
          PROVE  Verdict'
      <3>1. Holds(stream'[Initiator], "PEER_VALIDATION")
                <=> Holds(stream[Initiator], "PEER_VALIDATION")
        BY <2>1, <2>2, SendingKeepsVerdict DEF TypeInv
      <3>2. QED
        BY <2>1, <2>2, <3>1 DEF Verdict
    <2>3. ASSUME UNCHANGED <<stream, us, them>> PROVE Verdict'
      BY <2>1, <2>3 DEF Verdict
    <2>4. ASSUME SendPeerChallenge PROVE Verdict'
      <3>1. /\ Pack("PEER_CHALLENGE", 0) \in Genuine
            /\ Pack("PEER_CHALLENGE", 0).type # "PEER_VALIDATION"
        BY HandshakeIsGenuine DEF Pack, Packet
      <3>2. QED
        BY <2>2, <2>3, <2>4, <3>1, OtherEnd DEF SendPeerChallenge
    <2>5. ASSUME NEW e \in Ends, SendPeerDiscovery(e) PROVE Verdict'
      <3>1. /\ Pack("PEER_DISCOVERY", 0) \in Genuine
            /\ Pack("PEER_DISCOVERY", 0).type # "PEER_VALIDATION"
        BY HandshakeIsGenuine DEF Pack, Packet
      <3>2. QED
        BY <2>2, <2>5, <3>1 DEF SendPeerDiscovery
    <2>6. ASSUME NEW e \in Ends, NEW data \in DataLengths,
                 SendPeerAnnounce(e, data)
          PROVE  Verdict'
      <3>1. /\ Pack("PEER_ANNOUNCE", data) \in Genuine
            /\ Pack("PEER_ANNOUNCE", data).type # "PEER_VALIDATION"
        BY DataIsGenuine DEF Pack, Packet
      <3>2. QED
        BY <2>2, <2>6, <3>1 DEF SendPeerAnnounce
    <2>7. ASSUME NEW e \in Ends, Reset(e) \/ Stops(e) PROVE FALSE
      BY <2>7, ClosingIsApart DEF Reset, Stops
    <2>8. ASSUME NEW e \in Ends, ReadNothing(e) \/ ReadAll(e) PROVE FALSE
      BY <2>1, <2>8, OtherEnd DEF ReadNothing, ReadAll, Connected
    <2>9. ASSUME NEW e \in Ends, Read(e) \/ ReadCut(e) PROVE Verdict'
      <3>1. ~waits[e] /\ stream[e] # <<>>
        BY <2>9 DEF Read, ReadCut, Reading
      <3>2. PICK q : /\ HandleIncoming(e, q)
                     /\ HeaderType(q) \in {Head(stream[e]).type, "unknown"}
        <4>1. stream[e] \in Seq(Genuine)
          BY DEF TypeInv, Streams
        <4>2. Head(stream[e]) \in Genuine
          BY <3>1, <4>1, HoldsTail
        <4>3. \A n : Cut(Head(stream[e]), n).type = Head(stream[e]).type
          BY <4>2 DEF Cut, Genuine, OnTheWire
        <4>4. QED
          BY <2>9, <4>3 DEF Read, ReadCut, HeaderType
      <3>3. ~Close(e)
        BY ClosingIsApart
      <3>4. "unknown" \notin PeerTypes
        BY DEF PeerTypes, Handshake
      <3>5. CASE /\ HeaderType(q) \in PeerTypes
                 /\ Handler(e, HeaderType(q))
        BY <2>1, <3>1, <3>2, <3>4, <3>5, HandlingKeepsVerdict
      <3>6. CASE /\ HeaderType(q) = "PEER_DISCOVERY" /\ stream' = Taken(e)
                 /\ UNCHANGED <<us, them>>
        BY <2>1, <3>1, <3>2, <3>6, TakingAVerdict DEF Verdict
      <3>7. QED
        BY <3>2, <3>3, <3>5, <3>6 DEF HandleIncoming
    <2>10. QED
      BY <1>2, <2>3, <2>4, <2>5, <2>6, <2>7, <2>8, <2>9
      DEF Next, ReaderTask, OnPeerConnection, ValidatePeer,
          ChallengeExpires, ReadOneByte, OfferExpires, EvictionBlocks
  <1>3. QED
    BY <1>1, <1>2 DEF vars

LEMMA VerdictInit == Init => VerdictsAgree
  BY EndsAssumption DEF Init, VerdictsAgree, OnItsWay, Ends

\* The two ends do not disagree about the outcome of the handshake, whatever
\* messages cross and wherever the tasks of both ends are
\* (peer_connection.py:492-544, gossip.py:187).
THEOREM NoDisagreement == Spec => []VerdictsAgree
  <1>1. TypeInv /\ VerdictsAgree /\ [Next]_vars => VerdictsAgree'
    BY VerdictStep
  <1>2. QED
    BY TypeInit, TypeStep, VerdictInit, <1>1, PTL DEF Spec

-----------------------------------------------------------------------------
(* The receiver knows the port of whom it lists.                            *)

\* A receiver that does not know the port has read nothing yet: what it reads
\* first is the PEER INFO, and until then it promotes nothing.
FirstIsInfo ==
    /\ place # "push" /\ run[Receiver] # "promote"
    /\ run[Receiver] \in {"new", "read"} /\ open[Receiver] =>
          stream[Receiver] # <<>> /\ Head(stream[Receiver]).type = "PEER_INFO"

PortInv == port[Receiver] \/ FirstIsInfo

LEMMA SentBehind ==
    ASSUME TypeInv, NEW e \in Ends, NEW q \in Genuine,
           stream' = Sent(e, q, stream), stream[Receiver] # <<>>
    PROVE  /\ stream'[Receiver] # <<>>
           /\ Head(stream'[Receiver]) = Head(stream[Receiver])
  <1>1. /\ stream[Receiver] \in Seq(Genuine) /\ DOMAIN stream = Ends
        /\ stream \in Streams
    BY OtherEnd DEF TypeInv, Streams
  <1>2. \/ stream'[Receiver] = stream[Receiver]
        \/ stream'[Receiver] = Append(stream[Receiver], q)
    BY <1>1, OtherEnd DEF Sent
  <1>3. Append(stream[Receiver], q) # <<>>
        /\ Head(Append(stream[Receiver], q)) = Head(stream[Receiver])
    BY <1>1, HoldsAppended
  <1>4. QED
    BY <1>2, <1>3

\* The receiver reads the PEER INFO, whole or not: it knows the port, or closes.
LEMMA InfoIsRead ==
    ASSUME TypeInv, NEW p, HandleIncoming(Receiver, p),
           HeaderType(p) \notin PeerTypes \/ HeaderType(p) = "PEER_INFO"
    PROVE  port'[Receiver] \/ (Close(Receiver) /\ UNCHANGED port)
  <1>1. CASE HeaderType(p) = "PEER_INFO" /\ HandlePeerInfo(Receiver)
    BY <1>1, OtherEnd DEF HandlePeerInfo, TypeInv
  <1>2. CASE Close(Receiver) /\ UNCHANGED port
    BY <1>2
  <1>3. QED
    BY <1>1, <1>2 DEF HandleIncoming, Handler, PeerTypes, Handshake

\* What the initiator handles changes nothing of the receiver's but its stream.
LEMMA InitiatorHandles ==
    ASSUME TypeInv, FirstIsInfo, NEW p, HandleIncoming(Initiator, p),
           run[Initiator] = "read",
           HeaderType(p) \in PeerTypes =>
              waits[Initiator] \/ stream[Initiator] # <<>>
    PROVE  FirstIsInfo'
  <1>1. /\ Initiator # Receiver /\ Initiator \in Ends /\ Receiver \in Ends
        /\ DOMAIN stream = Ends
    BY OtherEnd DEF TypeInv, Streams
  <1>2. ASSUME UNCHANGED place, open'[Receiver] = open[Receiver],
               run'[Receiver] = run[Receiver],
               stream'[Receiver] = stream[Receiver]
        PROVE  FirstIsInfo'
    BY <1>2 DEF FirstIsInfo
  <1>3. CASE Close(Initiator) \/ Blocks(Initiator) \/ Raises(Initiator)
    BY <1>1, <1>2, <1>3 DEF Close, Gone, Blocks, Raises, TypeInv
  <1>4. Taken(Initiator)[Receiver] = stream[Receiver]
    BY <1>1 DEF Taken
  <1>5. ASSUME NEW q \in Genuine, UNCHANGED <<place, open, run>>,
               stream' = Sent(Initiator, q, Taken(Initiator)),
               HeaderType(p) \in PeerTypes
        PROVE  FirstIsInfo'
    <2>1. /\ Taken(Initiator) \in Streams
          /\ Taken(Initiator)[Receiver] \in Seq(Genuine)
      BY <1>1, <1>5, TakenTypes DEF Streams
    <2>2. \/ stream'[Receiver] = stream[Receiver]
          \/ stream'[Receiver] = Append(stream[Receiver], q)
      BY <1>1, <1>4, <1>5, <2>1, OtherEnd DEF Sent, Streams
    <2>3. stream[Receiver] # <<>> =>
              /\ Append(stream[Receiver], q) # <<>>
              /\ Head(Append(stream[Receiver], q)) = Head(stream[Receiver])
      BY <1>4, <2>1, HoldsAppended
    <2>4. QED
      BY <1>5, <2>2, <2>3 DEF FirstIsInfo
  <1>6. CASE stream' = Taken(Initiator) /\ UNCHANGED <<open, run, place>>
    BY <1>2, <1>4, <1>6
  <1>7. CASE HeaderType(p) \in PeerTypes /\ Handler(Initiator, HeaderType(p))
    BY <1>3, <1>5, <1>6, <1>7, HandshakeIsGenuine, DataIsGenuine
    DEF Handler, HandlePeerAnnounce, HandlePeerDiscovery, HandlePeerOffer,
        HandlePeerInfo, HandlePeerChallenge, HandlePeerVerification,
        HandlePeerValidation, GoesOn
  <1>8. QED
    BY <1>3, <1>6, <1>7 DEF HandleIncoming

LEMMA PortInit == Init => PortInv
  BY OtherEnd DEF Init, PortInv, FirstIsInfo, Pack, Packet

\* A port that is known stays known.
LEMMA PortStays == TypeInv /\ Next /\ port[Receiver] => port'[Receiver]
  <1> SUFFICES ASSUME TypeInv, Next, port[Receiver] PROVE port'[Receiver]
    OBVIOUS
  <1>1. ASSUME NEW e \in Ends, NEW q, HandleIncoming(e, q)
        PROVE  port'[Receiver]
    BY <1>1, OtherEnd
    DEF HandleIncoming, Handler, HandlePeerAnnounce, HandlePeerDiscovery,
        HandlePeerOffer, HandlePeerInfo, HandlePeerChallenge,
        HandlePeerVerification, HandlePeerValidation, TypeInv
  <1>2. QED
    BY <1>1
    DEF Next, ReaderTask, Read, ReadCut, ReadNothing, ReadAll, ReadOneByte,
        OnPeerConnection, ValidatePeer, SendPeerChallenge, ChallengeExpires,
        Reset, Stops, EvictionBlocks, SendPeerDiscovery, OfferExpires,
        SendPeerAnnounce

LEMMA PortStep == TypeInv /\ PortInv /\ [Next]_vars => PortInv'
  <1> SUFFICES ASSUME TypeInv, FirstIsInfo, ~port[Receiver], Next
               PROVE  PortInv'
    BY PortStays DEF PortInv, FirstIsInfo, vars
  <1> USE OtherEnd
  <1>1. ASSUME Close(Receiver) \/ Gone(Receiver) PROVE FirstIsInfo'
    BY <1>1 DEF Close, Gone, Blocks, FirstIsInfo, TypeInv
  <1>2. ASSUME Gone(Initiator) \/ Close(Initiator) PROVE FirstIsInfo'
    <2>1. /\ stream'[Receiver] = stream[Receiver]
          /\ open'[Receiver] = open[Receiver]
          /\ run'[Receiver] = run[Receiver] /\ place' = place
      BY <1>2 DEF Close, Gone, Blocks, TypeInv, Streams
    <2>2. QED
      BY <2>1 DEF FirstIsInfo
  <1>3. ASSUME NEW e \in Ends, NEW q \in Genuine, stream' = Sent(e, q, stream),
               UNCHANGED <<place, open, run>>
        PROVE  FirstIsInfo'
    BY <1>3, SentBehind DEF FirstIsInfo
  <1>4. ASSUME UNCHANGED <<stream, place, open, run>> PROVE FirstIsInfo'
    BY <1>4 DEF FirstIsInfo
  <1>5. ASSUME \/ SendPeerChallenge \/ ChallengeExpires
               \/ OnPeerConnection \/ ValidatePeer
        PROVE  FirstIsInfo'
    <2>1. CASE OnPeerConnection
      BY <2>1 DEF OnPeerConnection, FirstIsInfo, TypeInv
    <2>2. CASE ValidatePeer
      BY <2>2 DEF ValidatePeer, FirstIsInfo
    <2>3. CASE SendPeerChallenge \/ ChallengeExpires
      BY <1>3, <1>4, <2>3, HandshakeIsGenuine
      DEF SendPeerChallenge, ChallengeExpires
    <2>4. QED
      BY <1>5, <2>1, <2>2, <2>3
  <1>6. ASSUME NEW e \in Ends, Reset(e) \/ Stops(e) PROVE FirstIsInfo'
    BY <1>1, <1>2, <1>6 DEF Reset, Stops, Ends
  <1>7. ASSUME NEW e \in Ends, \/ SendPeerDiscovery(e) \/ OfferExpires(e)
                               \/ ReadOneByte(e) \/ EvictionBlocks(e)
                               \/ \E data \in DataLengths :
                                     SendPeerAnnounce(e, data)
        PROVE  FirstIsInfo'
    BY <1>3, <1>4, <1>7, HandshakeIsGenuine, DataIsGenuine
    DEF SendPeerDiscovery, OfferExpires, ReadOneByte, EvictionBlocks,
        SendPeerAnnounce
  <1>8. HeaderType(Packet("none", 0, 0)) \notin PeerTypes
    BY DEF HeaderType, Packet, PeerTypes, Handshake
  <1>9. ASSUME \/ Read(Initiator) \/ ReadCut(Initiator)
               \/ ReadNothing(Initiator) \/ ReadAll(Initiator)
        PROVE  FirstIsInfo'
    <2>1. run[Initiator] = "read"
      BY <1>9 DEF Read, ReadCut, ReadNothing, ReadAll, Reading
    <2>2. PICK q : /\ HandleIncoming(Initiator, q)
                   /\ HeaderType(q) \in PeerTypes =>
                         waits[Initiator] \/ stream[Initiator] # <<>>
      BY <1>8, <1>9 DEF Read, ReadCut, ReadNothing, ReadAll
    <2>3. QED
      BY <2>1, <2>2, InitiatorHandles
  <1>10. ASSUME \/ Read(Receiver) \/ ReadCut(Receiver)
                \/ ReadNothing(Receiver) \/ ReadAll(Receiver)
         PROVE  PortInv'
    <2>1. /\ stream[Receiver] # <<>>
          /\ Head(stream[Receiver]).type = "PEER_INFO"
      BY <1>10 DEF Read, ReadCut, ReadNothing, ReadAll, Reading, FirstIsInfo
    <2>2. Head(stream[Receiver]) \in Genuine
      BY <2>1, HoldsTail DEF TypeInv, Streams
    <2>3. \A n : Cut(Head(stream[Receiver]), n).type = "PEER_INFO"
      BY <2>1, <2>2 DEF Cut, Genuine, OnTheWire
    <2>4. "unknown" \notin PeerTypes
      BY DEF PeerTypes, Handshake
    <2>5. PICK q : /\ HandleIncoming(Receiver, q)
                   /\ \/ HeaderType(q) \notin PeerTypes
                      \/ HeaderType(q) = "PEER_INFO"
      BY <1>10, <2>1, <2>3, <2>4
      DEF Read, ReadCut, ReadNothing, ReadAll, HeaderType
    <2>6. QED
      BY <1>1, <2>5, InfoIsRead DEF PortInv
  <1>11. QED
    BY <1>5, <1>6, <1>7, <1>9, <1>10 DEF Next, ReaderTask, Ends, PortInv

\* Every member of push_peers has said on which port it listens, although
\* nothing the receiver does asks for it: it reads the PEER INFO first, and a
\* part of it makes it close (peer_connection.py:546, gossip.py:187).
THEOREM ListedWithAddress == Spec => []PeersHaveAddresses
  <1>1. PortInv => PeersHaveAddresses
    BY DEF PortInv, FirstIsInfo, PeersHaveAddresses
  <1>2. QED
    BY TypeInit, TypeStep, PortInit, PortStep, <1>1, PTL DEF Spec
=============================================================================
