-------------------------- MODULE LinkTrafficProofs --------------------------
(***************************************************************************)
(* Which messages can be on their way between the two ends of a Link, for  *)
(* all lengths of data and every number of discoveries and announcements:  *)
(* there is one challenge and one answer to it, nothing is written before  *)
(* the other end will accept it, and an offer comes only while a discovery *)
(* is unanswered.                                                          *)
(***************************************************************************)
EXTENDS LinkProofs

-----------------------------------------------------------------------------
(* What becomes of a stream.                                                *)

AtMostOne(s, type) ==
    \A i, j \in DOMAIN s : s[i].type = type /\ s[j].type = type => i = j

\* t has no message of this type that s did not have.
NoMore(s, t, type) ==
    /\ Holds(t, type) => Holds(s, type)
    /\ AtMostOne(s, type) => AtMostOne(t, type)

\* What an initiator that does not know the verdict yet may have to read.
Led(s) ==
    \A i \in DOMAIN s :
        \/ s[i].type \in {"PEER_CHALLENGE", "PEER_VALIDATION"}
        \/ \E j \in DOMAIN s : j < i /\ s[j].type = "PEER_VALIDATION"

\* What a receiver that does not trust the initiator yet may have to read.
Plain(s) ==
    \A i \in DOMAIN s : s[i].type \in {"PEER_INFO", "PEER_VERIFICATION"}

LEMMA NothingHeld ==
    ASSUME NEW type, NEW s
    PROVE  /\ ~Holds(<<>>, type)
           /\ NoMore(s, <<>>, type) /\ NoMore(s, s, type)
           /\ Led(<<>>) /\ Plain(<<>>)
  <1>1. DOMAIN <<>> = {}
    OBVIOUS
  <1>2. QED
    BY <1>1 DEF Holds, NoMore, AtMostOne, Led, Plain

LEMMA AppendedStream ==
    ASSUME NEW s \in Seq(Genuine), NEW p \in Genuine, NEW type
    PROVE  /\ p.type # type => NoMore(s, Append(s, p), type)
           /\ ~Holds(s, type) => AtMostOne(Append(s, p), type)
           /\ Plain(s) /\ p.type \in {"PEER_INFO", "PEER_VERIFICATION"}
                 => Plain(Append(s, p))
           /\ /\ Led(s)
              /\ \/ p.type \in {"PEER_CHALLENGE", "PEER_VALIDATION"}
                 \/ Holds(s, "PEER_VALIDATION")
              => Led(Append(s, p))
  <1> DEFINE t == Append(s, p)
  <1>1. /\ t \in Seq(Genuine)
        /\ Len(t) = Len(s) + 1
        /\ \A i \in 1 .. Len(s) : t[i] = s[i]
        /\ t[Len(s) + 1] = p
    BY AppendProperties
  <1>2. /\ Len(s) \in Nat /\ DOMAIN s = 1 .. Len(s)
        /\ DOMAIN t = 1 .. Len(s) + 1
    BY <1>1, LenProperties
  <1> HIDE DEF t
  <1>3. /\ \A i \in DOMAIN t : i = Len(s) + 1 \/ i \in DOMAIN s
        /\ \A i \in DOMAIN s : /\ i \in DOMAIN t /\ t[i] = s[i]
                               /\ i < Len(s) + 1
        /\ Len(s) + 1 \in DOMAIN t /\ t[Len(s) + 1] = p
    BY <1>1, <1>2
  <1>4. p.type # type => NoMore(s, t, type)
    BY <1>3 DEF NoMore, Holds, AtMostOne
  <1>5. ~Holds(s, type) => AtMostOne(t, type)
    BY <1>3 DEF Holds, AtMostOne
  <1>6. Plain(s) /\ p.type \in {"PEER_INFO", "PEER_VERIFICATION"} => Plain(t)
    BY <1>3 DEF Plain
  <1>7. ASSUME Led(s), \/ p.type \in {"PEER_CHALLENGE", "PEER_VALIDATION"}
                       \/ Holds(s, "PEER_VALIDATION")
        PROVE  Led(t)
    <2>1. ASSUME NEW i \in DOMAIN s
          PROVE  \/ t[i].type \in {"PEER_CHALLENGE", "PEER_VALIDATION"}
                 \/ \E j \in DOMAIN t : j < i /\ t[j].type = "PEER_VALIDATION"
      BY <1>3, <1>7 DEF Led
    <2>2. \/ t[Len(s) + 1].type \in {"PEER_CHALLENGE", "PEER_VALIDATION"}
          \/ \E j \in DOMAIN t :
                j < Len(s) + 1 /\ t[j].type = "PEER_VALIDATION"
      BY <1>3, <1>7 DEF Holds
    <2>3. QED
      BY <1>3, <2>1, <2>2 DEF Led
  <1>8. QED
    BY <1>4, <1>5, <1>6, <1>7 DEF t

LEMMA TakenStream ==
    ASSUME NEW s \in Seq(Genuine), s # <<>>, NEW type
    PROVE  /\ NoMore(s, Tail(s), type)
           /\ AtMostOne(s, type) /\ Head(s).type = type
                 => ~Holds(Tail(s), type)
           /\ Holds(s, Head(s).type)
           /\ Plain(s) => /\ Plain(Tail(s))
                          /\ Head(s).type \in {"PEER_INFO", "PEER_VERIFICATION"}
           /\ Led(s) => Head(s).type \in {"PEER_CHALLENGE", "PEER_VALIDATION"}
           /\ Led(s) /\ Head(s).type # "PEER_VALIDATION" => Led(Tail(s))
  <1> DEFINE t == Tail(s)
  <1>1. /\ t \in Seq(Genuine)
        /\ Len(t) = Len(s) - 1
        /\ \A i \in 1 .. Len(t) : t[i] = s[i + 1]
    BY HeadTailProperties
  <1>2. /\ Len(s) \in Nat /\ Len(s) > 0 /\ DOMAIN s = 1 .. Len(s)
        /\ DOMAIN t = 1 .. Len(s) - 1 /\ Head(s) = s[1]
    BY <1>1, LenProperties, EmptySeq
  <1> HIDE DEF t
  <1>3. /\ \A i \in DOMAIN t : /\ i + 1 \in DOMAIN s /\ t[i] = s[i + 1]
                               /\ i \in Nat /\ i > 0
        /\ \A i \in DOMAIN s : /\ i \in Nat
                               /\ i # 1 => i - 1 \in DOMAIN t /\ i > 1
        /\ 1 \in DOMAIN s /\ Head(s) = s[1]
    BY <1>1, <1>2
  <1>4. NoMore(s, t, type)
    BY <1>3 DEF NoMore, Holds, AtMostOne
  <1>5. AtMostOne(s, type) /\ Head(s).type = type => ~Holds(t, type)
    BY <1>3 DEF Holds, AtMostOne
  <1>6. Holds(s, Head(s).type)
    BY <1>3 DEF Holds
  <1>7. Plain(s) => /\ Plain(t)
                    /\ Head(s).type \in {"PEER_INFO", "PEER_VERIFICATION"}
    BY <1>3 DEF Plain
  <1>8. ASSUME Led(s)
        PROVE  Head(s).type \in {"PEER_CHALLENGE", "PEER_VALIDATION"}
    BY <1>3, <1>8 DEF Led
  <1>9. ASSUME Led(s), Head(s).type # "PEER_VALIDATION"
        PROVE  Led(t)
    <2> SUFFICES ASSUME NEW i \in DOMAIN t,
                        t[i].type \notin {"PEER_CHALLENGE", "PEER_VALIDATION"}
                 PROVE  \E j \in DOMAIN t :
                           j < i /\ t[j].type = "PEER_VALIDATION"
      BY DEF Led
    <2>1. PICK j \in DOMAIN s : j < i + 1 /\ s[j].type = "PEER_VALIDATION"
      BY <1>3, <1>9 DEF Led
    <2>2. j - 1 \in DOMAIN t /\ j - 1 < i /\ (j - 1) + 1 = j
      BY <1>3, <1>9, <2>1
    <2>3. t[j - 1].type = "PEER_VALIDATION"
      BY <1>3, <2>1, <2>2
    <2>4. QED
      BY <2>2, <2>3
  <1>10. QED
    BY <1>4, <1>5, <1>6, <1>7, <1>8, <1>9 DEF t

-----------------------------------------------------------------------------
(* What a step does to the two streams.                                     *)

\* No message of this type is new on either stream.
NoneNew(type) == \A f \in Ends : NoMore(stream[f], stream'[f], type)

LEMMA EndsApart ==
    ASSUME NEW e \in Ends
    PROVE  /\ Other(e) \in Ends /\ Other(e) # e /\ Other(Other(e)) = e
           /\ \A f \in Ends : f = e \/ f = Other(e)
  BY OtherEnd DEF Ends

LEMMA TakenFrom ==
    ASSUME TypeInv, NEW e \in Ends, stream[e] # <<>>
    PROVE  /\ Taken(e) \in Streams
           /\ Taken(e)[Other(e)] = stream[Other(e)]
           /\ \/ Taken(e)[e] = <<>>
              \/ ~waits[e] /\ Taken(e)[e] = Tail(stream[e])
  <1>1. DOMAIN stream = Ends
    BY DEF TypeInv, Streams
  <1>2. QED
    BY <1>1, TakenTypes, EndsApart DEF Taken

LEMMA SentFrom ==
    ASSUME NEW e \in Ends, NEW p \in Genuine, NEW streams \in Streams
    PROVE  /\ Sent(e, p, streams) \in Streams
           /\ Sent(e, p, streams)[e] = streams[e]
           /\ \/ Sent(e, p, streams)[Other(e)] = streams[Other(e)]
              \/ /\ open[e] /\ open[Other(e)]
                 /\ Sent(e, p, streams)[Other(e)]
                       = Append(streams[Other(e)], p)
  <1>1. DOMAIN streams = Ends
    BY DEF Streams
  <1>2. QED
    BY <1>1, SentTypes, EndsApart DEF Sent

\* Sending, with or without taking first, adds a message of one type.
LEMMA SendingAdds ==
    ASSUME TypeInv, NEW e \in Ends, NEW p \in Genuine,
           \/ stream' = Sent(e, p, stream)
           \/ stream[e] # <<>> /\ stream' = Sent(e, p, Taken(e)),
           NEW type, type # p.type
    PROVE  NoneNew(type)
  <1>1. stream \in Streams /\ \A f \in Ends : stream[f] \in Seq(Genuine)
    BY DEF TypeInv, Streams
  <1>2. PICK streams \in Streams :
           /\ stream' = Sent(e, p, streams)
           /\ streams[Other(e)] = stream[Other(e)]
           /\ \/ streams[e] = stream[e]
              \/ streams[e] = <<>>
              \/ stream[e] # <<>> /\ streams[e] = Tail(stream[e])
    BY <1>1, TakenFrom
  <1>3. NoMore(stream[e], stream'[e], type)
    BY <1>1, <1>2, SentFrom, NothingHeld, TakenStream
  <1>4. NoMore(stream[Other(e)], stream'[Other(e)], type)
    <2>1. NoMore(stream[Other(e)], Append(stream[Other(e)], p), type)
      BY <1>1, EndsApart, AppendedStream
    <2>2. \/ stream'[Other(e)] = stream[Other(e)]
          \/ stream'[Other(e)] = Append(stream[Other(e)], p)
      BY <1>2, SentFrom
    <2>3. NoMore(stream[Other(e)], stream[Other(e)], type)
      BY NothingHeld
    <2>4. QED
      BY <2>1, <2>2, <2>3
  <1>5. QED
    BY <1>3, <1>4, EndsApart DEF NoneNew

LEMMA TakingAdds ==
    ASSUME TypeInv, NEW e \in Ends, stream[e] # <<>>, stream' = Taken(e),
           NEW type
    PROVE  NoneNew(type)
  <1>1. stream[e] \in Seq(Genuine)
    BY DEF TypeInv, Streams
  <1>2. NoMore(stream[e], stream'[e], type)
    BY <1>1, TakenFrom, NothingHeld, TakenStream
  <1>3. NoMore(stream[Other(e)], stream'[Other(e)], type)
    BY TakenFrom, NothingHeld
  <1>4. QED
    BY <1>2, <1>3, EndsApart DEF NoneNew

LEMMA ClosingAdds ==
    ASSUME TypeInv, NEW e \in Ends,
           Close(e) \/ Gone(e) \/ Blocks(e) \/ Raises(e), NEW type
    PROVE  NoneNew(type)
  <1>1. DOMAIN stream = Ends
    BY DEF TypeInv, Streams
  <1>2. ASSUME NEW f \in Ends
        PROVE  stream'[f] = stream[f] \/ stream'[f] = <<>>
    BY <1>1 DEF Close, Gone, Blocks, Raises
  <1>3. QED
    BY <1>2, NothingHeld DEF NoneNew

-----------------------------------------------------------------------------
(* What can come of a read.                                                 *)

HeadType(e) == Head(stream[e]).type

\* The task of e is over, in one way or another, or waits for good.
Finished(e) == run[e] \in {"blocked", "dead", "over"}

Closes(e) ==
    /\ Close(e) \/ Gone(e) \/ Blocks(e) \/ Raises(e)
    /\ them' = them \/ them' = [them EXCEPT ![e] = FALSE]
    /\ asked' = asked \/ asked' = [asked EXCEPT ![e] = "none"]
    /\ UNCHANGED <<us, challenge, promotions, crossed>>

Ignores(e) ==
    /\ HeadType(e) \in {"PEER_ANNOUNCE", "PEER_DISCOVERY", "PEER_INFO"}
    /\ stream' = Taken(e)
    /\ UNCHANGED <<open, run, us, them, asked, challenge, promotions>>

Offers(e) ==
    /\ HeadType(e) = "PEER_DISCOVERY"
    /\ \E data \in DataLengths :
          stream' = Sent(e, Pack("PEER_OFFER", data), Taken(e))
    /\ UNCHANGED <<open, run, us, them, asked, challenge, promotions>>

TakesOffer(e) ==
    /\ HeadType(e) = "PEER_OFFER"
    /\ asked' = [asked EXCEPT ![e] = "none"]
    /\ stream' = Taken(e)
    /\ UNCHANGED <<open, run, us, them, challenge, promotions>>

Solves(e) ==
    /\ HeadType(e) = "PEER_CHALLENGE"
    /\ stream' = Sent(e, Pack("PEER_VERIFICATION", 0), Taken(e))
    /\ UNCHANGED <<open, run, us, them, asked, challenge, promotions>>

Trusts(e) ==
    /\ HeadType(e) = "PEER_VERIFICATION" /\ e = Receiver
    /\ them' = [them EXCEPT ![e] = TRUE]
    /\ stream' = Sent(e, Pack("PEER_VALIDATION", 0), Taken(e))
    /\ run' = [run EXCEPT ![e] = "promote"]
    /\ UNCHANGED <<open, us, asked, challenge, promotions>>

IsTrusted(e) ==
    /\ HeadType(e) = "PEER_VALIDATION"
    /\ us' = [us EXCEPT ![e] = TRUE]
    /\ stream' = Taken(e)
    /\ UNCHANGED <<open, run, them, asked, challenge, promotions>>

Handles(e) ==
    /\ stream[e] # <<>> /\ HandleType(e, HeadType(e))
    /\ open[e] /\ run[e] = "read"
    /\ waits[e] => ~open[Other(e)]
    /\ ~waits'[e]
    /\ UNCHANGED crossed
    /\ \/ Ignores(e) \/ Offers(e) \/ TakesOffer(e) \/ Solves(e)
       \/ Trusts(e) \/ IsTrusted(e)

WaitsForRest == \A e \in Ends : waits[e] /\ open[e] => stream[e] # <<>>

LEMMA HandlerOutcome ==
    ASSUME TypeInv, NEW e \in Ends, Handler(e, HeadType(e))
    PROVE  \/ /\ Close(e) \/ Blocks(e) \/ Raises(e)
              /\ asked' = asked \/ asked' = [asked EXCEPT ![e] = "none"]
              /\ UNCHANGED <<us, them, challenge, promotions>>
           \/ Ignores(e) \/ Offers(e) \/ TakesOffer(e) \/ Solves(e)
           \/ Trusts(e) \/ IsTrusted(e)
  <1>1. CASE HeadType(e) = "PEER_ANNOUNCE" /\ HandlePeerAnnounce(e)
    BY <1>1 DEF HandlePeerAnnounce, GoesOn, Ignores
  <1>2. CASE HeadType(e) = "PEER_DISCOVERY" /\ HandlePeerDiscovery(e)
    BY <1>2 DEF HandlePeerDiscovery, GoesOn, Ignores, Offers
  <1>3. CASE HeadType(e) = "PEER_OFFER" /\ HandlePeerOffer(e)
    BY <1>3 DEF HandlePeerOffer, GoesOn, TakesOffer
  <1>4. CASE HeadType(e) = "PEER_INFO" /\ HandlePeerInfo(e)
    BY <1>4 DEF HandlePeerInfo, Ignores
  <1>5. CASE HeadType(e) = "PEER_CHALLENGE" /\ HandlePeerChallenge(e)
    BY <1>5 DEF HandlePeerChallenge, Solves
  <1>6. CASE HeadType(e) = "PEER_VERIFICATION" /\ HandlePeerVerification(e)
    BY <1>6, OtherEnd DEF HandlePeerVerification, Trusts, Ends
  <1>7. CASE HeadType(e) = "PEER_VALIDATION" /\ HandlePeerValidation(e)
    BY <1>7 DEF HandlePeerValidation, IsTrusted
  <1>8. QED
    BY <1>1, <1>2, <1>3, <1>4, <1>5, <1>6, <1>7 DEF Handler

LEMMA ReadOutcome ==
    ASSUME TypeInv, WaitsForRest, NEW e \in Ends,
           Read(e) \/ ReadCut(e) \/ ReadNothing(e) \/ ReadAll(e)
    PROVE  (Closes(e) /\ ~waits'[e]) \/ Handles(e)
  <1>1. "unknown" \notin PeerTypes
    BY DEF PeerTypes, Handshake
  <1>2. /\ open[e] /\ run[e] = "read" /\ ~waits'[e]
        /\ waits[e] => ~open[Other(e)]
    BY DEF Read, ReadCut, ReadNothing, ReadAll, Reading, TypeInv
  <1>3. CASE ReadNothing(e)
    <2>1. HeaderType(Packet("none", 0, 0)) = "unknown"
      BY DEF HeaderType, Packet
    <2>2. QED
      BY <1>1, <1>2, <1>3, <2>1 DEF ReadNothing, HandleIncoming, Closes
  <1>4. CASE Read(e) \/ ReadCut(e) \/ ReadAll(e)
    <2>1. stream[e] # <<>>
      BY <1>4 DEF Read, ReadCut, ReadAll, WaitsForRest
    <2>2. Head(stream[e]) \in Genuine
      <3>1. stream[e] \in Seq(Genuine)
        BY DEF TypeInv, Streams
      <3>2. QED
        BY <2>1, <3>1, HoldsTail
    <2>3. \A n : Cut(Head(stream[e]), n).type = HeadType(e)
      BY <2>2 DEF Cut, Genuine, OnTheWire, HeadType
    <2>4. PICK q : /\ HandleIncoming(e, q)
                   /\ HeaderType(q) \in {HeadType(e), "unknown"}
      BY <1>4, <2>3 DEF Read, ReadCut, ReadAll, HeaderType, HeadType
    <2>5. UNCHANGED crossed
      BY <2>4 DEF HandleIncoming
    <2>6. ASSUME HandleType(e, HeadType(e)),
                 \/ Ignores(e) \/ Offers(e) \/ TakesOffer(e) \/ Solves(e)
                 \/ Trusts(e) \/ IsTrusted(e)
          PROVE  Handles(e)
      BY <1>2, <2>1, <2>5, <2>6 DEF Handles
    <2>7. CASE /\ HandleType(e, HeaderType(q)) /\ HeaderType(q) \in PeerTypes
               /\ Handler(e, HeaderType(q))
      <3>1. HeaderType(q) = HeadType(e)
        BY <1>1, <2>4, <2>7
      <3>2. QED
        BY <1>2, <2>5, <2>6, <2>7, <3>1, HandlerOutcome DEF Closes
    <2>8. CASE /\ HandleType(e, HeaderType(q))
               /\ HeaderType(q) = "PEER_DISCOVERY" /\ stream' = Taken(e)
               /\ UNCHANGED <<open, run, us, them, port, asked, challenge,
                              place, promotions>>
      <3>1. HeaderType(q) = HeadType(e)
        BY <2>4, <2>8
      <3>2. QED
        BY <2>6, <2>8, <3>1 DEF Ignores
    <2>9. CASE /\ Close(e)
               /\ them' = them \/ them' = [them EXCEPT ![e] = FALSE]
               /\ UNCHANGED <<us, asked, challenge, promotions>>
      BY <1>2, <2>5, <2>9 DEF Closes
    <2>10. QED
      BY <2>4, <2>7, <2>8, <2>9 DEF HandleIncoming
  <1>5. QED
    BY <1>3, <1>4

\* The other steps: what the tasks of both nodes do by themselves.
LEMMA OtherOutcome ==
    ASSUME TypeInv, WaitsForRest, Next
    PROVE  \/ \E e \in Ends : Closes(e) \/ Handles(e)
           \/ SendPeerChallenge
           \/ \E e \in Ends : SendPeerDiscovery(e)
           \/ \E e \in Ends, data \in DataLengths : SendPeerAnnounce(e, data)
           \/ ValidatePeer
           \/ /\ UNCHANGED <<stream, open, us, them, promotions, crossed>>
              /\ run'[Receiver] = run[Receiver] \/ run[Receiver] = "new"
              /\ run'[Initiator] = run[Initiator]
              /\ run'[Receiver] # "promote" \/ run[Receiver] = "promote"
              /\ challenge' = challenge \/ challenge' = "expired"
              /\ \A e \in Ends : asked'[e] = asked[e] \/ asked'[e] = "late"
  <1>1. ASSUME NEW e \in Ends, Reset(e) \/ Stops(e) PROVE Closes(e)
    BY <1>1 DEF Reset, Stops, Closes
  <1>2. ASSUME NEW e \in Ends,
               Read(e) \/ ReadCut(e) \/ ReadNothing(e) \/ ReadAll(e)
        PROVE  Closes(e) \/ Handles(e)
    BY <1>2, ReadOutcome
  <1>3. ASSUME NEW e \in Ends, \/ ReadOneByte(e) \/ OfferExpires(e)
                               \/ EvictionBlocks(e)
                               \/ OnPeerConnection \/ ChallengeExpires
        PROVE  /\ UNCHANGED <<stream, open, us, them, promotions, crossed>>
               /\ run'[Receiver] = run[Receiver] \/ run[Receiver] = "new"
               /\ run'[Initiator] = run[Initiator]
               /\ run'[Receiver] # "promote" \/ run[Receiver] = "promote"
               /\ challenge' = challenge \/ challenge' = "expired"
               /\ \A f \in Ends : asked'[f] = asked[f] \/ asked'[f] = "late"
    BY <1>3, OtherEnd
    DEF ReadOneByte, OfferExpires, EvictionBlocks, OnPeerConnection,
        ChallengeExpires, TypeInv
  <1>4. QED
    BY <1>1, <1>2, <1>3, OtherEnd DEF Next, ReaderTask

LEMMA WaitsStep == TypeInv /\ WaitsForRest /\ [Next]_vars => WaitsForRest'
  <1> SUFFICES ASSUME TypeInv, WaitsForRest, Next, NEW f \in Ends,
                      waits'[f], open'[f]
               PROVE  stream'[f] # <<>>
    BY DEF WaitsForRest, vars
  <1>1. /\ \A e \in Ends : stream[e] \in Seq(Genuine)
        /\ DOMAIN stream = Ends /\ stream \in Streams
    BY DEF TypeInv, Streams
  <1>2. ASSUME NEW e \in Ends, NEW p \in Genuine, stream' = Sent(e, p, stream),
               UNCHANGED <<waits, open>>
        PROVE  stream'[f] # <<>>
    <2>1. stream[f] # <<>>
      BY <1>2 DEF WaitsForRest
    <2>2. Append(stream[f], p) # <<>>
      BY <1>1, AppendProperties
    <2>3. stream'[f] = stream[f] \/ stream'[f] = Append(stream[f], p)
      <3>1. CASE f = e
        BY <1>1, <1>2, <3>1, SentFrom
      <3>2. CASE f = Other(e)
        BY <1>1, <1>2, <3>2, SentFrom
      <3>3. QED
        BY <3>1, <3>2, EndsApart
    <2>4. QED
      BY <2>1, <2>2, <2>3
  <1>3. ASSUME UNCHANGED <<waits, open, stream>> PROVE stream'[f] # <<>>
    BY <1>3 DEF WaitsForRest
  <1>4. ASSUME NEW e \in Ends, Close(e) \/ Gone(e) \/ Blocks(e) \/ Raises(e),
               waits' = waits \/ ~waits'[e],
               \A g \in Ends : g # e => waits'[g] = waits[g]
        PROVE  stream'[f] # <<>>
    <2>1. CASE Gone(e)
      <3>1. f # e /\ stream'[f] = stream[f] /\ open'[f] = open[f]
        BY <1>1, <2>1 DEF Gone, TypeInv
      <3>2. QED
        BY <1>4, <3>1 DEF WaitsForRest
    <2>2. CASE UNCHANGED <<open, stream>>
      BY <1>4, <2>2 DEF WaitsForRest
    <2>3. QED
      BY <1>4, <2>1, <2>2 DEF Close, Blocks, Raises
  <1>5. ASSUME NEW e \in Ends,
               Read(e) \/ ReadCut(e) \/ ReadNothing(e) \/ ReadAll(e)
        PROVE  stream'[f] # <<>>
    <2>1. \A g \in Ends : g # e => waits'[g] = waits[g]
      BY <1>5 DEF Read, ReadCut, ReadNothing, ReadAll, TypeInv
    <2>2. CASE Closes(e) /\ ~waits'[e]
      BY <1>4, <2>1, <2>2 DEF Closes
    <2>3. CASE Handles(e)
      <3>1. f # e /\ f = Other(e) /\ stream[e] # <<>> /\ waits[f] /\ open[f]
        BY <2>1, <2>3, EndsApart
        DEF Handles, Ignores, Offers, TakesOffer, Solves, Trusts, IsTrusted
      <3>2. stream[f] # <<>> /\ Taken(e)[f] = stream[f] /\ Taken(e) \in Streams
        BY <3>1, TakenFrom DEF WaitsForRest
      <3>3. \/ stream' = Taken(e)
            \/ \E p \in Genuine : stream' = Sent(e, p, Taken(e))
        BY <2>3, HandshakeIsGenuine, DataIsGenuine
        DEF Handles, Ignores, Offers, TakesOffer, Solves, Trusts, IsTrusted
      <3>4. \A p \in Genuine : Append(stream[f], p) # <<>>
        BY <1>1, AppendProperties
      <3>5. QED
        BY <3>1, <3>2, <3>3, <3>4, SentFrom
    <2>4. QED
      BY <1>5, <2>2, <2>3, ReadOutcome
  <1>6. CASE SendPeerChallenge
    BY <1>2, <1>3, <1>6, OtherEnd, HandshakeIsGenuine DEF SendPeerChallenge
  <1>7. ASSUME NEW e \in Ends, \/ SendPeerDiscovery(e)
                               \/ \E data \in DataLengths :
                                     SendPeerAnnounce(e, data)
        PROVE  stream'[f] # <<>>
    BY <1>2, <1>7, HandshakeIsGenuine, DataIsGenuine
    DEF SendPeerDiscovery, SendPeerAnnounce
  <1>8. ASSUME NEW e \in Ends, ReadOneByte(e) \/ EvictionBlocks(e)
        PROVE  stream'[f] # <<>>
    BY <1>8 DEF ReadOneByte, EvictionBlocks, WaitsForRest, TypeInv
  <1>9. ASSUME NEW e \in Ends, Reset(e) \/ Stops(e) PROVE stream'[f] # <<>>
    BY <1>4, <1>9 DEF Reset, Stops
  <1>10. QED
    BY <1>3, <1>5, <1>6, <1>7, <1>8, <1>9
    DEF Next, ReaderTask, OnPeerConnection, ValidatePeer, ChallengeExpires,
        OfferExpires

-----------------------------------------------------------------------------
(***************************************************************************)
(* One challenge.  It is sent once; then there is one PEER CHALLENGE on    *)
(* its way, or the one PEER VERIFICATION it is worth, or the task of the   *)
(* receiver is about to list the connection, or has: never two of them.    *)
(***************************************************************************)
Challenged == Holds(stream[Initiator], "PEER_CHALLENGE")
Solved == Holds(stream[Receiver], "PEER_VERIFICATION")
Promoting == run[Receiver] = "promote"

OneChallenge ==
    /\ ~Holds(stream[Receiver], "PEER_CHALLENGE")
    /\ ~Holds(stream[Initiator], "PEER_VERIFICATION")
    /\ AtMostOne(stream[Initiator], "PEER_CHALLENGE")
    /\ AtMostOne(stream[Receiver], "PEER_VERIFICATION")
    /\ challenge = "none" => ~Challenged
    /\ challenge = "none" \/ Challenged => ~Solved
    /\ challenge = "none" \/ Challenged \/ Solved => ~Promoting
    /\ challenge = "none" \/ Challenged \/ Solved \/ Promoting
          => promotions = 0
    /\ PromotedOnce

LEMMA ChallengeFrame ==
    ASSUME OneChallenge, NoneNew("PEER_CHALLENGE"),
           NoneNew("PEER_VERIFICATION"), Promoting' => Promoting,
           UNCHANGED promotions, challenge' = "none" => challenge = "none"
    PROVE  OneChallenge'
  <1>1. /\ NoMore(stream[Initiator], stream'[Initiator], "PEER_CHALLENGE")
        /\ NoMore(stream[Receiver], stream'[Receiver], "PEER_CHALLENGE")
        /\ NoMore(stream[Initiator], stream'[Initiator], "PEER_VERIFICATION")
        /\ NoMore(stream[Receiver], stream'[Receiver], "PEER_VERIFICATION")
    BY OtherEnd DEF NoneNew
  <1>2. QED
    BY <1>1 DEF OneChallenge, NoMore, Challenged, Solved, PromotedOnce

LEMMA PackedTypes ==
    ASSUME NEW type, NEW data
    PROVE  Pack(type, data).type = type
  BY DEF Pack, Packet

\* The streams of the two ends, and what one message more or less does to
\* them.
LEMMA StreamsOf ==
    ASSUME TypeInv
    PROVE  /\ stream \in Streams
           /\ stream[Initiator] \in Seq(Genuine)
           /\ stream[Receiver] \in Seq(Genuine)
  BY OtherEnd DEF TypeInv, Streams

LEMMA ChallengeIsSent ==
    ASSUME TypeInv, OneChallenge, SendPeerChallenge
    PROVE  OneChallenge'
  <1> USE OtherEnd
  <1>1. CASE UNCHANGED <<challenge, stream>>
    <2>1. NoneNew("PEER_CHALLENGE") /\ NoneNew("PEER_VERIFICATION")
      BY <1>1, NothingHeld DEF NoneNew
    <2>2. QED
      BY <1>1, <2>1, ChallengeFrame DEF SendPeerChallenge, Promoting
  <1>2. CASE /\ challenge = "none" /\ challenge' = "sent"
             /\ stream' = Sent(Receiver, Pack("PEER_CHALLENGE", 0), stream)
    <2> DEFINE p == Pack("PEER_CHALLENGE", 0)
    <2>1. p \in Genuine /\ p.type = "PEER_CHALLENGE"
      BY HandshakeIsGenuine, PackedTypes
    <2> HIDE DEF p
    <2>2. stream' = Sent(Receiver, p, stream)
      BY <1>2 DEF p
    <2>3. NoneNew("PEER_VERIFICATION")
      BY <2>1, <2>2, SendingAdds
    <2>4. /\ stream'[Receiver] = stream[Receiver]
          /\ \/ stream'[Initiator] = stream[Initiator]
             \/ stream'[Initiator] = Append(stream[Initiator], p)
      BY <2>1, <2>2, SentFrom, StreamsOf
    <2>5. AtMostOne(Append(stream[Initiator], p), "PEER_CHALLENGE")
      BY <1>2, <2>1, AppendedStream, StreamsOf DEF OneChallenge, Challenged
    <2>6. /\ NoMore(stream[Initiator], stream'[Initiator], "PEER_VERIFICATION")
          /\ NoMore(stream[Receiver], stream'[Receiver], "PEER_VERIFICATION")
      BY <2>3 DEF NoneNew
    <2>7. UNCHANGED <<run, promotions>>
      BY DEF SendPeerChallenge
    <2>8. /\ ~Solved' /\ ~Promoting' /\ promotions' = 0 /\ PromotedOnce'
      BY <1>2, <2>6, <2>7
      DEF OneChallenge, Solved, Promoting, PromotedOnce, NoMore
    <2>9. QED
      BY <1>2, <2>4, <2>5, <2>6, <2>8 DEF OneChallenge, NoMore, Solved
  <1>3. QED
    BY <1>1, <1>2 DEF SendPeerChallenge

LEMMA ChallengeIsHandled ==
    ASSUME TypeInv, OneChallenge, NEW e \in Ends, Handles(e)
    PROVE  OneChallenge'
  <1> USE OtherEnd
  <1>1. stream[e] # <<>> /\ stream[e] \in Seq(Genuine)
    BY StreamsOf DEF Handles, Ends
  <1>2. Holds(stream[e], HeadType(e))
    BY <1>1, TakenStream DEF HeadType
  <1>3. CASE Ignores(e) \/ TakesOffer(e) \/ IsTrusted(e)
    <2>1. NoneNew("PEER_CHALLENGE") /\ NoneNew("PEER_VERIFICATION")
      BY <1>1, <1>3, TakingAdds DEF Ignores, TakesOffer, IsTrusted
    <2>2. QED
      BY <1>3, <2>1, ChallengeFrame
      DEF Ignores, TakesOffer, IsTrusted, Promoting
  <1>4. CASE Offers(e)
    <2>1. PICK p \in Genuine : /\ p.type = "PEER_OFFER"
                               /\ stream' = Sent(e, p, Taken(e))
      BY <1>4, DataIsGenuine, PackedTypes DEF Offers
    <2>2. NoneNew("PEER_CHALLENGE") /\ NoneNew("PEER_VERIFICATION")
      BY <1>1, <2>1, SendingAdds
    <2>3. QED
      BY <1>4, <2>2, ChallengeFrame DEF Offers, Promoting
  <1>5. CASE Solves(e)
    <2>1. e = Initiator
      BY <1>2, <1>5 DEF Solves, OneChallenge, Ends
    <2>2. PICK p \in Genuine : /\ p.type = "PEER_VERIFICATION"
                               /\ stream' = Sent(e, p, Taken(e))
      BY <1>5, HandshakeIsGenuine, PackedTypes DEF Solves
    <2>3. NoneNew("PEER_CHALLENGE")
      BY <1>1, <2>2, SendingAdds
    <2>4. /\ NoMore(stream[Initiator], stream'[Initiator], "PEER_CHALLENGE")
          /\ NoMore(stream[Receiver], stream'[Receiver], "PEER_CHALLENGE")
      BY <2>3 DEF NoneNew
    <2>5. Challenged /\ ~Solved /\ AtMostOne(stream[e], "PEER_CHALLENGE")
      BY <1>2, <1>5, <2>1 DEF Solves, Challenged, OneChallenge
    <2>6. /\ Taken(e) \in Streams
          /\ Taken(e)[Receiver] = stream[Receiver]
          /\ Taken(e)[e] = <<>> \/ Taken(e)[e] = Tail(stream[e])
      BY <1>1, <2>1, TakenFrom
    <2>7. /\ stream'[Initiator] = Taken(e)[Initiator]
          /\ \/ stream'[Receiver] = stream[Receiver]
             \/ stream'[Receiver] = Append(stream[Receiver], p)
      BY <2>1, <2>2, <2>6, SentFrom
    <2>8. /\ ~Holds(Tail(stream[e]), "PEER_CHALLENGE")
          /\ NoMore(stream[e], Tail(stream[e]), "PEER_VERIFICATION")
      BY <1>1, <1>5, <2>5, TakenStream DEF Solves, HeadType
    <2>9. /\ ~Challenged'
          /\ ~Holds(stream'[Initiator], "PEER_VERIFICATION")
      BY <2>1, <2>6, <2>7, <2>8, NothingHeld
      DEF Challenged, NoMore, OneChallenge
    <2>10. AtMostOne(stream'[Receiver], "PEER_VERIFICATION")
      BY <2>2, <2>5, <2>7, AppendedStream, StreamsOf
      DEF Solved, OneChallenge
    <2>11. UNCHANGED <<run, challenge, promotions>>
      BY <1>5 DEF Solves
    <2>12. QED
      BY <2>4, <2>5, <2>9, <2>10, <2>11
      DEF OneChallenge, NoMore, Promoting, PromotedOnce
  <1>6. CASE Trusts(e)
    <2>1. e = Receiver
      BY <1>6 DEF Trusts
    <2>2. PICK p \in Genuine : /\ p.type = "PEER_VALIDATION"
                               /\ stream' = Sent(e, p, Taken(e))
      BY <1>6, HandshakeIsGenuine, PackedTypes DEF Trusts
    <2>3. NoneNew("PEER_CHALLENGE") /\ NoneNew("PEER_VERIFICATION")
      BY <1>1, <2>2, SendingAdds
    <2>4. /\ NoMore(stream[Initiator], stream'[Initiator], "PEER_CHALLENGE")
          /\ NoMore(stream[Receiver], stream'[Receiver], "PEER_CHALLENGE")
          /\ NoMore(stream[Initiator], stream'[Initiator], "PEER_VERIFICATION")
          /\ NoMore(stream[Receiver], stream'[Receiver], "PEER_VERIFICATION")
      BY <2>3 DEF NoneNew
    <2>5. /\ Solved /\ AtMostOne(stream[e], "PEER_VERIFICATION")
          /\ challenge # "none" /\ ~Challenged /\ promotions = 0
      BY <1>2, <1>6, <2>1 DEF Trusts, Solved, OneChallenge
    <2>6. /\ Taken(e) \in Streams
          /\ Taken(e)[e] = <<>> \/ Taken(e)[e] = Tail(stream[e])
      BY <1>1, TakenFrom
    <2>7. stream'[e] = Taken(e)[e]
      BY <2>2, <2>6, SentFrom
    <2>8. ~Holds(Tail(stream[e]), "PEER_VERIFICATION")
      BY <1>1, <1>6, <2>5, TakenStream DEF Trusts, HeadType
    <2>9. ~Solved'
      BY <2>1, <2>6, <2>7, <2>8, NothingHeld DEF Solved
    <2>10. UNCHANGED <<challenge, promotions>>
      BY <1>6 DEF Trusts
    <2>11. QED
      BY <2>4, <2>5, <2>9, <2>10
      DEF OneChallenge, NoMore, Challenged, PromotedOnce
  <1>7. QED
    BY <1>3, <1>4, <1>5, <1>6 DEF Handles

LEMMA ChallengeStep ==
    TypeInv /\ WaitsForRest /\ OneChallenge /\ [Next]_vars => OneChallenge'
  <1> SUFFICES ASSUME TypeInv, WaitsForRest, OneChallenge, [Next]_vars
               PROVE  OneChallenge'
    OBVIOUS
  <1> USE OtherEnd
  <1>1. ASSUME UNCHANGED <<stream, promotions>>, Promoting' => Promoting,
               challenge' = challenge \/ challenge' = "expired"
        PROVE  OneChallenge'
    <2>1. NoneNew("PEER_CHALLENGE") /\ NoneNew("PEER_VERIFICATION")
      BY <1>1, NothingHeld DEF NoneNew
    <2>2. challenge' = "none" => challenge = "none"
      BY <1>1
    <2>3. QED
      BY <1>1, <2>1, <2>2, ChallengeFrame
  <1>2. ASSUME NEW e \in Ends, Closes(e) PROVE OneChallenge'
    <2>1. NoneNew("PEER_CHALLENGE") /\ NoneNew("PEER_VERIFICATION")
      BY <1>2, ClosingAdds DEF Closes
    <2>2. Promoting' => Promoting
      BY <1>2 DEF Closes, Close, Gone, Blocks, Raises, Promoting, TypeInv
    <2>3. UNCHANGED <<promotions, challenge>>
      BY <1>2 DEF Closes
    <2>4. QED
      BY <2>1, <2>2, <2>3, ChallengeFrame
  <1>3. ASSUME NEW e \in Ends, NEW p \in Genuine, stream' = Sent(e, p, stream),
               p.type \notin {"PEER_CHALLENGE", "PEER_VERIFICATION"},
               UNCHANGED <<run, challenge, promotions>>
        PROVE  OneChallenge'
    <2>1. NoneNew("PEER_CHALLENGE") /\ NoneNew("PEER_VERIFICATION")
      BY <1>3, SendingAdds
    <2>2. Promoting' => Promoting
      BY <1>3 DEF Promoting
    <2>3. QED
      BY <1>3, <2>1, <2>2, ChallengeFrame
  <1>4. ASSUME NEW e \in Ends, SendPeerDiscovery(e) PROVE OneChallenge'
    BY <1>3, <1>4, HandshakeIsGenuine, PackedTypes DEF SendPeerDiscovery
  <1>5. ASSUME NEW e \in Ends, NEW data \in DataLengths,
               SendPeerAnnounce(e, data)
        PROVE  OneChallenge'
    BY <1>3, <1>5, DataIsGenuine, PackedTypes DEF SendPeerAnnounce
  <1>6. CASE ValidatePeer
    <2>1. /\ Promoting /\ ~Promoting'
          /\ promotions' = promotions + 1 \/ UNCHANGED promotions
      BY <1>6 DEF ValidatePeer, Promoting, TypeInv
    <2>2. UNCHANGED <<stream, challenge>>
      BY <1>6 DEF ValidatePeer
    <2>3. /\ promotions = 0 /\ challenge # "none"
          /\ ~Challenged /\ ~Solved
      BY <2>1 DEF OneChallenge
    <2>4. QED
      BY <2>1, <2>2, <2>3 DEF OneChallenge, Challenged, Solved, PromotedOnce
  <1>7. CASE Next
    <2>1. CASE /\ UNCHANGED <<stream, open, us, them, promotions, crossed>>
               /\ run'[Receiver] # "promote" \/ run[Receiver] = "promote"
               /\ challenge' = challenge \/ challenge' = "expired"
      BY <1>1, <2>1 DEF Promoting
    <2>2. QED
      BY <1>2, <1>4, <1>5, <1>6, <1>7, <2>1, OtherOutcome,
         ChallengeIsSent, ChallengeIsHandled
  <1>8. CASE UNCHANGED vars
    BY <1>1, <1>8 DEF vars, Promoting
  <1>9. QED
    BY <1>7, <1>8

\* The only thing under way at the start is the PEER INFO.
LEMMA StartingStreams ==
    ASSUME Init
    PROVE  /\ stream[Initiator] = <<>>
           /\ stream[Receiver] = <<Pack("PEER_INFO", 0)>>
           /\ \A i \in DOMAIN stream[Receiver] :
                 i = 1 /\ stream[Receiver][i].type = "PEER_INFO"
  BY OtherEnd, PackedTypes DEF Init

LEMMA ChallengeInit == Init => WaitsForRest /\ OneChallenge
  <1> SUFFICES ASSUME Init PROVE WaitsForRest /\ OneChallenge
    OBVIOUS
  <1>1. WaitsForRest
    BY DEF Init, WaitsForRest
  <1>2. /\ ~Holds(stream[Receiver], "PEER_CHALLENGE")
        /\ ~Holds(stream[Receiver], "PEER_VERIFICATION")
        /\ ~Holds(stream[Initiator], "PEER_CHALLENGE")
        /\ ~Holds(stream[Initiator], "PEER_VERIFICATION")
    BY StartingStreams, NothingHeld DEF Holds
  <1>3. /\ AtMostOne(stream[Initiator], "PEER_CHALLENGE")
        /\ AtMostOne(stream[Receiver], "PEER_VERIFICATION")
    BY <1>2 DEF AtMostOne, Holds
  <1>4. ~Promoting /\ promotions = 0
    BY OtherEnd DEF Init, Promoting
  <1>5. QED
    BY <1>1, <1>2, <1>3, <1>4
    DEF OneChallenge, Challenged, Solved, PromotedOnce

\* validate_peer lists a connection in push_peers once, although neither it
\* nor the handler of a PEER VERIFICATION looks whether it did before
\* (gossip.py:187, peer_connection.py:492): no second one can be under way.
THEOREM PromotedOnlyOnce == Spec => []PromotedOnce
  <1>1. OneChallenge => PromotedOnce
    BY DEF OneChallenge
  <1>2. QED
    BY TypeInit, TypeStep, ChallengeInit, WaitsStep, ChallengeStep, <1>1,
       PTL DEF Spec

-----------------------------------------------------------------------------
(***************************************************************************)
(* Trust.  The receiver trusts before it says so, and says so before it    *)
(* writes anything else than a challenge; the initiator writes nothing but *)
(* its port and its solution until it has read that.  So neither end reads *)
(* a message of a peer from an end it does not trust, nor one that it can  *)
(* only take from an end that trusts it.                                   *)
(***************************************************************************)
Ended == Finished(Receiver)
Knows == us[Initiator] \/ Holds(stream[Initiator], "PEER_VALIDATION")
Closed == \E e \in Ends : ~open[e]

EndsTrust == us[Receiver] /\ (them[Initiator] \/ Finished(Initiator))
ReadsLed == us[Initiator] \/ Led(stream[Initiator])
VerdictSent == them[Receiver] => Knows \/ Closed
VerdictTrue == Knows => them[Receiver] \/ Ended
ReadsPlain == Plain(stream[Receiver]) \/ them[Receiver] \/ Ended

Trust == EndsTrust /\ ReadsLed /\ VerdictSent /\ VerdictTrue /\ ReadsPlain

\* What the receiver writes, with or without taking a message first.
LEMMA ReceiverWrites ==
    ASSUME TypeInv, Trust, NEW p \in Genuine, NEW streams \in Streams,
           streams[Initiator] = stream[Initiator],
           stream' = Sent(Receiver, p, streams),
           \/ p.type \in {"PEER_CHALLENGE", "PEER_VALIDATION"}
           \/ them[Receiver]
    PROVE  /\ stream'[Receiver] = streams[Receiver]
           /\ us[Initiator] \/ Led(stream'[Initiator])
           /\ Holds(stream[Initiator], "PEER_VALIDATION")
                 => Holds(stream'[Initiator], "PEER_VALIDATION")
           /\ p.type # "PEER_VALIDATION" =>
                 (Holds(stream'[Initiator], "PEER_VALIDATION")
                    => Holds(stream[Initiator], "PEER_VALIDATION"))
           /\ p.type = "PEER_VALIDATION" =>
                 Closed \/ Holds(stream'[Initiator], "PEER_VALIDATION")
  <1> USE OtherEnd
  <1> DEFINE s == stream[Initiator]
             t == Append(s, p)
  <1>1. s \in Seq(Genuine)
    BY StreamsOf
  <1>2. /\ Holds(t, "PEER_VALIDATION")
              <=> Holds(s, "PEER_VALIDATION") \/ p.type = "PEER_VALIDATION"
        /\ /\ Led(s)
           /\ \/ p.type \in {"PEER_CHALLENGE", "PEER_VALIDATION"}
              \/ Holds(s, "PEER_VALIDATION")
           => Led(t)
    BY <1>1, HoldsAppended, AppendedStream
  <1>3. stream'[Receiver] = streams[Receiver]
    BY SentFrom
  <1>4. CASE Closed /\ stream'[Initiator] = s
    BY <1>3, <1>4 DEF Trust, ReadsLed
  <1>5. CASE stream'[Initiator] = t /\ ~Closed
    <2>1. \/ us[Initiator]
          \/ p.type \in {"PEER_CHALLENGE", "PEER_VALIDATION"}
          \/ Holds(s, "PEER_VALIDATION")
      BY <1>5 DEF Trust, VerdictSent, Knows
    <2>2. us[Initiator] \/ Led(t)
      BY <1>2, <2>1 DEF Trust, ReadsLed
    <2>3. QED
      BY <1>2, <1>3, <1>5, <2>2
  <1>6. QED
    BY <1>4, <1>5 DEF Sent, Closed, Ends, Streams

\* What the initiator writes.
LEMMA InitiatorWrites ==
    ASSUME TypeInv, Trust, NEW p \in Genuine, NEW streams \in Streams,
           streams[Receiver] = stream[Receiver],
           stream' = Sent(Initiator, p, streams),
           p.type \in {"PEER_INFO", "PEER_VERIFICATION"} \/ us[Initiator]
    PROVE  /\ stream'[Initiator] = streams[Initiator]
           /\ Plain(stream'[Receiver]) \/ them[Receiver] \/ Ended
  <1> USE OtherEnd
  <1>1. stream[Receiver] \in Seq(Genuine)
    BY StreamsOf
  <1>2. /\ stream'[Initiator] = streams[Initiator]
        /\ \/ stream'[Receiver] = stream[Receiver]
           \/ stream'[Receiver] = Append(stream[Receiver], p)
    BY SentFrom
  <1>3. CASE us[Initiator]
    BY <1>2, <1>3 DEF Trust, VerdictTrue, Knows
  <1>4. CASE p.type \in {"PEER_INFO", "PEER_VERIFICATION"}
    <2>1. Plain(stream[Receiver]) => Plain(Append(stream[Receiver], p))
      BY <1>1, <1>4, AppendedStream
    <2>2. QED
      BY <1>2, <2>1 DEF Trust, ReadsPlain
  <1>5. QED
    BY <1>3, <1>4

LEMMA TrustAfterSending ==
    ASSUME TypeInv, Trust, NEW e \in Ends, NEW p \in Genuine,
           stream' = Sent(e, p, stream), UNCHANGED <<open, run, us, them>>,
           \/ e = Receiver /\ p.type = "PEER_CHALLENGE"
           \/ FullyValidated(e) /\ p.type # "PEER_VALIDATION"
    PROVE  Trust'
  <1> USE OtherEnd
  <1>1. EndsTrust' /\ (Ended' <=> Ended) /\ (Closed' <=> Closed)
    BY DEF Trust, EndsTrust, Ended, Finished, Closed
  <1>2. CASE e = Receiver
    <2>1. p.type = "PEER_CHALLENGE" \/ them[Receiver]
      BY <1>2 DEF FullyValidated
    <2>2. /\ stream'[Receiver] = stream[Receiver]
          /\ us[Initiator] \/ Led(stream'[Initiator])
          /\ Holds(stream'[Initiator], "PEER_VALIDATION")
                <=> Holds(stream[Initiator], "PEER_VALIDATION")
      BY <1>2, <2>1, StreamsOf, ReceiverWrites
    <2>3. QED
      BY <1>1, <2>2
      DEF Trust, ReadsLed, VerdictSent, VerdictTrue, ReadsPlain, Knows
  <1>3. CASE e = Initiator
    <2>1. us[Initiator]
      BY <1>3 DEF FullyValidated
    <2>2. /\ stream'[Initiator] = stream[Initiator]
          /\ Plain(stream'[Receiver]) \/ them[Receiver] \/ Ended
      BY <1>3, <2>1, StreamsOf, InitiatorWrites
    <2>3. QED
      BY <1>1, <2>1, <2>2
      DEF Trust, ReadsLed, VerdictSent, VerdictTrue, ReadsPlain, Knows
  <1>4. QED
    BY <1>2, <1>3 DEF Ends

LEMMA TrustAfterClosing ==
    ASSUME TypeInv, Trust, NEW e \in Ends, Closes(e)
    PROVE  Trust'
  <1> USE OtherEnd
  <1>1. DOMAIN stream = Ends
    BY DEF TypeInv, Streams
  <1>2. CASE e = Receiver
    <2>1. Ended' /\ stream'[Initiator] = stream[Initiator]
      BY <1>1, <1>2
      DEF Closes, Close, Gone, Blocks, Raises, Ended, Finished, TypeInv
    <2>2. us' = us /\ (Finished(Initiator)' <=> Finished(Initiator))
          /\ them'[Initiator] = them[Initiator]
      BY <1>2 DEF Closes, Close, Gone, Blocks, Raises, Finished, TypeInv
    <2>3. them'[Receiver] => them[Receiver]
      BY <1>2 DEF Closes, TypeInv
    <2>4. Closed => Closed'
      BY <1>2 DEF Closes, Close, Gone, Blocks, Raises, TypeInv, Closed
    <2>5. QED
      BY <2>1, <2>2, <2>3, <2>4
      DEF Trust, EndsTrust, ReadsLed, VerdictSent, VerdictTrue, ReadsPlain,
          Knows
  <1>3. CASE e = Initiator
    <2>1. /\ \/ ~open'[Initiator] /\ stream'[Initiator] = <<>>
             \/ UNCHANGED open /\ stream'[Initiator] = stream[Initiator]
          /\ stream'[Receiver] = stream[Receiver]
          /\ run'[Receiver] = run[Receiver] /\ Finished(Initiator)'
      BY <1>1, <1>3
      DEF Closes, Close, Gone, Blocks, Raises, Finished, TypeInv
    <2>2. us' = us /\ them'[Receiver] = them[Receiver]
      BY <1>3 DEF Closes, TypeInv
    <2>3. /\ Ended' <=> Ended
          /\ \/ Closed'
             \/ (Closed' <=> Closed) /\ stream'[Initiator] = stream[Initiator]
          /\ stream'[Initiator] \in {<<>>, stream[Initiator]}
      BY <2>1 DEF Closed, Ended, Finished
    <2>4. Led(<<>>) /\ ~Holds(<<>>, "PEER_VALIDATION")
      BY NothingHeld
    <2>5. EndsTrust' /\ ReadsLed' /\ VerdictTrue' /\ ReadsPlain'
      BY <2>1, <2>2, <2>3, <2>4
      DEF Trust, EndsTrust, ReadsLed, VerdictTrue, ReadsPlain, Knows
    <2>6. VerdictSent'
      BY <2>2, <2>3 DEF Trust, VerdictSent, Knows
    <2>7. QED
      BY <2>5, <2>6 DEF Trust
  <1>4. QED
    BY <1>2, <1>3 DEF Ends

\* What the receiver handles: it trusts the initiator already, or it has read
\* a PEER INFO or the PEER VERIFICATION.
LEMMA TrustOfTheReceiver ==
    ASSUME TypeInv, Trust, OneChallenge, Handles(Receiver)
    PROVE  Trust'
  <1> USE OtherEnd
  <1> DEFINE h == HeadType(Receiver)
  <1>1. stream[Receiver] # <<>> /\ stream[Receiver] \in Seq(Genuine)
    BY StreamsOf DEF Handles
  <1>2. them[Receiver] \/ h \in {"PEER_VERIFICATION", "PEER_INFO"}
    BY DEF Handles, HandleType, FullyValidated, Trust, EndsTrust
  <1>3. Plain(stream[Receiver]) => Plain(Tail(stream[Receiver]))
    BY <1>1, TakenStream
  <1>4. /\ Taken(Receiver) \in Streams
        /\ Taken(Receiver)[Initiator] = stream[Initiator]
        /\ Plain(stream[Receiver]) => Plain(Taken(Receiver)[Receiver])
    BY <1>1, <1>3, TakenFrom, NothingHeld
  <1>5. ~Ended
    BY DEF Handles, Ended, Finished
  <1>6. h # "PEER_CHALLENGE"
    BY <1>1, TakenStream DEF HeadType, OneChallenge
  <1>7. CASE Ignores(Receiver) \/ TakesOffer(Receiver) \/ IsTrusted(Receiver)
    <2>1. /\ stream' = Taken(Receiver) /\ UNCHANGED <<open, run, them>>
          /\ us'[Receiver] /\ us'[Initiator] = us[Initiator]
      BY <1>7 DEF Ignores, TakesOffer, IsTrusted, TypeInv, Trust, EndsTrust
    <2>2. /\ (Ended' <=> Ended) /\ (Closed' <=> Closed)
          /\ Finished(Initiator)' <=> Finished(Initiator)
      BY <2>1 DEF Ended, Finished, Closed
    <2>3. QED
      BY <1>4, <2>1, <2>2
      DEF Trust, EndsTrust, ReadsLed, VerdictSent, VerdictTrue, ReadsPlain,
          Knows
  <1>8. CASE Offers(Receiver)
    <2>1. PICK p \in Genuine : /\ p.type = "PEER_OFFER"
                               /\ stream' = Sent(Receiver, p, Taken(Receiver))
      BY <1>8, DataIsGenuine, PackedTypes DEF Offers
    <2>2. them[Receiver]
      BY <1>2, <1>8 DEF Offers
    <2>3. /\ us[Initiator] \/ Led(stream'[Initiator])
          /\ Holds(stream'[Initiator], "PEER_VALIDATION")
                <=> Holds(stream[Initiator], "PEER_VALIDATION")
      BY <1>4, <2>1, <2>2, ReceiverWrites
    <2>4. UNCHANGED <<open, run, us, them>>
      BY <1>8 DEF Offers
    <2>5. /\ (Ended' <=> Ended) /\ (Closed' <=> Closed)
          /\ Finished(Initiator)' <=> Finished(Initiator)
      BY <2>4 DEF Ended, Finished, Closed
    <2>6. QED
      BY <2>2, <2>3, <2>4, <2>5
      DEF Trust, EndsTrust, ReadsLed, VerdictSent, VerdictTrue, ReadsPlain,
          Knows
  <1>9. CASE Trusts(Receiver)
    <2>1. PICK p \in Genuine : /\ p.type = "PEER_VALIDATION"
                               /\ stream' = Sent(Receiver, p, Taken(Receiver))
      BY <1>9, HandshakeIsGenuine, PackedTypes DEF Trusts
    <2>2. /\ us[Initiator] \/ Led(stream'[Initiator])
          /\ Closed \/ Holds(stream'[Initiator], "PEER_VALIDATION")
      BY <1>4, <2>1, ReceiverWrites
    <2>3. /\ UNCHANGED <<open, us>> /\ them'[Receiver]
          /\ them'[Initiator] = them[Initiator]
          /\ run'[Initiator] = run[Initiator]
      BY <1>9 DEF Trusts, TypeInv
    <2>4. /\ Closed' <=> Closed
          /\ Finished(Initiator)' <=> Finished(Initiator)
      BY <2>3 DEF Closed, Finished
    <2>5. QED
      BY <2>2, <2>3, <2>4
      DEF Trust, EndsTrust, ReadsLed, VerdictSent, VerdictTrue, ReadsPlain,
          Knows
  <1>10. QED
    BY <1>6, <1>7, <1>8, <1>9 DEF Handles, Solves

\* What the initiator handles: the receiver trusts it, or it has read the
\* challenge or the PEER VALIDATION.
LEMMA TrustOfTheInitiator ==
    ASSUME TypeInv, Trust, Handles(Initiator)
    PROVE  Trust'
  <1> USE OtherEnd
  <1> DEFINE h == HeadType(Initiator)
             s == stream[Initiator]
             t == Taken(Initiator)[Initiator]
  <1>1. s # <<>> /\ s \in Seq(Genuine)
    BY StreamsOf DEF Handles
  <1>2. us[Initiator] \/ h \in {"PEER_CHALLENGE", "PEER_VALIDATION"}
    BY DEF Handles, HandleType, FullyValidated, Trust, EndsTrust, Finished
  <1>3. /\ Taken(Initiator) \in Streams
        /\ Taken(Initiator)[Receiver] = stream[Receiver]
        /\ t = <<>> \/ (~waits[Initiator] /\ t = Tail(s))
    BY <1>1, TakenFrom
  <1>4. waits[Initiator] => Closed
    BY DEF Handles, Closed
  <1>5. /\ Holds(t, "PEER_VALIDATION") => Holds(s, "PEER_VALIDATION")
        /\ \/ h = "PEER_VALIDATION" \/ Closed
           \/ Holds(s, "PEER_VALIDATION") => Holds(t, "PEER_VALIDATION")
        /\ Led(s) /\ h # "PEER_VALIDATION" => Led(t)
    <2>1. CASE t = Tail(s)
      <3>1. Holds(s, "PEER_VALIDATION")
               <=> h = "PEER_VALIDATION" \/ Holds(Tail(s), "PEER_VALIDATION")
        BY <1>1, HoldsTail DEF HeadType
      <3>2. Led(s) /\ h # "PEER_VALIDATION" => Led(Tail(s))
        BY <1>1, TakenStream DEF HeadType
      <3>3. QED
        BY <2>1, <3>1, <3>2
    <2>2. CASE t = <<>> /\ waits[Initiator]
      BY <1>4, <2>2, NothingHeld
    <2>3. QED
      BY <1>3, <2>1, <2>2, TakenFrom, <1>1 DEF Taken
  <1>6. CASE Ignores(Initiator) \/ TakesOffer(Initiator)
    <2>1. stream' = Taken(Initiator) /\ UNCHANGED <<open, run, us, them>>
      BY <1>6 DEF Ignores, TakesOffer
    <2>2. us[Initiator]
      BY <1>2, <1>6 DEF Ignores, TakesOffer
    <2>3. /\ (Ended' <=> Ended) /\ (Closed' <=> Closed)
          /\ Finished(Initiator)' <=> Finished(Initiator)
      BY <2>1 DEF Ended, Finished, Closed
    <2>4. QED
      BY <1>3, <2>1, <2>2, <2>3
      DEF Trust, EndsTrust, ReadsLed, VerdictSent, VerdictTrue, ReadsPlain,
          Knows
  <1>7. CASE Offers(Initiator) \/ Solves(Initiator)
    <2>1. PICK p \in Genuine :
             /\ p.type \in {"PEER_OFFER", "PEER_VERIFICATION"}
             /\ p.type = "PEER_OFFER" => h = "PEER_DISCOVERY"
             /\ stream' = Sent(Initiator, p, Taken(Initiator))
      BY <1>7, DataIsGenuine, HandshakeIsGenuine, PackedTypes
      DEF Offers, Solves
    <2>2. p.type = "PEER_VERIFICATION" \/ us[Initiator]
      BY <1>2, <2>1
    <2>3. /\ stream'[Initiator] = t
          /\ Plain(stream'[Receiver]) \/ them[Receiver] \/ Ended
      BY <1>3, <2>1, <2>2, InitiatorWrites
    <2>4. UNCHANGED <<open, run, us, them>> /\ h # "PEER_VALIDATION"
      BY <1>7 DEF Offers, Solves
    <2>5. /\ (Ended' <=> Ended) /\ (Closed' <=> Closed)
          /\ Finished(Initiator)' <=> Finished(Initiator)
      BY <2>4 DEF Ended, Finished, Closed
    <2>6. QED
      BY <1>5, <2>3, <2>4, <2>5
      DEF Trust, EndsTrust, ReadsLed, VerdictSent, VerdictTrue, ReadsPlain,
          Knows
  <1>8. CASE IsTrusted(Initiator)
    <2>1. /\ stream' = Taken(Initiator) /\ UNCHANGED <<open, run, them>>
          /\ us'[Initiator] /\ us'[Receiver] = us[Receiver]
      BY <1>8 DEF IsTrusted, TypeInv
    <2>2. Knows
      BY <1>1, <1>8, TakenStream DEF IsTrusted, HeadType, Knows
    <2>3. /\ (Ended' <=> Ended) /\ (Closed' <=> Closed)
          /\ Finished(Initiator)' <=> Finished(Initiator)
      BY <2>1 DEF Ended, Finished, Closed
    <2>4. QED
      BY <1>3, <2>1, <2>2, <2>3
      DEF Trust, EndsTrust, ReadsLed, VerdictSent, VerdictTrue, ReadsPlain,
          Knows
  <1>9. QED
    BY <1>6, <1>7, <1>8 DEF Handles, Trusts

LEMMA TrustStep ==
    /\ TypeInv /\ WaitsForRest /\ OneChallenge /\ Trust
    /\ [Next]_vars
    => Trust'
  <1> SUFFICES ASSUME TypeInv, WaitsForRest, OneChallenge, Trust, [Next]_vars
               PROVE  Trust'
    OBVIOUS
  <1> USE OtherEnd
  <1>1. ASSUME UNCHANGED <<stream, open, us, them>>,
               \A e \in Ends : Finished(e) => Finished(e)'
        PROVE  Trust'
    BY <1>1 DEF Trust, EndsTrust, ReadsLed, VerdictSent, VerdictTrue,
                ReadsPlain, Knows, Closed, Ended
  <1>2. ASSUME NEW e \in Ends, Handles(e) PROVE Trust'
    BY <1>2, TrustOfTheReceiver, TrustOfTheInitiator DEF Ends
  <1>3. ASSUME SendPeerChallenge PROVE Trust'
    <2>1. UNCHANGED <<open, run, us, them>>
      BY <1>3 DEF SendPeerChallenge
    <2>2. CASE UNCHANGED stream
      BY <1>1, <2>1, <2>2 DEF Finished
    <2>3. CASE stream' = Sent(Receiver, Pack("PEER_CHALLENGE", 0), stream)
      BY <2>1, <2>3, HandshakeIsGenuine, PackedTypes, TrustAfterSending
    <2>4. QED
      BY <1>3, <2>2, <2>3 DEF SendPeerChallenge
  <1>4. ASSUME NEW e \in Ends, SendPeerDiscovery(e) PROVE Trust'
    BY <1>4, HandshakeIsGenuine, PackedTypes, TrustAfterSending
    DEF SendPeerDiscovery, Usable
  <1>5. ASSUME NEW e \in Ends, NEW data \in DataLengths,
               SendPeerAnnounce(e, data)
        PROVE  Trust'
    BY <1>5, DataIsGenuine, PackedTypes, TrustAfterSending
    DEF SendPeerAnnounce, Usable
  <1>6. CASE ValidatePeer
    <2>1. /\ UNCHANGED <<stream, open, us, them>>
          /\ \A e \in Ends : Finished(e) => Finished(e)'
      BY <1>6 DEF ValidatePeer, Finished, TypeInv
    <2>2. QED
      BY <1>1, <2>1
  <1>7. CASE Next
    <2>1. CASE /\ UNCHANGED <<stream, open, us, them, promotions, crossed>>
               /\ run'[Receiver] = run[Receiver] \/ run[Receiver] = "new"
               /\ run'[Initiator] = run[Initiator]
      <3>1. \A e \in Ends : Finished(e) => Finished(e)'
        BY <2>1 DEF Finished, Ends
      <3>2. QED
        BY <1>1, <2>1, <3>1
    <2>2. QED
      BY <1>2, <1>3, <1>4, <1>5, <1>6, <1>7, <2>1, OtherOutcome,
         TrustAfterClosing
  <1>8. CASE UNCHANGED vars
    BY <1>1, <1>8 DEF vars, Finished
  <1>9. QED
    BY <1>7, <1>8

LEMMA TrustInit == Init => Trust
  <1> SUFFICES ASSUME Init PROVE Trust
    OBVIOUS
  <1>1. ~Holds(stream[Initiator], "PEER_VALIDATION") /\ Led(stream[Initiator])
    BY StartingStreams, NothingHeld
  <1>2. Plain(stream[Receiver])
    BY StartingStreams DEF Plain
  <1>3. ~Knows /\ ~them[Receiver]
    BY <1>1, OtherEnd DEF Init, Knows
  <1>4. EndsTrust
    BY OtherEnd DEF Init, EndsTrust
  <1>5. QED
    BY <1>1, <1>2, <1>3, <1>4
    DEF Trust, ReadsLed, VerdictSent, VerdictTrue, ReadsPlain

-----------------------------------------------------------------------------
(***************************************************************************)
(* Offers.  While the discoveries of an end did not cross, one of them at  *)
(* most is under way, or the offer that answers it, and last_peer_         *)
(* discovery_send is not None as long as it is.                            *)
(***************************************************************************)
Asking(e) == Holds(stream[Other(e)], "PEER_DISCOVERY")
Answered(e) == Holds(stream[e], "PEER_OFFER")

OneAnswer(e) ==
    /\ AtMostOne(stream[Other(e)], "PEER_DISCOVERY")
    /\ AtMostOne(stream[e], "PEER_OFFER")
    /\ ~(Asking(e) /\ Answered(e))
    /\ Asking(e) \/ Answered(e) => asked[e] # "none"

OneOffer(e) == crossed[e] \/ Finished(e) \/ OneAnswer(e)

OneOffers == \A e \in Ends : OneOffer(e)

LEMMA OfferFrame ==
    ASSUME NEW e \in Ends, OneOffer(e), crossed'[e] = crossed[e],
           Finished(e) => Finished(e)',
           NoMore(stream[Other(e)], stream'[Other(e)], "PEER_DISCOVERY"),
           NoMore(stream[e], stream'[e], "PEER_OFFER"),
           asked'[e] = "none" => asked[e] = "none"
    PROVE  OneOffer(e)'
  BY DEF OneOffer, OneAnswer, Asking, Answered, NoMore

LEMMA HandlingFinishesNone ==
    ASSUME TypeInv, NEW g \in Ends, Handles(g)
    PROVE  \A e \in Ends : Finished(e) => Finished(e)'
  BY DEF Handles, Ignores, Offers, TakesOffer, Solves, Trusts, IsTrusted,
         Finished, TypeInv

LEMMA OffersFrame ==
    ASSUME OneOffers, NoneNew("PEER_DISCOVERY"), NoneNew("PEER_OFFER"),
           UNCHANGED crossed,
           \A e \in Ends : Finished(e) => Finished(e)',
           \A e \in Ends : asked'[e] = "none" => asked[e] = "none" \/ Finished(e)'
    PROVE  OneOffers'
  <1>1. ASSUME NEW e \in Ends PROVE OneOffer(e)'
    <2>1. /\ OneOffer(e) /\ crossed'[e] = crossed[e]
          /\ NoMore(stream[Other(e)], stream'[Other(e)], "PEER_DISCOVERY")
          /\ NoMore(stream[e], stream'[e], "PEER_OFFER")
          /\ asked'[e] = "none" => asked[e] = "none" \/ Finished(e)'
      BY EndsApart DEF OneOffers, NoneNew
    <2>2. QED
      BY <2>1, OfferFrame DEF OneOffer
  <1>2. QED
    BY <1>1 DEF OneOffers

\* A discovery with none unanswered is the only one.
LEMMA OfferIsAskedFor ==
    ASSUME TypeInv, OneOffers, NEW g \in Ends, SendPeerDiscovery(g)
    PROVE  OneOffers'
  <1>1. /\ Other(g) \in Ends /\ Other(g) # g /\ Other(Other(g)) = g
        /\ Ends = {g, Other(g)}
    BY EndsApart DEF Ends
  <1>2. PICK p \in Genuine : /\ p.type = "PEER_DISCOVERY"
                             /\ stream' = Sent(g, p, stream)
    BY HandshakeIsGenuine, PackedTypes DEF SendPeerDiscovery
  <1>3. /\ crossed'[Other(g)] = crossed[Other(g)]
        /\ crossed'[g] = (crossed[g] \/ Unanswered(g))
        /\ asked'[g] = "fresh" /\ asked'[Other(g)] = asked[Other(g)]
    BY <1>1 DEF SendPeerDiscovery, TypeInv
  <1> \A e \in Ends : Finished(e) => Finished(e)'
    BY DEF SendPeerDiscovery, Finished
  <1>4. NoneNew("PEER_OFFER")
    BY <1>2, SendingAdds
  <1>5. /\ stream'[g] = stream[g]
        /\ \/ stream'[Other(g)] = stream[Other(g)]
           \/ stream'[Other(g)] = Append(stream[Other(g)], p)
    BY <1>2, SentFrom, StreamsOf
  <1>6. OneOffer(Other(g))'
    <2>1. NoMore(stream[g], stream'[g], "PEER_DISCOVERY")
      BY <1>5, NothingHeld
    <2>2. NoMore(stream[Other(g)], stream'[Other(g)], "PEER_OFFER")
      BY <1>1, <1>4 DEF NoneNew
    <2>3. QED
      BY <1>1, <1>3, <2>1, <2>2, OfferFrame DEF OneOffers
  <1>7. ASSUME ~crossed[g], ~Unanswered(g) PROVE OneAnswer(g)'
    <2>1. ~Asking(g) /\ ~Answered(g)
      BY <1>7 DEF Unanswered, OnItsWay, Asking, Answered, Holds
    <2>2. ~Answered(g)' /\ AtMostOne(stream'[g], "PEER_OFFER")
      BY <1>5, <2>1 DEF Answered, Holds, AtMostOne
    <2>3. stream[Other(g)] \in Seq(Genuine)
      BY <1>1 DEF TypeInv, Streams
    <2>4. AtMostOne(stream[Other(g)], "PEER_DISCOVERY")
      BY <2>1 DEF Asking, Holds, AtMostOne
    <2>5. AtMostOne(Append(stream[Other(g)], p), "PEER_DISCOVERY")
      BY <2>1, <2>3, AppendedStream DEF Asking
    <2>6. AtMostOne(stream'[Other(g)], "PEER_DISCOVERY")
      BY <1>5, <2>4, <2>5
    <2>7. QED
      BY <1>3, <2>2, <2>6 DEF OneAnswer
  <1>8. OneOffer(g)'
    BY <1>3, <1>7 DEF OneOffer
  <1>9. QED
    BY <1>1, <1>6, <1>8 DEF OneOffers

\* The answer takes the place of the discovery.
LEMMA OfferIsWritten ==
    ASSUME TypeInv, OneOffers, NEW g \in Ends, Handles(g), Offers(g)
    PROVE  OneOffers'
  <1>1. /\ Other(g) \in Ends /\ Other(g) # g /\ Other(Other(g)) = g
        /\ Ends = {g, Other(g)}
    BY EndsApart DEF Ends
  <1>2. PICK p \in Genuine : /\ p.type = "PEER_OFFER"
                             /\ stream' = Sent(g, p, Taken(g))
    BY DataIsGenuine, PackedTypes DEF Offers
  <1>3. /\ stream[g] # <<>> /\ stream[g] \in Seq(Genuine)
        /\ stream[Other(g)] \in Seq(Genuine)
    BY <1>1 DEF Handles, TypeInv, Streams
  <1> \A e \in Ends : Finished(e) => Finished(e)'
    BY HandlingFinishesNone
  <1>4. UNCHANGED <<crossed, asked>>
    BY DEF Handles, Offers
  <1>5. /\ Taken(g) \in Streams
        /\ Taken(g)[Other(g)] = stream[Other(g)]
        /\ Taken(g)[g] = <<>> \/ Taken(g)[g] = Tail(stream[g])
    BY <1>3, TakenFrom
  <1>6. /\ stream'[g] = Taken(g)[g]
        /\ \/ stream'[Other(g)] = stream[Other(g)]
           \/ stream'[Other(g)] = Append(stream[Other(g)], p)
    BY <1>2, <1>5, SentFrom
  <1>7. NoneNew("PEER_DISCOVERY")
    BY <1>2, <1>3, SendingAdds
  <1>8. OneOffer(g)'
    <2>1. NoMore(stream[g], stream'[g], "PEER_OFFER")
      BY <1>3, <1>5, <1>6, NothingHeld, TakenStream
    <2>2. NoMore(stream[Other(g)], stream'[Other(g)], "PEER_DISCOVERY")
      BY <1>1, <1>7 DEF NoneNew
    <2>3. QED
      BY <1>1, <1>4, <2>1, <2>2, OfferFrame DEF OneOffers
  <1>9. ASSUME OneAnswer(Other(g)) PROVE OneAnswer(Other(g))'
    <2>1. /\ AtMostOne(stream[g], "PEER_DISCOVERY")
          /\ Holds(stream[g], "PEER_DISCOVERY")
          /\ ~Holds(stream[Other(g)], "PEER_OFFER")
          /\ AtMostOne(stream[Other(g)], "PEER_OFFER")
          /\ asked[Other(g)] # "none"
      <3>1. Holds(stream[g], "PEER_DISCOVERY")
        BY <1>3, TakenStream DEF Offers, HeadType
      <3>2. QED
        BY <1>1, <1>9, <3>1 DEF OneAnswer, Asking, Answered
    <2>2. ~Holds(Tail(stream[g]), "PEER_DISCOVERY")
      BY <1>3, <2>1, TakenStream DEF Offers, HeadType
    <2>3. ~Holds(stream'[g], "PEER_DISCOVERY")
      BY <1>5, <1>6, <2>2, NothingHeld
    <2>4. AtMostOne(stream'[g], "PEER_DISCOVERY")
      BY <2>3 DEF AtMostOne, Holds
    <2>5. AtMostOne(Append(stream[Other(g)], p), "PEER_OFFER")
      BY <1>3, <2>1, AppendedStream
    <2>6. AtMostOne(stream'[Other(g)], "PEER_OFFER")
      BY <1>6, <2>1, <2>5
    <2>7. QED
      BY <1>1, <1>4, <2>1, <2>3, <2>4, <2>6 DEF OneAnswer, Asking
  <1>10. OneOffer(Other(g))'
    BY <1>1, <1>4, <1>9 DEF OneOffers, OneOffer
  <1>11. QED
    BY <1>1, <1>8, <1>10 DEF OneOffers

\* An offer that is read was the only one, and no discovery waits for another.
LEMMA OfferIsRead ==
    ASSUME TypeInv, OneOffers, NEW g \in Ends, Handles(g), TakesOffer(g)
    PROVE  OneOffers'
  <1>1. /\ Other(g) \in Ends /\ Other(g) # g /\ Other(Other(g)) = g
        /\ Ends = {g, Other(g)}
    BY EndsApart DEF Ends
  <1>2. /\ stream[g] # <<>> /\ stream[g] \in Seq(Genuine)
        /\ Head(stream[g]).type = "PEER_OFFER"
    BY <1>1 DEF Handles, TakesOffer, HeadType, TypeInv, Streams
  <1>3. /\ UNCHANGED crossed /\ stream' = Taken(g)
        /\ asked'[Other(g)] = asked[Other(g)]
    BY <1>1 DEF Handles, TakesOffer, TypeInv
  <1> \A e \in Ends : Finished(e) => Finished(e)'
    BY HandlingFinishesNone
  <1>4. NoneNew("PEER_DISCOVERY") /\ NoneNew("PEER_OFFER")
    BY <1>2, <1>3, TakingAdds
  <1>5. OneOffer(Other(g))'
    BY <1>1, <1>3, <1>4, OfferFrame DEF OneOffers, NoneNew
  <1>6. ASSUME OneAnswer(g) PROVE OneAnswer(g)'
    <2>1. /\ ~Holds(Tail(stream[g]), "PEER_OFFER")
          /\ Holds(stream[g], "PEER_OFFER")
      BY <1>2, <1>6, TakenStream DEF OneAnswer
    <2>2. ~Answered(g)'
      BY <1>2, <1>3, <2>1, TakenFrom, NothingHeld DEF Answered
    <2>3. ~Asking(g)'
      BY <1>1, <1>4, <1>6, <2>1
      DEF OneAnswer, Asking, Answered, NoneNew, NoMore
    <2>4. /\ AtMostOne(stream'[g], "PEER_OFFER")
          /\ AtMostOne(stream'[Other(g)], "PEER_DISCOVERY")
      BY <2>2, <2>3 DEF Answered, Asking, Holds, AtMostOne
    <2>5. QED
      BY <2>2, <2>3, <2>4 DEF OneAnswer
  <1>7. OneOffer(g)'
    BY <1>1, <1>3, <1>6 DEF OneOffers, OneOffer
  <1>8. QED
    BY <1>1, <1>5, <1>7 DEF OneOffers

LEMMA OffersStep ==
    TypeInv /\ WaitsForRest /\ OneOffers /\ [Next]_vars => OneOffers'
  <1> SUFFICES ASSUME TypeInv, WaitsForRest, OneOffers, [Next]_vars
               PROVE  OneOffers'
    OBVIOUS
  <1> USE OtherEnd
  <1>1. ASSUME UNCHANGED <<stream, crossed>>,
               \A e \in Ends : Finished(e) => Finished(e)',
               \A e \in Ends : asked'[e] = asked[e] \/ asked'[e] = "late"
        PROVE  OneOffers'
    <2>1. NoneNew("PEER_DISCOVERY") /\ NoneNew("PEER_OFFER")
      BY <1>1, NothingHeld DEF NoneNew
    <2>2. \A e \in Ends : asked'[e] = "none" => asked[e] = "none"
      BY <1>1
    <2>3. QED
      BY <1>1, <2>1, <2>2, OffersFrame
  <1>2. ASSUME NEW e \in Ends, Closes(e) PROVE OneOffers'
    <2>1. NoneNew("PEER_DISCOVERY") /\ NoneNew("PEER_OFFER")
      BY <1>2, ClosingAdds DEF Closes
    <2>2. /\ \A f \in Ends : Finished(f) => Finished(f)'
          /\ Finished(e)'
      BY <1>2 DEF Closes, Close, Gone, Blocks, Raises, Finished, TypeInv
    <2>3. /\ UNCHANGED crossed
          /\ \A f \in Ends : f # e => asked'[f] = asked[f]
      BY <1>2 DEF Closes, TypeInv
    <2>4. QED
      BY <2>1, <2>2, <2>3, OffersFrame
  <1>3. ASSUME NEW e \in Ends, NEW p \in Genuine,
               \/ stream' = Sent(e, p, stream)
               \/ stream[e] # <<>> /\ stream' = Sent(e, p, Taken(e)),
               p.type \notin {"PEER_DISCOVERY", "PEER_OFFER"},
               \A f \in Ends : Finished(f) => Finished(f)',
               UNCHANGED <<crossed, asked>>
        PROVE  OneOffers'
    <2>1. NoneNew("PEER_DISCOVERY") /\ NoneNew("PEER_OFFER")
      BY <1>3, SendingAdds
    <2>2. QED
      BY <1>3, <2>1, OffersFrame
  <1>4. ASSUME NEW e \in Ends, Handles(e) PROVE OneOffers'
    <2>1. /\ stream[e] # <<>> /\ UNCHANGED crossed
          /\ \A f \in Ends : Finished(f) => Finished(f)'
      BY <1>4, HandlingFinishesNone DEF Handles
    <2>2. CASE Ignores(e) \/ IsTrusted(e)
      <3>1. NoneNew("PEER_DISCOVERY") /\ NoneNew("PEER_OFFER")
        BY <2>1, <2>2, TakingAdds DEF Ignores, IsTrusted
      <3>2. QED
        BY <2>1, <2>2, <3>1, OffersFrame DEF Ignores, IsTrusted
    <2>3. CASE Solves(e) \/ Trusts(e)
      BY <1>3, <2>1, <2>3, HandshakeIsGenuine, PackedTypes
      DEF Solves, Trusts
    <2>4. QED
      BY <1>4, <2>2, <2>3, OfferIsWritten, OfferIsRead DEF Handles
  <1>5. ASSUME SendPeerChallenge PROVE OneOffers'
    BY <1>1, <1>3, <1>5, HandshakeIsGenuine, PackedTypes
    DEF SendPeerChallenge, Finished
  <1>6. ASSUME NEW e \in Ends, NEW data \in DataLengths,
               SendPeerAnnounce(e, data)
        PROVE  OneOffers'
    BY <1>3, <1>6, DataIsGenuine, PackedTypes DEF SendPeerAnnounce, Finished
  <1>7. ASSUME ValidatePeer PROVE OneOffers'
    BY <1>1, <1>7 DEF ValidatePeer, Finished, TypeInv
  <1>11. ASSUME run'[Receiver] = run[Receiver] \/ run[Receiver] = "new",
                run'[Initiator] = run[Initiator]
         PROVE  \A e \in Ends : Finished(e) => Finished(e)'
    BY <1>11 DEF Finished, Ends
  <1>8. CASE Next
    BY <1>11, <1>1, <1>2, <1>4, <1>5, <1>6, <1>7, <1>8, OtherOutcome,
       OfferIsAskedFor
  <1>9. CASE UNCHANGED vars
    BY <1>1, <1>9 DEF vars, Finished
  <1>10. QED
    BY <1>8, <1>9

LEMMA OffersInit == Init => OneOffers
  <1> SUFFICES ASSUME Init, NEW e \in Ends PROVE OneAnswer(e)
    BY DEF OneOffers, OneOffer
  <1>1. ASSUME NEW f \in Ends, NEW i \in DOMAIN stream[f]
        PROVE  stream[f][i].type = "PEER_INFO"
    BY <1>1, StartingStreams DEF Ends
  <1>2. QED
    BY <1>1, EndsApart DEF OneAnswer, Asking, Answered, AtMostOne, Holds

LEMMA Welcome ==
    ASSUME TypeInv, OneChallenge, Trust, OneOffers
    PROVE  WelcomeMessages
  <1> SUFFICES ASSUME NEW e \in Ends, Reading(e), stream[e] # <<>>
               PROVE  /\ HandleType(e, HeadType(e))
                      /\ HeadType(e) = "PEER_OFFER" =>
                            asked[e] # "none" \/ crossed[e]
                      /\ HeadType(e) = "PEER_VERIFICATION" =>
                            challenge # "none"
    BY DEF WelcomeMessages, HeadType
  <1> USE OtherEnd
  <1>1. stream[e] \in Seq(Genuine)
    BY DEF TypeInv, Streams
  <1>2. /\ Holds(stream[e], HeadType(e))
        /\ Plain(stream[e])
              => HeadType(e) \in {"PEER_INFO", "PEER_VERIFICATION"}
        /\ Led(stream[e])
              => HeadType(e) \in {"PEER_CHALLENGE", "PEER_VALIDATION"}
    BY <1>1, TakenStream DEF HeadType
  <1>3. HandleType(e, HeadType(e))
    <2>1. CASE e = Receiver
      BY <1>2, <2>1
      DEF Reading, Trust, EndsTrust, ReadsPlain, Ended, Finished, HandleType,
          FullyValidated
    <2>2. CASE e = Initiator
      BY <1>2, <2>2
      DEF Reading, Trust, EndsTrust, ReadsLed, Finished, HandleType,
          FullyValidated
    <2>3. QED
      BY <2>1, <2>2 DEF Ends
  <1>4. HeadType(e) = "PEER_OFFER" => asked[e] # "none" \/ crossed[e]
    BY <1>2 DEF OneOffers, OneOffer, OneAnswer, Answered, Reading, Finished
  <1>5. HeadType(e) = "PEER_VERIFICATION" => challenge # "none"
    BY <1>2 DEF OneChallenge, Solved, Ends
  <1>6. QED
    BY <1>3, <1>4, <1>5

\* Neither end is ever sent a message that its state makes it close the
\* connection for (__handle_type, peer_connection.py:362, and the handlers of
\* an offer and of a verification): what it reads was written after the other
\* end came to the state that the message needs.
THEOREM OnlyWelcomeMessages == Spec => []WelcomeMessages
  <1>1. Init => TypeInv /\ WaitsForRest /\ OneChallenge /\ Trust /\ OneOffers
    BY TypeInit, ChallengeInit, TrustInit, OffersInit
  <1>2. /\ TypeInv /\ WaitsForRest /\ OneChallenge /\ Trust /\ OneOffers
        /\ [Next]_vars
        => (TypeInv /\ WaitsForRest /\ OneChallenge /\ Trust /\ OneOffers)'
    BY TypeStep, WaitsStep, ChallengeStep, TrustStep, OffersStep
  <1>3. TypeInv /\ OneChallenge /\ Trust /\ OneOffers => WelcomeMessages
    BY Welcome
  <1>4. QED
    BY <1>1, <1>2, <1>3, PTL DEF Spec
=============================================================================
