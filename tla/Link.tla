-------------------------------- MODULE Link --------------------------------
(***************************************************************************)
(* One connection between two nodes that both run this program             *)
(* (modules/peer_connection.py): the node that opened it, Initiator, and   *)
(* the one it was opened to, Receiver.  Each end has its own view of the   *)
(* handshake, in two flags it sets at different times; what one end writes *)
(* the other reads in order, later, whole or cut in two.                   *)
(*                                                                         *)
(* A step is a message that is handled to its end, or a step of another    *)
(* task of one of the nodes: the verifier, the peer control, the relay of  *)
(* an announcement, the promotion that follows a verification.  Of the     *)
(* rest of a node two things are kept: where the receiver lists the        *)
(* connection, and which of the locks of the peer lists is never released  *)
(* any more, because the verifier, closing an expired challenge, or a task *)
(* that evicts a connection waits for the lock it holds (PeerPool): what   *)
(* needs that lock does not go on from then on.  A node may go down or     *)
(* evict the connection at any time.                                       *)
(*                                                                         *)
(* produce_pow_peer_challenge is a step of its own in which the nonce is   *)
(* found: the search through 2^64 nonces does not end without one, but it  *)
(* may take longer than the challenge is valid.                            *)
(***************************************************************************)
EXTENDS Packets, Sequences

CONSTANTS
    Initiator, Receiver,
    DataLengths,      \* lengths of the data of announcements and offers
    MaxDiscoveries,   \* bound: discoveries each end sends
    MaxAnnounces,     \* bound: announcements each end sends
    MayBlock          \* bound: the locks an eviction may keep at each end

ASSUME EndsAssumption == Initiator # Receiver
ASSUME LengthsAssumption ==
    DataLengths # {} /\ DataLengths \subseteq 1 .. MaxSize - 16
Ends == {Initiator, Receiver}
Other(e) == IF e = Initiator THEN Receiver ELSE Initiator

Locks == {"unverified", "push"}

ASSUME LinkBounds ==
    /\ MaxDiscoveries \in [Ends -> Nat] /\ MaxAnnounces \in [Ends -> Nat]
    /\ MayBlock \in [Ends -> SUBSET Locks]

VARIABLES
    stream,      \* what each end has yet to read
    open,        \* whether the writer of each end is open
    run,         \* where the task of each end is
    waits,       \* whether its reader waits for the end of the stream
    us,          \* validated_us: the other end trusts us
    them,        \* validated_them: we trust the other end
    port,        \* whether peer_p2p_listening_port is known
    asked,       \* last_peer_discovery_send: none, or in time, or too old
    challenge,   \* the receiver's peer_challenge
    place,       \* the list of the receiver the connection is in
    kept,        \* the lock of each node that is never released, or none
    promotions,  \* history: how often validate_peer listed the connection
    crossed,     \* history: a discovery was sent with another one unanswered
    discoveries, announces   \* how many were sent, for the bounds

sent == <<discoveries, announces>>
vars == <<stream, open, run, waits, us, them, port, asked, challenge, place,
          kept, promotions, crossed, sent>>

FullyValidated(e) == us[e] /\ them[e]

\* The reader of e is at its top, and its connection was not closed.
Reading(e) == run[e] = "read" /\ open[e] /\ ~waits[e]

\* __connect_peer: the initiator has written its PEER INFO, trusts the
\* receiver and knows its port.  The receiver has not accepted it yet.
Init ==
    /\ stream = [e \in Ends |-> IF e = Receiver THEN <<Pack("PEER_INFO", 0)>>
                                ELSE <<>>]
    /\ open = [e \in Ends |-> TRUE]
    /\ run = [e \in Ends |-> IF e = Receiver THEN "new" ELSE "read"]
    /\ waits = [e \in Ends |-> FALSE]
    /\ us = [e \in Ends |-> e = Receiver]
    /\ them = [e \in Ends |-> e = Initiator]
    /\ port = [e \in Ends |-> e = Initiator]
    /\ asked = [e \in Ends |-> "none"]
    /\ challenge = "none"
    /\ place = "none"
    /\ kept = [e \in Ends |-> "none"]
    /\ promotions = 0
    /\ crossed = [e \in Ends |-> FALSE]
    /\ discoveries = [e \in Ends |-> 0]
    /\ announces = [e \in Ends |-> 0]

-----------------------------------------------------------------------------
(* Writing and closing.                                                     *)

\* __send: what is written to a connection that is closed is lost.
Sent(e, packet, streams) ==
    IF open[e] /\ open[Other(e)]
    THEN [streams EXCEPT ![Other(e)] = Append(@, packet)] ELSE streams

\* The message that is being handled is taken from the stream, and with it
\* everything else if the reader has waited for that.
Taken(e) == [stream EXCEPT ![e] = IF waits[e] THEN <<>> ELSE Tail(@)]

\* The task ends and the connection is closed and unlisted; what it has not
\* read is lost.
Gone(e) ==
    /\ open' = [open EXCEPT ![e] = FALSE]
    /\ run' = [run EXCEPT ![e] = "over"]
    /\ place' = IF e = Receiver THEN "none" ELSE place
    /\ stream' = [stream EXCEPT ![e] = <<>>]

\* The task waits for good.
Blocks(e) ==
    /\ run' = [run EXCEPT ![e] = "blocked"]
    /\ UNCHANGED <<open, place, stream>>

\* close_peer from the task of the connection: it needs the lock of the
\* unverified peers first, and those of the pull and push peers unless it
\* has found the connection.
Close(e) ==
    \/ kept[e] # "unverified" /\ Gone(e)
    \/ kept[e] # "none" /\ Blocks(e)

\* A handler that changes nothing here returns, or raises: the task ends then
\* and the connection stays.
GoesOn(e) == stream' = Taken(e) /\ UNCHANGED <<open, run, place>>

Raises(e) ==
    /\ run' = [run EXCEPT ![e] = "dead"]
    /\ UNCHANGED <<open, place, stream>>

\* An eviction closes a connection under a lock that close_peer or its log
\* waits for (__on_peer_connection, validate_peer).
EvictionBlocks(e) ==
    /\ kept[e] = "none"
    /\ \E lock \in MayBlock[e] : kept' = [kept EXCEPT ![e] = lock]
    /\ UNCHANGED <<stream, open, run, waits, us, them, port, asked, challenge,
                   place, promotions, crossed, sent>>

\* The node goes down, or evicts the connection.
Stops(e) ==
    /\ open[e]
    /\ Gone(e)
    /\ UNCHANGED <<waits, us, them, port, asked, challenge, kept,
                   promotions, crossed, sent>>

-----------------------------------------------------------------------------
(* Messages the nodes send by themselves.                                   *)

\* __on_peer_connection.
OnPeerConnection ==
    /\ run[Receiver] = "new" /\ open[Receiver]
    /\ kept[Receiver] # "unverified"
    /\ place' = "unverified"
    /\ run' = [run EXCEPT ![Receiver] = "read"]
    /\ UNCHANGED <<waits, stream, open, us, them, port, asked, challenge,
                   kept, promotions, crossed, sent>>

\* A fault: a challenge is sent although one was sent before.
ChallengesAgain ==
    /\ place = "unverified" /\ kept[Receiver] # "unverified"
    /\ challenge \in {"none", "sent"}
    /\ challenge' = "sent"
    /\ stream' = Sent(Receiver, Pack("PEER_CHALLENGE", 0), stream)
    /\ UNCHANGED <<waits, open, run, us, them, port, asked, place, kept,
                   promotions, crossed, sent>>

\* send_peer_challenge, called by the verifier for all unverified peers: the
\* first time it sends one, later it closes the connection if it expired.
SendPeerChallenge ==
    /\ place = "unverified" /\ kept[Receiver] # "unverified"
    /\ \/ /\ challenge = "none"
          /\ challenge' = "sent"
          /\ stream' = Sent(Receiver, Pack("PEER_CHALLENGE", 0), stream)
          /\ UNCHANGED kept
       \/ /\ challenge = "expired"
          /\ kept' = [kept EXCEPT ![Receiver] = "unverified"]
          /\ UNCHANGED <<challenge, stream>>
    /\ UNCHANGED <<waits, open, run, us, them, port, asked, place, promotions,
                   crossed, sent>>

\* The connection is where the peer control and the sample look for peers.
Usable(e) ==
    open[e] /\ FullyValidated(e) /\ (e = Receiver => place = "push")

OnItsWay(e, type) == \E i \in DOMAIN stream[e] : stream[e][i].type = type

\* A discovery of e was not answered yet.
Unanswered(e) ==
    OnItsWay(Other(e), "PEER_DISCOVERY") \/ OnItsWay(e, "PEER_OFFER")

\* A fault: a discovery is sent without its time.
DiscoveryWithoutTime(e) ==
    /\ Usable(e) /\ discoveries[e] < MaxDiscoveries[e]
    /\ discoveries' = [discoveries EXCEPT ![e] = @ + 1]
    /\ crossed' = [crossed EXCEPT ![e] = @ \/ Unanswered(e)]
    /\ stream' = Sent(e, Pack("PEER_DISCOVERY", 0), stream)
    /\ UNCHANGED <<waits, open, run, us, them, port, asked, challenge, place,
                   kept, promotions, announces>>

\* send_peer_discovery, called by the peer control under push_peers_lock.
SendPeerDiscovery(e) ==
    /\ Usable(e) /\ discoveries[e] < MaxDiscoveries[e]
    /\ kept[e] # "push"
    /\ discoveries' = [discoveries EXCEPT ![e] = @ + 1]
    /\ crossed' = [crossed EXCEPT ![e] = @ \/ Unanswered(e)]
    /\ asked' = [asked EXCEPT ![e] = "fresh"]
    /\ stream' = Sent(e, Pack("PEER_DISCOVERY", 0), stream)
    /\ UNCHANGED <<waits, open, run, us, them, port, challenge, place,
                   kept, promotions, announces>>

\* send_peer_announce, for any announcement of the node.
SendPeerAnnounce(e, data) ==
    /\ Usable(e) /\ announces[e] < MaxAnnounces[e]
    /\ announces' = [announces EXCEPT ![e] = @ + 1]
    /\ stream' = Sent(e, Pack("PEER_ANNOUNCE", data), stream)
    /\ UNCHANGED <<waits, open, run, us, them, port, asked, challenge, place,
                   kept, promotions, crossed, discoveries>>

\* CHALLENGE_TIMEOUT and PEER_OFFER_TIMEOUT.
ChallengeExpires ==
    /\ challenge = "sent" /\ place = "unverified"
    /\ challenge' = "expired"
    /\ UNCHANGED <<waits, stream, open, run, us, them, port, asked, place,
                   kept, promotions, crossed, sent>>

OfferExpires(e) ==
    /\ asked[e] = "fresh" /\ open[e]
    /\ asked' = [asked EXCEPT ![e] = "late"]
    /\ UNCHANGED <<waits, stream, open, run, us, them, port, challenge, place,
                   kept, promotions, crossed, sent>>

-----------------------------------------------------------------------------
(* The handlers.  Each is called with a packet its state allows and whose   *)
(* parser returned what it says.                                            *)

\* A subscriber cannot be notified (nearly every id is too wide), or
\* announces_to_verify_lock is held by a vote that waits for good for the
\* lock of a peer list (AnnounceRouting).
HandlePeerAnnounce(e) ==
    /\ \/ GoesOn(e)
       \/ Raises(e)
       \/ kept[e] # "none" /\ Blocks(e)
    /\ UNCHANGED <<us, them, port, asked, challenge, promotions>>

\* The answer lists the other peers of this node, which needs the locks of
\* both lists; if it has none there is no answer.
HandlePeerDiscovery(e) ==
    /\ \/ kept[e] = "push" /\ Blocks(e)
       \/ kept[e] # "push" /\ GoesOn(e)
       \/ /\ kept[e] # "push"
          /\ \E data \in DataLengths :
                stream' = Sent(e, Pack("PEER_OFFER", data), Taken(e))
          /\ UNCHANGED <<open, run, place>>
    /\ UNCHANGED <<us, them, port, asked, challenge, promotions>>

\* An offer nobody asked for ends the connection, and so does one with an
\* address that is none, or this node's own; one that is late is ignored, and
\* any other passed to gossip, which needs the locks of all lists (unless it
\* has no room) and raises when an address cannot be reached.
HandlePeerOffer(e) ==
    /\ \/ Close(e) /\ UNCHANGED asked
       \/ /\ asked[e] # "none"
          /\ asked' = [asked EXCEPT ![e] = "none"]
          /\ \/ GoesOn(e)
             \/ asked[e] = "fresh" /\ Raises(e)
             \/ asked[e] = "fresh" /\ kept[e] # "none" /\ Blocks(e)
    /\ UNCHANGED <<us, them, port, challenge, promotions>>

\* A fault: the test for a port that is known is the wrong way round.
PortOfTheKnown(e) ==
    /\ stream' = Taken(e)
    /\ UNCHANGED <<open, run, us, them, port, asked, challenge, place,
                   promotions>>

HandlePeerInfo(e) ==
    /\ port' = [port EXCEPT ![e] = TRUE]
    /\ stream' = Taken(e)
    /\ UNCHANGED <<open, run, us, them, asked, challenge, place, promotions>>

\* A fault: the solution is not sent.
ChallengeUnanswered(e) ==
    /\ stream' = Taken(e)
    /\ UNCHANGED <<open, run, us, them, port, asked, challenge, place,
                   promotions>>

HandlePeerChallenge(e) ==
    /\ stream' = Sent(e, Pack("PEER_VERIFICATION", 0), Taken(e))
    /\ UNCHANGED <<open, run, us, them, port, asked, challenge, place,
                   promotions>>

\* A fault: the verdict is sent, and trust comes with the promotion.
TrustsLater(e) ==
    /\ IF challenge # "sent" \/ e = Initiator
       THEN Close(e)
       ELSE /\ stream' = Sent(e, Pack("PEER_VALIDATION", 0), Taken(e))
            /\ run' = [run EXCEPT ![e] = "promote"]
            /\ UNCHANGED <<open, place>>
    /\ UNCHANGED <<us, them, port, asked, challenge, promotions>>

\* Without a challenge (the initiator never sends one), and after it expired,
\* the connection is closed.  Otherwise the flag is set, the verdict is
\* written, and validate_peer is called.
HandlePeerVerification(e) ==
    /\ IF challenge # "sent" \/ e = Initiator
       THEN Close(e) /\ UNCHANGED them
       ELSE /\ them' = [them EXCEPT ![e] = TRUE]
            /\ stream' = Sent(e, Pack("PEER_VALIDATION", 0), Taken(e))
            /\ run' = [run EXCEPT ![e] = "promote"]
            /\ UNCHANGED <<open, place>>
    /\ UNCHANGED <<us, port, asked, challenge, promotions>>

\* validate_peer: from the unverified to the push peers, or out of the first
\* and no further.
ValidatePeer ==
    /\ run[Receiver] = "promote" /\ open[Receiver]
    /\ \/ /\ kept[Receiver] = "none"
          /\ place' = "push"
          /\ promotions' = promotions + 1
          /\ run' = [run EXCEPT ![Receiver] = "read"]
       \/ /\ kept[Receiver] = "push"
          /\ place' = "none"
          /\ run' = [run EXCEPT ![Receiver] = "blocked"]
          /\ UNCHANGED promotions
    /\ UNCHANGED <<waits, stream, open, us, them, port, asked, challenge,
                   kept, crossed, sent>>

\* The program sends a PEER VALIDATION only when it says yes.
HandlePeerValidation(e) ==
    /\ us' = [us EXCEPT ![e] = TRUE]
    /\ stream' = Taken(e)
    /\ UNCHANGED <<open, run, them, port, asked, challenge, place, promotions>>

-----------------------------------------------------------------------------
(* Reading: run, __handle_incoming_message, __handle_type.                  *)

HandleType(e, type) ==
    \/ FullyValidated(e)
    \/ ~them[e] /\ type \in {"PEER_VERIFICATION", "PEER_INFO"}
    \/ ~us[e] /\ type \in {"PEER_CHALLENGE", "PEER_VALIDATION"}

Handler(e, type) ==
    \/ type = "PEER_ANNOUNCE" /\ HandlePeerAnnounce(e)
    \/ type = "PEER_DISCOVERY" /\ HandlePeerDiscovery(e)
    \/ type = "PEER_OFFER" /\ HandlePeerOffer(e)
    \/ type = "PEER_INFO" /\ HandlePeerInfo(e)
    \/ type = "PEER_CHALLENGE" /\ HandlePeerChallenge(e)
    \/ type = "PEER_VERIFICATION" /\ HandlePeerVerification(e)
    \/ type = "PEER_VALIDATION" /\ HandlePeerValidation(e)

\* What the task does with the bytes it has read.
HandleIncoming(e, p) ==
    LET type == HeaderType(p)
        accepts == HandleType(e, type)
    IN  /\ \/ /\ accepts /\ type \in PeerTypes
              /\ Parse(p) = "ok"
              /\ Handler(e, type)
           \/ /\ \/ ~accepts
                 \/ /\ type \in PeerTypes \ {"PEER_DISCOVERY"}
                    /\ Parse(p) = "none"
              /\ Close(e)
              /\ UNCHANGED <<us, them, port, asked, challenge, promotions>>
           \/ /\ accepts /\ type = "PEER_DISCOVERY"
              /\ Parse(p) = "none"
              /\ stream' = Taken(e)
              /\ UNCHANGED <<open, run, us, them, port, asked, challenge,
                             place, promotions>>
           \/ /\ accepts /\ type \notin PeerTypes
              /\ them' = [them EXCEPT ![e] = FALSE]
              /\ Close(e)
              /\ UNCHANGED <<us, port, asked, challenge, promotions>>
        /\ UNCHANGED <<kept, crossed, sent>>

\* Two reads return the whole message.
Read(e) ==
    /\ Reading(e) /\ stream[e] # <<>>
    /\ HandleIncoming(e, Head(stream[e]))
    /\ UNCHANGED waits

\* The second read, or the first and the second, return less.
ReadCut(e) ==
    /\ Reading(e) /\ stream[e] # <<>>
    /\ \E n \in 2 .. Head(stream[e]).len - 1 :
          HandleIncoming(e, Cut(Head(stream[e]), n))
    /\ UNCHANGED waits

\* The first read returns one byte of a size below 2^8, a zero: the second
\* one waits for the end of the stream.
ReadOneByte(e) ==
    /\ Reading(e) /\ stream[e] # <<>>
    /\ ReadsToEnd(Head(stream[e]).size \div 256)
    /\ waits' = [waits EXCEPT ![e] = TRUE]
    /\ UNCHANGED <<stream, open, run, us, them, port, asked, challenge, place,
                   kept, promotions, crossed, sent>>

\* A fault: the loop goes on when nothing was read.
NothingReadIgnored(e) == Reading(e) /\ UNCHANGED vars

\* The stream ends: no byte is read, and that is a message without a type.
ReadNothing(e) ==
    /\ Reading(e) /\ stream[e] = <<>> /\ ~open[Other(e)]
    /\ HandleIncoming(e, Packet("none", 0, 0))
    /\ UNCHANGED waits

\* What had been waited for is one message: the first one, with everything
\* that came after it.
LengthOf(packets) ==
    LET total[i \in 0 .. Len(packets)] ==
            IF i = 0 THEN 0 ELSE total[i - 1] + packets[i].len
    IN  total[Len(packets)]

ReadAll(e) ==
    /\ waits[e] /\ open[e] /\ run[e] = "read" /\ ~open[Other(e)]
    /\ waits' = [waits EXCEPT ![e] = FALSE]
    /\ HandleIncoming(e, Cut(Head(stream[e]), LengthOf(stream[e])))

\* The other end is gone and the operating system says so: ConnectionError.
Reset(e) ==
    /\ run[e] = "read" /\ open[e] /\ ~open[Other(e)]
    /\ Close(e)
    /\ UNCHANGED <<waits, us, them, port, asked, challenge, kept,
                   promotions, crossed, sent>>

-----------------------------------------------------------------------------
ReaderTask(e) ==
    Read(e) \/ ReadNothing(e) \/ ReadAll(e)
        \/ (e = Receiver /\ (OnPeerConnection \/ ValidatePeer))

Next ==
    \/ SendPeerChallenge \/ ChallengeExpires
    \/ \E e \in Ends :
          \/ ReaderTask(e) \/ ReadCut(e) \/ ReadOneByte(e)
          \/ Reset(e) \/ Stops(e) \/ EvictionBlocks(e)
          \/ SendPeerDiscovery(e) \/ OfferExpires(e)
          \/ \E data \in DataLengths : SendPeerAnnounce(e, data)

Spec == Init /\ [][Next]_vars

\* Readers read what has arrived, whole or not, and the verifier makes its
\* rounds: WF.  Nothing has to be sent by the peer control or an API user,
\* and nothing has to expire, to be cut, to be reset or to stop.
FairSpec ==
    /\ Spec
    /\ \A e \in Ends : WF_vars(ReaderTask(e) \/ ReadCut(e))
    /\ WF_vars(SendPeerChallenge)

-----------------------------------------------------------------------------
(* Properties.                                                              *)

OnTheWire ==
    [type : PeerTypes, size : 4 .. MaxSize, len : 4 .. MaxSize]

Runs == {"new", "read", "promote", "blocked", "dead", "over"}

TypeOK ==
    /\ \A e \in Ends : \A i \in DOMAIN stream[e] : stream[e][i] \in OnTheWire
    /\ open \in [Ends -> BOOLEAN]
    /\ run \in [Ends -> Runs]
    /\ waits \in [Ends -> BOOLEAN]
    /\ us \in [Ends -> BOOLEAN] /\ them \in [Ends -> BOOLEAN]
    /\ port \in [Ends -> BOOLEAN]
    /\ asked \in [Ends -> {"none", "fresh", "late"}]
    /\ challenge \in {"none", "sent", "expired"}
    /\ place \in {"none", "unverified", "push"}
    /\ kept \in [Ends -> Locks \cup {"none"}]
    /\ promotions \in Nat
    /\ crossed \in [Ends -> BOOLEAN]
    /\ discoveries \in [Ends -> Nat] /\ announces \in [Ends -> Nat]

\* Whatever part of a message the two reads of run return, the message is
\* handled as it was packed or not at all: no message that is under way can be
\* taken for another one, and none makes a parser raise, which would end the
\* task with its connection still listed (all parsers of packet_parser.py
\* compare the size first).
WholeOrNothing ==
    \A e \in Ends : \A n \in DOMAIN stream[e] : TakenWhole(stream[e][n])

\* Neither end is ever sent a message of a type that its state makes it close
\* the connection for: whatever the order in which flags are set, locks are
\* waited for and messages cross, the reader has reached the state in which
\* __handle_type and the handler accept such a message when it gets to it.
\* The exception is an offer whose discovery was sent while an earlier one was
\* unanswered: the first offer clears the time both have.  (What an offer
\* contains may still end the connection: HandlePeerOffer.)
WelcomeMessages ==
    \A e \in Ends : Reading(e) /\ stream[e] # <<>> =>
        LET type == Head(stream[e]).type
        IN  /\ HandleType(e, type)
            /\ type = "PEER_OFFER" => asked[e] # "none" \/ crossed[e]
            /\ type = "PEER_VERIFICATION" => challenge # "none"

\* The two ends do not disagree about the outcome of the handshake: while
\* both are open and no task is blocked, the receiver trusts the initiator
\* exactly if the initiator knows it, or will know it from a PEER VALIDATION
\* on its way ("gives the initiator the feedback whether he [...] now is a
\* peer of the receiver").
VerdictsAgree ==
    (\A e \in Ends : (open[e] /\ run[e] # "blocked")) =>
        (them[Receiver] <=> us[Initiator]
                            \/ OnItsWay(Initiator, "PEER_VALIDATION"))

\* validate_peer lists a connection in push_peers once, although it does not
\* look whether it is there, and although nothing in the receiver's handlers
\* forbids a second PEER VERIFICATION: there is only ever one challenge.
PromotedOnce == promotions <= 1

\* Every member of push_peers has said on which port it listens, although
\* nothing in the receiver asks for it: get_peer_p2p_listening_address has an
\* address to offer to others, and to leave out of what is offered to it.
PeersHaveAddresses == place = "push" => port[Receiver]

\* The handshake comes to its end: both ends validate each other, or one of
\* them closes the connection, unless a reader waits for bytes that will not
\* come, or one of the nodes keeps a lock for good: its verifier has found the
\* challenge expired, or an eviction has blocked.
HandshakeEnds ==
    <>(\/ \A e \in Ends : FullyValidated(e)
       \/ \E e \in Ends : ~open[e] \/ waits[e] \/ kept[e] # "none")

\* When one end is gone the other one notices, whatever it was doing and
\* whatever it has yet to read, and closes, unless its node keeps a lock for
\* good or its task was ended by an exception, which nobody notices.
BothEndsClose ==
    \A e \in Ends :
        ~open[e] ~> \/ ~open[Other(e)]
                    \/ kept[Other(e)] # "none"
                    \/ run[Other(e)] = "dead"
=============================================================================
