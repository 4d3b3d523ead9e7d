------------------------------ MODULE Packets ------------------------------
(***************************************************************************)
(* The messages of modules/packet_parser.py as the program sees them: a    *)
(* packet has the type and the size its header states, and a length, the   *)
(* number of bytes that were read.  A parser returns what the message      *)
(* says ("ok"), returns None ("none"), or lets an exception out of         *)
(* struct.unpack ("raises").  What the fields say is of no importance to   *)
(* any of them, so it is not here.                                         *)
(***************************************************************************)
EXTENDS Integers

ApiTypes == {"GOSSIP_ANNOUNCE", "GOSSIP_NOTIFY", "GOSSIP_NOTIFICATION",
             "GOSSIP_VALIDATION"}
Handshake == {"PEER_INFO", "PEER_CHALLENGE", "PEER_VERIFICATION",
              "PEER_VALIDATION"}
PeerTypes == {"PEER_ANNOUNCE", "PEER_DISCOVERY", "PEER_OFFER"} \cup Handshake
Types == ApiTypes \cup PeerTypes

\* The bytes of the struct format of a type, and the types that go on with
\* data of any length.
FormatSize(type) ==
    CASE type \in {"PEER_DISCOVERY", "PEER_OFFER"} -> 4
      [] type \in ApiTypes \cup {"PEER_INFO", "PEER_VALIDATION"} -> 8
      [] type \in {"PEER_CHALLENGE", "PEER_VERIFICATION"} -> 12
      [] type = "PEER_ANNOUNCE" -> 16
HasData == {"GOSSIP_ANNOUNCE", "GOSSIP_NOTIFICATION", "PEER_ANNOUNCE",
            "PEER_OFFER"}

\* The size field has 16 bits.
MaxSize == 65535

Packet(type, size, length) == [type |-> type, size |-> size, len |-> length]

\* struct.pack raises when the size does not fit its field.
Fits(type, data) == FormatSize(type) + data <= MaxSize
\* A fault: the size does not count the header.
PackDataOnly(type, data) == Packet(type, data, FormatSize(type) + data)

Pack(type, data) ==
    Packet(type, FormatSize(type) + data, FormatSize(type) + data)

\* A fault: the size of the packet is of no importance.
AnySize(p) == TRUE

CheckSize(p) == p.len = p.size

\* get_header_type: the type begins after the size and ends at byte 4.
HeaderType(p) == IF p.len < 4 THEN "unknown" ELSE p.type

Returns(condition) == IF condition THEN "ok" ELSE "none"

\* unpack of the bytes of the format at the beginning of the packet; it is
\* an error, which is caught, when there are not as many.
ParseGossipAnnounce(p) == Returns(CheckSize(p) /\ p.len >= 8)
ParseGossipNotify(p) == Returns(CheckSize(p) /\ p.size = 8)
ParseGossipNotification(p) == Returns(CheckSize(p) /\ p.len >= 8)
ParseGossipValidation(p) == Returns(CheckSize(p) /\ p.len >= 8)
ParsePeerAnnounce(p) == Returns(CheckSize(p) /\ p.len >= 16)

CheckPeerDiscovery(p) == Returns(CheckSize(p) /\ p.len = 4)

\* The addresses are all that follows the header.
ParsePeerOffer(p) == Returns(CheckSize(p))

\* unpack of the whole packet: the error is caught ...
ParsePeerInfo(p) == Returns(CheckSize(p) /\ p.len = 8)

\* ... or is not.
UnpackAll(p, length) ==
    IF ~CheckSize(p) THEN "none" ELSE IF p.len = length THEN "ok" ELSE "raises"
ParsePeerChallenge(p) == UnpackAll(p, 12)
ParsePeerVerification(p) == UnpackAll(p, 12)
ParsePeerValidation(p) == UnpackAll(p, 8)

Parse(p) ==
    CASE p.type = "GOSSIP_ANNOUNCE" -> ParseGossipAnnounce(p)
      [] p.type = "GOSSIP_NOTIFY" -> ParseGossipNotify(p)
      [] p.type = "GOSSIP_NOTIFICATION" -> ParseGossipNotification(p)
      [] p.type = "GOSSIP_VALIDATION" -> ParseGossipValidation(p)
      [] p.type = "PEER_ANNOUNCE" -> ParsePeerAnnounce(p)
      [] p.type = "PEER_DISCOVERY" -> CheckPeerDiscovery(p)
      [] p.type = "PEER_OFFER" -> ParsePeerOffer(p)
      [] p.type = "PEER_INFO" -> ParsePeerInfo(p)
      [] p.type = "PEER_CHALLENGE" -> ParsePeerChallenge(p)
      [] p.type = "PEER_VERIFICATION" -> ParsePeerVerification(p)
      [] p.type = "PEER_VALIDATION" -> ParsePeerValidation(p)

-----------------------------------------------------------------------------
(* Framing.  run reads two bytes, takes them for the size and reads what    *)
(* the size leaves; a read returns what has arrived, at least one byte.     *)

\* A message of which n bytes had arrived when it was read.
Cut(p, n) == [p EXCEPT !.len = n]

\* read(n) with a negative n reads until the end of the stream.
ReadsToEnd(sizeRead) == sizeRead < 2

-----------------------------------------------------------------------------
(* What the framing relies on.                                              *)

\* A message is taken as it was packed or not at all: it parses, and of a part
\* of it, however large, no parser returns anything, and none raises.
TakenWhole(p) ==
    /\ Parse(p) = "ok"
    /\ \A n \in 4 .. p.len - 1 : Parse(Cut(p, n)) = "none"
=============================================================================
