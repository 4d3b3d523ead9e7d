----------------------------- MODULE RelayGate -----------------------------
(***************************************************************************)
(* What a node promises about the announcements it sends on, without its   *)
(* tasks, locks and dictionaries.  Every acceptance of an id is worth one  *)
(* relay at most, and an announcement of a peer is relayed only when those *)
(* it was put before have all accepted its id since, and nobody refused.   *)
(*                                                                         *)
(* AnnounceRouting implements it: there an announcement that is not        *)
(* decided is a local variable of a task, or an entry of a dictionary that *)
(* several tasks change, and consent is a list that has become empty.      *)
(***************************************************************************)
EXTENDS Integers

CONSTANTS Ids, Apis

VARIABLES
    known,     \* ids the node remembers
    mine,      \* own announcements accepted and neither sent nor dropped
    open,      \* announcements of peers accepted and neither sent nor dropped
    ballot,    \* how often each user has to accept the one it was shown last
    agreed,    \* how often each has accepted since
    refused,   \* whether somebody has refused since
    relays     \* how often the id was sent on

gateVars == <<known, mine, open, ballot, agreed, refused, relays>>

Unanimous(id) ==
    ~refused[id] /\ \A a \in Apis : ballot[id][a] <= agreed[id][a]

Init ==
    /\ known = {}
    /\ mine = [id \in Ids |-> 0]
    /\ open = [id \in Ids |-> 0]
    /\ ballot = [id \in Ids |-> [a \in Apis |-> 0]]
    /\ agreed = [id \in Ids |-> [a \in Apis |-> 0]]
    /\ refused = [id \in Ids |-> FALSE]
    /\ relays = [id \in Ids |-> 0]

\* An id that is not known is, and at most one is forgotten for it.
Learn(id) ==
    /\ id \notin known
    /\ id \in known' /\ known' \subseteq known \cup {id}
    /\ \A e, f \in known \ known' : e = f

AcceptOwn(id) ==
    /\ Learn(id)
    /\ mine' = [mine EXCEPT ![id] = @ + 1]
    /\ UNCHANGED <<open, ballot, agreed, refused, relays>>

AcceptPeer(id) ==
    /\ Learn(id)
    /\ open' = [open EXCEPT ![id] = @ + 1]
    /\ UNCHANGED <<mine, ballot, agreed, refused, relays>>

\* One announcement less that may be sent on.
OneLess(id) == open[id] > 0 /\ open' = [open EXCEPT ![id] = @ - 1]

Drop(id) ==
    /\ UNCHANGED <<known, ballot, agreed, refused, relays, mine>>
    /\ OneLess(id)

\* Users are asked, about an announcement that is open and may replace an
\* earlier one of the same id.
Ask(id) ==
    /\ agreed' = [agreed EXCEPT ![id] = [a \in Apis |-> 0]]
    /\ refused' = [refused EXCEPT ![id] = FALSE]
    /\ ballot'[id] \in [Apis -> Nat]
    /\ ballot' = [ballot EXCEPT ![id] = ballot'[id]]
    /\ UNCHANGED <<known, relays, mine>>
    /\ OneLess(id) \/ UNCHANGED open
    /\ open'[id] > 0

Agree(id, a) ==
    /\ agreed' = [agreed EXCEPT ![id][a] = @ + 1]
    /\ UNCHANGED <<known, ballot, refused, relays, mine, open>>

\* A refusal drops the announcement, if it is not too late.
Refuse(id) ==
    /\ refused' = [refused EXCEPT ![id] = TRUE]
    /\ UNCHANGED <<known, ballot, agreed, relays, mine>>
    /\ OneLess(id) \/ UNCHANGED open

RelayOwn(id) ==
    /\ relays' = [relays EXCEPT ![id] = @ + 1]
    /\ UNCHANGED <<known, ballot, agreed, refused, open>>
    /\ mine[id] > 0
    /\ mine' = [mine EXCEPT ![id] = @ - 1]

RelayPeer(id) ==
    /\ relays' = [relays EXCEPT ![id] = @ + 1]
    /\ UNCHANGED <<known, ballot, agreed, refused, mine>>
    /\ Unanimous(id)
    /\ OneLess(id)

Next ==
    \E id \in Ids :
        \/ AcceptOwn(id) \/ AcceptPeer(id) \/ Drop(id) \/ Ask(id)
        \/ \E a \in Apis : Agree(id, a)
        \/ Refuse(id) \/ RelayOwn(id) \/ RelayPeer(id)

Spec == Init /\ [][Next]_gateVars
=============================================================================
