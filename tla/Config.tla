------------------------------- MODULE Config -------------------------------
(***************************************************************************)
(* The configuration file (modules/config.py): which files are accepted,   *)
(* and what an accepted one gives the rest of the program.                 *)
(*                                                                         *)
(* A file says for each key a number or a text.  An address is a text that *)
(* is_valid_address accepts; resolve_address turns a name into an address  *)
(* and leaves everything else as it is.  A key without a value is Missing  *)
(* if it is optional and no number if it is required.                      *)
(***************************************************************************)
EXTENDS Integers, Sequences, FiniteSets

CONSTANTS
    Addresses,     \* the texts is_valid_address accepts
    Names,         \* other texts that are given for an address
    Resolve,       \* resolve_address
    Missing,       \* the value of a key that is not in the file
    NotANumber     \* a value int() does not accept

Texts == Addresses \cup Names

ASSUME ResolveAssumption ==
    /\ Addresses \cap Names = {} /\ Resolve \in [Texts -> Texts]
    /\ \A address \in Addresses : Resolve[address] = address
ASSUME MarkersAssumption ==
    /\ Missing \notin Int /\ NotANumber \notin Int /\ Missing \notin Texts
    /\ Missing # NotANumber

NumberKeys == {"cache_size", "degree", "min_connections", "max_connections",
               "search_cooldown", "challenge_cooldown"}
AddressKeys == {"bootstrapper", "p2p_address", "api_address"}
Default == [search_cooldown |-> 60, challenge_cooldown |-> 300]
Required == (NumberKeys \cup AddressKeys) \ DOMAIN Default

\* A file may not exist, or have no section for gossip.
Files ==
    [found : BOOLEAN,
     number : [NumberKeys -> Int \cup {Missing, NotANumber}],
     address : [AddressKeys -> Texts \cup {Missing}],
     known_peers : Seq(Texts)]

-----------------------------------------------------------------------------
(* Reading.                                                                 *)

Number(file, key) ==
    IF file.number[key] = Missing /\ key \notin Required
    THEN Default[key] ELSE file.number[key]

Parses(file) ==
    /\ file.found
    /\ \A key \in NumberKeys : Number(file, key) \in Int
    /\ \A key \in AddressKeys : file.address[key] # Missing

\* The values after resolve_address, of a file that parses.
Parsed(file) ==
    [number |-> [key \in NumberKeys |-> Number(file, key)],
     address |-> [key \in {k \in AddressKeys : file.address[k] # Missing} |->
                     Resolve[file.address[key]]],
     known_peers |-> [n \in DOMAIN file.known_peers |->
                         Resolve[file.known_peers[n]]]]

-----------------------------------------------------------------------------
(* The checks, of the parsed values.                                        *)

CheckCacheSize(config) == config.number["cache_size"] > 0
CheckMinConnections(config) == config.number["min_connections"] >= 0

\* A fault: the lists of a node with one connection have no place.
CheckMaxPositive(config) ==
    /\ config.number["max_connections"] > 0
    /\ config.number["max_connections"] >= config.number["min_connections"]

CheckMaxConnections(config) ==
    /\ config.number["max_connections"] >= 2
    /\ config.number["max_connections"] >= config.number["min_connections"]

CheckDegree(config) ==
    /\ config.number["degree"] <= config.number["max_connections"]
    /\ config.number["degree"] <= config.number["min_connections"]
    /\ config.number["degree"] > 0

CheckSearchCooldown(config) == config.number["search_cooldown"] > 0

\* It is the other cooldown that is looked at.
CheckChallengeCooldown(config) == config.number["search_cooldown"] > 0

CheckAddress(config, key) == config.address[key] \in Addresses

CheckKnownPeers(config) ==
    LET peers == config.known_peers
    IN  /\ \A m, n \in DOMAIN peers : peers[m] = peers[n] => m = n
        /\ \A n \in DOMAIN peers : peers[n] \in Addresses

CheckConfig(config) ==
    /\ CheckCacheSize(config) /\ CheckDegree(config)
    /\ CheckMinConnections(config) /\ CheckMaxConnections(config)
    /\ CheckSearchCooldown(config) /\ CheckChallengeCooldown(config)
    /\ \A key \in AddressKeys : CheckAddress(config, key)
    /\ CheckKnownPeers(config)

\* Config(path) raises nothing.
Accepts(file) == Parses(file) /\ CheckConfig(Parsed(file))

-----------------------------------------------------------------------------
(* What Gossip makes of max_connections: floor(n / 2) and ceil(n / 2).      *)

MaxPush(config) == config.number["max_connections"] \div 2
MaxPull(config) == (config.number["max_connections"] + 1) \div 2

-----------------------------------------------------------------------------
(* What is expected of the checks.                                          *)

\* What the other modules assume of the values (ConfigAssumption of PeerPool,
\* the capacities and the degree of AnnounceRouting): every list has room for
\* one peer at least, both together for max_connections, and the peers a node
\* tries to keep are enough for its degree and not more than it may have.
Workable(config) ==
    /\ config.number["cache_size"] \in Nat \ {0}
    /\ MaxPush(config) \in Nat \ {0}
    /\ MaxPull(config) \in {MaxPush(config), MaxPush(config) + 1}
    /\ MaxPush(config) + MaxPull(config) = config.number["max_connections"]
    /\ config.number["degree"] \in 1 .. config.number["min_connections"]
    /\ config.number["min_connections"] <= config.number["max_connections"]
    /\ config.number["search_cooldown"] > 0
    /\ \A n \in DOMAIN config.known_peers : config.known_peers[n] \in Addresses

\* The constraints of the documentation (Config Class), of the values as
\* they are written in the file, in its words and its order.
Documented(file) ==
    LET of(key) == Number(file, key)
        valid(text) == text \in Texts /\ Resolve[text] \in Addresses
    IN  /\ file.found
        /\ \A key \in NumberKeys : of(key) \in Int
        /\ of("cache_size") > 0
        /\ of("degree") <= of("min_connections") /\ of("degree") > 0
        /\ of("min_connections") > 0
        /\ of("max_connections") >= 2
        /\ of("max_connections") >= of("min_connections")
        /\ of("search_cooldown") > 0
        /\ of("challenge_cooldown") > 0
        /\ \A key \in AddressKeys : valid(file.address[key])
        /\ \A n \in DOMAIN file.known_peers : valid(file.known_peers[n])

\* The same file with the default challenge_cooldown.
ButForChallenges(file) ==
    [file EXCEPT !.number["challenge_cooldown"] = Missing]

\* Two known peers that are the same, by name or by address.
KnownTwice(file) ==
    \E m, n \in DOMAIN file.known_peers :
        m # n /\ Resolve[file.known_peers[m]] = Resolve[file.known_peers[n]]
=============================================================================
