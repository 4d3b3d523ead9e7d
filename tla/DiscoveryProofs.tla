-------------------------- MODULE DiscoveryProofs --------------------------
(***************************************************************************)
(* What holds of Config for every file, and of Discovery for every set of  *)
(* files, addresses and offering connections.                              *)
(***************************************************************************)
EXTENDS Discovery, SumProofs

USE DEF Tasks

-----------------------------------------------------------------------------
(* The configuration.                                                       *)

\* The numbers of a file, by their keys.
LEMMA NumbersParsed ==
    ASSUME NEW f
    PROVE  \A key \in NumberKeys : Parsed(f).number[key] = Number(f, key)
  BY DEF Parsed

\* The known peers of a file are resolved one by one.
LEMMA PeersParsed ==
    ASSUME NEW f
    PROVE  /\ DOMAIN Parsed(f).known_peers = DOMAIN f.known_peers
           /\ \A n \in DOMAIN f.known_peers :
                 Parsed(f).known_peers[n] = Resolve[f.known_peers[n]]
  BY DEF Parsed

LEMMA AddressesParsed ==
    ASSUME NEW f, Parses(f)
    PROVE  \A key \in AddressKeys :
              Parsed(f).address[key] = Resolve[f.address[key]]
  BY DEF Parsed, Parses

\* A file that is accepted gives the rest of the program values it can work
\* with: lists with room, a degree that min_connections can satisfy, cooldowns
\* that end (__check_config).
THEOREM AcceptedIsWorkable ==
    ASSUME NEW f \in Files, Accepts(f)
    PROVE  Workable(Parsed(f))
  <1> DEFINE c == Parsed(f)
  <1>1. \A key \in NumberKeys : c.number[key] \in Int
    BY NumbersParsed DEF Accepts, Parses
  <1>2. CheckConfig(c)
    BY DEF Accepts
  <1> HIDE DEF c
  <1>3. \A key \in {"cache_size", "degree", "min_connections",
                    "max_connections", "search_cooldown"} :
            c.number[key] \in Int
    BY <1>1 DEF NumberKeys
  <1>4. /\ c.number["max_connections"] >= 2
        /\ c.number["max_connections"] >= c.number["min_connections"]
        /\ c.number["degree"] <= c.number["min_connections"]
        /\ c.number["degree"] > 0
        /\ c.number["cache_size"] > 0
        /\ c.number["search_cooldown"] > 0
    BY <1>2 DEF CheckConfig, CheckMaxConnections, CheckDegree,
                CheckCacheSize, CheckSearchCooldown
  <1>5. /\ MaxPush(c) \in Nat \ {0}
        /\ MaxPull(c) \in {MaxPush(c), MaxPush(c) + 1}
        /\ MaxPush(c) + MaxPull(c) = c.number["max_connections"]
    <2>1. \A n \in Int : n >= 2 =>
             /\ n \div 2 \in Nat \ {0}
             /\ (n + 1) \div 2 \in {n \div 2, n \div 2 + 1}
             /\ n \div 2 + (n + 1) \div 2 = n
      OBVIOUS
    <2>2. QED
      BY <1>3, <1>4, <2>1 DEF MaxPush, MaxPull
  <1>6. \A n \in DOMAIN c.known_peers : c.known_peers[n] \in Addresses
    BY <1>2 DEF CheckConfig, CheckKnownPeers
  <1>7. /\ c.number["cache_size"] \in Nat \ {0}
        /\ c.number["degree"] \in 1 .. c.number["min_connections"]
        /\ c.number["min_connections"] <= c.number["max_connections"]
    BY <1>3, <1>4
  <1>8. QED
    BY <1>4, <1>5, <1>6, <1>7 DEF Workable, c

\* The constraints of the documentation, but for that on challenge_cooldown.
DocumentedOthers(f) ==
    LET valid(text) == text \in Texts /\ Resolve[text] \in Addresses
    IN  /\ f.found
        /\ \A key \in NumberKeys : Number(f, key) \in Int
        /\ Number(f, "cache_size") > 0
        /\ Number(f, "degree") <= Number(f, "min_connections")
        /\ Number(f, "degree") > 0
        /\ Number(f, "min_connections") > 0
        /\ Number(f, "max_connections") >= 2
        /\ Number(f, "max_connections") >= Number(f, "min_connections")
        /\ Number(f, "search_cooldown") > 0
        /\ \A key \in AddressKeys : valid(f.address[key])
        /\ \A n \in DOMAIN f.known_peers : valid(f.known_peers[n])

\* What the checks accept is exactly that, without a peer that is named twice.
LEMMA AcceptedFiles ==
    ASSUME NEW f \in Files
    PROVE  Accepts(f) <=> DocumentedOthers(f) /\ ~KnownTwice(f)
  <1> DEFINE c == Parsed(f)
  <1>1. ASSUME Parses(f)
        PROVE  CheckConfig(c) <=> DocumentedOthers(f) /\ ~KnownTwice(f)
    <2>1. \A key \in NumberKeys :
             c.number[key] = Number(f, key) /\ Number(f, key) \in Int
      BY <1>1, NumbersParsed DEF Parses
    <2>2. \A key \in AddressKeys :
             CheckAddress(c, key)
                <=> f.address[key] \in Texts /\ Resolve[f.address[key]]
                                                   \in Addresses
      BY <1>1, AddressesParsed DEF CheckAddress, Parses, Files
    <2>3. CheckKnownPeers(c)
             <=> /\ ~KnownTwice(f)
                 /\ \A n \in DOMAIN f.known_peers :
                       f.known_peers[n] \in Texts
                          /\ Resolve[f.known_peers[n]] \in Addresses
      <3>1. \A n \in DOMAIN f.known_peers : f.known_peers[n] \in Texts
        BY DEF Files
      <3>2. QED
        BY <3>1, PeersParsed DEF CheckKnownPeers, KnownTwice
    <2>4. /\ CheckCacheSize(c) /\ CheckDegree(c)
          /\ CheckMinConnections(c) /\ CheckMaxConnections(c)
          /\ CheckSearchCooldown(c) /\ CheckChallengeCooldown(c)
          <=> /\ Number(f, "cache_size") > 0
              /\ Number(f, "degree") <= Number(f, "min_connections")
              /\ Number(f, "degree") > 0
              /\ Number(f, "min_connections") > 0
              /\ Number(f, "max_connections") >= 2
              /\ Number(f, "max_connections") >= Number(f, "min_connections")
              /\ Number(f, "search_cooldown") > 0
      BY <2>1 DEF NumberKeys, CheckCacheSize, CheckDegree,
                  CheckMinConnections, CheckMaxConnections,
                  CheckSearchCooldown, CheckChallengeCooldown
    <2>5. f.found /\ \A key \in NumberKeys : Number(f, key) \in Int
      BY <1>1 DEF Parses
    <2> HIDE DEF c
    <2>6. QED
      BY <2>2, <2>3, <2>4, <2>5 DEF CheckConfig, DocumentedOthers
  <1>2. ASSUME DocumentedOthers(f) PROVE Parses(f)
    BY <1>2, MarkersAssumption DEF DocumentedOthers, Parses
  <1>3. QED
    BY <1>1, <1>2 DEF Accepts

\* The checks accept every file the documentation allows, unless it knows a
\* peer twice; and a file they accept knows none twice and is one that the
\* documentation allows, when the default challenge_cooldown stands in it.
THEOREM AcceptsTheDocumented ==
    ASSUME NEW f \in Files
    PROVE  /\ Documented(f) /\ ~KnownTwice(f) => Accepts(f)
           /\ Accepts(f) => Documented(ButForChallenges(f)) /\ ~KnownTwice(f)
  <1>1. Documented(f) => DocumentedOthers(f)
    BY DEF Documented, DocumentedOthers
  <1>2. ASSUME DocumentedOthers(f) PROVE Documented(ButForChallenges(f))
    <2> DEFINE g == ButForChallenges(f)
    <2>1. /\ g.found = f.found /\ g.address = f.address
          /\ g.known_peers = f.known_peers
      BY DEF ButForChallenges, Files
    <2>2. \A key \in NumberKeys \ {"challenge_cooldown"} :
             Number(g, key) = Number(f, key)
      BY DEF ButForChallenges, Files, Number
    <2>3. Number(g, "challenge_cooldown") = Default.challenge_cooldown
      BY DEF ButForChallenges, Files, Number, NumberKeys, Required, Default
    <2>4. Default.challenge_cooldown \in Int
             /\ Default.challenge_cooldown > 0
      BY DEF Default
    <2> HIDE DEF g
    <2>5. QED
      BY <1>2, <2>1, <2>2, <2>3, <2>4
      DEF Documented, DocumentedOthers, NumberKeys, g
  <1>3. QED
    BY <1>1, <1>2, AcceptedFiles

-----------------------------------------------------------------------------
(***************************************************************************)
(* Lists of addresses.  Their sizes are sums, of which something can be    *)
(* said only if finitely many addresses are listed; so this belongs to     *)
(* their types.                                                            *)
(***************************************************************************)
FiniteLists == {list \in Lists : IsFiniteSet(Members(list))}

\* The size of a list is the sum over any addresses that include its members.
LEMMA SizeOver ==
    ASSUME NEW list \in FiniteLists, NEW S \in SUBSET Addresses,
           IsFiniteSet(S), Members(list) \subseteq S
    PROVE  Size(list) = SumFunctionOnSet(list, S)
  <1> DEFINE Z == S \ Members(list)
  <1>1. \A a \in S : list[a] \in Nat
    BY DEF FiniteLists, Lists
  <1>2. \A a \in Z : list[a] = 0
    BY <1>1 DEF Members, In
  <1>3. S \ Z = Members(list) /\ Z \in SUBSET S
    OBVIOUS
  <1> HIDE DEF Z
  <1>4. SumFunctionOnSet(list, S) = SumFunctionOnSet(list, S \ Z)
    BY <1>1, <1>2, <1>3, SumWithoutZeros
  <1>5. QED
    BY <1>3, <1>4 DEF Size

LEMMA SizeType == ASSUME NEW list \in FiniteLists PROVE Size(list) \in Nat
  <1>1. /\ IsFiniteSet(Members(list))
        /\ \A a \in Members(list) : list[a] \in Nat
    BY DEF FiniteLists, Lists, Members
  <1>2. QED
    BY <1>1, SumType DEF Size

\* A list without members is Empty, and its size is 0.
LEMMA EmptyIsList ==
    /\ Empty \in FiniteLists /\ Size(Empty) = 0
    /\ \A a \in Addresses : ~In(a, Empty)
    /\ \A list \in Lists : Members(list) = {} => list = Empty
  <1>1. Empty \in Lists /\ \A a \in Addresses : ~In(a, Empty)
    BY DEF Empty, Lists, In
  <1>2. Members(Empty) = {}
    BY <1>1 DEF Members
  <1>3. Size(Empty) = 0
    BY <1>2, SumOfNone DEF Size
  <1>4. ASSUME NEW list \in Lists, Members(list) = {} PROVE list = Empty
    BY <1>4 DEF Members, In, Lists, Empty
  <1>5. QED
    BY <1>1, <1>2, <1>3, <1>4, FS_EmptySet DEF FiniteLists

LEMMA SizeOfNone ==
    ASSUME NEW list \in FiniteLists, Size(list) = 0
    PROVE  list = Empty
  <1>1. /\ list \in Lists /\ IsFiniteSet(Members(list))
        /\ \A a \in Members(list) : list[a] \in Nat /\ list[a] > 0
    BY DEF FiniteLists, Lists, Members, In
  <1>2. ASSUME NEW a \in Members(list) PROVE FALSE
    <2>1. list[a] <= Size(list)
      BY <1>1, SumBounds DEF Size
    <2>2. QED
      BY <1>1, <2>1
  <1>3. QED
    BY <1>1, <1>2, EmptyIsList

\* Some addresses, each listed once.
LEMMA ListingIsList ==
    ASSUME NEW some \in SUBSET Addresses, IsFiniteSet(some)
    PROVE  Listing(some) \in FiniteLists /\ Size(Listing(some)) = Cardinality(some)
  <1>1. /\ Listing(some) \in Lists /\ Members(Listing(some)) = some
        /\ \A a \in some : Listing(some)[a] = 1
    BY DEF Listing, Lists, Members, In
  <1>2. QED
    BY <1>1, SumOfOnes DEF FiniteLists, Size

LEMMA PlusIsList ==
    ASSUME NEW list \in FiniteLists, NEW other \in FiniteLists
    PROVE  /\ Plus(list, other) \in FiniteLists
           /\ Size(Plus(list, other)) = Size(list) + Size(other)
  <1> DEFINE sum == Plus(list, other)
             S == Members(list) \cup Members(other)
  <1>1. /\ list \in Lists /\ other \in Lists /\ sum \in Lists
        /\ Members(sum) = S /\ S \in SUBSET Addresses
        /\ \A a \in Addresses :
              /\ list[a] \in Nat /\ other[a] \in Nat
              /\ sum[a] = list[a] + other[a]
    BY DEF FiniteLists, Lists, Members, In, Plus
  <1>2. IsFiniteSet(S)
    BY FS_Union DEF FiniteLists
  <1> HIDE DEF sum
  <1>3. sum \in FiniteLists
    BY <1>1, <1>2 DEF FiniteLists
  <1>4. Members(list) \subseteq S /\ Members(other) \subseteq S
    OBVIOUS
  <1> HIDE DEF S
  <1>5. /\ Size(list) = SumFunctionOnSet(list, S)
        /\ Size(other) = SumFunctionOnSet(other, S)
        /\ Size(sum) = SumFunctionOnSet(sum, S)
    BY <1>1, <1>2, <1>3, <1>4, SizeOver
  <1>6. SumFunctionOnSet(sum, S)
           = SumFunctionOnSet(list, S) + SumFunctionOnSet(other, S)
    BY <1>1, <1>2, SumPlus
  <1>7. QED
    BY <1>3, <1>5, <1>6 DEF sum

\* One address, listed once more or once less.
LEMMA OneMore ==
    ASSUME NEW list \in FiniteLists, NEW a \in Addresses
    PROVE  /\ [list EXCEPT ![a] = @ + 1] \in FiniteLists
           /\ Size([list EXCEPT ![a] = @ + 1]) = Size(list) + 1
  <1> DEFINE more == [list EXCEPT ![a] = @ + 1]
             S == Members(list) \cup {a}
  <1>1. /\ more \in Lists /\ Members(more) \subseteq S
        /\ S \in SUBSET Addresses /\ a \in S
        /\ \A b \in S : list[b] \in Nat /\ more[b] \in Nat
        /\ \A b \in S \ {a} : more[b] = list[b]
        /\ more[a] = list[a] + 1
    BY DEF FiniteLists, Lists, Members, In
  <1>2. IsFiniteSet(S) /\ Members(list) \subseteq S
    BY FS_AddElement DEF FiniteLists
  <1> HIDE DEF more, S
  <1>3. more \in FiniteLists
    BY <1>1, <1>2, FS_Subset DEF FiniteLists
  <1>4. /\ Size(list) = SumFunctionOnSet(list, S)
        /\ Size(more) = SumFunctionOnSet(more, S)
    BY <1>1, <1>2, <1>3, SizeOver
  <1>5. SumFunctionOnSet(more, S)
           = SumFunctionOnSet(list, S) - list[a] + more[a]
    BY <1>1, <1>2, SumOfChange
  <1>6. SumFunctionOnSet(list, S) \in Nat
    BY <1>1, <1>2, SumType
  <1>7. QED
    BY <1>1, <1>3, <1>4, <1>5, <1>6 DEF more

LEMMA OneLess ==
    ASSUME NEW list \in FiniteLists, NEW a \in Addresses, In(a, list)
    PROVE  /\ [list EXCEPT ![a] = @ - 1] \in FiniteLists
           /\ Size([list EXCEPT ![a] = @ - 1]) = Size(list) - 1
  <1> DEFINE less == [list EXCEPT ![a] = @ - 1]
             S == Members(list)
  <1>1. /\ less \in Lists /\ Members(less) \subseteq S
        /\ S \in SUBSET Addresses /\ a \in S
        /\ \A b \in S : list[b] \in Nat /\ less[b] \in Nat
        /\ \A b \in S \ {a} : less[b] = list[b]
        /\ less[a] = list[a] - 1
    BY DEF FiniteLists, Lists, Members, In
  <1>2. IsFiniteSet(S) /\ Members(list) \subseteq S
    BY DEF FiniteLists
  <1> HIDE DEF less, S
  <1>3. less \in FiniteLists
    BY <1>1, <1>2, FS_Subset DEF FiniteLists
  <1>4. /\ Size(list) = SumFunctionOnSet(list, S)
        /\ Size(less) = SumFunctionOnSet(less, S)
    BY <1>1, <1>2, <1>3, SizeOver
  <1>5. SumFunctionOnSet(less, S)
           = SumFunctionOnSet(list, S) - list[a] + less[a]
    BY <1>1, <1>2, SumOfChange
  <1>6. SumFunctionOnSet(list, S) \in Nat
    BY <1>1, <1>2, SumType
  <1>7. QED
    BY <1>1, <1>3, <1>4, <1>5, <1>6 DEF less

\* A list of n addresses out of finitely many has the size n.
LEMMA SizeOfListed ==
    ASSUME NEW some \in SUBSET Addresses, IsFiniteSet(some), NEW n \in Nat,
           NEW list \in ListsOf(some, n)
    PROVE  /\ list \in FiniteLists /\ Size(list) = n
           /\ Members(list) \subseteq some
  <1>1. PICK g \in [some -> 0 .. n] :
           /\ list = [a \in Addresses |-> IF a \in some THEN g[a] ELSE 0]
           /\ SumFunction(g) = n
    BY DEF ListsOf
  <1>2. /\ list \in Lists /\ Members(list) \subseteq some
        /\ \A a \in some : g[a] \in Nat /\ list[a] = g[a]
    BY <1>1 DEF Lists, Members, In
  <1>3. list \in FiniteLists
    BY <1>2, FS_Subset DEF FiniteLists
  <1>4. Size(list) = SumFunctionOnSet(list, some)
    BY <1>2, <1>3, SizeOver
  <1>5. SumFunctionOnSet(list, some) = SumFunctionOnSet(g, some)
    BY <1>2, SumAgrees
  <1>6. SumFunctionOnSet(g, some) = n
    BY <1>1 DEF SumFunction
  <1>7. QED
    BY <1>2, <1>3, <1>4, <1>5, <1>6

\* What is drawn from a list is a list, and what is left, too; an address that
\* is not in it is in neither, and one that is left out is still there.
LEMMA DrawnFromList ==
    ASSUME NEW list \in FiniteLists, NEW n \in Nat, NEW batch \in Drawn(list, n)
    PROVE  /\ batch \in FiniteLists /\ Size(batch) = n
           /\ Minus(list, batch) \in FiniteLists
           /\ \A a \in Addresses : ~In(a, list) =>
                 ~In(a, batch) /\ ~In(a, Minus(list, batch))
           /\ \A a \in Addresses : In(a, list) =>
                 In(a, batch) \/ In(a, Minus(list, batch))
  <1>1. /\ Members(list) \in SUBSET Addresses /\ IsFiniteSet(Members(list))
        /\ batch \in ListsOf(Members(list), n)
        /\ \A a \in Addresses : batch[a] <= list[a]
    BY DEF FiniteLists, Members, Drawn
  <1>2. batch \in FiniteLists /\ Size(batch) = n
    BY <1>1, SizeOfListed
  <1>3. list \in Lists /\ batch \in Lists
    BY <1>2 DEF FiniteLists
  <1>4. Minus(list, batch) \in Lists
    BY <1>1, <1>3 DEF Minus, Lists
  <1>5. Members(Minus(list, batch)) \in SUBSET Members(list)
    BY <1>1, <1>3 DEF Members, In, Minus, Lists
  <1>6. Minus(list, batch) \in FiniteLists
    BY <1>1, <1>4, <1>5, FS_Subset DEF FiniteLists
  <1>7. QED
    BY <1>1, <1>2, <1>3, <1>6 DEF In, Lists, Minus

LEMMA OffersAreLists == Offers \subseteq FiniteLists
  <1>1. ASSUME NEW n \in 1 .. MaxOffer, NEW offer \in ListsOf(Others, n)
        PROVE  offer \in FiniteLists
    <2>1. n \in Nat /\ Others \in SUBSET Addresses /\ IsFiniteSet(Others)
      BY DiscoveryBounds, NodesAssumption, FiniteAssumption
    <2>2. QED
      BY <2>1, SizeOfListed
  <1>2. QED
    BY <1>1 DEF Offers

-----------------------------------------------------------------------------
(***************************************************************************)
(* Types.  What main goes on with are addresses, and numbers, because it   *)
(* only goes on if the file is accepted.                                   *)
(***************************************************************************)
Accepted ==
    pc[Main] \notin {"config", "returned", "aborted"} => Accepts(file)

TypeInv ==
    /\ file \in Files
    /\ pc \in [Tasks -> MainStates \cup OffererStates]
    /\ pc[Main] \in MainStates
    /\ lock \in Tasks \cup {NoTask}
    /\ pull \in FiniteLists
    /\ unverified \subseteq Addresses /\ moving \subseteq Addresses
    /\ push \subseteq Addresses
    /\ api \in {"none", "starting", "up", "dead"}
    /\ seen \in [Offerers -> SUBSET Addresses]
    /\ candidates \in [Offerers -> FiniteLists]
    /\ trying \in [Tasks -> FiniteLists]
    /\ opened \in [Tasks -> FiniteLists]
    /\ lost \in Nat
    /\ failures \subseteq Addresses
    /\ steady \in [Offerers -> SUBSET (Addresses \X {"us", "them"})]
    /\ unlisted \in [Offerers -> SUBSET (Addresses \X {"us", "them"})]
    /\ unused \in [Offerers -> SUBSET Addresses]
    /\ Accepted

LEMMA TypeInit == Init => TypeInv
  BY EmptyIsList, FilesAssumption, TasksAssumption
  DEF Init, TypeInv, Accepted, MainStates, OffererStates

LEMMA ObserveTypes ==
    ASSUME TypeInv, NEW batch, Observe(batch)
    PROVE  /\ steady' \in [Offerers -> SUBSET (Addresses \X {"us", "them"})]
           /\ unlisted' \in [Offerers -> SUBSET (Addresses \X {"us", "them"})]
           /\ unused' \in [Offerers -> SUBSET Addresses]
  BY DEF TypeInv, Observe

LEMMA AttemptTypes ==
    ASSUME TypeInv, NEW t \in Tasks, NEW a \in Addresses,
           Opens(t, a) \/ Refuses(t, a) \/ Raises(t, a)
    PROVE  TypeInv'
  <1>1. /\ trying[t] \in FiniteLists /\ opened[t] \in FiniteLists
        /\ In(a, trying[t])
    BY DEF TypeInv, Opens, Refuses, Raises, Trying
  <1>2. /\ [trying[t] EXCEPT ![a] = @ - 1] \in FiniteLists
        /\ [opened[t] EXCEPT ![a] = @ + 1] \in FiniteLists
    BY <1>1, OneLess, OneMore
  <1>3. CASE Opens(t, a)
    <2>1. /\ trying' \in [Tasks -> FiniteLists]
          /\ opened' \in [Tasks -> FiniteLists]
      BY <1>2, <1>3 DEF Opens, TypeInv
    <2>2. QED
      BY <1>3, <2>1 DEF Opens, TypeInv, Accepted, offerVars, history
  <1>4. CASE Refuses(t, a)
    <2>1. trying' \in [Tasks -> FiniteLists]
      BY <1>2, <1>4 DEF Refuses, TypeInv
    <2>2. failures' \subseteq Addresses
      BY <1>4 DEF Refuses, TypeInv
    <2>3. QED
      BY <1>4, <2>1, <2>2 DEF Refuses, TypeInv, Accepted, offerVars
  <1>5. CASE Raises(t, a)
    <2>1. /\ steady' \in [Offerers -> SUBSET (Addresses \X {"us", "them"})]
          /\ unlisted' \in [Offerers -> SUBSET (Addresses \X {"us", "them"})]
          /\ unused' \in [Offerers -> SUBSET Addresses]
      BY <1>5, ObserveTypes DEF Raises
    <2>2. candidates' \in [Offerers -> FiniteLists]
      BY <1>5, EmptyIsList DEF Raises, TypeInv
    <2>3. lost' \in Nat
      <3>1. Size(trying[t]) \in Nat /\ Size(opened[t]) \in Nat
        BY <1>1, SizeType
      <3>2. QED
        BY <1>5, <3>1 DEF Raises, TypeInv
    <2>4. /\ pc' \in [Tasks -> MainStates \cup OffererStates]
          /\ pc'[Main] \in MainStates
      BY <1>5, TasksAssumption DEF Raises, TypeInv, MainStates, OffererStates
    <2>5. /\ trying' \in [Tasks -> FiniteLists]
          /\ opened' \in [Tasks -> FiniteLists]
      BY <1>5, EmptyIsList DEF Raises, TypeInv
    <2>6. Accepted'
      BY <1>5, TasksAssumption DEF Raises, TypeInv, Accepted
    <2>7. QED
      BY <1>5, <2>1, <2>2, <2>3, <2>4, <2>5, <2>6 DEF Raises, TypeInv
  <1>6. QED
    BY <1>3, <1>4, <1>5

\* The known peers and the bootstrapping node of an accepted file.
LEMMA ConfiguredPeers ==
    ASSUME NEW f \in Files, Accepts(f)
    PROVE  LET c == Parsed(f)
               known == Range(c.known_peers)
           IN  /\ known \in SUBSET Addresses /\ IsFiniteSet(known)
               /\ Cardinality(known) <= Len(c.known_peers)
               /\ Len(c.known_peers) \in Nat
               /\ c.address["bootstrapper"] \in Addresses
               /\ MaxPull(c) \in Nat \ {0}
  <1> DEFINE c == Parsed(f)
             q == c.known_peers
             known == Range(q)
             n == Len(f.known_peers)
  <1>1. CheckConfig(c) /\ Workable(c)
    BY AcceptedIsWorkable DEF Accepts
  <1>2. f.known_peers \in Seq(Texts)
    BY DEF Files
  <1>3. n \in Nat /\ DOMAIN f.known_peers = 1 .. n
    BY <1>2
  <1>4. q = [i \in 1 .. n |-> Resolve[f.known_peers[i]]]
    BY <1>3 DEF Parsed
  <1> HIDE DEF c
  <1>5. c.address["bootstrapper"] \in Addresses
    BY <1>1 DEF CheckConfig, CheckAddress, AddressKeys
  <1>6. MaxPull(c) \in Nat \ {0}
    BY <1>1 DEF Workable
  <1>7. \A i \in DOMAIN q : q[i] \in Addresses
    BY <1>1 DEF Workable
  <1> HIDE DEF q, n
  <1>8. q \in Seq(Addresses) /\ Len(q) = n
    BY <1>3, <1>4, <1>7
  <1>9. known \in SUBSET Addresses /\ q \in Surjection(1 .. n, known)
    BY <1>4, <1>7 DEF Range, Surjection
  <1>10. IsFiniteSet(1 .. n) /\ Cardinality(1 .. n) = n
    BY <1>3, FS_Interval
  <1> HIDE DEF known
  <1>11. IsFiniteSet(known) /\ Cardinality(known) <= n
    BY <1>9, <1>10, FS_Surjection
  <1>12. QED
    BY <1>3, <1>5, <1>6, <1>8, <1>9, <1>11 DEF c, q, known

\* The steps of main, besides its attempts to connect.
LEMMA MainTypes ==
    ASSUME TypeInv, MainTask \/ StartApiServer
    PROVE  TypeInv'
  <1> USE DEF MainGoesOn, offerVars, history
  <1>1. ASSUME NEW from \in MainStates \ {"config", "returned", "aborted"},
               NEW to \in MainStates, MainGoesOn(from, to),
               lock' \in Tasks \cup {NoTask}, pull' \in FiniteLists,
               api' \in {"none", "starting", "up", "dead"},
               trying' \in [Tasks -> FiniteLists],
               opened' \in [Tasks -> FiniteLists]
        PROVE  TypeInv'
    BY <1>1 DEF TypeInv, Accepted
  <1>2. ASSUME NEW some \in SUBSET Addresses, IsFiniteSet(some), Contact(some)
        PROVE  /\ lock' \in Tasks \cup {NoTask} /\ pull' \in FiniteLists
               /\ api' \in {"none", "starting", "up", "dead"}
               /\ trying' \in [Tasks -> FiniteLists]
               /\ opened' \in [Tasks -> FiniteLists]
    <2>1. Listing(some) \in FiniteLists
      BY <1>2, ListingIsList
    <2>2. QED
      BY <1>2, <2>1 DEF Contact, TypeInv
  <1>3. ASSUME Contacted
        PROVE  /\ lock' \in Tasks \cup {NoTask} /\ pull' \in FiniteLists
               /\ api' \in {"none", "starting", "up", "dead"}
               /\ trying' \in [Tasks -> FiniteLists]
               /\ opened' \in [Tasks -> FiniteLists]
    BY <1>3, EmptyIsList DEF Contacted, TypeInv
  <1>4. CASE ReadConfig
    BY <1>4 DEF ReadConfig, TypeInv, Accepted, MainStates
  <1>5. CASE ContactKnownPeers
    <2>1. CASE KnownPeers = {}
      BY <1>5, <2>1, <1>1 DEF ContactKnownPeers, TypeInv, MainStates
    <2>2. CASE KnownPeers # {}
      <3>1. MainGoesOn("known", "connectKnown") /\ Contact(KnownPeers)
        BY <1>5, <2>2 DEF ContactKnownPeers
      <3>2. KnownPeers \in SUBSET Addresses /\ IsFiniteSet(KnownPeers)
        BY <3>1, ConfiguredPeers DEF TypeInv, Accepted, KnownPeers, config
      <3>3. QED
        BY <3>1, <3>2, <1>1, <1>2 DEF MainStates
    <2>3. QED
      BY <2>1, <2>2
  <1>6. CASE KnownPeersContacted
    BY <1>6, <1>1, <1>3 DEF KnownPeersContacted, MainStates
  <1>7. CASE ContactBootstrapper
    <2>1. CASE Size(pull) # 0
      BY <1>7, <2>1, <1>1 DEF ContactBootstrapper, TypeInv, MainStates
    <2>2. CASE Size(pull) = 0
      <3> DEFINE some == {config.address["bootstrapper"]}
      <3>1. MainGoesOn("bootstrap", "connectBootstrapper") /\ Contact(some)
        BY <1>7, <2>2 DEF ContactBootstrapper
      <3>2. some \in SUBSET Addresses /\ IsFiniteSet(some)
        BY <3>1, ConfiguredPeers, FS_Singleton DEF TypeInv, Accepted, config
      <3> HIDE DEF some
      <3>3. QED
        BY <3>1, <3>2, <1>1, <1>2 DEF MainStates
    <2>3. QED
      BY <2>1, <2>2
  <1>8. CASE BootstrapperContacted
    BY <1>8, <1>1, <1>3 DEF BootstrapperContacted, MainStates
  <1>9. CASE CreateTasks
    BY <1>9, <1>1 DEF CreateTasks, TypeInv, MainStates
  <1>10. CASE StartPeerServer
    <2> DEFINE to == Served(config.address["p2p_address"])
    <2>1. to \in MainStates /\ MainGoesOn("start", to)
      BY <1>10 DEF StartPeerServer, Served, MainStates
    <2>2. UNCHANGED <<lock, pull, api, trying, opened>>
      BY <1>10 DEF StartPeerServer
    <2> HIDE DEF to, MainGoesOn
    <2>3. "start" \in MainStates \ {"config", "returned", "aborted"}
      BY DEF MainStates
    <2>4. QED
      BY <1>1, <2>1, <2>2, <2>3 DEF TypeInv
  <1>11. CASE StartApiServer
    BY <1>11 DEF StartApiServer, factory, TypeInv, Accepted
  <1>12. QED
    BY <1>4, <1>5, <1>6, <1>7, <1>8, <1>9, <1>10, <1>11 DEF MainTask

\* A round of the loop over the batches, and the last.
Round(t, left, batch) ==
    /\ pc' = [pc EXCEPT ![t] = "connect"]
    /\ lock' = t
    /\ trying' = [trying EXCEPT ![t] = batch]
    /\ candidates' = [candidates EXCEPT ![t] = Minus(left, batch)]
    /\ Observe([NoBatch EXCEPT ![t] = Members(batch)])

LastRound(t) ==
    /\ pc' = [pc EXCEPT ![t] = "read"]
    /\ lock' = NoTask
    /\ candidates' = [candidates EXCEPT ![t] = Empty]
    /\ UNCHANGED trying
    /\ Observe(NoBatch)

\* A batch that is taken from left: not more than n, and what is not taken is
\* left.
Batch(left, n, batch) ==
    /\ batch \in FiniteLists /\ Minus(left, batch) \in FiniteLists
    /\ Size(batch) <= n
    /\ \A a \in Addresses : ~In(a, left) =>
          ~In(a, batch) /\ ~In(a, Minus(left, batch))
    /\ \A a \in Addresses : In(a, left) =>
          In(a, batch) \/ In(a, Minus(left, batch))

LEMMA LoopFacts ==
    ASSUME TypeInv, NEW t \in Offerers, NEW listed \in FiniteLists,
           NEW left \in FiniteLists, Loop(t, listed, left)
    PROVE  /\ Running /\ Accepts(file)
           /\ MaxPull(config) \in Nat \ {0} /\ Size(listed) \in Nat
           /\ \/ \E batch :
                    /\ Batch(left, MaxPull(config) - Size(listed), batch)
                    /\ Round(t, left, batch)
              \/ /\ Size(listed) >= MaxPull(config) \/ left = Empty
                 /\ LastRound(t)
  <1> DEFINE missing == MaxPull(config) - Size(listed)
             n == Smaller(missing, Size(left))
  <1>1. Running
    BY DEF Loop, OfferGoesOn
  <1>2. Accepts(file)
    BY <1>1 DEF Running, TypeInv, Accepted
  <1>3. MaxPull(config) \in Nat \ {0}
    BY <1>2, ConfiguredPeers DEF TypeInv, config
  <1>4. Size(listed) \in Nat /\ Size(left) \in Nat
    BY SizeType
  <1>5. missing > 0 => n \in Nat /\ n <= missing
    BY <1>3, <1>4 DEF Smaller
  <1>6. CASE missing > 0 /\ left # Empty
    <2>1. PICK batch \in Drawn(left, n) :
             /\ OfferGoesOn(t, pc[t], "connect")
             /\ lock' = t
             /\ trying' = [trying EXCEPT ![t] = batch]
             /\ candidates' = [candidates EXCEPT ![t] = Minus(left, batch)]
             /\ Observe([NoBatch EXCEPT ![t] = Members(batch)])
      BY <1>6 DEF Loop
    <2>2. Round(t, left, batch)
      BY <2>1 DEF OfferGoesOn, Round
    <2> HIDE DEF n
    <2>3. Batch(left, missing, batch)
      BY <1>5, <1>6, DrawnFromList DEF Batch
    <2>4. QED
      BY <1>1, <1>2, <1>3, <1>4, <2>2, <2>3
  <1>7. CASE ~(missing > 0 /\ left # Empty)
    <2>1. LastRound(t)
      BY <1>7 DEF Loop, OfferGoesOn, LastRound
    <2>2. Size(listed) >= MaxPull(config) \/ left = Empty
      BY <1>3, <1>4, <1>7
    <2>3. QED
      BY <1>1, <1>2, <1>3, <1>4, <2>1, <2>2
  <1>8. QED
    BY <1>6, <1>7

LEMMA LoopTypes ==
    ASSUME TypeInv, NEW t \in Offerers, NEW listed \in FiniteLists,
           NEW left \in FiniteLists, Loop(t, listed, left)
    PROVE  /\ pc' \in [Tasks -> MainStates \cup OffererStates]
           /\ pc'[Main] = pc[Main]
           /\ lock' \in Tasks \cup {NoTask}
           /\ candidates' \in [Offerers -> FiniteLists]
           /\ trying' \in [Tasks -> FiniteLists]
           /\ steady' \in [Offerers -> SUBSET (Addresses \X {"us", "them"})]
           /\ unlisted' \in [Offerers -> SUBSET (Addresses \X {"us", "them"})]
           /\ unused' \in [Offerers -> SUBSET Addresses]
  <1>1. /\ pc' \in [Tasks -> MainStates \cup OffererStates]
        /\ pc'[Main] = pc[Main]
        /\ lock' \in Tasks \cup {NoTask}
    <2>1. pc' = [pc EXCEPT ![t] = "connect"] \/ pc' = [pc EXCEPT ![t] = "read"]
      BY LoopFacts DEF Round, LastRound
    <2>2. lock' \in {t, NoTask}
      BY LoopFacts DEF Round, LastRound
    <2>3. QED
      BY <2>1, <2>2, TasksAssumption DEF TypeInv, OffererStates
  <1>2. /\ candidates' \in [Offerers -> FiniteLists]
        /\ trying' \in [Tasks -> FiniteLists]
    <2>1. ASSUME NEW batch, Round(t, left, batch),
                 batch \in FiniteLists, Minus(left, batch) \in FiniteLists
          PROVE  /\ candidates' \in [Offerers -> FiniteLists]
                 /\ trying' \in [Tasks -> FiniteLists]
      BY <2>1 DEF Round, TypeInv
    <2>2. ASSUME LastRound(t)
          PROVE  /\ candidates' \in [Offerers -> FiniteLists]
                 /\ trying' \in [Tasks -> FiniteLists]
      BY <2>2, EmptyIsList DEF LastRound, TypeInv
    <2>3. QED
      BY <2>1, <2>2, LoopFacts DEF Batch
  <1>3. PICK batch : Observe(batch)
    BY LoopFacts DEF Round, LastRound
  <1>4. QED
    BY <1>1, <1>2, <1>3, ObserveTypes

LEMMA OfferTypes ==
    ASSUME TypeInv, NEW t \in Offerers,
           \/ Filter(t) \/ ConnectMissing(t) \/ ConnectNext(t)
           \/ \E offer \in Offers : PeerOffer(t, offer)
    PROVE  TypeInv'
  <1>1. ASSUME NEW offer \in Offers, PeerOffer(t, offer) PROVE TypeInv'
    <2>1. /\ offer \in FiniteLists /\ Links \subseteq Addresses \X {"us", "them"}
          /\ Moving \subseteq Addresses \X {"us", "them"}
          /\ Members(offer) \subseteq Addresses
      BY OffersAreLists DEF Links, Moving, Members, TypeInv
    <2>2. /\ steady' \in [Offerers -> SUBSET (Addresses \X {"us", "them"})]
          /\ unlisted' \in [Offerers -> SUBSET (Addresses \X {"us", "them"})]
          /\ unused' \in [Offerers -> SUBSET Addresses]
      BY <1>1, <2>1 DEF PeerOffer, TypeInv
    <2>3. QED
      BY <1>1, <2>1, <2>2, TasksAssumption
      DEF PeerOffer, OfferGoesOn, factory, TypeInv, Accepted, OffererStates
  <1>2. CASE Filter(t)
    <2> DEFINE rest == [a \in Addresses |->
                           IF a \in seen[t] \cup Members(pull) \cup push THEN 0
                           ELSE candidates[t][a]]
    <2>1. candidates[t] \in FiniteLists
      BY DEF TypeInv
    <2>2. rest \in Lists /\ Members(rest) \in SUBSET Members(candidates[t])
      BY <2>1 DEF FiniteLists, Lists, Members, In
    <2>3. rest \in FiniteLists
      BY <2>1, <2>2, FS_Subset DEF FiniteLists
    <2>4. candidates' = [candidates EXCEPT ![t] = rest]
      BY <1>2 DEF Filter, TypeInv
    <2> HIDE DEF rest
    <2>5. candidates' \in [Offerers -> FiniteLists]
      BY <2>3, <2>4 DEF TypeInv
    <2>6. /\ steady' \in [Offerers -> SUBSET (Addresses \X {"us", "them"})]
          /\ unlisted' \in [Offerers -> SUBSET (Addresses \X {"us", "them"})]
          /\ unused' \in [Offerers -> SUBSET Addresses]
      BY <1>2, ObserveTypes DEF Filter
    <2>7. QED
      BY <1>2, <2>5, <2>6, TasksAssumption
      DEF Filter, OfferGoesOn, factory, TypeInv, Accepted, OffererStates
  <1>3. CASE ConnectMissing(t)
    <2>1. candidates[t] \in FiniteLists /\ pull \in FiniteLists
      BY DEF TypeInv
    <2>2. QED
      BY <1>3, <2>1, LoopTypes DEF ConnectMissing, TypeInv, Accepted
  <1>4. CASE ConnectNext(t)
    <2>1. /\ candidates[t] \in FiniteLists
          /\ Plus(pull, opened[t]) \in FiniteLists
      BY PlusIsList DEF TypeInv
    <2>2. opened' \in [Tasks -> FiniteLists]
      BY <1>4, EmptyIsList DEF ConnectNext, TypeInv
    <2>3. QED
      BY <1>4, <2>1, <2>2, LoopTypes DEF ConnectNext, TypeInv, Accepted
  <1>5. QED
    BY <1>1, <1>2, <1>3, <1>4

LEMMA OthersTypes ==
    ASSUME TypeInv, NEW a \in Others,
           \/ SaysWhere(a) \/ Promoted(a) \/ Joins(a)
           \/ InboundCloses(a) \/ OutboundCloses(a)
    PROVE  TypeInv'
  <1> USE NodesAssumption
  <1>1. /\ OthersDo
        /\ unverified' \subseteq Addresses /\ moving' \subseteq Addresses
        /\ push' \subseteq Addresses
    BY DEF SaysWhere, Promoted, Joins, InboundCloses, OutboundCloses, TypeInv
  <1>2. pull' \in FiniteLists
    <2>1. In(a, pull) => [pull EXCEPT ![a] = @ - 1] \in FiniteLists
      BY OneLess DEF TypeInv
    <2>2. QED
      BY <2>1
      DEF SaysWhere, Promoted, Joins, InboundCloses, OutboundCloses, TypeInv
  <1>3. /\ steady' \in [Offerers -> SUBSET (Addresses \X {"us", "them"})]
        /\ unlisted' \in [Offerers -> SUBSET (Addresses \X {"us", "them"})]
        /\ unused' \in [Offerers -> SUBSET Addresses]
    BY <1>1, ObserveTypes DEF OthersDo
  <1>4. QED
    BY <1>1, <1>2, <1>3 DEF OthersDo, offerVars, factory, TypeInv, Accepted

LEMMA TypeStep == TypeInv /\ [Next]_vars => TypeInv'
  <1> SUFFICES ASSUME TypeInv, [Next]_vars PROVE TypeInv'
    OBVIOUS
  <1>1. CASE MainTask \/ StartApiServer
    BY <1>1, MainTypes
  <1>2. CASE \E t \in Tasks : Attempt(t)
    BY <1>2, AttemptTypes DEF Attempt
  <1>3. CASE \E t \in Offerers :
                \/ LockTask(t) \/ ConnectNext(t)
                \/ \E offer \in Offers : PeerOffer(t, offer)
    BY <1>3, OfferTypes DEF LockTask
  <1>4. CASE \E a \in Others :
                \/ a \in Callers /\ SaysWhere(a)
                \/ Promoted(a) \/ Joins(a)
                \/ InboundCloses(a) \/ OutboundCloses(a)
    BY <1>4, OthersTypes
  <1>5. CASE UNCHANGED vars
    BY <1>5 DEF vars, offerVars, factory, history, TypeInv, Accepted
  <1>6. QED
    BY <1>1, <1>2, <1>3, <1>4, <1>5 DEF Next

LEMMA TypeInvariant == Spec => []TypeInv
  BY TypeInit, TypeStep, PTL DEF Spec

\* Whatever the file, the offers and the answers are, the lists stay lists of
\* addresses, and every counter a natural number (Gossip).
THEOREM DiscoveryTypes == Spec => []TypeOK
  <1>1. TypeInv => TypeOK
    BY DEF TypeInv, TypeOK, FiniteLists
  <1>2. QED
    BY <1>1, TypeInvariant, PTL

-----------------------------------------------------------------------------
(***************************************************************************)
(* Main connects only before it serves, and an offer is handled only while *)
(* it does.  While the lists are read, a connection that was there from    *)
(* the beginning is among the addresses that were collected, or is in one  *)
(* of the lists that are read next: connections move from the unverified   *)
(* to the push peers, and never back.  Excepted are those that were on     *)
(* their way all the while.  After that no candidate is the address of     *)
(* such a connection.                                                      *)
(***************************************************************************)
MainConnects ==
    trying[Main] # Empty =>
        pc[Main] \in {"connectKnown", "connectBootstrapper"}

SteadyIsListed ==
    \A t \in Offerers :
        steady[t] \subseteq Links /\ (pc[Main] # "serve" => steady[t] = {})

ListsApart ==
    /\ unverified \cap moving = {} /\ unverified \cap push = {}
    /\ moving \cap push = {}

\* Where a connection that was there when the offer arrived is seen.
Seen(t) ==
    /\ unlisted[t] \subseteq Moving
    /\ \A a \in Addresses : <<a, "them">> \in steady[t] \ unlisted[t] =>
          a \in seen[t] \cup push

SteadyIsSeen == \A t \in Offerers : pc[t] = "collect" => Seen(t)

SteadyIsFiltered ==
    \A t \in Offerers : pc[t] \in {"missing", "connect"} =>
        \A link \in steady[t] \ unlisted[t] : ~In(link[1], candidates[t])

OfferInv ==
    TypeInv /\ MainConnects /\ ListsApart /\ SteadyIsListed /\ SteadyIsSeen
        /\ SteadyIsFiltered

LEMMA OfferInit == Init => OfferInv
  BY TypeInit, TasksAssumption
  DEF Init, OfferInv, MainConnects, ListsApart, SteadyIsListed, SteadyIsSeen,
      SteadyIsFiltered

\* Connections are listed by an address.
LEMMA LinkFacts ==
    ASSUME TypeInv
    PROVE  /\ Links \subseteq Addresses \X {"us", "them"}
           /\ \A a \in Addresses :
                 /\ <<a, "us">> \in Links <=> In(a, pull)
                 /\ <<a, "them">> \in Links
                       <=> a \in unverified \cup moving \cup push
                 /\ <<a, "them">> \in Moving <=> a \in moving
  BY DEF Links, Moving, Members, TypeInv

\* What was listed all the time still is, after a step that is observed.
LEMMA ObserveSteady ==
    ASSUME NEW batch, Observe(batch)
    PROVE  \A t \in Offerers :
              /\ steady'[t] \subseteq Links'
              /\ pc'[t] \notin {"read", "dead"} =>
                    steady'[t] = steady[t] \cap Links'
              /\ pc'[t] \in {"read", "dead"} => steady'[t] = {}
              /\ pc'[t] = "collect" =>
                    unlisted'[t] = unlisted[t] \cap Moving'
              /\ pc'[t] \in {"missing", "connect"} =>
                    unlisted'[t] = unlisted[t]
  BY DEF Observe

LEMMA AttemptSteady ==
    ASSUME OfferInv, NEW t \in Tasks, NEW a \in Addresses,
           Opens(t, a) \/ Refuses(t, a) \/ Raises(t, a)
    PROVE  OfferInv'
  <1>1. TypeInv /\ TypeInv'
    BY AttemptTypes DEF OfferInv
  <1>2. t = Main => pc[Main] \in {"connectKnown", "connectBootstrapper"}
    BY EmptyIsList DEF Opens, Refuses, Raises, Trying, OfferInv, MainConnects
  <1>3. t # Main => pc[Main] = "serve"
    BY DEF Opens, Refuses, Raises, Trying, Running
  <1>4. CASE Opens(t, a) \/ Refuses(t, a)
    <2>1. UNCHANGED <<pc, pull, unverified, moving, push, seen, candidates,
                      steady, unlisted>>
      BY <1>4 DEF Opens, Refuses, offerVars, history
    <2>2. MainConnects'
      BY <1>1, <1>2, <1>3, <1>4, <2>1
      DEF Opens, Refuses, OfferInv, MainConnects, TypeInv
    <2>3. QED
      BY <1>1, <2>1, <2>2
      DEF OfferInv, ListsApart, SteadyIsListed, SteadyIsSeen, Seen,
          SteadyIsFiltered, Links, Moving, Members
  <1>5. CASE Raises(t, a)
    <2>1. /\ pc' = [pc EXCEPT ![t] = IF t = Main THEN "aborted" ELSE "dead"]
          /\ trying' = [trying EXCEPT ![t] = Empty]
          /\ UNCHANGED <<pull, unverified, moving, push, seen>>
          /\ Observe(NoBatch)
          /\ \A u \in Offerers : u # t => candidates'[u] = candidates[u]
      BY <1>1, <1>5 DEF Raises, TypeInv
    <2>2. \A u \in Offerers : steady'[u] \subseteq steady[u]
      BY <2>1, ObserveSteady
      DEF OfferInv, SteadyIsListed
    <2>3. MainConnects' /\ SteadyIsListed'
      <3>1. MainConnects'
        BY <1>1, <1>3, <2>1, TasksAssumption
        DEF OfferInv, MainConnects, TypeInv
      <3>2. pc'[Main] # "serve" => pc[Main] # "serve"
        BY <1>1, <1>2, <2>1 DEF TypeInv
      <3>3. QED
        BY <3>1, <3>2, <2>1, <2>2, ObserveSteady
        DEF OfferInv, SteadyIsListed
    <2>4. SteadyIsSeen' /\ SteadyIsFiltered'
      <3>1. Moving' = Moving
        BY <2>1 DEF Moving
      <3>2. ASSUME NEW u \in Offerers,
                   pc'[u] \in {"collect", "missing", "connect"}
            PROVE  /\ u # t /\ pc'[u] = pc[u] /\ unlisted'[u] = unlisted[u]
                   /\ candidates'[u] = candidates[u] /\ seen'[u] = seen[u]
        <4>1. u # t /\ pc'[u] = pc[u]
          BY <1>1, <2>1, <3>2, TasksAssumption DEF TypeInv
        <4>2. unlisted'[u] = unlisted[u]
          BY <2>1, <3>1, <3>2, <4>1, ObserveSteady
          DEF OfferInv, SteadyIsSeen, Seen
        <4>3. QED
          BY <2>1, <4>1, <4>2
      <3>3. QED
        BY <2>1, <2>2, <3>1, <3>2
        DEF OfferInv, SteadyIsSeen, Seen, SteadyIsFiltered
    <2>5. ListsApart'
      BY <2>1 DEF OfferInv, ListsApart
    <2>6. QED
      BY <1>1, <2>3, <2>4, <2>5 DEF OfferInv
  <1>6. QED
    BY <1>4, <1>5

\* While main is not serving there is nothing to compare with.
LEMMA MainSteady ==
    ASSUME OfferInv, MainTask \/ StartApiServer
    PROVE  OfferInv'
  <1>1. TypeInv /\ TypeInv'
    BY MainTypes DEF OfferInv
  <1>2. CASE StartApiServer
    BY <1>1, <1>2
    DEF StartApiServer, offerVars, factory, history, OfferInv, MainConnects,
        ListsApart, SteadyIsListed, SteadyIsSeen, Seen, SteadyIsFiltered,
        Links, Moving, Members
  <1>3. CASE MainTask
    <2>1. PICK from \in MainStates \ {"serve"}, to \in MainStates :
             MainGoesOn(from, to)
      BY <1>3
      DEF MainTask, ReadConfig, ContactKnownPeers, KnownPeersContacted,
          ContactBootstrapper, BootstrapperContacted, CreateTasks,
          StartPeerServer, Served, MainStates
    <2>2. MainConnects'
      BY <1>1, <1>3, EmptyIsList
      DEF MainTask, ReadConfig, ContactKnownPeers, KnownPeersContacted,
          ContactBootstrapper, BootstrapperContacted, CreateTasks,
          StartPeerServer, Contact, Contacted, AllTried, MainGoesOn,
          OfferInv, MainConnects, TypeInv
    <2>3. /\ \A t \in Offerers : steady'[t] = {} /\ pc'[t] = pc[t]
          /\ UNCHANGED <<unverified, moving, push, unlisted>>
      BY <1>1, <2>1, TasksAssumption
      DEF MainGoesOn, history, OfferInv, SteadyIsListed, TypeInv
    <2>4. QED
      BY <1>1, <2>2, <2>3
      DEF OfferInv, ListsApart, SteadyIsListed, SteadyIsSeen, Seen, Moving,
          SteadyIsFiltered
  <1>4. QED
    BY <1>2, <1>3

\* A round of the loop takes candidates away, and adds none.
LEMMA LoopSteady ==
    ASSUME TypeInv, NEW t \in Offerers, NEW listed \in FiniteLists,
           NEW left \in FiniteLists, Loop(t, listed, left)
    PROVE  /\ Running
           /\ \/ pc' = [pc EXCEPT ![t] = "connect"]
              \/ pc' = [pc EXCEPT ![t] = "read"]
           /\ \E batch : Observe(batch)
           /\ \A u \in Offerers : u # t => candidates'[u] = candidates[u]
           /\ \A a \in Addresses : ~In(a, left) => ~In(a, candidates'[t])
           /\ \A a \in Addresses :
                 pc'[t] = "connect" /\ ~In(a, left) => ~In(a, trying'[t])
           /\ trying'[Main] = trying[Main]
  <1>1. ASSUME NEW batch, Round(t, left, batch),
               \A a \in Addresses : ~In(a, left) =>
                  ~In(a, batch) /\ ~In(a, Minus(left, batch))
        PROVE  /\ pc' = [pc EXCEPT ![t] = "connect"]
               /\ Observe([NoBatch EXCEPT ![t] = Members(batch)])
               /\ \A u \in Offerers : u # t => candidates'[u] = candidates[u]
               /\ \A a \in Addresses : ~In(a, left) => ~In(a, candidates'[t])
               /\ \A a \in Addresses : ~In(a, left) => ~In(a, trying'[t])
               /\ trying'[Main] = trying[Main]
    BY <1>1, TasksAssumption DEF Round, TypeInv
  <1>2. ASSUME LastRound(t)
        PROVE  /\ pc' = [pc EXCEPT ![t] = "read"] /\ pc'[t] = "read"
               /\ Observe(NoBatch)
               /\ \A u \in Offerers : u # t => candidates'[u] = candidates[u]
               /\ \A a \in Addresses : ~In(a, candidates'[t])
               /\ trying'[Main] = trying[Main]
    BY <1>2, EmptyIsList DEF LastRound, TypeInv
  <1>3. Running
    BY LoopFacts
  <1>4. CASE \E batch : /\ Round(t, left, batch)
                        /\ Batch(left, MaxPull(config) - Size(listed), batch)
    <2>1. PICK batch : /\ Round(t, left, batch)
                       /\ Batch(left, MaxPull(config) - Size(listed), batch)
      BY <1>4
    <2>2. QED
      BY <1>1, <1>3, <2>1 DEF Batch
  <1>5. CASE LastRound(t)
    BY <1>2, <1>3, <1>5
  <1>6. QED
    BY <1>4, <1>5, LoopFacts

\* A step of t in which the lists of the others stay as they are.
LEMMA OffererSteady ==
    ASSUME OfferInv, TypeInv', NEW t \in Offerers,
           Running, pc'[Main] = pc[Main], trying'[Main] = trying[Main],
           \A u \in Offerers : steady'[u] \subseteq Links',
           \A u \in Offerers \ {t} :
              /\ pc'[u] = pc[u] /\ seen'[u] = seen[u]
              /\ candidates'[u] = candidates[u]
              /\ steady'[u] \subseteq steady[u]
              /\ pc'[u] \in {"collect", "missing", "connect"} =>
                    unlisted'[u] = unlisted[u],
           UNCHANGED <<unverified, moving, push>>,
           pc'[t] = "collect" => Seen(t)',
           pc'[t] \in {"missing", "connect"} =>
              \A link \in steady'[t] \ unlisted'[t] :
                 ~In(link[1], candidates'[t])
    PROVE  OfferInv'
  <1>1. MainConnects' /\ SteadyIsListed'
    BY DEF OfferInv, MainConnects, SteadyIsListed, Running
  <1>2. ASSUME NEW u \in Offerers \ {t}, pc'[u] = "collect" PROVE Seen(u)'
    BY <1>2 DEF OfferInv, SteadyIsSeen, Seen, Moving
  <1>3. SteadyIsSeen' /\ SteadyIsFiltered'
    BY <1>2 DEF OfferInv, SteadyIsSeen, SteadyIsFiltered
  <1>4. ListsApart'
    BY DEF OfferInv, ListsApart
  <1>5. QED
    BY <1>1, <1>3, <1>4 DEF OfferInv

\* What becomes of the histories of the other offerers when one of them takes a
\* step that is observed.
LEMMA ObserveOthers ==
    ASSUME OfferInv, NEW t \in Offerers, NEW batch, Observe(batch),
           UNCHANGED moving,
           \A u \in Offerers \ {t} : pc'[u] = pc[u]
    PROVE  \A u \in Offerers \ {t} :
              pc'[u] \in {"collect", "missing", "connect"} =>
                 unlisted'[u] = unlisted[u]
  <1>1. Moving' = Moving
    BY DEF Moving
  <1>2. QED
    BY <1>1, ObserveSteady DEF OfferInv, SteadyIsSeen, Seen

LEMMA OfferSteady ==
    ASSUME OfferInv, NEW t \in Offerers,
           \/ Filter(t) \/ ConnectMissing(t) \/ ConnectNext(t)
           \/ \E offer \in Offers : PeerOffer(t, offer)
    PROVE  OfferInv'
  <1>1. TypeInv /\ TypeInv'
    BY OfferTypes DEF OfferInv
  <1>2. ASSUME NEW offer \in Offers, PeerOffer(t, offer) PROVE OfferInv'
    <2>1. /\ Running /\ pc' = [pc EXCEPT ![t] = "collect"]
          /\ seen' = [seen EXCEPT ![t] = unverified]
          /\ candidates' = [candidates EXCEPT ![t] = offer]
          /\ steady' = [steady EXCEPT ![t] =
                           {link \in Links : In(link[1], offer)}]
          /\ unlisted' = [unlisted EXCEPT ![t] = Moving]
          /\ UNCHANGED <<pull, unverified, moving, push, trying>>
      BY <1>2 DEF PeerOffer, OfferGoesOn, factory
    <2>2. Links' = Links
      BY <2>1 DEF Links, Members
    <2>3. \A u \in Offerers : steady'[u] \subseteq Links'
      BY <1>1, <2>1, <2>2 DEF TypeInv, OfferInv, SteadyIsListed
    <2>4. Seen(t)'
      <3>1. /\ seen'[t] = unverified /\ steady'[t] \subseteq Links
            /\ unlisted'[t] = Moving /\ Moving' = Moving /\ push' = push
        BY <1>1, <2>1 DEF TypeInv, Moving
      <3>2. QED
        BY <1>1, <3>1, LinkFacts DEF Seen
    <2>5. \A u \in Offerers \ {t} :
             /\ pc'[u] = pc[u] /\ seen'[u] = seen[u]
             /\ candidates'[u] = candidates[u] /\ steady'[u] = steady[u]
             /\ unlisted'[u] = unlisted[u]
      BY <1>1, <2>1 DEF TypeInv
    <2>6. pc'[Main] = pc[Main] /\ pc'[t] = "collect"
      BY <1>1, <2>1, TasksAssumption DEF TypeInv
    <2>7. QED
      BY <1>1, <2>1, <2>3, <2>4, <2>5, <2>6, OffererSteady
  <1>3. CASE Filter(t)
    <2>1. /\ Running /\ pc[t] = "collect"
          /\ pc' = [pc EXCEPT ![t] = "missing"]
          /\ seen' = [seen EXCEPT ![t] = {}]
          /\ candidates' = [candidates EXCEPT ![t] =
                [a \in Addresses |->
                    IF a \in seen[t] \cup Members(pull) \cup push THEN 0
                    ELSE @[a]]]
          /\ UNCHANGED <<pull, unverified, moving, push, trying>>
          /\ Observe(NoBatch)
      BY <1>3 DEF Filter, OfferGoesOn, factory
    <2>2. \A u \in Offerers :
             steady'[u] \subseteq Links' /\ steady'[u] \subseteq steady[u]
      BY <2>1, ObserveSteady
    <2>3. \A link \in steady'[t] \ unlisted'[t] :
             ~In(link[1], candidates'[t])
      <3>1. ASSUME NEW link \in steady'[t] \ unlisted'[t]
            PROVE  ~In(link[1], candidates'[t])
        <4>0. unlisted'[t] = unlisted[t]
          BY <1>1, <2>1, ObserveSteady DEF TypeInv
        <4>1. link \in steady[t] \ unlisted[t] /\ link \in Links
          BY <2>2, <4>0 DEF OfferInv, SteadyIsListed
        <4>2. PICK a \in Addresses : link = <<a, "us">> \/ link = <<a, "them">>
          BY <1>1, <4>1, LinkFacts
        <4>3. a \in seen[t] \cup Members(pull) \cup push
          BY <1>1, <2>1, <4>1, <4>2, LinkFacts
          DEF OfferInv, SteadyIsSeen, Seen, Members
        <4>4. candidates'[t][a] = 0
          BY <1>1, <2>1, <4>3 DEF TypeInv
        <4>5. QED
          BY <4>2, <4>4 DEF In
      <3>2. QED
        BY <3>1
    <2>4. \A u \in Offerers \ {t} :
             /\ pc'[u] = pc[u] /\ seen'[u] = seen[u]
             /\ candidates'[u] = candidates[u]
      BY <1>1, <2>1 DEF TypeInv
    <2>5. pc'[Main] = pc[Main] /\ pc'[t] = "missing"
      BY <1>1, <2>1, TasksAssumption DEF TypeInv
    <2>6. \A u \in Offerers \ {t} :
             pc'[u] \in {"collect", "missing", "connect"} =>
                unlisted'[u] = unlisted[u]
      BY <2>1, <2>4, ObserveOthers
    <2>7. Running /\ UNCHANGED <<unverified, moving, push, trying>>
      BY <2>1
    <2>8. QED
      BY <1>1, <2>2, <2>3, <2>4, <2>5, <2>6, <2>7, OffererSteady
  <1>4. CASE ConnectMissing(t) \/ ConnectNext(t)
    <2>1. /\ pc[t] \in {"missing", "connect"}
          /\ UNCHANGED <<unverified, moving, push, seen>>
          /\ \E listed \in FiniteLists : Loop(t, listed, candidates[t])
      BY <1>1, <1>4, PlusIsList DEF ConnectMissing, ConnectNext, TypeInv
    <2>2. candidates[t] \in FiniteLists
      BY <1>1 DEF TypeInv
    <2>3. /\ Running
          /\ \/ pc' = [pc EXCEPT ![t] = "connect"]
             \/ pc' = [pc EXCEPT ![t] = "read"]
          /\ \E batch : Observe(batch)
          /\ \A u \in Offerers : u # t => candidates'[u] = candidates[u]
          /\ \A a \in Addresses :
                ~In(a, candidates[t]) => ~In(a, candidates'[t])
          /\ trying'[Main] = trying[Main]
      BY <1>1, <2>1, <2>2, LoopSteady
    <2>4. \A u \in Offerers :
             steady'[u] \subseteq Links' /\ steady'[u] \subseteq steady[u]
      BY <2>3, ObserveSteady
    <2>5. /\ pc'[Main] = pc[Main] /\ pc'[t] \in {"connect", "read"}
          /\ \A u \in Offerers \ {t} : pc'[u] = pc[u]
      BY <1>1, <2>3, TasksAssumption DEF TypeInv
    <2>6. \A u \in Offerers \ {t} :
             pc'[u] \in {"collect", "missing", "connect"} =>
                unlisted'[u] = unlisted[u]
      BY <2>1, <2>3, <2>5, ObserveOthers
    <2>7. pc'[t] \in {"missing", "connect"} =>
             \A link \in steady'[t] \ unlisted'[t] :
                ~In(link[1], candidates'[t])
      <3>1. ASSUME pc'[t] \in {"missing", "connect"}
            PROVE  unlisted'[t] = unlisted[t]
        BY <2>3, <3>1, ObserveSteady
      <3>2. \A link \in steady[t] \ unlisted[t] : link[1] \in Addresses
        BY <1>1 DEF TypeInv
      <3>3. QED
        BY <2>1, <2>3, <2>4, <3>1, <3>2 DEF OfferInv, SteadyIsFiltered
    <2>8. QED
      BY <1>1, <2>1, <2>3, <2>4, <2>5, <2>6, <2>7, OffererSteady
  <1>5. QED
    BY <1>2, <1>3, <1>4

LEMMA OthersSteady ==
    ASSUME OfferInv, NEW b \in Others,
           \/ SaysWhere(b) \/ Promoted(b) \/ Joins(b)
           \/ InboundCloses(b) \/ OutboundCloses(b)
    PROVE  OfferInv'
  <1>1. TypeInv /\ TypeInv'
    BY OthersTypes DEF OfferInv
  <1>2. /\ Running /\ UNCHANGED <<pc, seen, candidates, trying>>
        /\ Observe(NoBatch)
    BY DEF SaysWhere, Promoted, Joins, InboundCloses, OutboundCloses, OthersDo,
           offerVars, factory
  <1>3. \A t \in Offerers :
           steady'[t] \subseteq Links' /\ steady'[t] \subseteq steady[t]
    BY <1>2, ObserveSteady
  <1>4. ListsApart'
    BY DEF SaysWhere, Promoted, Joins, InboundCloses, OutboundCloses, OfferInv,
           ListsApart
  <1>5. \A a \in Addresses :
           /\ a \in push =>
                 a \in push' \/ a \notin unverified' \cup moving' \cup push'
           /\ a \in moving => a \in moving' \/ a \in push'
    BY DEF SaysWhere, Promoted, Joins, InboundCloses, OutboundCloses, OfferInv,
           ListsApart
  <1>6. SteadyIsSeen'
    <2> SUFFICES ASSUME NEW t \in Offerers, pc'[t] = "collect"
                 PROVE  Seen(t)'
      BY DEF SteadyIsSeen
    <2>1. unlisted'[t] = unlisted[t] \cap Moving' /\ Seen(t)
      BY <1>2, ObserveSteady DEF OfferInv, SteadyIsSeen
    <2>2. ASSUME NEW a \in Addresses,
                 <<a, "them">> \in steady'[t] \ unlisted'[t]
          PROVE  a \in seen'[t] \cup push'
      <3>1. <<a, "them">> \in steady[t] /\ <<a, "them">> \in Links'
        BY <1>3, <2>2
      <3>2. a \in unverified' \cup moving' \cup push'
        BY <1>1, <3>1 DEF Links, Members, TypeInv
      <3>3. CASE <<a, "them">> \in unlisted[t]
        <4>1. a \in moving /\ a \notin moving'
          BY <2>1, <2>2, <3>3 DEF Seen, Moving
        <4>2. QED
          BY <1>5, <4>1
      <3>4. CASE <<a, "them">> \notin unlisted[t]
        BY <1>2, <1>5, <2>1, <3>1, <3>2, <3>4 DEF Seen
      <3>5. QED
        BY <3>3, <3>4
    <2>3. QED
      BY <2>1, <2>2 DEF Seen
  <1>7. MainConnects' /\ SteadyIsListed'
    BY <1>2, <1>3 DEF OfferInv, MainConnects, SteadyIsListed, Running
  <1>8. SteadyIsFiltered'
    <2>1. \A t \in Offerers : pc'[t] \in {"missing", "connect"} =>
             unlisted'[t] = unlisted[t]
      BY <1>2, ObserveSteady
    <2>2. QED
      BY <1>2, <1>3, <2>1 DEF OfferInv, SteadyIsFiltered
  <1>9. QED
    BY <1>1, <1>4, <1>6, <1>7, <1>8 DEF OfferInv

LEMMA OfferStep == OfferInv /\ [Next]_vars => OfferInv'
  <1> SUFFICES ASSUME OfferInv, [Next]_vars PROVE OfferInv'
    OBVIOUS
  <1>1. CASE MainTask \/ StartApiServer
    BY <1>1, MainSteady
  <1>2. CASE \E t \in Tasks : Attempt(t)
    BY <1>2, AttemptSteady DEF Attempt
  <1>3. CASE \E t \in Offerers :
                \/ LockTask(t) \/ ConnectNext(t)
                \/ \E offer \in Offers : PeerOffer(t, offer)
    BY <1>3, OfferSteady DEF LockTask
  <1>4. CASE \E a \in Others :
                \/ a \in Callers /\ SaysWhere(a)
                \/ Promoted(a) \/ Joins(a)
                \/ InboundCloses(a) \/ OutboundCloses(a)
    BY <1>4, OthersSteady
  <1>5. CASE UNCHANGED vars
    BY <1>5, TypeStep
    DEF vars, offerVars, factory, history, OfferInv, MainConnects, ListsApart,
        SteadyIsListed, SteadyIsSeen, Seen, SteadyIsFiltered, Links, Moving,
        Members
  <1>6. QED
    BY <1>1, <1>2, <1>3, <1>4, <1>5 DEF Next

LEMMA OfferInvariant == Spec => []OfferInv
  BY OfferInit, OfferStep, PTL DEF Spec

\* No offer makes a node open a connection to one it has been connected to
\* since the offer arrived (handle_peer_offer), whatever other offers are
\* handled and whatever peers do meanwhile; excepted are connections that were
\* in no list all the time the lists were read (validate_peer).
THEOREM SteadyNotRepeated == Spec => NoSecondConnection
  <1>1. ASSUME OfferInv, [Next]_vars
        PROVE  [\A t \in Offerers :
                   /\ pc[t] \in {"missing", "connect"} /\ pc'[t] = "connect"
                   /\ trying[t] = Empty
                   => \A link \in steady[t] \ unlisted[t] :
                         ~In(link[1], trying'[t])]_vars
    <2> SUFFICES ASSUME NEW t \in Offerers, Next,
                        pc[t] \in {"missing", "connect"}, pc'[t] = "connect",
                        trying[t] = Empty,
                        NEW link \in steady[t] \ unlisted[t]
                 PROVE  ~In(link[1], trying'[t])
      BY <1>1
    <2>1. TypeInv /\ t \in Tasks /\ link[1] \in Addresses
      BY <1>1 DEF OfferInv, TypeInv
    <2>2. ASSUME trying'[t] = trying[t] PROVE ~In(link[1], trying'[t])
      BY <2>1, <2>2, EmptyIsList
    <2>3. CASE MainTask \/ StartApiServer
      <3>1. trying'[t] = trying[t]
        BY <2>1, <2>3, TasksAssumption
        DEF MainTask, ReadConfig, ContactKnownPeers, KnownPeersContacted,
            ContactBootstrapper, BootstrapperContacted, CreateTasks,
            StartPeerServer, StartApiServer, Contact, Contacted, factory,
            TypeInv
      <3>2. QED
        BY <2>2, <3>1
    <2>4. ASSUME NEW u \in Tasks, Attempt(u) PROVE ~In(link[1], trying'[t])
      <3>1. u # t
        BY <2>4, EmptyIsList DEF Attempt, Opens, Refuses, Raises, Trying
      <3>2. trying'[t] = trying[t]
        BY <2>1, <2>4, <3>1 DEF Attempt, Opens, Refuses, Raises, TypeInv
      <3>3. QED
        BY <2>2, <3>2
    <2>5. ASSUME NEW u \in Offerers,
                 \/ LockTask(u) \/ ConnectNext(u)
                 \/ \E offer \in Offers : PeerOffer(u, offer)
          PROVE  ~In(link[1], trying'[t])
      <3>1. CASE Filter(u) \/ \E offer \in Offers : PeerOffer(u, offer)
        BY <2>2, <3>1 DEF Filter, PeerOffer, factory
      <3>2. CASE ConnectMissing(u) \/ ConnectNext(u)
        <4>1. PICK listed \in FiniteLists : Loop(u, listed, candidates[u])
          BY <2>1, <3>2, PlusIsList DEF ConnectMissing, ConnectNext, TypeInv
        <4>2. candidates[u] \in FiniteLists
          BY <2>1 DEF TypeInv
        <4>3. CASE u # t
          <5>1. trying'[t] = trying[t]
            BY <2>1, <4>1, <4>3 DEF Loop, TypeInv
          <5>2. QED
            BY <2>2, <5>1
        <4>4. CASE u = t
          <5>1. ~In(link[1], candidates[t])
            BY <1>1 DEF OfferInv, SteadyIsFiltered
          <5>2. QED
            BY <2>1, <4>1, <4>2, <4>4, <5>1, LoopSteady
        <4>5. QED
          BY <4>3, <4>4
      <3>3. QED
        BY <2>5, <3>1, <3>2 DEF LockTask
    <2>6. CASE \E a \in Others :
                  \/ a \in Callers /\ SaysWhere(a)
                  \/ Promoted(a) \/ Joins(a)
                  \/ InboundCloses(a) \/ OutboundCloses(a)
      BY <2>2, <2>6
      DEF SaysWhere, Promoted, Joins, InboundCloses, OutboundCloses, OthersDo, factory
    <2>7. QED
      BY <2>3, <2>4, <2>5, <2>6 DEF Next
  <1>2. QED
    BY <1>1, OfferInvariant, PTL DEF Spec, NoSecondConnection

\* A node goes on after it has read a configuration the documentation allows
\* that names no known peer twice; and when it goes on, the configuration is
\* such a one but for challenge_cooldown, and its values are those the rest of
\* the program can work with (main, Config).
THEOREM ConfigurationChecked == Spec => ConfigAsDocumented
  <1>1. ASSUME OfferInv, [Next]_vars
        PROVE  [pc[Main] = "config" =>
                   /\ Documented(file) /\ ~KnownTwice(file)
                         => pc'[Main] = "known"
                   /\ pc'[Main] = "known" =>
                         /\ Documented(ButForChallenges(file))
                         /\ ~KnownTwice(file)
                         /\ Workable(config)]_vars
    <2> SUFFICES ASSUME Next, pc[Main] = "config", ~UNCHANGED vars
                 PROVE  /\ Documented(file) /\ ~KnownTwice(file)
                              => pc'[Main] = "known"
                        /\ pc'[Main] = "known" =>
                              /\ Documented(ButForChallenges(file))
                              /\ ~KnownTwice(file)
                              /\ Workable(config)
      BY <1>1
    <2>1. TypeInv /\ file \in Files /\ Main \in DOMAIN pc
      BY <1>1 DEF OfferInv, TypeInv
    <2>2. ReadConfig
      <3>1. \A t \in Tasks, a \in Addresses : ~Trying(t, a)
        BY <1>1, EmptyIsList
        DEF OfferInv, MainConnects, Trying, Running
      <3>2. \A t \in Tasks : ~Attempt(t)
        BY <3>1 DEF Attempt, Opens, Refuses, Raises
      <3>3. \A t \in Offerers :
               /\ ~LockTask(t)
               /\ ~ConnectNext(t)
               /\ \A offer \in Offers : ~PeerOffer(t, offer)
        BY DEF LockTask, Filter, ConnectMissing, ConnectNext, PeerOffer, Loop,
               OfferGoesOn, Running
      <3>4. ~OthersDo
        BY DEF OthersDo, Running
      <3>5. MainTask
        BY <3>2, <3>3, <3>4
        DEF Next, StartApiServer, SaysWhere, Promoted, Joins, InboundCloses,
            OutboundCloses
      <3>6. QED
        BY <3>5
        DEF MainTask, ContactKnownPeers, KnownPeersContacted,
            ContactBootstrapper, BootstrapperContacted, CreateTasks,
            StartPeerServer, MainGoesOn
    <2>3. pc'[Main] = "known" <=> Accepts(file)
      BY <2>1, <2>2 DEF ReadConfig, MainGoesOn
    <2>4. QED
      BY <2>1, <2>3, AcceptedIsWorkable, AcceptsTheDocumented DEF config
  <1>2. QED
    BY <1>1, OfferInvariant, PTL DEF Spec, ConfigAsDocumented

-----------------------------------------------------------------------------
(***************************************************************************)
(* Who opens connections.  Before the node serves, only main does, and     *)
(* only while it connects; after that only the offerer that holds the lock *)
(* does.  So at most one task has attempts or connections that are not     *)
(* listed yet.                                                             *)
(***************************************************************************)
Idle(t) == trying[t] = Empty /\ opened[t] = Empty

OfferersWait ==
    \A t \in Offerers :
        /\ pc[t] # "connect" => Idle(t)
        /\ pc[t] = "connect" => lock = t /\ pc[Main] = "serve"

MainWaits ==
    /\ pc[Main] \notin {"connectKnown", "connectBootstrapper"} => Idle(Main)
    /\ pc[Main] \in {"config", "known", "connectKnown", "connectBootstrapper"}
          => pull = Empty

OpenersInv == TypeInv /\ OfferersWait /\ MainWaits

LEMMA OpenersInit == Init => OpenersInv
  BY TypeInit, TasksAssumption
  DEF Init, OpenersInv, OfferersWait, MainWaits, Idle

\* Who makes an attempt is connecting, and the only one who is.
LEMMA OnlyOpener ==
    ASSUME OpenersInv, NEW t \in Tasks, ~Idle(t)
    PROVE  /\ t = Main => /\ pc[Main] \in {"connectKnown", "connectBootstrapper"}
                          /\ pull = Empty
           /\ t # Main => /\ pc[t] = "connect" /\ lock = t
                          /\ pc[Main] = "serve"
           /\ \A u \in Tasks \ {t} : Idle(u)
  BY TasksAssumption DEF OpenersInv, OfferersWait, MainWaits

LEMMA AttemptOpeners ==
    ASSUME OpenersInv, NEW t \in Tasks, NEW a \in Addresses,
           Opens(t, a) \/ Refuses(t, a) \/ Raises(t, a)
    PROVE  OpenersInv'
  <1>1. TypeInv /\ TypeInv'
    BY AttemptTypes DEF OpenersInv
  <1>2. ~Idle(t)
    BY EmptyIsList DEF Opens, Refuses, Raises, Trying, Idle
  <1>3. /\ \A u \in Tasks \ {t} : /\ trying'[u] = trying[u]
                                  /\ opened'[u] = opened[u]
        /\ pull' = pull
    BY <1>1 DEF Opens, Refuses, Raises, TypeInv
  <1>4. CASE Opens(t, a) \/ Refuses(t, a)
    <2>1. pc' = pc /\ lock' = lock
      BY <1>4 DEF Opens, Refuses
    <2>2. OfferersWait' /\ MainWaits'
      BY <1>2, <1>3, <2>1, OnlyOpener, TasksAssumption
      DEF OpenersInv, OfferersWait, MainWaits, Idle
    <2>3. QED
      BY <1>1, <2>2 DEF OpenersInv
  <1>5. CASE Raises(t, a)
    <2>1. /\ pc'[t] = IF t = Main THEN "aborted" ELSE "dead"
          /\ trying'[t] = Empty /\ opened'[t] = Empty
          /\ \A u \in Tasks \ {t} : pc'[u] = pc[u]
      BY <1>1, <1>5 DEF Raises, TypeInv
    <2>2. CASE t = Main
      <3>1. \A u \in Offerers : pc[u] # "connect" /\ pc'[u] = pc[u]
        BY <1>2, <2>1, <2>2, OnlyOpener, TasksAssumption
        DEF OpenersInv, OfferersWait
      <3>2. OfferersWait' /\ MainWaits'
        BY <1>3, <2>1, <2>2, <3>1, TasksAssumption
        DEF OpenersInv, OfferersWait, MainWaits, Idle
      <3>3. QED
        BY <1>1, <3>2 DEF OpenersInv
    <2>3. CASE t # Main
      <3>1. /\ pc'[Main] = pc[Main] /\ pc[Main] = "serve"
            /\ \A u \in Offerers \ {t} : pc[u] # "connect"
        BY <1>2, <2>1, <2>3, OnlyOpener
        DEF OpenersInv, OfferersWait
      <3>2. OfferersWait' /\ MainWaits'
        BY <1>3, <2>1, <2>3, <3>1, TasksAssumption
        DEF OpenersInv, OfferersWait, MainWaits, Idle
      <3>3. QED
        BY <1>1, <3>2 DEF OpenersInv
    <2>4. QED
      BY <2>2, <2>3
  <1>6. QED
    BY <1>4, <1>5

LEMMA MainOpeners ==
    ASSUME OpenersInv, MainTask \/ StartApiServer
    PROVE  OpenersInv'
  <1>1. TypeInv /\ TypeInv'
    BY MainTypes DEF OpenersInv
  <1> USE DEF Idle, OfferersWait, MainWaits
  <1>2. CASE StartApiServer
    BY <1>1, <1>2 DEF StartApiServer, factory, OpenersInv
  <1>3. CASE MainTask
    <2>1. /\ \A t \in Offerers :
                /\ pc'[t] = pc[t] /\ pc[t] # "connect"
                /\ trying'[t] = trying[t] /\ opened'[t] = opened[t]
          /\ pc'[Main] # "serve" \/ Idle(Main)'
      BY <1>1, <1>3, TasksAssumption
      DEF MainTask, ReadConfig, ContactKnownPeers, KnownPeersContacted,
          ContactBootstrapper, BootstrapperContacted, CreateTasks,
          StartPeerServer, Contact, Contacted, MainGoesOn, OpenersInv, TypeInv
    <2>2. MainWaits'
      <3>1. CASE ContactBootstrapper
        <4>1. Size(pull) = 0 => pull = Empty
          BY <1>1, SizeOfNone DEF TypeInv
        <4>2. QED
          BY <1>1, <3>1, <4>1
          DEF ContactBootstrapper, Contact, MainGoesOn, OpenersInv, TypeInv
      <3>2. CASE KnownPeersContacted \/ BootstrapperContacted
        BY <1>1, <3>2
        DEF KnownPeersContacted, BootstrapperContacted, Contacted, AllTried,
            MainGoesOn, OpenersInv, TypeInv
      <3>3. CASE ReadConfig \/ CreateTasks
        BY <1>1, <3>3 DEF ReadConfig, CreateTasks, MainGoesOn, OpenersInv, TypeInv
      <3>4. CASE StartPeerServer
        BY <1>1, <3>4
        DEF StartPeerServer, Served, MainGoesOn, OpenersInv, TypeInv
      <3>5. CASE ContactKnownPeers
        BY <1>1, <3>5
        DEF ContactKnownPeers, Contact, MainGoesOn, OpenersInv, TypeInv
      <3>6. QED
        BY <1>3, <3>1, <3>2, <3>3, <3>4, <3>5 DEF MainTask
    <2>3. QED
      BY <1>1, <2>1, <2>2 DEF OpenersInv
  <1>4. QED
    BY <1>2, <1>3

LEMMA LoopOthers ==
    ASSUME TypeInv, NEW t \in Offerers, NEW listed \in FiniteLists,
           NEW left \in FiniteLists, Loop(t, listed, left)
    PROVE  /\ \A u \in Tasks \ {t} : trying'[u] = trying[u] /\ pc'[u] = pc[u]
           /\ pc'[t] \in {"connect", "read"}
  <1>1. ASSUME NEW batch, Round(t, left, batch)
        PROVE  /\ \A u \in Tasks \ {t} :
                     trying'[u] = trying[u] /\ pc'[u] = pc[u]
               /\ pc'[t] = "connect"
    BY <1>1 DEF Round, TypeInv
  <1>2. ASSUME LastRound(t)
        PROVE  /\ \A u \in Tasks \ {t} :
                     trying'[u] = trying[u] /\ pc'[u] = pc[u]
               /\ pc'[t] = "read"
    BY <1>2 DEF LastRound, TypeInv
  <1>3. QED
    BY <1>1, <1>2, LoopFacts

\* What the loop does to t, and to nobody else.
LEMMA LoopOpeners ==
    ASSUME OpenersInv, NEW t \in Offerers, NEW listed \in FiniteLists,
           Loop(t, listed, candidates[t]),
           trying[t] = Empty, opened'[t] = Empty,
           \A u \in Tasks \ {t} : opened'[u] = opened[u],
           \A u \in Offerers \ {t} : pc[u] # "connect"
    PROVE  OfferersWait' /\ MainWaits'
  <1>1. TypeInv /\ candidates[t] \in FiniteLists
    BY DEF OpenersInv, TypeInv
  <1>2. /\ Running
        /\ \A u \in Tasks \ {t} : trying'[u] = trying[u] /\ pc'[u] = pc[u]
    BY <1>1, LoopFacts, LoopOthers
  <1>3. \/ pc'[t] = "connect" /\ lock' = t
        \/ pc'[t] = "read" /\ trying'[t] = trying[t]
    BY <1>1, LoopFacts DEF Round, LastRound, TypeInv
  <1>4. QED
    BY <1>2, <1>3, TasksAssumption
    DEF OpenersInv, OfferersWait, MainWaits, Idle, Running

LEMMA OfferOpeners ==
    ASSUME OpenersInv, NEW t \in Offerers,
           \/ Filter(t) \/ ConnectMissing(t) \/ ConnectNext(t)
           \/ \E offer \in Offers : PeerOffer(t, offer)
    PROVE  OpenersInv'
  <1>1. TypeInv /\ TypeInv' /\ candidates[t] \in FiniteLists
    BY OfferTypes DEF OpenersInv, TypeInv
  <1>2. CASE Filter(t) \/ \E offer \in Offers : PeerOffer(t, offer)
    <2>1. /\ Running /\ pc[t] # "connect"
          /\ \/ pc' = [pc EXCEPT ![t] = "missing"]
             \/ pc' = [pc EXCEPT ![t] = "collect"]
          /\ UNCHANGED <<lock, pull, trying, opened>>
      BY <1>2 DEF Filter, PeerOffer, OfferGoesOn, factory
    <2>2. /\ \A u \in Offerers : pc'[u] = pc[u] \/ u = t
          /\ pc'[t] # "connect" /\ pc'[Main] = pc[Main]
      BY <1>1, <2>1, TasksAssumption DEF TypeInv
    <2>3. OfferersWait' /\ MainWaits'
      BY <2>1, <2>2 DEF OpenersInv, OfferersWait, MainWaits, Idle
    <2>4. QED
      BY <1>1, <2>3 DEF OpenersInv
  <1>3. CASE ConnectMissing(t)
    <2>1. /\ trying[t] = Empty /\ opened' = opened /\ opened[t] = Empty
          /\ \A u \in Offerers : pc[u] # "connect"
          /\ Loop(t, pull, candidates[t]) /\ pull \in FiniteLists
      BY <1>1, <1>3, TasksAssumption
      DEF ConnectMissing, OpenersInv, OfferersWait, Idle, TypeInv
    <2>2. QED
      BY <1>1, <2>1, LoopOpeners DEF OpenersInv
  <1>4. CASE ConnectNext(t)
    <2>1. /\ trying[t] = Empty /\ opened' = [opened EXCEPT ![t] = Empty]
          /\ \A u \in Offerers \ {t} : pc[u] # "connect"
          /\ Loop(t, Plus(pull, opened[t]), candidates[t])
          /\ Plus(pull, opened[t]) \in FiniteLists
      BY <1>1, <1>4, PlusIsList
      DEF ConnectNext, AllTried, OpenersInv, OfferersWait, TypeInv
    <2>2. opened'[t] = Empty /\ \A u \in Tasks \ {t} : opened'[u] = opened[u]
      BY <1>1, <2>1 DEF TypeInv
    <2>3. QED
      BY <1>1, <2>1, <2>2, LoopOpeners DEF OpenersInv
  <1>5. QED
    BY <1>2, <1>3, <1>4

LEMMA OthersOpeners ==
    ASSUME OpenersInv, NEW a \in Others,
           \/ SaysWhere(a) \/ Promoted(a) \/ Joins(a)
           \/ InboundCloses(a) \/ OutboundCloses(a)
    PROVE  OpenersInv'
  <1>1. TypeInv'
    BY OthersTypes DEF OpenersInv
  <1>2. Running /\ UNCHANGED <<pc, lock, trying, opened>>
    BY DEF SaysWhere, Promoted, Joins, InboundCloses, OutboundCloses, OthersDo,
           factory
  <1>3. QED
    BY <1>1, <1>2 DEF Running, OpenersInv, OfferersWait, MainWaits, Idle

LEMMA OpenersStep == OpenersInv /\ [Next]_vars => OpenersInv'
  <1> SUFFICES ASSUME OpenersInv, [Next]_vars PROVE OpenersInv'
    OBVIOUS
  <1>1. CASE MainTask \/ StartApiServer
    BY <1>1, MainOpeners
  <1>2. CASE \E t \in Tasks : Attempt(t)
    BY <1>2, AttemptOpeners DEF Attempt
  <1>3. CASE \E t \in Offerers :
                \/ LockTask(t) \/ ConnectNext(t)
                \/ \E offer \in Offers : PeerOffer(t, offer)
    BY <1>3, OfferOpeners DEF LockTask
  <1>4. CASE \E a \in Others :
                \/ a \in Callers /\ SaysWhere(a)
                \/ Promoted(a) \/ Joins(a)
                \/ InboundCloses(a) \/ OutboundCloses(a)
    BY <1>4, OthersOpeners
  <1>5. CASE UNCHANGED vars
    BY <1>5, TypeStep
    DEF vars, offerVars, factory, OpenersInv, OfferersWait, MainWaits, Idle
  <1>6. QED
    BY <1>1, <1>2, <1>3, <1>4, <1>5 DEF Next

-----------------------------------------------------------------------------
(***************************************************************************)
(* The capacity.                                                           *)
(***************************************************************************)
\* The connections of main, which may be more than the capacity if so many
\* known peers are configured.
MainCapacity ==
    IF Len(config.known_peers) > MaxPull(config)
    THEN Len(config.known_peers) ELSE MaxPull(config)

\* Each opener has room for what it opens, when the list has what it has.
Bounded ==
    Accepts(file) =>
        /\ Size(pull) <= MainCapacity
        /\ Size(trying[Main]) + Size(opened[Main]) <= MainCapacity
        /\ \A t \in Offerers : pc[t] = "connect" =>
              Size(pull) + Size(trying[t]) + Size(opened[t])
                 <= MaxPull(config)

LostBounded ==
    LET failed == {t \in Offerers : pc[t] = "dead"}
    IN  Accepts(file) => lost <= Cardinality(failed) * MaxPull(config)

CapacityInv == OpenersInv /\ Bounded /\ LostBounded

LEMMA CapacityInit == Init => CapacityInv
  <1> SUFFICES ASSUME Init PROVE CapacityInv
    OBVIOUS
  <1>1. OpenersInv
    BY OpenersInit
  <1>2. ASSUME Accepts(file) PROVE MainCapacity \in Nat /\ MaxPull(config) \in Nat
    BY <1>1, <1>2, ConfiguredPeers
    DEF OpenersInv, TypeInv, MainCapacity, config
  <1>3. Bounded
    BY <1>2, EmptyIsList, TasksAssumption DEF Init, Bounded
  <1>4. LostBounded
    <2> DEFINE failed == {t \in Offerers : pc[t] = "dead"}
    <2>1. failed = {}
      BY TasksAssumption DEF Init
    <2>2. Cardinality(failed) = 0 /\ lost = 0
      BY <2>1, FS_EmptySet DEF Init
    <2> HIDE DEF failed
    <2>3. Accepts(file) => lost <= Cardinality(failed) * MaxPull(config)
      BY <1>2, <2>2
    <2>4. QED
      BY <2>3 DEF LostBounded, failed
  <1>5. QED
    BY <1>1, <1>3, <1>4 DEF CapacityInv

\* The numbers the bounds are about.
LEMMA SizesAreNumbers ==
    ASSUME TypeInv
    PROVE  /\ Size(pull) \in Nat
           /\ \A t \in Tasks : Size(trying[t]) \in Nat /\ Size(opened[t]) \in Nat
           /\ Accepts(file) =>
                 /\ MaxPull(config) \in Nat \ {0} /\ MainCapacity \in Nat
                 /\ MaxPull(config) <= MainCapacity
                 /\ Cardinality(KnownPeers) <= MainCapacity
  <1>1. Accepts(file) =>
           /\ MaxPull(config) \in Nat \ {0}
           /\ Len(config.known_peers) \in Nat
           /\ Cardinality(KnownPeers) <= Len(config.known_peers)
           /\ Cardinality(KnownPeers) \in Nat
    BY ConfiguredPeers, FS_CardinalityType DEF TypeInv, config, KnownPeers
  <1>2. QED
    BY <1>1, SizeType DEF TypeInv, MainCapacity

\* An exception leaves at most as many connections behind as there is room for.
LEMMA RaisesLoses ==
    ASSUME CapacityInv, NEW t \in Offerers, NEW a \in Addresses, Raises(t, a)
    PROVE  LostBounded'
  <1> DEFINE failed == {u \in Offerers : pc[u] = "dead"}
             k == Cardinality(failed)
             m == MaxPull(config)
  <1>1. OpenersInv /\ TypeInv /\ ~Idle(t) /\ t \in Tasks /\ t # Main
    BY EmptyIsList, TasksAssumption
    DEF CapacityInv, OpenersInv, Raises, Trying, Idle
  <1>2. pc[t] = "connect"
    BY <1>1, OnlyOpener
  <1>3. /\ pc' = [pc EXCEPT ![t] = "dead"] /\ file' = file
        /\ lost' <= lost + Size(opened[t]) + Size(trying[t])
    BY <1>1, SizesAreNumbers DEF Raises, TypeInv
  <1>4. {u \in Offerers : pc'[u] = "dead"} = failed \cup {t}
    BY <1>1, <1>3 DEF TypeInv
  <1>5. IsFiniteSet(failed) /\ t \notin failed
    BY <1>2, FiniteAssumption, FS_Subset
  <1>6. k \in Nat /\ Cardinality(failed \cup {t}) = k + 1
    BY <1>5, FS_AddElement, FS_CardinalityType
  <1>7. ASSUME Accepts(file)
        PROVE  lost' <= (k + 1) * m
    <2>1. Size(opened[t]) + Size(trying[t]) <= m /\ m \in Nat
      BY <1>1, <1>2, <1>7, SizesAreNumbers DEF CapacityInv, Bounded
    <2>2. lost <= k * m /\ lost \in Nat
      BY <1>1, <1>7 DEF CapacityInv, LostBounded, TypeInv
    <2>3. Size(opened[t]) \in Nat /\ Size(trying[t]) \in Nat /\ lost' \in Int
      BY <1>1, SizesAreNumbers, AttemptTypes DEF TypeInv
    <2> HIDE DEF k, m
    <2>4. k * m \in Nat /\ (k + 1) * m = k * m + m
      <3>1. \A i, j \in Nat : i * j \in Nat /\ (i + 1) * j = i * j + j
        OBVIOUS
      <3>2. QED
        BY <1>6, <2>1, <3>1
    <2>5. QED
      BY <1>3, <2>1, <2>2, <2>3, <2>4
  <1>8. config' = config
    BY <1>3 DEF config
  <1>9. QED
    BY <1>3, <1>4, <1>6, <1>7, <1>8 DEF LostBounded

LEMMA AttemptCapacity ==
    ASSUME CapacityInv, NEW t \in Tasks, NEW a \in Addresses,
           Opens(t, a) \/ Refuses(t, a) \/ Raises(t, a)
    PROVE  CapacityInv'
  <1>1. /\ OpenersInv /\ OpenersInv' /\ TypeInv /\ TypeInv'
        /\ trying[t] \in FiniteLists /\ opened[t] \in FiniteLists
        /\ In(a, trying[t])
    BY AttemptOpeners
    DEF CapacityInv, OpenersInv, Opens, Refuses, Raises, Trying, TypeInv
  <1>2. file' = file /\ pull' = pull /\ config' = config
    BY DEF Opens, Refuses, Raises, config
  <1>3. MainCapacity' = MainCapacity
    BY <1>2 DEF MainCapacity
  <1>4. /\ Size(trying[t]) \in Nat /\ Size(opened[t]) \in Nat /\ Size(pull) \in Nat
        /\ Accepts(file) => MaxPull(config) \in Nat /\ MainCapacity \in Nat
    BY <1>1, SizesAreNumbers
  <1>5. CASE Opens(t, a) \/ Refuses(t, a)
    <2>1. /\ pc' = pc /\ lost' = lost
          /\ trying' = [trying EXCEPT ![t] = [trying[t] EXCEPT ![a] = @ - 1]]
          /\ \/ opened' = opened
             \/ opened' = [opened EXCEPT ![t] = [opened[t] EXCEPT ![a] = @ + 1]]
      BY <1>1, <1>5 DEF Opens, Refuses, TypeInv
    <2>2. /\ Size([trying[t] EXCEPT ![a] = @ - 1]) = Size(trying[t]) - 1
          /\ Size([opened[t] EXCEPT ![a] = @ + 1]) = Size(opened[t]) + 1
      BY <1>1, OneLess, OneMore
    <2>3. /\ \A u \in Tasks \ {t} : trying'[u] = trying[u] /\ opened'[u] = opened[u]
          /\ Size(trying'[t]) + Size(opened'[t])
                <= Size(trying[t]) + Size(opened[t])
          /\ Size(trying'[t]) + Size(opened'[t]) \in Int
          /\ Size(trying'[t]) \in Int /\ Size(opened'[t]) \in Int
      BY <1>1, <1>4, <2>1, <2>2 DEF TypeInv
    <2>4. Bounded'
      <3> SUFFICES ASSUME Accepts(file) PROVE
             /\ Size(pull) <= MainCapacity
             /\ Size(trying'[Main]) + Size(opened'[Main]) <= MainCapacity
             /\ \A u \in Offerers : pc[u] = "connect" =>
                   Size(pull) + Size(trying'[u]) + Size(opened'[u])
                      <= MaxPull(config)
        BY <1>2, <1>3, <2>1 DEF Bounded
      <3>1. /\ Size(pull) <= MainCapacity
            /\ Size(trying[Main]) + Size(opened[Main]) <= MainCapacity
            /\ \A u \in Offerers : pc[u] = "connect" =>
                  Size(pull) + Size(trying[u]) + Size(opened[u])
                     <= MaxPull(config)
        BY DEF CapacityInv, Bounded
      <3>2. Size(trying'[Main]) + Size(opened'[Main]) <= MainCapacity
        BY <1>4, <2>3, <3>1
      <3>3. ASSUME NEW u \in Offerers, pc[u] = "connect"
            PROVE  Size(pull) + Size(trying'[u]) + Size(opened'[u])
                      <= MaxPull(config)
        BY <1>4, <2>3, <3>1, <3>3
      <3>4. QED
        BY <3>1, <3>2, <3>3
    <2>5. LostBounded'
      BY <1>2, <2>1 DEF CapacityInv, LostBounded
    <2>6. QED
      BY <1>1, <2>4, <2>5 DEF CapacityInv
  <1>6. CASE Raises(t, a)
    <2>1. /\ trying' = [trying EXCEPT ![t] = Empty]
          /\ opened' = [opened EXCEPT ![t] = Empty]
          /\ pc' = [pc EXCEPT ![t] = IF t = Main THEN "aborted" ELSE "dead"]
          /\ t = Main => lost' = lost
      BY <1>6 DEF Raises
    <2>2. /\ Size(trying'[t]) = 0 /\ Size(opened'[t]) = 0
          /\ \A u \in Tasks \ {t} :
                /\ trying'[u] = trying[u] /\ opened'[u] = opened[u]
                /\ pc'[u] = pc[u]
          /\ t # Main => pc'[t] = "dead"
      BY <1>1, <2>1, EmptyIsList DEF TypeInv
    <2>3. Bounded'
      <3> SUFFICES ASSUME Accepts(file) PROVE
             /\ Size(pull) <= MainCapacity
             /\ Size(trying'[Main]) + Size(opened'[Main]) <= MainCapacity
             /\ \A u \in Offerers : pc'[u] = "connect" =>
                   Size(pull) + Size(trying'[u]) + Size(opened'[u])
                      <= MaxPull(config)
        BY <1>2, <1>3 DEF Bounded
      <3>1. /\ Size(pull) <= MainCapacity
            /\ Size(trying[Main]) + Size(opened[Main]) <= MainCapacity
            /\ \A u \in Offerers : pc[u] = "connect" =>
                  Size(pull) + Size(trying[u]) + Size(opened[u])
                     <= MaxPull(config)
        BY DEF CapacityInv, Bounded
      <3>2. Size(trying'[Main]) + Size(opened'[Main]) <= MainCapacity
        BY <1>4, <2>2, <3>1
      <3>3. ASSUME NEW u \in Offerers, pc'[u] = "connect"
            PROVE  Size(pull) + Size(trying'[u]) + Size(opened'[u])
                      <= MaxPull(config)
        <4>1. u # t
          BY <2>2, <3>3, TasksAssumption
        <4>2. QED
          BY <2>2, <3>1, <3>3, <4>1
      <3>4. QED
        BY <3>1, <3>2, <3>3
    <2>4. LostBounded'
      <3>1. CASE t = Main
        <4>1. \A u \in Offerers : pc'[u] = pc[u]
          BY <2>2, <3>1, TasksAssumption
        <4>2. QED
          BY <1>2, <2>1, <3>1, <4>1 DEF CapacityInv, LostBounded
      <3>2. CASE t # Main
        BY <1>6, <3>2, RaisesLoses
      <3>3. QED
        BY <3>1, <3>2
    <2>5. QED
      BY <1>1, <2>3, <2>4 DEF CapacityInv
  <1>7. QED
    BY <1>5, <1>6

LEMMA MainCapacityStep ==
    ASSUME CapacityInv, MainTask \/ StartApiServer
    PROVE  CapacityInv'
  <1>1. OpenersInv /\ OpenersInv' /\ TypeInv /\ TypeInv'
    BY MainOpeners DEF CapacityInv, OpenersInv
  <1>2. /\ file' = file /\ lost' = lost /\ config' = config
        /\ \A t \in Offerers : pc'[t] = pc[t]
    BY <1>1, TasksAssumption
    DEF MainTask, StartApiServer, ReadConfig, ContactKnownPeers,
        KnownPeersContacted, ContactBootstrapper, BootstrapperContacted,
        CreateTasks, StartPeerServer, MainGoesOn, factory, config, TypeInv
  <1>3. MainCapacity' = MainCapacity
    BY <1>2 DEF MainCapacity
  <1>4. LostBounded'
    BY <1>2 DEF CapacityInv, LostBounded
  <1>5. CASE StartApiServer
    BY <1>1, <1>2, <1>3, <1>4, <1>5
    DEF StartApiServer, factory, CapacityInv, Bounded
  <1>6. CASE MainTask
    <2>1. \A t \in Offerers : pc[t] # "connect"
      BY <1>1, <1>6
      DEF MainTask, ReadConfig, ContactKnownPeers, KnownPeersContacted,
          ContactBootstrapper, BootstrapperContacted, CreateTasks,
          StartPeerServer, MainGoesOn, OpenersInv, OfferersWait
    <2>2. ASSUME Accepts(file)
          PROVE  /\ Size(pull') <= MainCapacity
                 /\ Size(trying'[Main]) + Size(opened'[Main]) <= MainCapacity
      <3>1. /\ Size(pull) <= MainCapacity /\ MainCapacity \in Nat \ {0}
            /\ Size(trying[Main]) + Size(opened[Main]) <= MainCapacity
            /\ Cardinality(KnownPeers) <= MainCapacity
            /\ Size(trying[Main]) \in Nat /\ Size(opened[Main]) \in Nat
        BY <1>1, <2>2, SizesAreNumbers DEF CapacityInv, Bounded
      <3>2. ASSUME NEW some \in SUBSET Addresses, IsFiniteSet(some),
                   Cardinality(some) <= MainCapacity, Idle(Main), Contact(some)
            PROVE  /\ Size(pull') <= MainCapacity
                   /\ Size(trying'[Main]) + Size(opened'[Main])
                         <= MainCapacity
        <4>1. /\ pull' = pull /\ trying'[Main] = Listing(some)
              /\ opened'[Main] = Empty
          BY <1>1, <3>2 DEF Contact, Idle, TypeInv
        <4>2. Size(Listing(some)) = Cardinality(some) /\ Size(Empty) = 0
              /\ Cardinality(some) \in Nat
          BY <3>2, ListingIsList, EmptyIsList, FS_CardinalityType
        <4>3. QED
          BY <3>1, <3>2, <4>1, <4>2
      <3>3. ASSUME Contacted
            PROVE  /\ Size(pull') <= MainCapacity
                   /\ Size(trying'[Main]) + Size(opened'[Main])
                         <= MainCapacity
        <4>1. /\ pull' = opened[Main] /\ trying'[Main] = Empty
              /\ opened'[Main] = Empty
          BY <1>1, <3>3 DEF Contacted, AllTried, TypeInv
        <4>2. QED
          BY <3>1, <4>1, EmptyIsList
      <3>4. CASE KnownPeersContacted \/ BootstrapperContacted
        BY <3>3, <3>4 DEF KnownPeersContacted, BootstrapperContacted
      <3>5. CASE ContactKnownPeers /\ KnownPeers # {}
        <4>1. /\ KnownPeers \in SUBSET Addresses /\ IsFiniteSet(KnownPeers)
          BY <1>1, <2>2, ConfiguredPeers DEF TypeInv, KnownPeers, config
        <4>2. Idle(Main) /\ Contact(KnownPeers)
          BY <1>1, <3>5
          DEF ContactKnownPeers, MainGoesOn, OpenersInv, MainWaits
        <4>3. QED
          BY <3>1, <3>2, <4>1, <4>2
      <3>6. CASE ContactBootstrapper /\ Size(pull) = 0
        <4> DEFINE some == {config.address["bootstrapper"]}
        <4>1. /\ some \in SUBSET Addresses /\ IsFiniteSet(some)
              /\ Cardinality(some) = 1
          BY <1>1, <2>2, ConfiguredPeers, FS_Singleton DEF TypeInv, config
        <4>2. Idle(Main) /\ Contact(some)
          BY <1>1, <3>6
          DEF ContactBootstrapper, MainGoesOn, OpenersInv, MainWaits
        <4> HIDE DEF some
        <4>3. QED
          BY <3>1, <3>2, <4>1, <4>2
      <3>7. CASE UNCHANGED <<pull, trying, opened>>
        BY <3>1, <3>7
      <3>8. QED
        BY <1>6, <3>4, <3>5, <3>6, <3>7
        DEF MainTask, ReadConfig, ContactKnownPeers, ContactBootstrapper,
            CreateTasks, StartPeerServer
    <2>3. Bounded'
      BY <1>2, <1>3, <2>1, <2>2 DEF Bounded
    <2>4. QED
      BY <1>1, <1>4, <2>3 DEF CapacityInv
  <1>7. QED
    BY <1>5, <1>6

\* The batch is as large as the number that is missing, or smaller.
LEMMA LoopCapacity ==
    ASSUME CapacityInv, NEW t \in Offerers, NEW listed \in FiniteLists,
           Loop(t, listed, candidates[t]), pc[t] \in {"missing", "connect"},
           UNCHANGED <<file, lost>>, pull' = listed, trying[t] = Empty,
           Size(listed) <= MainCapacity, opened'[t] = Empty,
           \A u \in Tasks \ {t} : opened'[u] = opened[u],
           \A u \in Offerers \ {t} : pc[u] # "connect"
    PROVE  Bounded' /\ LostBounded'
  <1>1. TypeInv /\ candidates[t] \in FiniteLists
    BY DEF CapacityInv, OpenersInv, TypeInv
  <1>2. /\ config' = config /\ MainCapacity' = MainCapacity
        /\ Accepts(file) /\ Running
        /\ MaxPull(config) \in Nat /\ Size(listed) \in Nat
    BY <1>1, LoopFacts DEF config, MainCapacity
  <1>3. /\ \A u \in Tasks \ {t} : trying'[u] = trying[u] /\ pc'[u] = pc[u]
        /\ pc'[t] \in {"connect", "read"}
    BY <1>1, LoopOthers
  <1>4. pc'[t] = "connect" =>
           /\ Size(trying'[t]) <= MaxPull(config) - Size(listed)
           /\ Size(trying'[t]) \in Nat
    <2>1. ASSUME NEW batch, Round(t, candidates[t], batch),
                 Batch(candidates[t], MaxPull(config) - Size(listed), batch)
          PROVE  /\ Size(trying'[t]) <= MaxPull(config) - Size(listed)
                 /\ Size(trying'[t]) \in Nat
      BY <1>1, <2>1, SizeType DEF Round, Batch, TypeInv
    <2>2. LastRound(t) => pc'[t] = "read"
      BY <1>1 DEF LastRound, TypeInv
    <2>3. QED
      BY <1>1, <2>1, <2>2, LoopFacts
  <1>5. LostBounded'
    <2>1. {u \in Offerers : pc'[u] = "dead"} = {u \in Offerers : pc[u] = "dead"}
      BY <1>3
    <2>2. QED
      BY <1>2, <2>1 DEF CapacityInv, LostBounded
  <1>6. Bounded'
    <2>1. /\ Size(trying'[Main]) + Size(opened'[Main]) <= MainCapacity
      BY <1>2, <1>3, TasksAssumption DEF CapacityInv, Bounded
    <2>2. pc'[t] = "connect" =>
             Size(listed) + Size(trying'[t]) + Size(opened'[t])
                <= MaxPull(config)
      BY <1>2, <1>4, EmptyIsList
    <2>3. \A u \in Offerers \ {t} : pc'[u] # "connect"
      BY <1>3
    <2>4. QED
      BY <1>2, <2>1, <2>2, <2>3 DEF Bounded
  <1>7. QED
    BY <1>5, <1>6

LEMMA OfferCapacity ==
    ASSUME CapacityInv, NEW t \in Offerers,
           \/ Filter(t) \/ ConnectMissing(t) \/ ConnectNext(t)
           \/ \E offer \in Offers : PeerOffer(t, offer)
    PROVE  CapacityInv'
  <1>1. OpenersInv /\ OpenersInv' /\ TypeInv
    BY OfferOpeners DEF CapacityInv, OpenersInv
  <1>2. CASE Filter(t) \/ \E offer \in Offers : PeerOffer(t, offer)
    <2>1. /\ pc[t] \in {"read", "collect"}
          /\ \/ pc' = [pc EXCEPT ![t] = "missing"]
             \/ pc' = [pc EXCEPT ![t] = "collect"]
          /\ UNCHANGED <<file, pull, trying, opened, lost>>
      BY <1>2 DEF Filter, PeerOffer, OfferGoesOn, factory
    <2>2. /\ \A u \in Offerers : pc'[u] = pc[u] \/ u = t
          /\ pc'[t] \notin {"connect", "dead"}
      BY <1>1, <2>1 DEF TypeInv
    <2>3. {u \in Offerers : pc'[u] = "dead"} = {u \in Offerers : pc[u] = "dead"}
      BY <2>1, <2>2
    <2>4. LostBounded'
      BY <2>1, <2>3 DEF CapacityInv, LostBounded, config
    <2>5. Bounded'
      BY <2>1, <2>2 DEF CapacityInv, Bounded, config, MainCapacity
    <2>6. QED
      BY <1>1, <2>4, <2>5 DEF CapacityInv
  <1>3. CASE ConnectMissing(t)
    <2>1. /\ trying[t] = Empty /\ opened' = opened /\ opened[t] = Empty
          /\ UNCHANGED <<file, lost, pull>> /\ pc[t] = "missing"
          /\ \A u \in Offerers : pc[u] # "connect"
          /\ Loop(t, pull, candidates[t]) /\ pull \in FiniteLists
      BY <1>1, <1>3, TasksAssumption
      DEF ConnectMissing, OpenersInv, OfferersWait, Idle, TypeInv
    <2>2. Size(pull) <= MainCapacity
      BY <1>1, <2>1, LoopFacts DEF CapacityInv, Bounded, TypeInv
    <2>3. QED
      BY <1>1, <2>1, <2>2, LoopCapacity DEF CapacityInv
  <1>4. CASE ConnectNext(t)
    <2> DEFINE listed == Plus(pull, opened[t])
    <2>1. /\ trying[t] = Empty /\ opened' = [opened EXCEPT ![t] = Empty]
          /\ UNCHANGED <<file, lost>> /\ pull' = listed
          /\ pc[t] = "connect"
          /\ \A u \in Offerers \ {t} : pc[u] # "connect"
          /\ Loop(t, listed, candidates[t])
          /\ pull \in FiniteLists /\ opened[t] \in FiniteLists
      BY <1>1, <1>4
      DEF ConnectNext, AllTried, OpenersInv, OfferersWait, TypeInv
    <2>2. listed \in FiniteLists /\ Size(listed) = Size(pull) + Size(opened[t])
      BY <2>1, PlusIsList
    <2>3. opened'[t] = Empty /\ \A u \in Tasks \ {t} : opened'[u] = opened[u]
      BY <1>1, <2>1 DEF TypeInv
    <2> HIDE DEF listed
    <2>4. Accepts(file)
      BY <1>1, <2>1, <2>2, LoopFacts DEF TypeInv
    <2>5. Size(listed) <= MainCapacity
      <3>1. Size(pull) + Size(trying[t]) + Size(opened[t]) <= MaxPull(config)
        BY <2>1, <2>4 DEF CapacityInv, Bounded
      <3>2. /\ Size(pull) \in Nat /\ Size(trying[t]) = 0
            /\ Size(opened[t]) \in Nat
            /\ MaxPull(config) \in Nat /\ MainCapacity \in Nat
            /\ MaxPull(config) <= MainCapacity
        BY <1>1, <2>1, <2>4, SizesAreNumbers, EmptyIsList
      <3>3. QED
        BY <2>2, <3>1, <3>2
    <2>6. QED
      BY <1>1, <2>1, <2>2, <2>3, <2>5, LoopCapacity DEF CapacityInv
  <1>5. QED
    BY <1>2, <1>3, <1>4

LEMMA OthersCapacity ==
    ASSUME CapacityInv, NEW a \in Others,
           \/ SaysWhere(a) \/ Promoted(a) \/ Joins(a)
           \/ InboundCloses(a) \/ OutboundCloses(a)
    PROVE  CapacityInv'
  <1>1. OpenersInv /\ OpenersInv' /\ TypeInv /\ a \in Addresses
    BY OthersOpeners, NodesAssumption DEF CapacityInv, OpenersInv
  <1>2. UNCHANGED <<file, pc, lock, trying, opened, lost>>
    BY DEF SaysWhere, Promoted, Joins, InboundCloses, OutboundCloses, OthersDo,
           factory
  <1>3. LostBounded'
    BY <1>2 DEF CapacityInv, LostBounded, config
  <1>4. Size(pull') \in Nat /\ Size(pull') <= Size(pull)
    <2>1. Size(pull) \in Nat
      BY <1>1, SizesAreNumbers
    <2>2. CASE OutboundCloses(a)
      <3>1. In(a, pull) /\ pull' = [pull EXCEPT ![a] = @ - 1]
        BY <2>2 DEF OutboundCloses
      <3>2. pull' \in FiniteLists /\ Size(pull') = Size(pull) - 1
        BY <1>1, <3>1, OneLess DEF TypeInv
      <3>3. QED
        BY <2>1, <3>2, SizeType
    <2>3. CASE pull' = pull
      BY <2>1, <2>3
    <2>4. QED
      BY <2>2, <2>3 DEF SaysWhere, Promoted, Joins, InboundCloses
  <1>5. Bounded'
    <2>1. /\ config' = config /\ MainCapacity' = MainCapacity
      BY <1>2 DEF config, MainCapacity
    <2> SUFFICES ASSUME Accepts(file) PROVE
           /\ Size(pull') <= MainCapacity
           /\ Size(trying[Main]) + Size(opened[Main]) <= MainCapacity
           /\ \A u \in Offerers : pc[u] = "connect" =>
                 Size(pull') + Size(trying[u]) + Size(opened[u])
                    <= MaxPull(config)
      BY <1>2, <2>1 DEF Bounded
    <2>2. /\ Size(pull) \in Nat /\ MainCapacity \in Nat /\ MaxPull(config) \in Nat
          /\ \A u \in Tasks : Size(trying[u]) \in Nat /\ Size(opened[u]) \in Nat
      BY <1>1, SizesAreNumbers
    <2>3. QED
      BY <1>4, <2>2 DEF CapacityInv, Bounded
  <1>6. QED
    BY <1>1, <1>3, <1>5 DEF CapacityInv

LEMMA CapacityStep == CapacityInv /\ [Next]_vars => CapacityInv'
  <1> SUFFICES ASSUME CapacityInv, [Next]_vars PROVE CapacityInv'
    OBVIOUS
  <1>1. CASE MainTask \/ StartApiServer
    BY <1>1, MainCapacityStep
  <1>2. CASE \E t \in Tasks : Attempt(t)
    BY <1>2, AttemptCapacity DEF Attempt
  <1>3. CASE \E t \in Offerers :
                \/ LockTask(t) \/ ConnectNext(t)
                \/ \E offer \in Offers : PeerOffer(t, offer)
    BY <1>3, OfferCapacity DEF LockTask
  <1>4. CASE \E a \in Others :
                \/ a \in Callers /\ SaysWhere(a)
                \/ Promoted(a) \/ Joins(a)
                \/ InboundCloses(a) \/ OutboundCloses(a)
    BY <1>4, OthersCapacity
  <1>5. CASE UNCHANGED vars
    BY <1>5, OpenersStep
    DEF vars, factory, CapacityInv, Bounded, LostBounded, config, MainCapacity
  <1>6. QED
    BY <1>1, <1>2, <1>3, <1>4, <1>5 DEF Next

LEMMA CapacityInvariant == Spec => []CapacityInv
  BY CapacityInit, CapacityStep, PTL DEF Spec

\* What the tasks have under way is what the only one has that opens
\* connections.
LEMMA UnderwaySum ==
    ASSUME OpenersInv
    PROVE  LET underway == [t \in Tasks |-> Size(trying[t]) + Size(opened[t])]
           IN  \/ SumFunction(underway) = 0
               \/ \E t \in Tasks :
                     /\ ~Idle(t)
                     /\ SumFunction(underway)
                           = Size(trying[t]) + Size(opened[t])
  <1> DEFINE underway == [t \in Tasks |-> Size(trying[t]) + Size(opened[t])]
  <1>1. IsFiniteSet(Tasks)
    BY FiniteAssumption, FS_AddElement
  <1>2. SumFunction(underway) = SumFunctionOnSet(underway, Tasks)
    BY DEF SumFunction
  <1>3. \A t \in Tasks : /\ underway[t] \in Nat
                         /\ Idle(t) => underway[t] = 0
    BY SizesAreNumbers, EmptyIsList DEF OpenersInv, Idle
  <1>4. CASE \A t \in Tasks : Idle(t)
    <2>1. \A t \in Tasks : underway[t] = 0
      BY <1>3, <1>4
    <2> HIDE DEF underway
    <2>2. SumFunctionOnSet(underway, Tasks) = 0
      BY <1>1, <2>1, SumOfZeros
    <2>3. QED
      BY <1>2, <2>2 DEF underway
  <1>5. CASE \E t \in Tasks : ~Idle(t)
    <2>1. PICK t \in Tasks : ~Idle(t)
      BY <1>5
    <2>2. \A u \in Tasks \ {t} : underway[u] = 0
      <3> HIDE DEF underway
      <3>1. QED
        BY <1>3, <2>1, OnlyOpener
    <2>3. underway[t] = Size(trying[t]) + Size(opened[t])
      OBVIOUS
    <2> HIDE DEF underway
    <2>4. SumFunctionOnSet(underway, Tasks) = underway[t]
      BY <1>1, <1>3, <2>2, SumOfOne
    <2>5. QED
      BY <1>2, <2>1, <2>3, <2>4 DEF underway
  <1>6. QED
    BY <1>4, <1>5

\* However many offers are handled at the same time, a node never has more
\* connections that it opened than its configuration allows, and loses at most
\* that many by each connection that ends by an exception (handle_peer_offer).
THEOREM CapacityIsKept == Spec => []CapacityKept
  <1>1. ASSUME CapacityInv PROVE CapacityKept
    <2> DEFINE underway == [t \in Tasks |-> Size(trying[t]) + Size(opened[t])]
    <2>1. OpenersInv /\ TypeInv
      BY <1>1 DEF CapacityInv, OpenersInv
    <2>2. ASSUME Accepts(file)
          PROVE  Size(pull) + SumFunction(underway) <= MainCapacity
      <3>1. /\ Size(pull) \in Nat /\ MaxPull(config) \in Nat
            /\ MainCapacity \in Nat /\ MaxPull(config) <= MainCapacity
            /\ \A t \in Tasks : Size(trying[t]) \in Nat /\ Size(opened[t]) \in Nat
        BY <2>1, <2>2, SizesAreNumbers
      <3>2. /\ Size(pull) <= MainCapacity
            /\ Size(trying[Main]) + Size(opened[Main]) <= MainCapacity
            /\ \A t \in Offerers : pc[t] = "connect" =>
                  Size(pull) + Size(trying[t]) + Size(opened[t])
                     <= MaxPull(config)
        BY <1>1, <2>2 DEF CapacityInv, Bounded
      <3>3. ASSUME NEW t \in Tasks, ~Idle(t)
            PROVE  Size(pull) + (Size(trying[t]) + Size(opened[t]))
                      <= MainCapacity
        <4>1. CASE t = Main
          <5>1. Size(pull) = 0
            BY <2>1, <3>3, <4>1, OnlyOpener, EmptyIsList
          <5>2. QED
            BY <3>1, <3>2, <4>1, <5>1
        <4>2. CASE t # Main
          <5>1. t \in Offerers /\ pc[t] = "connect"
            BY <2>1, <3>3, <4>2, OnlyOpener
          <5>2. QED
            BY <3>1, <3>2, <5>1
        <4>3. QED
          BY <4>1, <4>2
      <3>4. \/ SumFunction(underway) = 0
            \/ \E t \in Tasks :
                  /\ ~Idle(t)
                  /\ SumFunction(underway) = Size(trying[t]) + Size(opened[t])
        BY <2>1, UnderwaySum
      <3> HIDE DEF underway
      <3>5. QED
        BY <3>1, <3>2, <3>3, <3>4
    <2> HIDE DEF underway
    <2>3. QED
      BY <1>1, <2>2
      DEF CapacityKept, CapacityInv, LostBounded, MainCapacity, underway
  <1>2. QED
    BY <1>1, CapacityInvariant, PTL

-----------------------------------------------------------------------------
(***************************************************************************)
(* The candidates.  What has neither been listed nor tried since the offer *)
(* arrived is still a candidate: the filter takes away only addresses that *)
(* are listed now, or were when the offer arrived, and a round only those  *)
(* it tries.                                                               *)
(***************************************************************************)
UnusedIsLeft ==
    \A t \in Offerers : unused[t] \subseteq Members(candidates[t])

UnusedIsUnseen ==
    \A t \in Offerers : pc[t] = "collect" => unused[t] \cap seen[t] = {}

UnusedInv == TypeInv /\ UnusedIsLeft /\ UnusedIsUnseen

\* What was not used before a step that is observed.
LEMMA ObserveUnused ==
    ASSUME NEW batch, Observe(batch), NEW t \in Offerers
    PROVE  /\ unused'[t] \subseteq unused[t] \ Listed'
           /\ unused'[t] \cap batch[t] = {}
           /\ pc'[t] \in {"read", "dead"} => unused'[t] = {}
  BY DEF Observe

\* A step of t in which nobody else's candidates change.
LEMMA UnusedKept ==
    ASSUME UnusedInv, TypeInv', NEW t \in Offerers,
           \A u \in Offerers : unused'[u] \subseteq unused[u] \/ u = t,
           \A u \in Offerers \ {t} :
              /\ pc'[u] = pc[u] /\ seen'[u] = seen[u]
              /\ candidates'[u] = candidates[u],
           unused'[t] \subseteq Members(candidates'[t]),
           pc'[t] = "collect" => unused'[t] \cap seen'[t] = {}
    PROVE  UnusedInv'
  <1>1. ASSUME NEW u \in Offerers, u # t
        PROVE  /\ unused'[u] \subseteq Members(candidates'[u])
               /\ pc'[u] = "collect" => unused'[u] \cap seen'[u] = {}
    <2>1. /\ unused'[u] \subseteq unused[u]
          /\ pc'[u] = pc[u] /\ seen'[u] = seen[u]
          /\ Members(candidates'[u]) = Members(candidates[u])
      BY <1>1
    <2>2. QED
      BY <2>1 DEF UnusedInv, UnusedIsLeft, UnusedIsUnseen
  <1>2. UnusedIsLeft' /\ UnusedIsUnseen'
    BY <1>1 DEF UnusedIsLeft, UnusedIsUnseen, Members
  <1>3. QED
    BY <1>2 DEF UnusedInv

\* A step that changes no offer.
LEMMA OffersKept ==
    ASSUME UnusedInv, TypeInv', UNCHANGED <<seen, candidates>>,
           \A t \in Offerers : pc'[t] = pc[t] \/ pc'[t] # "collect",
           \A t \in Offerers : unused'[t] \subseteq unused[t]
    PROVE  UnusedInv'
  <1>1. \A t \in Offerers : Members(candidates'[t]) = Members(candidates[t])
    OBVIOUS
  <1>2. UnusedIsLeft'
    BY <1>1 DEF UnusedInv, UnusedIsLeft, Members
  <1>3. UnusedIsUnseen'
    BY DEF UnusedInv, UnusedIsUnseen
  <1>4. QED
    BY <1>2, <1>3 DEF UnusedInv

LEMMA UnusedInit == Init => UnusedInv
  BY TypeInit DEF Init, UnusedInv, UnusedIsLeft, UnusedIsUnseen

LEMMA AttemptUnused ==
    ASSUME UnusedInv, NEW t \in Tasks, NEW a \in Addresses,
           Opens(t, a) \/ Refuses(t, a) \/ Raises(t, a)
    PROVE  UnusedInv'
  <1>1. TypeInv /\ TypeInv'
    BY AttemptTypes DEF UnusedInv
  <1>2. CASE Opens(t, a) \/ Refuses(t, a)
    BY <1>1, <1>2, OffersKept DEF Opens, Refuses, offerVars, history
  <1>3. CASE Raises(t, a)
    <2>1. /\ \A u \in Tasks \ {t} : pc'[u] = pc[u]
          /\ pc'[t] = IF t = Main THEN "aborted" ELSE "dead"
          /\ seen' = seen
          /\ Observe(NoBatch)
      BY <1>1, <1>3 DEF Raises, TypeInv
    <2>2. \A u \in Offerers : unused'[u] \subseteq unused[u]
      BY <2>1, ObserveUnused
    <2>3. CASE t = Main
      BY <1>1, <1>3, <2>1, <2>2, <2>3, OffersKept, TasksAssumption DEF Raises
    <2>4. CASE t # Main
      <3>1. t \in Offerers /\ unused'[t] = {} /\ pc'[t] = "dead"
        BY <2>1, <2>4, ObserveUnused
      <3>2. \A u \in Offerers \ {t} : candidates'[u] = candidates[u]
        BY <1>1, <1>3, <2>4 DEF Raises, TypeInv
      <3>3. QED
        BY <1>1, <2>1, <2>2, <3>1, <3>2, UnusedKept
    <2>5. QED
      BY <2>3, <2>4
  <1>4. QED
    BY <1>2, <1>3

LEMMA MainUnused ==
    ASSUME UnusedInv, MainTask \/ StartApiServer
    PROVE  UnusedInv'
  <1>1. TypeInv /\ TypeInv'
    BY MainTypes DEF UnusedInv
  <1>2. UNCHANGED <<seen, candidates, unused>>
    BY DEF MainTask, StartApiServer, ReadConfig, ContactKnownPeers,
           KnownPeersContacted, ContactBootstrapper, BootstrapperContacted,
           CreateTasks, StartPeerServer, MainGoesOn, offerVars, history
  <1>3. \A t \in Offerers : pc'[t] = pc[t]
    BY <1>1, TasksAssumption
    DEF MainTask, StartApiServer, ReadConfig, ContactKnownPeers,
        KnownPeersContacted, ContactBootstrapper, BootstrapperContacted,
        CreateTasks, StartPeerServer, MainGoesOn, TypeInv
  <1>4. QED
    BY <1>1, <1>2, <1>3, OffersKept

LEMMA LoopUnused ==
    ASSUME UnusedInv, TypeInv', NEW t \in Offerers, NEW listed \in FiniteLists,
           Loop(t, listed, candidates[t]), seen' = seen
    PROVE  UnusedInv'
  <1>1. TypeInv /\ candidates[t] \in FiniteLists
    BY DEF UnusedInv, TypeInv
  <1>2. /\ \A u \in Offerers \ {t} : pc'[u] = pc[u]
        /\ pc'[t] # "collect"
    BY <1>1, LoopOthers, TasksAssumption
  <1>3. ASSUME NEW batch, Round(t, candidates[t], batch),
               Batch(candidates[t], MaxPull(config) - Size(listed), batch)
        PROVE  UnusedInv'
    <2> DEFINE some == [NoBatch EXCEPT ![t] = Members(batch)]
               rest == Minus(candidates[t], batch)
    <2>1. Observe(some) /\ some[t] = Members(batch)
      BY <1>3 DEF Round, NoBatch
    <2>2. candidates' = [candidates EXCEPT ![t] = rest]
      BY <1>3 DEF Round
    <2>3. \A a \in Addresses :
             In(a, candidates[t]) => In(a, batch) \/ In(a, rest)
      BY <1>3 DEF Batch
    <2> HIDE DEF some, rest
    <2>4. /\ \A u \in Offerers : unused'[u] \subseteq unused[u]
          /\ unused'[t] \cap Members(batch) = {}
      BY <2>1, ObserveUnused
    <2>5. /\ candidates'[t] = rest
          /\ \A u \in Offerers \ {t} : candidates'[u] = candidates[u]
      BY <1>1, <2>2 DEF TypeInv
    <2>6. unused'[t] \subseteq Members(candidates'[t])
      <3>1. unused[t] \subseteq Members(candidates[t])
        BY DEF UnusedInv, UnusedIsLeft
      <3>2. QED
        BY <2>3, <2>4, <2>5, <3>1 DEF Members
    <2>7. QED
      BY <1>2, <2>4, <2>5, <2>6, UnusedKept
  <1>4. ASSUME LastRound(t) PROVE UnusedInv'
    <2>1. /\ Observe(NoBatch) /\ pc'[t] = "read"
          /\ \A u \in Offerers \ {t} : candidates'[u] = candidates[u]
      BY <1>1, <1>4 DEF LastRound, TypeInv
    <2>2. /\ \A u \in Offerers : unused'[u] \subseteq unused[u]
          /\ unused'[t] = {}
      BY <2>1, ObserveUnused
    <2>3. QED
      BY <1>2, <2>1, <2>2, UnusedKept
  <1>5. QED
    BY <1>1, <1>3, <1>4, LoopFacts

LEMMA OfferUnused ==
    ASSUME UnusedInv, NEW t \in Offerers,
           \/ Filter(t) \/ ConnectMissing(t) \/ ConnectNext(t)
           \/ \E offer \in Offers : PeerOffer(t, offer)
    PROVE  UnusedInv'
  <1>1. TypeInv /\ TypeInv'
    BY OfferTypes DEF UnusedInv
  <1>2. ASSUME NEW offer \in Offers, PeerOffer(t, offer) PROVE UnusedInv'
    <2>1. /\ pc' = [pc EXCEPT ![t] = "collect"]
          /\ candidates' = [candidates EXCEPT ![t] = offer]
          /\ seen' = [seen EXCEPT ![t] = unverified]
          /\ unused' = [unused EXCEPT ![t] = Members(offer) \ Listed]
      BY <1>2 DEF PeerOffer, OfferGoesOn
    <2>2. /\ \A u \in Offerers \ {t} :
                /\ pc'[u] = pc[u] /\ seen'[u] = seen[u]
                /\ candidates'[u] = candidates[u]
                /\ unused'[u] = unused[u]
          /\ candidates'[t] = offer /\ seen'[t] = unverified
          /\ unused'[t] = Members(offer) \ Listed
      BY <1>1, <2>1, TasksAssumption DEF TypeInv
    <2>3. unused'[t] \cap seen'[t] = {}
      BY <2>2 DEF Listed
    <2>4. unused'[t] \subseteq Members(candidates'[t])
      BY <2>2
    <2>5. \A u \in Offerers : unused'[u] \subseteq unused[u] \/ u = t
      BY <2>2
    <2>6. QED
      BY <1>1, <2>2, <2>3, <2>4, <2>5, UnusedKept
  <1>3. CASE Filter(t)
    <2>1. /\ pc[t] = "collect"
          /\ pc' = [pc EXCEPT ![t] = "missing"]
          /\ seen' = [seen EXCEPT ![t] = {}]
          /\ candidates' = [candidates EXCEPT ![t] =
                [a \in Addresses |->
                    IF a \in seen[t] \cup Members(pull) \cup push THEN 0
                    ELSE @[a]]]
          /\ UNCHANGED <<pull, unverified, moving, push>>
          /\ Observe(NoBatch)
      BY <1>3 DEF Filter, OfferGoesOn
    <2>2. /\ \A u \in Offerers \ {t} :
                /\ pc'[u] = pc[u] /\ seen'[u] = seen[u]
                /\ candidates'[u] = candidates[u]
          /\ pc'[t] = "missing"
      BY <1>1, <2>1, TasksAssumption DEF TypeInv
    <2>3. Listed' = Listed
      BY <2>1 DEF Listed, Members
    <2>4. \A u \in Offerers : unused'[u] \subseteq unused[u] \ Listed
      BY <2>1, <2>3, ObserveUnused
    <2>5. unused'[t] \subseteq Members(candidates'[t])
      <3>1. ASSUME NEW a \in unused'[t]
            PROVE  a \in Members(candidates'[t])
        <4>1. /\ a \in unused[t] /\ a \notin Listed
              /\ a \in Members(candidates[t]) /\ a \notin seen[t]
          BY <2>1, <2>4 DEF UnusedInv, UnusedIsLeft, UnusedIsUnseen
        <4>2. a \in Addresses /\ In(a, candidates[t])
          BY <4>1 DEF Members
        <4>3. a \notin seen[t] \cup Members(pull) \cup push
          BY <4>1 DEF Listed
        <4>4. candidates'[t][a] = candidates[t][a]
          BY <1>1, <2>1, <4>2, <4>3 DEF TypeInv
        <4>5. QED
          BY <4>2, <4>4 DEF Members, In
      <3>2. QED
        BY <3>1
    <2>6. QED
      BY <1>1, <2>2, <2>4, <2>5, UnusedKept
  <1>4. CASE ConnectMissing(t) \/ ConnectNext(t)
    <2>1. PICK listed \in FiniteLists : Loop(t, listed, candidates[t])
      BY <1>1, <1>4, PlusIsList DEF ConnectMissing, ConnectNext, TypeInv
    <2>2. seen' = seen
      BY <1>4 DEF ConnectMissing, ConnectNext
    <2>3. QED
      BY <1>1, <2>1, <2>2, LoopUnused
  <1>5. QED
    BY <1>2, <1>3, <1>4

LEMMA UnusedStep == UnusedInv /\ [Next]_vars => UnusedInv'
  <1> SUFFICES ASSUME UnusedInv, [Next]_vars PROVE UnusedInv'
    OBVIOUS
  <1>1. CASE MainTask \/ StartApiServer
    BY <1>1, MainUnused
  <1>2. CASE \E t \in Tasks : Attempt(t)
    BY <1>2, AttemptUnused DEF Attempt
  <1>3. CASE \E t \in Offerers :
                \/ LockTask(t) \/ ConnectNext(t)
                \/ \E offer \in Offers : PeerOffer(t, offer)
    BY <1>3, OfferUnused DEF LockTask
  <1>4. CASE \E a \in Others :
                \/ a \in Callers /\ SaysWhere(a)
                \/ Promoted(a) \/ Joins(a)
                \/ InboundCloses(a) \/ OutboundCloses(a)
    <2>1. TypeInv' /\ UNCHANGED <<pc, seen, candidates>> /\ Observe(NoBatch)
      BY <1>4, OthersTypes
      DEF SaysWhere, Promoted, Joins, InboundCloses, OutboundCloses, OthersDo,
          offerVars, UnusedInv
    <2>2. \A t \in Offerers : unused'[t] \subseteq unused[t]
      BY <2>1, ObserveUnused
    <2>3. QED
      BY <2>1, <2>2, OffersKept
  <1>5. CASE UNCHANGED vars
    BY <1>5, TypeStep, OffersKept DEF vars, offerVars, history, UnusedInv
  <1>6. QED
    BY <1>1, <1>2, <1>3, <1>4, <1>5 DEF Next

\* An offer is given up only when the list of pull peers is full, or when each
\* of its addresses was tried or is that of a peer (handle_peer_offer).
THEOREM OffersUsedUp == Spec => NothingPassedOver
  <1>1. ASSUME UnusedInv, [Next]_vars
        PROVE  [\A t \in Offerers :
                   pc[t] \in {"missing", "connect"} /\ pc'[t] = "read" =>
                       Size(pull') >= MaxPull(config)
                          \/ unused[t] \ Listed' = {}]_vars
    <2> SUFFICES ASSUME Next, NEW t \in Offerers,
                        pc[t] \in {"missing", "connect"}, pc'[t] = "read"
                 PROVE  \/ Size(pull') >= MaxPull(config)
                        \/ unused[t] \ Listed' = {}
      BY <1>1
    <2>1. TypeInv /\ t # Main /\ t \in Tasks
      BY <1>1, TasksAssumption DEF UnusedInv
    <2>2. PICK listed \in FiniteLists :
             Loop(t, listed, candidates[t]) /\ pull' = listed
      <3>1. ~(MainTask \/ StartApiServer)
        BY <2>1
        DEF MainTask, StartApiServer, ReadConfig, ContactKnownPeers,
            KnownPeersContacted, ContactBootstrapper, BootstrapperContacted,
            CreateTasks, StartPeerServer, MainGoesOn, TypeInv
      <3>2. \A u \in Tasks : ~Attempt(u)
        BY <2>1 DEF Attempt, Opens, Refuses, Raises, TypeInv
      <3>3. \A a \in Others :
               /\ ~SaysWhere(a) /\ ~Promoted(a) /\ ~Joins(a)
               /\ ~InboundCloses(a) /\ ~OutboundCloses(a)
        BY <2>1
        DEF SaysWhere, Promoted, Joins, InboundCloses, OutboundCloses, OthersDo
      <3>4. PICK u \in Offerers :
               \/ LockTask(u) \/ ConnectNext(u)
               \/ \E offer \in Offers : PeerOffer(u, offer)
        BY <3>1, <3>2, <3>3 DEF Next
      <3>5. ~Filter(u) /\ \A offer \in Offers : ~PeerOffer(u, offer)
        BY <2>1 DEF Filter, PeerOffer, OfferGoesOn, TypeInv
      <3>6. PICK listed \in FiniteLists :
               Loop(u, listed, candidates[u]) /\ pull' = listed
        BY <2>1, <3>4, <3>5, PlusIsList
        DEF LockTask, ConnectMissing, ConnectNext, TypeInv
      <3>7. u = t
        BY <2>1, <3>6, LoopOthers DEF TypeInv
      <3>8. QED
        BY <3>6, <3>7
    <2>3. candidates[t] \in FiniteLists
      BY <2>1 DEF TypeInv
    <2>4. ~\E batch : Round(t, candidates[t], batch)
      BY <2>1 DEF Round, TypeInv
    <2>5. Size(listed) >= MaxPull(config) \/ candidates[t] = Empty
      BY <2>1, <2>2, <2>3, <2>4, LoopFacts
    <2>6. candidates[t] = Empty => unused[t] = {}
      BY <1>1, EmptyIsList DEF UnusedInv, UnusedIsLeft, Members
    <2>7. QED
      BY <2>2, <2>5, <2>6
  <1>2. UnusedInv /\ [Next]_vars => UnusedInv'
    BY UnusedStep
  <1>3. QED
    BY <1>1, <1>2, UnusedInit, PTL DEF Spec, NothingPassedOver

-----------------------------------------------------------------------------
(***************************************************************************)
(* The fallback.  While main connects to some addresses, each of them is   *)
(* being tried, is connected or could not be reached; if none is connected *)
(* when it is through, none could be reached.                              *)
(***************************************************************************)
Contacting(some) ==
    \A a \in some :
        In(a, trying[Main]) \/ In(a, opened[Main]) \/ a \in failures

KnownContacted ==
    /\ pc[Main] = "connectKnown" => Contacting(KnownPeers)
    /\ pc[Main] = "bootstrap" /\ pull = Empty => KnownPeers \subseteq failures

BootstrapperContacting ==
    pc[Main] = "connectBootstrapper" =>
        /\ KnownPeers \subseteq failures
        /\ Contacting({config.address["bootstrapper"]})

FallbackInv == OpenersInv /\ KnownContacted /\ BootstrapperContacting

LEMMA FallbackInit == Init => FallbackInv
  BY OpenersInit
  DEF Init, FallbackInv, KnownContacted, BootstrapperContacting

LEMMA AttemptContacting ==
    ASSUME TypeInv, NEW t \in Tasks, NEW a \in Addresses,
           Opens(t, a) \/ Refuses(t, a),
           NEW some \in SUBSET Addresses, Contacting(some)
    PROVE  Contacting(some)' /\ failures \subseteq failures'
  <1>1. failures \subseteq failures'
    BY DEF Opens, Refuses, history
  <1>2. ASSUME NEW b \in some
        PROVE  \/ In(b, trying'[Main]) \/ In(b, opened'[Main])
               \/ b \in failures'
    <2>1. /\ trying[t] \in Lists /\ opened[t] \in Lists
          /\ trying[t][b] \in Nat /\ opened[t][b] \in Nat
      BY DEF TypeInv, FiniteLists, Lists
    <2>2. In(b, trying[Main]) \/ In(b, opened[Main]) \/ b \in failures
      BY DEF Contacting
    <2>3. CASE t # Main
      <3>1. trying'[Main] = trying[Main] /\ opened'[Main] = opened[Main]
        BY <2>3 DEF Opens, Refuses, TypeInv
      <3>2. QED
        BY <1>1, <2>2, <3>1
    <2>4. CASE t = Main /\ a # b
      <3>1. trying'[t][b] = trying[t][b]
        BY <2>1, <2>4 DEF Opens, Refuses, TypeInv, Lists
      <3>2. opened'[t][b] = opened[t][b]
        <4>1. CASE Opens(t, a)
          BY <2>1, <2>4, <4>1 DEF Opens, TypeInv, Lists
        <4>2. CASE Refuses(t, a)
          BY <4>2 DEF Refuses
        <4>3. QED
          BY <4>1, <4>2
      <3>3. QED
        BY <1>1, <2>2, <2>4, <3>1, <3>2 DEF In
    <2>5. CASE t = Main /\ a = b
      <3>1. CASE Opens(t, a)
        <4>1. opened'[t][b] = opened[t][b] + 1
          BY <2>1, <2>5, <3>1 DEF Opens, TypeInv, Lists
        <4>2. QED
          BY <2>1, <2>5, <4>1 DEF In
      <3>2. CASE Refuses(t, a)
        BY <2>5, <3>2 DEF Refuses
      <3>3. QED
        BY <3>1, <3>2
    <2>6. QED
      BY <2>3, <2>4, <2>5
  <1>3. QED
    BY <1>1, <1>2 DEF Contacting

\* What main contacts are addresses.
LEMMA ContactedAreAddresses ==
    ASSUME TypeInv, pc[Main] \notin {"config", "returned", "aborted"}
    PROVE  /\ KnownPeers \in SUBSET Addresses
           /\ {config.address["bootstrapper"]} \in SUBSET Addresses
  BY ConfiguredPeers DEF TypeInv, Accepted, KnownPeers, config

LEMMA AttemptFallback ==
    ASSUME FallbackInv, NEW t \in Tasks, NEW a \in Addresses,
           Opens(t, a) \/ Refuses(t, a) \/ Raises(t, a)
    PROVE  FallbackInv'
  <1>1. OpenersInv /\ OpenersInv' /\ TypeInv
    BY AttemptOpeners DEF FallbackInv, OpenersInv
  <1>2. file' = file /\ pull' = pull
    BY DEF Opens, Refuses, Raises
  <1>3. config' = config /\ KnownPeers' = KnownPeers
    BY <1>2 DEF config, KnownPeers
  <1>4. CASE Opens(t, a) \/ Refuses(t, a)
    <2>1. pc' = pc /\ failures \subseteq failures'
      BY <1>4 DEF Opens, Refuses, history
    <2>2. ASSUME NEW some \in SUBSET Addresses, Contacting(some)
          PROVE  \A b \in some : \/ In(b, trying'[Main]) \/ In(b, opened'[Main])
                                 \/ b \in failures'
      BY <1>1, <1>4, <2>2, AttemptContacting DEF Contacting
    <2>3. KnownContacted'
      <3>1. CASE pc[Main] = "connectKnown"
        <4>1. KnownPeers \in SUBSET Addresses /\ Contacting(KnownPeers)
          BY <1>1, <3>1, ContactedAreAddresses DEF FallbackInv, KnownContacted
        <4>2. QED
          BY <1>3, <2>1, <2>2, <3>1, <4>1 DEF KnownContacted, Contacting
      <3>2. CASE pc[Main] # "connectKnown"
        BY <1>2, <1>3, <2>1, <3>2 DEF FallbackInv, KnownContacted
      <3>3. QED
        BY <3>1, <3>2
    <2>4. BootstrapperContacting'
      <3>1. CASE pc[Main] = "connectBootstrapper"
        <4> DEFINE some == {config.address["bootstrapper"]}
        <4>1. some \in SUBSET Addresses /\ Contacting(some)
          BY <1>1, <3>1, ContactedAreAddresses
          DEF FallbackInv, BootstrapperContacting
        <4>2. some' = some
          BY <1>3
        <4>3. KnownPeers \subseteq failures
          BY <3>1 DEF FallbackInv, BootstrapperContacting
        <4> HIDE DEF some
        <4>4. \A b \in some' : \/ In(b, trying'[Main]) \/ In(b, opened'[Main])
                               \/ b \in failures'
          BY <2>2, <4>1, <4>2
        <4>5. QED
          BY <1>3, <2>1, <4>3, <4>4
          DEF BootstrapperContacting, Contacting, some
      <3>2. CASE pc[Main] # "connectBootstrapper"
        BY <2>1, <3>2 DEF BootstrapperContacting
      <3>3. QED
        BY <3>1, <3>2
    <2>5. QED
      BY <1>1, <2>3, <2>4 DEF FallbackInv
  <1>5. CASE Raises(t, a)
    <2>1. pc'[Main] \in {"serve", "aborted"}
      <3>1. ~Idle(t)
        BY <1>1, <1>5, EmptyIsList DEF Raises, Trying, Idle
      <3>2. t # Main => pc[Main] = "serve"
        BY <1>1, <3>1, OnlyOpener
      <3>3. QED
        BY <1>1, <1>5, <3>2 DEF Raises, TypeInv
    <2>2. QED
      BY <1>1, <2>1 DEF FallbackInv, KnownContacted, BootstrapperContacting
  <1>6. QED
    BY <1>4, <1>5

\* Each address of a list that is being contacted is tried.
LEMMA ContactContacting ==
    ASSUME TypeInv, NEW some \in SUBSET Addresses, Contact(some)
    PROVE  \A a \in some : In(a, trying'[Main])
  <1>1. trying'[Main] = Listing(some)
    BY DEF Contact, TypeInv
  <1>2. QED
    BY <1>1 DEF Listing, In

\* If nobody is connected after all were tried, nobody could be reached.
LEMMA NobodyContacted ==
    ASSUME TypeInv, NEW some \in SUBSET Addresses, Contacting(some), Contacted,
           pull' = Empty
    PROVE  some \subseteq failures
  <1>1. trying[Main] = Empty /\ opened[Main] = Empty
    BY DEF Contacted, AllTried
  <1>2. QED
    BY <1>1, EmptyIsList DEF Contacting

LEMMA MainFallback ==
    ASSUME FallbackInv, MainTask \/ StartApiServer
    PROVE  FallbackInv'
  <1>1. OpenersInv /\ OpenersInv' /\ TypeInv
    BY MainOpeners DEF FallbackInv, OpenersInv
  <1>2. /\ file' = file /\ config' = config /\ KnownPeers' = KnownPeers
        /\ failures' = failures
    BY DEF MainTask, StartApiServer, ReadConfig, ContactKnownPeers,
           KnownPeersContacted, ContactBootstrapper, BootstrapperContacted,
           CreateTasks, StartPeerServer, MainGoesOn, history, config,
           KnownPeers
  <1>3. CASE StartApiServer
    BY <1>1, <1>2, <1>3
    DEF StartApiServer, factory, FallbackInv, KnownContacted,
        BootstrapperContacting, Contacting
  <1>4. ASSUME NEW from, NEW to, MainGoesOn(from, to)
        PROVE  pc[Main] = from /\ pc'[Main] = to
    BY <1>1, <1>4 DEF MainGoesOn, TypeInv
  <1>5. CASE ReadConfig
    <2>1. pc'[Main] \in {"known", "returned"}
      BY <1>4, <1>5 DEF ReadConfig
    <2>2. QED
      BY <1>1, <2>1 DEF FallbackInv, KnownContacted, BootstrapperContacting
  <1>6. CASE ContactKnownPeers
    <2>1. CASE KnownPeers = {}
      <3>1. pc'[Main] = "bootstrap"
        BY <1>4, <1>6, <2>1 DEF ContactKnownPeers
      <3>2. QED
        BY <1>1, <1>2, <2>1, <3>1
        DEF FallbackInv, KnownContacted, BootstrapperContacting
    <2>2. CASE KnownPeers # {}
      <3>1. /\ pc[Main] = "known" /\ pc'[Main] = "connectKnown"
            /\ Contact(KnownPeers)
        BY <1>4, <1>6, <2>2 DEF ContactKnownPeers
      <3>2. \A a \in KnownPeers : In(a, trying'[Main])
        BY <1>1, <3>1, ContactedAreAddresses, ContactContacting
      <3>3. QED
        BY <1>1, <1>2, <3>1, <3>2
        DEF FallbackInv, KnownContacted, BootstrapperContacting, Contacting
    <2>3. QED
      BY <2>1, <2>2
  <1>7. CASE KnownPeersContacted
    <2>1. /\ pc[Main] = "connectKnown" /\ pc'[Main] = "bootstrap" /\ Contacted
      BY <1>4, <1>7 DEF KnownPeersContacted
    <2>2. pull' = Empty => KnownPeers \subseteq failures
      BY <1>1, <2>1, ContactedAreAddresses, NobodyContacted
      DEF FallbackInv, KnownContacted
    <2>3. QED
      BY <1>1, <1>2, <2>1, <2>2
      DEF FallbackInv, KnownContacted, BootstrapperContacting
  <1>8. CASE ContactBootstrapper
    <2>1. CASE Size(pull) = 0
      <3> DEFINE some == {config.address["bootstrapper"]}
      <3>1. /\ pc[Main] = "bootstrap" /\ pc'[Main] = "connectBootstrapper"
            /\ Contact(some)
        BY <1>4, <1>8, <2>1 DEF ContactBootstrapper
      <3>2. KnownPeers \subseteq failures
        BY <1>1, <2>1, <3>1, SizeOfNone DEF TypeInv, FallbackInv, KnownContacted
      <3>3. some \in SUBSET Addresses
        BY <1>1, <3>1, ContactedAreAddresses
      <3>4. some' = some
        BY <1>2
      <3> HIDE DEF some
      <3>5. \A a \in some' : In(a, trying'[Main])
        BY <1>1, <3>1, <3>3, <3>4, ContactContacting
      <3>6. QED
        BY <1>1, <1>2, <3>1, <3>2, <3>5
        DEF FallbackInv, KnownContacted, BootstrapperContacting, Contacting,
            some
    <2>2. CASE Size(pull) # 0
      <3>1. pc'[Main] = "tasks"
        BY <1>4, <1>8, <2>2 DEF ContactBootstrapper
      <3>2. QED
        BY <1>1, <3>1 DEF FallbackInv, KnownContacted, BootstrapperContacting
    <2>3. QED
      BY <2>1, <2>2
  <1>9. CASE BootstrapperContacted \/ CreateTasks \/ StartPeerServer
    <2>1. pc'[Main] \in {"tasks", "start", "serve", "returned", "aborted"}
      BY <1>4, <1>9
      DEF BootstrapperContacted, CreateTasks, StartPeerServer, Served
    <2>2. QED
      BY <1>1, <2>1 DEF FallbackInv, KnownContacted, BootstrapperContacting
  <1>10. QED
    BY <1>3, <1>5, <1>6, <1>7, <1>8, <1>9 DEF MainTask

LEMMA FallbackStep == FallbackInv /\ [Next]_vars => FallbackInv'
  <1> SUFFICES ASSUME FallbackInv, [Next]_vars PROVE FallbackInv'
    OBVIOUS
  <1>1. CASE MainTask \/ StartApiServer
    BY <1>1, MainFallback
  <1>2. CASE \E t \in Tasks : Attempt(t)
    BY <1>2, AttemptFallback DEF Attempt
  <1>3. ASSUME OpenersInv', Running, pc'[Main] = pc[Main] PROVE FallbackInv'
    BY <1>3
    DEF Running, FallbackInv, KnownContacted, BootstrapperContacting
  <1>4. CASE \E t \in Offerers :
                \/ LockTask(t) \/ ConnectNext(t)
                \/ \E offer \in Offers : PeerOffer(t, offer)
    <2>1. PICK t \in Offerers :
             \/ LockTask(t) \/ ConnectNext(t)
             \/ \E offer \in Offers : PeerOffer(t, offer)
      BY <1>4
    <2>2. OpenersInv'
      BY <2>1, OfferOpeners DEF LockTask, FallbackInv
    <2>3. Running /\ \E to : pc' = [pc EXCEPT ![t] = to]
      BY <2>1
      DEF LockTask, Filter, ConnectMissing, ConnectNext, PeerOffer, Loop,
          OfferGoesOn
    <2>4. QED
      BY <1>3, <2>2, <2>3, TasksAssumption DEF FallbackInv, OpenersInv, TypeInv
  <1>5. CASE \E a \in Others :
                \/ a \in Callers /\ SaysWhere(a)
                \/ Promoted(a) \/ Joins(a)
                \/ InboundCloses(a) \/ OutboundCloses(a)
    BY <1>3, <1>5, OthersOpeners
    DEF SaysWhere, Promoted, Joins, InboundCloses, OutboundCloses, OthersDo,
        FallbackInv
  <1>6. CASE UNCHANGED vars
    BY <1>6, OpenersStep
    DEF vars, factory, history, FallbackInv, KnownContacted,
        BootstrapperContacting, Contacting, KnownPeers, config
  <1>7. QED
    BY <1>1, <1>2, <1>4, <1>5, <1>6 DEF Next

\* The bootstrapping node is contacted only after no known peer could be
\* reached, and a node that goes on without a peer could not reach it, either
\* (main, Gossip.run).
THEOREM FallbackIsTaken == Spec => FallbackTaken
  <1>1. ASSUME FallbackInv, [Next]_vars
        PROVE  [/\ pc[Main] = "bootstrap" /\ pc'[Main] = "connectBootstrapper"
                      => KnownPeers \subseteq failures
                /\ pc[Main] # "tasks" /\ pc'[Main] = "tasks" /\ pull' = Empty
                      => KnownPeers \cup {config.address["bootstrapper"]}
                            \subseteq failures]_vars
    <2> SUFFICES ASSUME Next, pc'[Main] # pc[Main],
                        pc'[Main] \in {"connectBootstrapper", "tasks"}
                 PROVE  /\ pc[Main] = "bootstrap"
                              /\ pc'[Main] = "connectBootstrapper"
                           => KnownPeers \subseteq failures
                        /\ pc'[Main] = "tasks" /\ pull' = Empty
                           => KnownPeers \cup {config.address["bootstrapper"]}
                                 \subseteq failures
      BY <1>1
    <2>1. OpenersInv /\ TypeInv
      BY <1>1 DEF FallbackInv, OpenersInv
    <2>2. ContactBootstrapper \/ BootstrapperContacted
      <3>1. \A t \in Tasks : ~Attempt(t)
        BY <2>1 DEF Attempt, Opens, Refuses, Raises, TypeInv
      <3>2. \A t \in Offerers :
               /\ ~LockTask(t) /\ ~ConnectNext(t)
               /\ \A offer \in Offers : ~PeerOffer(t, offer)
        BY <2>1, TasksAssumption
        DEF LockTask, Filter, ConnectMissing, ConnectNext, PeerOffer, Loop,
            OfferGoesOn, TypeInv
      <3>3. ~OthersDo /\ ~StartApiServer
        BY DEF OthersDo, StartApiServer
      <3>4. MainTask
        BY <3>1, <3>2, <3>3
        DEF Next, SaysWhere, Promoted, Joins, InboundCloses, OutboundCloses
      <3>5. QED
        BY <2>1, <3>4
        DEF MainTask, ReadConfig, ContactKnownPeers, KnownPeersContacted,
            CreateTasks, StartPeerServer, Served, MainGoesOn, TypeInv
    <2>3. CASE ContactBootstrapper
      <3>1. pc[Main] = "bootstrap" /\ (Size(pull) = 0 \/ pull' = pull)
        BY <2>3 DEF ContactBootstrapper, MainGoesOn, Contact
      <3>2. pc'[Main] = "connectBootstrapper" => Size(pull) = 0
        BY <2>1, <2>3 DEF ContactBootstrapper, MainGoesOn, TypeInv
      <3>3. pc'[Main] = "tasks" => Size(pull) # 0 /\ pull' = pull
        BY <2>1, <2>3 DEF ContactBootstrapper, MainGoesOn, TypeInv
      <3>4. Size(pull) = 0 <=> pull = Empty
        BY <2>1, SizeOfNone, EmptyIsList DEF TypeInv
      <3>5. QED
        BY <1>1, <3>1, <3>2, <3>3, <3>4 DEF FallbackInv, KnownContacted
    <2>4. CASE BootstrapperContacted
      <3> DEFINE some == {config.address["bootstrapper"]}
      <3>1. /\ pc[Main] = "connectBootstrapper" /\ pc'[Main] = "tasks"
            /\ Contacted
        BY <2>1, <2>4 DEF BootstrapperContacted, MainGoesOn, TypeInv
      <3>2. /\ KnownPeers \subseteq failures /\ Contacting(some)
            /\ some \in SUBSET Addresses
        BY <1>1, <2>1, <3>1, ContactedAreAddresses
        DEF FallbackInv, BootstrapperContacting
      <3> HIDE DEF some
      <3>3. pull' = Empty => some \subseteq failures
        BY <2>1, <3>1, <3>2, NobodyContacted
      <3>4. QED
        BY <3>1, <3>2, <3>3 DEF some
    <2>5. QED
      BY <2>2, <2>3, <2>4
  <1>2. FallbackInv /\ [Next]_vars => FallbackInv'
    BY FallbackStep
  <1>3. QED
    BY <1>1, <1>2, FallbackInit, PTL DEF Spec, FallbackTaken
=============================================================================
