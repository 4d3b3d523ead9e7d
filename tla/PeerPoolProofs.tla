--------------------------- MODULE PeerPoolProofs ---------------------------
(***************************************************************************)
(* What holds of PeerPool for all sets of connections and all capacities:  *)
(* which task owns which lock, where each connection is listed, and that   *)
(* only evictions deadlock.                                                *)
(***************************************************************************)
EXTENDS PeerPool, SequenceTheorems, FiniteSetTheorems, TLAPS

-----------------------------------------------------------------------------
(* Lists as sets: what the operations on sequences do to the members.       *)

LEMMA ContainsIsMember ==
    ASSUME NEW C, NEW s \in Seq(C), NEW e
    PROVE  Contains(s, e) <=> e \in ToSet(s)
BY LenProperties DEF Contains, ToSet

LEMMA MembersAreTyped ==
    ASSUME NEW C, NEW s \in Seq(C)
    PROVE  ToSet(s) \subseteq C
BY LenProperties, ElementOfSeq DEF ToSet

\* A sequence whose members are in a smaller set is one of that set.
LEMMA SeqOfMembers ==
    ASSUME NEW C, NEW D, NEW s \in Seq(C), ToSet(s) \subseteq D
    PROVE  s \in Seq(D)
<1>1. Len(s) \in Nat /\ s = [i \in 1 .. Len(s) |-> s[i]]
         /\ DOMAIN s = 1 .. Len(s)
    BY LenProperties
<1>2. \A i \in 1 .. Len(s) : s[i] \in D
    BY <1>1 DEF ToSet
<1>3. [i \in 1 .. Len(s) |-> s[i]] \in Seq(D)
    BY <1>1, <1>2, IsASeq
<1> QED BY <1>1, <1>3

LEMMA SmallestExists ==
    ASSUME NEW S, S \subseteq Nat, S # {}
    PROVE  \E x \in S : \A y \in S : x <= y
<1>1. PICK x \in S : \A y \in S : ~(<<y, x>> \in OpToRel(<, Nat))
    BY NatLessThanWellFounded, WFMin, Zenon
<1>2. \A y \in S : ~(y < x)
    BY <1>1 DEF OpToRel
<1> QED BY <1>2

LEMMA FirstOccurrence ==
    ASSUME NEW C, NEW s \in Seq(C), NEW e, e \in ToSet(s)
    PROVE  \E k \in 1 .. Len(s) :
              s[k] = e /\ RemoveFirst(s, e) = RemoveAt(s, k)
<1> DEFINE I == {i \in 1 .. Len(s) : s[i] = e}
<1>1. Len(s) \in Nat /\ DOMAIN s = 1 .. Len(s)
    BY LenProperties
<1>2. I \subseteq Nat /\ I # {}
    BY <1>1 DEF ToSet
<1>3. \E x \in I : \A y \in I : x <= y
    <2> HIDE DEF I
    <2> QED BY <1>2, SmallestExists
<1>4. Min(I) \in I
    <2> HIDE DEF I
    <2> QED BY <1>3 DEF Min
<1>5. RemoveFirst(s, e) = RemoveAt(s, Min(I))
    BY <1>1, <1>2 DEF RemoveFirst, SelectInSeq
<1> QED BY <1>4, <1>5

\* Indices, without a sequence in sight.
LEMMA IndexFacts ==
    ASSUME NEW m \in Nat, NEW n \in Nat
    PROVE  /\ \A i \in 1 .. m : i = m \/ i \in 1 .. m - 1
           /\ \A i \in 1 .. m : i + n \in 1 .. n + m /\ i + n - n = i
                                 /\ ~(i + n <= n)
           /\ m > 0 => (IF 1 <= m - 1 THEN m - 1 - 1 + 1 ELSE 0) = m - 1
           /\ \A i, k \in 1 .. m : i < k \/ i >= k
           /\ \A i \in 1 .. m - 1 : i \in 1 .. m /\ i + 1 \in 1 .. m
OBVIOUS

LEMMA RemoveAtProperties ==
    ASSUME NEW C, NEW s \in Seq(C), NEW k \in 1 .. Len(s)
    PROVE  /\ RemoveAt(s, k) \in Seq(C)
           /\ Len(RemoveAt(s, k)) = Len(s) - 1
           /\ \A i \in 1 .. Len(s) - 1 :
                 RemoveAt(s, k)[i] = IF i < k THEN s[i] ELSE s[i + 1]
<1> DEFINE a == SubSeq(s, 1, k - 1)
           b == SubSeq(s, k + 1, Len(s))
<1>1. Len(s) \in Nat /\ \A i \in 1 .. Len(s) : s[i] \in C
    BY LenProperties, ElementOfSeq
<1>2. /\ a \in Seq(C) /\ Len(a) = k - 1
      /\ \A i \in 1 .. k - 1 : a[i] = s[i]
    <2>1. \A i \in 1 .. k - 1 : s[i] \in C
        BY <1>1
    <2>2. /\ a \in Seq(C) /\ Len(a) = IF 1 <= k - 1 THEN k - 1 - 1 + 1 ELSE 0
          /\ \A i \in 1 .. k - 1 - 1 + 1 : a[i] = s[1 + i - 1]
        BY <1>1, <2>1, SubSeqProperties
    <2> QED BY <1>1, <2>2
<1>3. /\ b \in Seq(C) /\ Len(b) = Len(s) - k
      /\ \A i \in 1 .. Len(s) - k : b[i] = s[k + i]
    <2>1. \A i \in k + 1 .. Len(s) : s[i] \in C
        BY <1>1
    <2>2. /\ b \in Seq(C)
          /\ Len(b) = IF k + 1 <= Len(s) THEN Len(s) - (k + 1) + 1 ELSE 0
          /\ \A i \in 1 .. Len(s) - (k + 1) + 1 : b[i] = s[k + 1 + i - 1]
        BY <1>1, <2>1, SubSeqProperties
    <2> QED BY <1>1, <2>2
<1>4. /\ a \o b \in Seq(C)
      /\ Len(a \o b) = Len(a) + Len(b)
      /\ \A i \in 1 .. Len(a) + Len(b) :
            (a \o b)[i] = IF i <= Len(a) THEN a[i] ELSE b[i - Len(a)]
    BY <1>2, <1>3, ConcatProperties
<1>5. RemoveAt(s, k) = a \o b
    BY DEF RemoveAt
<1> HIDE DEF a, b
<1>6. Len(a \o b) = Len(s) - 1
    BY <1>1, <1>2, <1>3, <1>4
<1>7. ASSUME NEW i \in 1 .. Len(s) - 1
      PROVE  (a \o b)[i] = IF i < k THEN s[i] ELSE s[i + 1]
    <2>1. CASE i < k
        BY <1>1, <1>2, <1>3, <1>4, <2>1
    <2>2. CASE i >= k
        <3>1. i - Len(a) \in 1 .. Len(s) - k /\ k + (i - Len(a)) = i + 1
            BY <1>1, <1>2, <2>2
        <3>2. b[i - Len(a)] = s[i + 1]
            BY <1>3, <3>1
        <3> QED BY <1>1, <1>2, <1>3, <1>4, <2>2, <3>2
    <2> QED BY <1>1, <1>7, <2>1, <2>2, IndexFacts
<1> QED BY <1>4, <1>5, <1>6, <1>7

\* list.remove, of what is there and of what is not.
LEMMA RemoveFirstProperties ==
    ASSUME NEW C, NEW s \in Seq(C), NEW e
    PROVE  /\ RemoveFirst(s, e) \in Seq(C)
           /\ Len(RemoveFirst(s, e)) <= Len(s)
           /\ ToSet(RemoveFirst(s, e)) \subseteq ToSet(s)
           /\ ToSet(s) \subseteq ToSet(RemoveFirst(s, e)) \cup {e}
           /\ e \notin ToSet(s) => RemoveFirst(s, e) = s
           /\ Single(s, e) => e \notin ToSet(RemoveFirst(s, e))
           /\ \A x : Single(s, x) => Single(RemoveFirst(s, e), x)
<1>1. Len(s) \in Nat /\ DOMAIN s = 1 .. Len(s)
    BY LenProperties
<1>2. CASE e \notin ToSet(s)
    <2>1. RemoveFirst(s, e) = s
        BY <1>1, <1>2 DEF RemoveFirst, ToSet
    <2> QED BY <1>1, <1>2, <2>1
<1>3. CASE e \in ToSet(s)
    <2> DEFINE r == RemoveFirst(s, e)
    <2>1. PICK k \in 1 .. Len(s) : s[k] = e /\ r = RemoveAt(s, k)
        BY <1>3, FirstOccurrence
    <2>2. /\ r \in Seq(C) /\ Len(r) = Len(s) - 1
          /\ \A i \in 1 .. Len(s) - 1 :
                r[i] = IF i < k THEN s[i] ELSE s[i + 1]
        BY <2>1, RemoveAtProperties
    <2>3. DOMAIN r = 1 .. Len(s) - 1
        BY <2>2, LenProperties
    <2> HIDE DEF r
    <2>4. ToSet(r) \subseteq ToSet(s)
        BY <1>1, <2>2, <2>3 DEF ToSet
    <2>5. ASSUME NEW x, Single(s, x)
          PROVE  Single(r, x)
        <3> DEFINE place(i) == IF i < k THEN i ELSE i + 1
        <3>1. \A i \in 1 .. Len(s) - 1 :
                 place(i) \in 1 .. Len(s) /\ r[i] = s[place(i)]
            BY <1>1, <2>1, <2>2
        <3>2. \A i, j \in 1 .. Len(s) - 1 : place(i) = place(j) => i = j
            BY <1>1, <2>1
        <3> HIDE DEF place
        <3>3. \A i, j \in 1 .. Len(s) - 1 : r[i] = x /\ r[j] = x => i = j
            BY <1>1, <2>5, <3>1, <3>2 DEF Single
        <3> QED BY <2>3, <3>3 DEF Single
    <2>6. Single(s, e) => e \notin ToSet(r)
        BY <1>1, <2>1, <2>2, <2>3 DEF Single, ToSet
    <2>7. ASSUME NEW x \in ToSet(s) \ {e}
          PROVE  x \in ToSet(r)
        <3>1. PICK i \in 1 .. Len(s) : s[i] = x
            BY <1>1 DEF ToSet
        <3>2. CASE i < k
            <4>1. i \in 1 .. Len(s) - 1 /\ r[i] = x
                BY <1>1, <2>1, <2>2, <3>1, <3>2
            <4> QED BY <2>3, <4>1 DEF ToSet
        <3>3. CASE i > k
            <4>1. i - 1 \in 1 .. Len(s) - 1 /\ ~(i - 1 < k)
                     /\ i - 1 + 1 = i
                BY <1>1, <2>1, <3>1, <3>3
            <4>2. r[i - 1] = x
                BY <2>2, <3>1, <4>1
            <4> QED BY <2>3, <4>1, <4>2 DEF ToSet
        <3> QED BY <2>1, <3>1, <3>2, <3>3
    <2> QED BY <1>1, <1>3, <2>2, <2>4, <2>5, <2>6, <2>7 DEF r
<1> QED BY <1>2, <1>3

LEMMA ConcatMembers ==
    ASSUME NEW C, NEW s \in Seq(C), NEW t \in Seq(C)
    PROVE  /\ s \o t \in Seq(C)
           /\ Len(s \o t) = Len(s) + Len(t)
           /\ ToSet(s \o t) = ToSet(s) \cup ToSet(t)
           /\ \A x : Single(s, x) /\ Single(t, x)
                        /\ (x \notin ToSet(s) \/ x \notin ToSet(t))
                     => Single(s \o t, x)
<1> DEFINE r == s \o t
<1>1. /\ Len(s) \in Nat /\ DOMAIN s = 1 .. Len(s)
      /\ Len(t) \in Nat /\ DOMAIN t = 1 .. Len(t)
    BY LenProperties
<1>2. /\ r \in Seq(C) /\ Len(r) = Len(s) + Len(t)
      /\ \A i \in 1 .. Len(s) + Len(t) :
            r[i] = IF i <= Len(s) THEN s[i] ELSE t[i - Len(s)]
    BY ConcatProperties
<1>3. DOMAIN r = 1 .. Len(s) + Len(t)
    BY <1>2, LenProperties
<1> HIDE DEF r
<1>4. \A i \in 1 .. Len(s) : i \in DOMAIN r /\ r[i] = s[i]
    BY <1>1, <1>2, <1>3
<1>5. \A i \in 1 .. Len(t) :
          i + Len(s) \in DOMAIN r /\ r[i + Len(s)] = t[i]
    <2>1. \A i \in 1 .. Len(t) :
             /\ i + Len(s) \in 1 .. Len(s) + Len(t)
             /\ i + Len(s) - Len(s) = i /\ ~(i + Len(s) <= Len(s))
        BY <1>1, IndexFacts
    <2> QED BY <1>2, <1>3, <2>1
<1>6. \A i \in DOMAIN r : \/ i \in 1 .. Len(s) /\ r[i] = s[i]
                          \/ /\ ~(i <= Len(s)) /\ i - Len(s) \in 1 .. Len(t)
                             /\ r[i] = t[i - Len(s)]
    <2> TAKE i \in DOMAIN r
    <2>1. CASE i <= Len(s)
        BY <1>1, <1>2, <1>3, <2>1
    <2>2. CASE ~(i <= Len(s))
        <3>1. i - Len(s) \in 1 .. Len(t)
            BY <1>1, <1>3, <2>2
        <3> QED BY <1>2, <1>3, <2>2, <3>1
    <2> QED BY <2>1, <2>2
<1>7. ToSet(r) = ToSet(s) \cup ToSet(t)
    <2>1. ToSet(r) \subseteq ToSet(s) \cup ToSet(t)
        BY <1>1, <1>6 DEF ToSet
    <2>2. ToSet(s) \subseteq ToSet(r)
        BY <1>1, <1>4 DEF ToSet
    <2>3. ToSet(t) \subseteq ToSet(r)
        BY <1>1, <1>5 DEF ToSet
    <2> QED BY <2>1, <2>2, <2>3
<1>8. ASSUME NEW x, Single(s, x), Single(t, x),
             x \notin ToSet(s) \/ x \notin ToSet(t)
      PROVE  Single(r, x)
    <2>1. \A i \in 1 .. Len(s), j \in 1 .. Len(t) : ~(s[i] = x /\ t[j] = x)
        BY <1>1, <1>8 DEF ToSet
    <2>2. SUFFICES ASSUME NEW i \in DOMAIN r, NEW j \in DOMAIN r,
                          r[i] = x, r[j] = x
                   PROVE  i = j
        BY DEF Single
    <2>3. CASE i <= Len(s) /\ j <= Len(s)
        BY <1>1, <1>6, <1>8, <2>2, <2>3 DEF Single
    <2>4. CASE ~(i <= Len(s)) /\ ~(j <= Len(s))
        <3>1. i - Len(s) = j - Len(s)
            BY <1>1, <1>6, <1>8, <2>2, <2>4 DEF Single
        <3> QED BY <1>1, <1>3, <3>1
    <2>5. CASE i <= Len(s) /\ ~(j <= Len(s))
        BY <1>6, <2>1, <2>2, <2>5
    <2>6. CASE ~(i <= Len(s)) /\ j <= Len(s)
        BY <1>6, <2>1, <2>2, <2>6
    <2> QED BY <2>3, <2>4, <2>5, <2>6
<1> QED BY <1>2, <1>7, <1>8 DEF r

LEMMA SingletonMembers ==
    ASSUME NEW C, NEW c \in C
    PROVE  /\ <<c>> \in Seq(C) /\ Len(<<c>>) = 1
           /\ ToSet(<<c>>) = {c} /\ \A x : Single(<<c>>, x)
BY DEF ToSet, Single

\* deque.appendleft, while there is room.
LEMMA AppendLeftProperties ==
    ASSUME NEW C, NEW s \in Seq(C), NEW c \in C, NEW n \in Nat, Len(s) < n
    PROVE  /\ AppendLeft(s, c, n) \in Seq(C)
           /\ Len(AppendLeft(s, c, n)) = Len(s) + 1
           /\ ToSet(AppendLeft(s, c, n)) = ToSet(s) \cup {c}
           /\ \A x : Single(s, x) /\ (x = c => c \notin ToSet(s))
                        => Single(AppendLeft(s, c, n), x)
<1> DEFINE q == <<c>>
<1>1. AppendLeft(s, c, n) = q \o s
    BY DEF AppendLeft
<1>2. q \in Seq(C) /\ ToSet(q) = {c} /\ Len(q) = 1
         /\ \A x : Single(q, x)
    BY SingletonMembers
<1> HIDE DEF q
<1>3. q \o s \in Seq(C) /\ ToSet(q \o s) = ToSet(q) \cup ToSet(s)
    BY <1>2, ConcatMembers
<1>4. ASSUME NEW x, Single(s, x), x = c => c \notin ToSet(s)
      PROVE  Single(q \o s, x)
    <2>1. x \notin ToSet(q) \/ x \notin ToSet(s)
        BY <1>2, <1>4
    <2> QED BY <1>2, <1>4, <2>1, ConcatMembers
<1>5. Len(q \o s) = Len(s) + 1
    <2>1. Len(q \o s) = Len(q) + Len(s)
        BY <1>2, ConcatMembers
    <2> QED BY <1>2, <2>1, LenProperties
<1> QED BY <1>1, <1>2, <1>3, <1>4, <1>5

\* And in any case.
LEMMA AppendLeftTyped ==
    ASSUME NEW C, NEW s \in Seq(C), NEW c \in C, NEW n \in Nat
    PROVE  AppendLeft(s, c, n) \in Seq(C)
<1> DEFINE r == <<c>> \o s
<1>1. r \in Seq(C) /\ Len(r) = Len(s) + 1 /\ Len(s) \in Nat
    BY ConcatMembers, SingletonMembers, LenProperties
<1>2. CASE ~(Len(s) < n)
    <2> HIDE DEF r
    <2>1. \A i \in 1 .. n : r[i] \in C
        BY <1>1, <1>2, ElementOfSeq
    <2>2. SubSeq(r, 1, n) \in Seq(C)
        BY <2>1, SubSeqProperties
    <2> QED BY <1>2, <2>2 DEF AppendLeft, r
<1> QED BY <1>1, <1>2 DEF AppendLeft

\* deque.pop of a list that is not empty.
LEMMA FrontProperties ==
    ASSUME NEW C, NEW s \in Seq(C), Len(s) > 0
    PROVE  /\ Front(s) \in Seq(C) /\ Len(Front(s)) = Len(s) - 1
           /\ Last(s) \in C /\ Last(s) \in ToSet(s)
           /\ ToSet(s) = ToSet(Front(s)) \cup {Last(s)}
           /\ \A x : Single(s, x) => Single(Front(s), x)
           /\ Single(s, Last(s)) => Last(s) \notin ToSet(Front(s))
<1> DEFINE r == Front(s)
<1>1. Len(s) \in Nat /\ DOMAIN s = 1 .. Len(s) /\ Len(s) \in 1 .. Len(s)
         /\ \A i \in 1 .. Len(s) : s[i] \in C
    BY LenProperties, ElementOfSeq
<1>2. /\ r \in Seq(C) /\ Len(r) = Len(s) - 1
      /\ \A i \in 1 .. Len(s) - 1 : r[i] = s[i]
    <2>1. \A i \in 1 .. Len(s) - 1 : s[i] \in C
        BY <1>1
    <2>2. /\ r \in Seq(C)
          /\ Len(r) = IF 1 <= Len(s) - 1 THEN Len(s) - 1 - 1 + 1 ELSE 0
          /\ \A i \in 1 .. Len(s) - 1 - 1 + 1 : r[i] = s[1 + i - 1]
        BY <1>1, <2>1, SubSeqProperties DEF Front
    <2>3. \A i \in 1 .. Len(s) - 1 :
             i \in 1 .. Len(s) - 1 - 1 + 1 /\ 1 + i - 1 = i
        BY <1>1
    <2>4. Len(r) = Len(s) - 1
        BY <1>1, <2>2, IndexFacts
    <2> QED BY <2>2, <2>3, <2>4
<1>3. DOMAIN r = 1 .. Len(s) - 1
    BY <1>2, LenProperties
<1> HIDE DEF r
<1>4. ToSet(s) = ToSet(r) \cup {s[Len(s)]}
    <2>1. ToSet(r) \subseteq ToSet(s)
        BY <1>1, <1>2, <1>3 DEF ToSet
    <2>2. s[Len(s)] \in ToSet(s)
        BY <1>1 DEF ToSet
    <2>3. ASSUME NEW x \in ToSet(s)
          PROVE  x \in ToSet(r) \cup {s[Len(s)]}
        <3>1. PICK i \in 1 .. Len(s) : s[i] = x
            BY <1>1 DEF ToSet
        <3>2. i = Len(s) \/ i \in 1 .. Len(s) - 1
            BY <1>1, IndexFacts
        <3> QED BY <1>2, <1>3, <3>1, <3>2 DEF ToSet
    <2> QED BY <2>1, <2>2, <2>3
<1>5. \A x : Single(s, x) => Single(r, x)
    BY <1>1, <1>2, <1>3 DEF Single
<1>6. Single(s, s[Len(s)]) => s[Len(s)] \notin ToSet(r)
    BY <1>1, <1>2, <1>3 DEF Single, ToSet
<1> QED BY <1>1, <1>2, <1>4, <1>5, <1>6 DEF r, Last, ToSet

\* What a finite set is listed as.
LEMMA SetToSeqProperties ==
    ASSUME NEW S, IsFiniteSet(S)
    PROVE  /\ SetToSeq(S) \in Seq(S) /\ Len(SetToSeq(S)) = Cardinality(S)
           /\ ToSet(SetToSeq(S)) = S /\ \A x : Single(SetToSeq(S), x)
<1> DEFINE n == Cardinality(S)
           r == SetToSeq(S)
<1>1. n \in Nat
    BY FS_CardinalityType
<1>2. IsFiniteSet(1 .. n) /\ Cardinality(1 .. n) = n
    BY <1>1, FS_Interval
<1>3. ExistsBijection(1 .. n, S)
    BY <1>2, FS_SameCardinalityBij
<1>4. \E f \in [1 .. n -> S] : IsInjective(f)
    BY <1>3 DEF ExistsBijection, Bijection, Injection
<1>5. r \in [1 .. n -> S] /\ IsInjective(r)
    BY <1>4 DEF SetToSeq
<1> HIDE DEF r
<1>6. r \in Surjection(1 .. n, S)
    <2>1. r \in Injection(1 .. n, S)
        BY <1>5 DEF Injection
    <2> QED BY <1>2, <2>1, FS_Injection
<1>7. ToSet(r) = S
    BY <1>5, <1>6 DEF Surjection, ToSet
<1>8. r \in Seq(S) /\ Len(r) = n
    <2> HIDE DEF n
    <2> QED BY <1>1, <1>5
<1>9. \A x : Single(r, x)
    BY <1>5 DEF Single, IsInjective
<1> QED BY <1>7, <1>8, <1>9 DEF r
-----------------------------------------------------------------------------
(* The inductive invariant.                                                 *)

Members(l) == ToSet(peers[l])

\* The lists hold connections of their side.
ListTypes ==
    /\ peers["unverified"] \in Seq(Inbound) /\ peers["push"] \in Seq(Inbound)
    /\ peers["pull"] \in Seq(Outbound)

CloseOrLog == {"close", "log"}

\* Where each kind of task can be, and where close_peer and the log return to.
TaskPlaces ==
    /\ pc[Verifier] \in {"sleep", "send", "close", "log"}
    /\ pc[Verifier] \in CloseOrLog => after[Verifier] = "send"
    /\ pc[Control] \in {"sleep", "lockBoth", "discover", "log"}
    /\ pc[Control] = "log" => after[Control] = "sleep"

InboundPlaces ==
    \A c \in Inbound :
        /\ pc[c] \in {"new", "admit", "read", "close", "log", "gone",
                      "leaveUnverified", "lockPush", "joinPush", "offer",
                      "missing", "connect", "dead"}
        /\ pc[c] = "close" => after[c] \in {"admit", "joinPush", "read", "gone"}
        /\ pc[c] = "log" => after[c] \in {"admit", "lockPush", "joinPush",
                                          "read", "gone"}

OutboundPlaces ==
    \A c \in Outbound :
        /\ pc[c] \in {"new", "read", "close", "log", "gone", "offer",
                      "missing", "connect", "dead"}
        /\ pc[c] \in CloseOrLog => after[c] \in {"read", "gone"}

\* Who is in close_peer, and only it, closes a connection; who is there for no
\* other reason closes its own.
Targets ==
    /\ \A t \in Tasks : target[t] \in Conns <=> pc[t] = "close"
    /\ \A c \in Conns :
          pc[c] = "close" /\ after[c] \in {"read", "gone"} => target[c] = c

TypeInv ==
    TypeOK /\ ListTypes /\ TaskPlaces /\ InboundPlaces /\ OutboundPlaces
           /\ Targets

\* Between the lock of a list and its release, with what is closed in between.
Arriving(c) == pc[c] = "admit" \/ (pc[c] \in CloseOrLog /\ after[c] = "admit")
Joining(c) ==
    pc[c] = "joinPush" \/ (pc[c] \in CloseOrLog /\ after[c] = "joinPush")

Holds(t, l) ==
    \/ /\ l = "unverified"
       /\ (t \in Inbound /\ Arriving(t)) \/ (t = Verifier /\ pc[t] # "sleep")
    \/ /\ l = "push"
       /\ (t \in Inbound /\ Joining(t)) \/ (t = Control /\ pc[t] = "discover")
    \/ /\ l = "pull"
       /\ \/ t \in Conns /\ pc[t] = "connect"
          \/ t = Control /\ pc[t] \in {"lockBoth", "discover"}

\* A lock is owned by the task that is where it is held, and by no other.
Owned == \A l \in Lists, t \in Tasks : lock[l] = t <=> Holds(t, l)

\* A list that a connection is about to join has room, and keeps it.
Sized ==
    Len(peers["unverified"]) <= CacheSize /\ Len(peers["push"]) <= MaxPush

Room(c) == /\ Arriving(c) => Len(peers["unverified"]) < CacheSize
           /\ Joining(c) => Len(peers["push"]) < MaxPush

\* Out of unverified_peers, and not yet in push_peers.
Between(c) == \/ pc[c] = "lockPush" \/ (pc[c] = "log" /\ after[c] = "lockPush")
              \/ Joining(c)

Finished(c) == pc[c] = "gone" \/ (pc[c] = "log" /\ after[c] = "gone")

Outside(c) == pc[c] = "new" \/ Arriving(c) \/ Between(c) \/ Finished(c)

\* Who is in no list, and who is not in push_peers yet, if its peer was not
\* verified a second time.
Placed(c) ==
    c \notin repeated =>
        /\ Outside(c) => \A l \in Lists : c \notin Members(l)
        /\ pc[c] = "leaveUnverified" => c \notin Members("push")

\* A search for its own connection has passed no list that has it.
Passed(c) ==
    c \notin repeated =>
        \A l \in Lists :
            pc[c] = "close" /\ target[c] = c /\ Searched[l] < Searched[at[c]]
                => c \notin Members(l)

InOneList(c) ==
    /\ \A l \in Lists : Single(peers[l], c)
    /\ ~(c \in Members("unverified") /\ c \in Members("push"))

Once == \A c \in Conns \ repeated : InOneList(c)

\* Closed, or about to be by its own task.
Ending(c) == c \in closed \/ target[c] = c

Trust(c) ==
    /\ c \in Inbound =>
          /\ pc[c] = "new" \/ Arriving(c) => c \notin trusted
          /\ pc[c] = "leaveUnverified" \/ Between(c) => c \in trusted
          /\ c \in Members("push") => c \in trusted \/ Ending(c)
          /\ pc[c] # "new" => c \in trustsUs \/ Ending(c)
    /\ pc[c] = "log" /\ after[c] \in {"read", "gone"} => c \in closed
    /\ c \in repeated => c \in Inbound /\ pc[c] # "new" /\ ~Arriving(c)

Home(c) == IF c \in Outbound THEN "pull"
           ELSE IF c \in trusted THEN "push" ELSE "unverified"

\* Whoever runs, or was ended by an exception, and is open, is at home, or
\* somebody closes it.
Kept(c) ==
    pc[c] \in {"read", "dead", "offer", "missing", "connect"} /\ c \notin closed
        => c \in Members(Home(c)) \/ \E t \in Tasks : target[t] = c

InOrder(c) == Room(c) /\ Placed(c) /\ Passed(c) /\ Trust(c) /\ Kept(c)

PoolInv == Sized /\ Once /\ \A c \in Conns : InOrder(c)
-----------------------------------------------------------------------------
(* Types, and the places of the tasks.                                      *)

LEMMA PlacesInit == Init => TypeInv
<1> SUFFICES ASSUME Init
             PROVE  TypeInv
    OBVIOUS
<1> USE DEF Init, Tasks, Conns, Lists, Owners
<1> USE ConnsAssumption, TasksAssumption
<1>1. SetToSeq(KnownPeers) \in Seq(KnownPeers)
    BY FS_Subset, SetToSeqProperties
<1>2. SetToSeq(KnownPeers) \in Seq(Outbound)
    BY <1>1, MembersAreTyped, SeqOfMembers
<1>3. SetToSeq(KnownPeers) \in Seq(Conns)
    BY <1>1, MembersAreTyped, SeqOfMembers
<1> HIDE DEF Conns
<1>4. ListTypes
    BY <1>2 DEF ListTypes
<1>5. TypeOK
    BY <1>3 DEF TypeOK, Conns
<1>6. TaskPlaces /\ InboundPlaces /\ OutboundPlaces /\ Targets
    BY DEF TaskPlaces, InboundPlaces, OutboundPlaces, Targets, CloseOrLog, Conns
<1> QED BY <1>4, <1>5, <1>6 DEF TypeInv

Sides == [unverified |-> Inbound, push |-> Inbound, pull |-> Outbound]

\* A list is replaced by another one of its side.
LEMMA ListReplaced ==
    ASSUME TypeInv, NEW l \in Lists, NEW s \in Seq(Sides[l]),
           peers' = [peers EXCEPT ![l] = s]
    PROVE  peers' \in [Lists -> Seq(Conns)] /\ ListTypes'
<1>1. Sides[l] \subseteq Conns
    BY DEF Sides, Conns, Lists
<1>2. s \in Seq(Conns)
    BY <1>1, MembersAreTyped, SeqOfMembers
<1>3. peers' \in [Lists -> Seq(Conns)]
    BY <1>2 DEF TypeInv, TypeOK
<1>4. ListTypes'
    BY DEF TypeInv, TypeOK, ListTypes, Lists, Sides
<1> QED BY <1>3, <1>4

PlacesInv == TaskPlaces /\ InboundPlaces /\ OutboundPlaces /\ Targets

\* One task goes on, to a place of its kind.
LEMMA OneMoves ==
    ASSUME TypeInv, NEW t \in Tasks,
           \A s \in Tasks \ {t} : /\ pc'[s] = pc[s] /\ after'[s] = after[s]
                                  /\ target'[s] = target[s],
           t = Verifier =>
              /\ pc'[t] \in {"sleep", "send", "close", "log"}
              /\ pc'[t] \in CloseOrLog => after'[t] = "send",
           t = Control =>
              /\ pc'[t] \in {"sleep", "lockBoth", "discover", "log"}
              /\ pc'[t] = "log" => after'[t] = "sleep",
           t \in Inbound =>
              /\ pc'[t] \in {"new", "admit", "read", "close", "log", "gone",
                             "leaveUnverified", "lockPush", "joinPush",
                             "offer", "missing", "connect", "dead"}
              /\ pc'[t] = "close"
                    => after'[t] \in {"admit", "joinPush", "read", "gone"}
              /\ pc'[t] = "log" => after'[t] \in {"admit", "lockPush",
                                            "joinPush", "read", "gone"},
           t \in Outbound =>
              /\ pc'[t] \in {"new", "read", "close", "log", "gone", "offer",
                             "missing", "connect", "dead"}
              /\ pc'[t] \in CloseOrLog => after'[t] \in {"read", "gone"},
           target'[t] \in Conns <=> pc'[t] = "close",
           pc'[t] = "close" /\ after'[t] \in {"read", "gone"} => target'[t] = t
    PROVE  PlacesInv'
<1>1. TaskPlaces'
    BY TasksAssumption DEF TypeInv, TaskPlaces, Tasks
<1>2. InboundPlaces'
    BY DEF TypeInv, InboundPlaces, Tasks, Conns
<1>3. OutboundPlaces'
    BY DEF TypeInv, OutboundPlaces, Tasks, Conns
<1>4. Targets'
    BY DEF TypeInv, Targets, Tasks, Conns
<1> QED BY <1>1, <1>2, <1>3, <1>4 DEF PlacesInv

\* The task that goes on, and what it writes besides its place.
LEMMA VerifierTypes ==
    TypeInv /\ (VerifierStarts \/ SendPeerChallenge \/ VerifierSleeps) => TypeInv'
<1> SUFFICES ASSUME TypeInv,
                    VerifierStarts \/ SendPeerChallenge \/ VerifierSleeps
             PROVE  TypeInv'
    OBVIOUS
<1> USE TasksAssumption
<1>1. CASE VerifierStarts
    <2>1. PlacesInv'
        BY <1>1, OneMoves DEF VerifierStarts, frame, TypeInv, TypeOK, Tasks,
            Targets, CloseOrLog, Conns
    <2>2. TypeOK' /\ ListTypes'
        BY <1>1 DEF VerifierStarts, frame, flags, TypeInv, TypeOK, ListTypes,
            Lists, Owners, Tasks
    <2> QED BY <2>1, <2>2 DEF PlacesInv, TypeInv
<1>2. CASE SendPeerChallenge
    <2>1. Head(round) \in Inbound /\ Tail(round) \in Seq(Inbound)
        BY <1>2 DEF SendPeerChallenge, TypeInv, TypeOK
    <2> DEFINE h == Head(round)
    <2>2. h \in Inbound /\ h \in Conns
        BY <2>1 DEF Conns
    <2>3. \/ UNCHANGED <<pc, at, target, after>>
          \/ CallClose(Verifier, h, "send")
        BY <1>2 DEF SendPeerChallenge, frame
    <2>4. challenge' \in [Inbound -> {"none", "sent", "expired"}]
        BY <1>2, <2>2 DEF SendPeerChallenge, frame, TypeInv, TypeOK
    <2>5. round' \in Seq(Inbound)
        BY <1>2, <2>1 DEF SendPeerChallenge
    <2>6. UNCHANGED <<peers, lock, trusted, trustsUs, asked, closed, repeated>>
        BY <1>2 DEF SendPeerChallenge
    <2>7. pc[Verifier] = "send"
        BY <1>2 DEF SendPeerChallenge
    <2> HIDE DEF h
    <2>8. PlacesInv'
        <3>1. CASE UNCHANGED <<pc, at, target, after>>
            BY <3>1 DEF PlacesInv, TypeInv, TaskPlaces, InboundPlaces,
                OutboundPlaces, Targets
        <3>2. CASE CallClose(Verifier, h, "send")
            BY <2>2, <3>2, OneMoves DEF CallClose, TypeInv, TypeOK, Tasks,
                CloseOrLog, Conns
        <3> QED BY <2>3, <3>1, <3>2
    <2>9. TypeOK' /\ ListTypes'
        BY <2>2, <2>3, <2>4, <2>5, <2>6 DEF CallClose, TypeInv, TypeOK,
            ListTypes, Lists, Tasks
    <2> QED BY <2>8, <2>9 DEF PlacesInv, TypeInv
<1>3. CASE VerifierSleeps
    <2>1. PlacesInv'
        BY <1>3, OneMoves DEF VerifierSleeps, frame, TypeInv, TypeOK, Tasks,
            Targets, CloseOrLog, Conns
    <2>2. TypeOK' /\ ListTypes'
        BY <1>3 DEF VerifierSleeps, frame, flags, TypeInv, TypeOK, ListTypes,
            Lists, Owners, Tasks
    <2> QED BY <2>1, <2>2 DEF PlacesInv, TypeInv
<1> QED BY <1>1, <1>2, <1>3

LEMMA ControlTypes ==
    TypeInv /\ (ControlLocksPull \/ ControlLocksPush \/ ControlReleases)
        => TypeInv'
<1> SUFFICES ASSUME TypeInv,
                    ControlLocksPull \/ ControlLocksPush \/ ControlReleases
             PROVE  TypeInv'
    OBVIOUS
<1> USE TasksAssumption
<1>1. CASE ControlLocksPull
    <2>1. PlacesInv'
        BY <1>1, OneMoves DEF ControlLocksPull, frame, TypeInv, TypeOK, Tasks,
            Targets, CloseOrLog, Conns
    <2>2. TypeOK' /\ ListTypes'
        BY <1>1 DEF ControlLocksPull, frame, flags, TypeInv, TypeOK, ListTypes,
            Lists, Owners, Tasks
    <2> QED BY <2>1, <2>2 DEF PlacesInv, TypeInv
<1>2. CASE ControlLocksPush
    <2>1. PlacesInv'
        BY <1>2, OneMoves DEF ControlLocksPush, frame, TypeInv, TypeOK, Tasks,
            Targets, CloseOrLog, Conns
    <2>2. asked' \subseteq Conns
        BY <1>2 DEF ControlLocksPush, FullyValidated, TypeInv, TypeOK
    <2>3. TypeOK' /\ ListTypes'
        BY <1>2, <2>2 DEF ControlLocksPush, frame, TypeInv, TypeOK, ListTypes,
            Lists, Owners, Tasks
    <2> QED BY <2>1, <2>3 DEF PlacesInv, TypeInv
<1>3. CASE ControlReleases
    <2>1. PlacesInv'
        BY <1>3, OneMoves DEF ControlReleases, CallLog, TypeInv, TypeOK, Tasks,
            Targets, CloseOrLog, Conns
    <2>2. TypeOK' /\ ListTypes'
        BY <1>3 DEF ControlReleases, CallLog, flags, TypeInv, TypeOK,
            ListTypes, Lists, Owners, Tasks
    <2> QED BY <2>1, <2>2 DEF PlacesInv, TypeInv
<1> QED BY <1>1, <1>2, <1>3

LEMMA AcceptTypes ==
    ASSUME TypeInv, NEW c \in Conns, OnPeerConnection(c) \/ Admit(c)
    PROVE  TypeInv'
<1> USE TasksAssumption, ConnsAssumption, ConfigAssumption
<1>1. CASE OnPeerConnection(c)
    <2> DEFINE s == peers["unverified"]
    <2>1. pc[c] = "new" /\ c \in Inbound /\ c \in Tasks
        BY <1>1 DEF OnPeerConnection, Tasks
    <2>2. CASE Full("unverified") /\ peers' = [peers EXCEPT !["unverified"] = Front(@)]
               /\ CallClose(c, Last(peers["unverified"]), "admit")
        <3>1. s \in Seq(Inbound) /\ Len(s) > 0
            BY <2>2, LenProperties DEF Full, Capacity, TypeInv, ListTypes
        <3>2. Front(s) \in Seq(Inbound) /\ Last(s) \in Inbound
            BY <3>1, FrontProperties
        <3> DEFINE f == Front(s)
                   d == Last(s)
        <3>3. peers' = [peers EXCEPT !["unverified"] = f]
                 /\ CallClose(c, d, "admit")
            BY <2>2
        <3> HIDE DEF f, d, s
        <3>4. f \in Seq(Sides["unverified"]) /\ d \in Conns
            BY <3>2 DEF f, d, Sides, Conns
        <3>5. peers' \in [Lists -> Seq(Conns)] /\ ListTypes'
            BY <3>3, <3>4, ListReplaced DEF Lists
        <3>6. PlacesInv'
            BY <2>1, <3>3, <3>4, OneMoves DEF CallClose, TypeInv, TypeOK,
                CloseOrLog, Tasks, Conns
        <3>7. TypeOK'
            BY <1>1, <2>1, <3>3, <3>4, <3>5 DEF OnPeerConnection, CallClose,
                TypeInv, TypeOK, Lists, Owners, Tasks
        <3> QED BY <3>5, <3>6, <3>7 DEF TypeInv, PlacesInv
    <2>3. CASE pc' = [pc EXCEPT ![c] = "admit"] /\ UNCHANGED <<peers, frame>>
        <3>1. PlacesInv'
            BY <2>1, <2>3, OneMoves DEF frame, TypeInv, TypeOK, Targets,
                CloseOrLog, Tasks, Conns
        <3>2. TypeOK' /\ ListTypes'
            BY <1>1, <2>1, <2>3 DEF OnPeerConnection, frame, TypeInv, TypeOK,
                ListTypes, Lists, Owners, Tasks
        <3> QED BY <3>1, <3>2 DEF TypeInv, PlacesInv
    <2> QED BY <1>1, <2>2, <2>3 DEF OnPeerConnection
<1>2. CASE Admit(c)
    <2> DEFINE s == peers["unverified"]
               r == AppendLeft(s, c, CacheSize)
    <2>1. pc[c] = "admit" /\ c \in Inbound /\ c \in Tasks
        BY <1>2 DEF Admit, Tasks, TypeInv, OutboundPlaces, Conns
    <2>2. s \in Seq(Inbound)
        BY DEF TypeInv, ListTypes
    <2>3. r \in Seq(Inbound)
        BY <2>1, <2>2, AppendLeftTyped
    <2>4. peers' = [peers EXCEPT !["unverified"] = r]
        BY <1>2 DEF Admit
    <2> HIDE DEF r, s
    <2>5. r \in Seq(Sides["unverified"])
        BY <2>3 DEF Sides
    <2>6. peers' \in [Lists -> Seq(Conns)] /\ ListTypes'
        BY <2>4, <2>5, ListReplaced DEF Lists
    <2>7. PlacesInv'
        BY <1>2, <2>1, OneMoves DEF Admit, frame, TypeInv, TypeOK, Targets,
            CloseOrLog, Tasks, Conns
    <2>8. TypeOK'
        BY <1>2, <2>1, <2>6 DEF Admit, frame, flags, TypeInv, TypeOK, Lists,
            Owners, Tasks
    <2> QED BY <2>6, <2>7, <2>8 DEF TypeInv, PlacesInv
<1> QED BY <1>1, <1>2

\* close_peer is called, and the log.
FrameTypes ==
    /\ pc \in [Tasks -> {"new", "admit", "read", "close", "log", "gone",
                         "leaveUnverified", "lockPush", "joinPush", "offer",
                         "missing", "connect", "dead", "sleep", "send",
                         "lockBoth", "discover"}]
    /\ at \in [Tasks -> Lists]
    /\ target \in [Tasks -> Conns \cup {NoTask}]
    /\ after \in [Tasks -> {"read", "gone", "admit", "lockPush", "joinPush",
                            "send", "sleep"}]
    /\ PlacesInv

LEMMA CloseCalled ==
    ASSUME TypeInv, NEW t \in Conns, NEW next \in {"read", "gone"},
           CallClose(t, t, next)
    PROVE  FrameTypes'
<1>1. PlacesInv'
    BY TasksAssumption, OneMoves DEF CallClose, TypeInv, TypeOK, Tasks,
        CloseOrLog, Conns
<1> QED BY <1>1 DEF FrameTypes, CallClose, TypeInv, TypeOK, Lists, Tasks

LEMMA LogCalled ==
    ASSUME TypeInv, NEW t \in Tasks, NEW next, CallLog(t, next),
           UNCHANGED target \/ target' = [target EXCEPT ![t] = NoTask],
           pc[t] = "close" => target' = [target EXCEPT ![t] = NoTask],
           t = Verifier => next = "send", t = Control => next = "sleep",
           t \in Inbound =>
               next \in {"admit", "lockPush", "joinPush", "read", "gone"},
           t \in Outbound => next \in {"read", "gone"}
    PROVE  FrameTypes'
<1>1. /\ pc' = [pc EXCEPT ![t] = "log"]
      /\ at' = [at EXCEPT ![t] = "push"]
      /\ after' = [after EXCEPT ![t] = next]
    BY DEF CallLog
<1>2. target'[t] \notin Conns /\ \A s \in Tasks \ {t} : target'[s] = target[s]
    BY TasksAssumption DEF TypeInv, TypeOK, Targets
<1>3. PlacesInv'
    BY TasksAssumption, <1>1, <1>2, OneMoves DEF TypeInv, TypeOK, Tasks,
        CloseOrLog, Conns
<1>4. next \in {"admit", "lockPush", "joinPush", "read", "gone", "send", "sleep"}
    BY DEF Tasks, Conns
<1> QED BY <1>1, <1>3, <1>4 DEF FrameTypes, TypeInv, TypeOK, Lists

LEMMA PromoteTypes ==
    ASSUME TypeInv, NEW c \in Conns,
           LeaveUnverified(c) \/ LockPush(c) \/ JoinPush(c)
    PROVE  TypeInv'
<1> USE TasksAssumption, ConnsAssumption, ConfigAssumption
<1>1. CASE LeaveUnverified(c)
    <2> DEFINE s == peers["unverified"]
               r == RemoveFirst(s, c)
    <2>1. pc[c] = "leaveUnverified" /\ c \in Inbound /\ c \in Tasks
        BY <1>1 DEF LeaveUnverified, Tasks, TypeInv, OutboundPlaces, Conns
    <2>2. r \in Seq(Inbound)
        BY RemoveFirstProperties DEF TypeInv, ListTypes
    <2>3. peers' = [peers EXCEPT !["unverified"] = r]
        BY <1>1 DEF LeaveUnverified
    <2>4. \/ CallLog(c, "lockPush")
          \/ pc' = [pc EXCEPT ![c] = "lockPush"] /\ UNCHANGED <<at, after>>
        BY <1>1 DEF LeaveUnverified
    <2>5. UNCHANGED <<lock, target, round, flags, closed>>
        BY <1>1 DEF LeaveUnverified
    <2> HIDE DEF r
    <2>6. r \in Seq(Sides["unverified"])
        BY <2>2 DEF Sides
    <2>7. peers' \in [Lists -> Seq(Conns)] /\ ListTypes'
        BY <2>3, <2>6, ListReplaced DEF Lists
    <2>8. FrameTypes'
        <3>1. CASE CallLog(c, "lockPush")
            BY <2>1, <2>5, <3>1, LogCalled DEF Conns
        <3>2. CASE pc' = [pc EXCEPT ![c] = "lockPush"] /\ UNCHANGED <<at, after>>
            <4>1. PlacesInv'
                BY <2>1, <2>5, <3>2, OneMoves DEF TypeInv, TypeOK, Targets,
                    CloseOrLog, Tasks, Conns
            <4> QED BY <2>1, <2>5, <3>2, <4>1 DEF FrameTypes, TypeInv, TypeOK
        <3> QED BY <2>4, <3>1, <3>2
    <2>9. TypeOK'
        BY <2>5, <2>7, <2>8 DEF FrameTypes, flags, TypeInv, TypeOK, Owners
    <2> QED BY <2>7, <2>8, <2>9 DEF TypeInv, PlacesInv, FrameTypes
<1>2. CASE LockPush(c)
    <2> DEFINE s == peers["push"]
    <2>1. pc[c] = "lockPush" /\ c \in Inbound /\ c \in Tasks
        BY <1>2 DEF LockPush, Tasks, TypeInv, OutboundPlaces, Conns
    <2>2. CASE Full("push") /\ peers' = [peers EXCEPT !["push"] = Front(@)]
               /\ CallClose(c, Last(peers["push"]), "joinPush")
        <3>1. s \in Seq(Inbound) /\ Len(s) > 0
            BY <2>2, LenProperties DEF Full, Capacity, TypeInv, ListTypes
        <3>2. Front(s) \in Seq(Inbound) /\ Last(s) \in Inbound
            BY <3>1, FrontProperties
        <3> DEFINE f == Front(s)
                   d == Last(s)
        <3>3. peers' = [peers EXCEPT !["push"] = f]
                 /\ CallClose(c, d, "joinPush")
            BY <2>2
        <3> HIDE DEF f, d, s
        <3>4. f \in Seq(Sides["push"]) /\ d \in Conns
            BY <3>2 DEF f, d, Sides, Conns
        <3>5. peers' \in [Lists -> Seq(Conns)] /\ ListTypes'
            BY <3>3, <3>4, ListReplaced DEF Lists
        <3>6. PlacesInv'
            BY <2>1, <3>3, <3>4, OneMoves DEF CallClose, TypeInv, TypeOK,
                CloseOrLog, Tasks, Conns
        <3>7. TypeOK'
            BY <1>2, <2>1, <3>3, <3>4, <3>5 DEF LockPush, CallClose, flags,
                TypeInv, TypeOK, Lists, Owners, Tasks
        <3> QED BY <3>5, <3>6, <3>7 DEF TypeInv, PlacesInv
    <2>3. CASE pc' = [pc EXCEPT ![c] = "joinPush"] /\ UNCHANGED <<peers, frame>>
        <3>1. PlacesInv'
            BY <2>1, <2>3, OneMoves DEF frame, TypeInv, TypeOK, Targets,
                CloseOrLog, Tasks, Conns
        <3>2. TypeOK' /\ ListTypes'
            BY <1>2, <2>1, <2>3 DEF LockPush, frame, flags, TypeInv, TypeOK,
                ListTypes, Lists, Owners, Tasks
        <3> QED BY <3>1, <3>2 DEF TypeInv, PlacesInv
    <2> QED BY <1>2, <2>2, <2>3 DEF LockPush
<1>3. CASE JoinPush(c)
    <2> DEFINE s == peers["push"]
               r == AppendLeft(s, c, MaxPush)
    <2>1. pc[c] = "joinPush" /\ c \in Inbound /\ c \in Tasks
        BY <1>3 DEF JoinPush, Tasks, TypeInv, OutboundPlaces, Conns
    <2>2. s \in Seq(Inbound)
        BY DEF TypeInv, ListTypes
    <2>3. r \in Seq(Inbound)
        BY <2>1, <2>2, AppendLeftTyped
    <2>4. peers' = [peers EXCEPT !["push"] = r]
        BY <1>3 DEF JoinPush
    <2> HIDE DEF r, s
    <2>5. r \in Seq(Sides["push"])
        BY <2>3 DEF Sides
    <2>6. peers' \in [Lists -> Seq(Conns)] /\ ListTypes'
        BY <2>4, <2>5, ListReplaced DEF Lists
    <2>7. PlacesInv'
        BY <1>3, <2>1, OneMoves DEF JoinPush, frame, TypeInv, TypeOK, Targets,
            CloseOrLog, Tasks, Conns
    <2>8. TypeOK'
        BY <1>3, <2>1, <2>6 DEF JoinPush, frame, flags, TypeInv, TypeOK,
            Lists, Owners, Tasks
    <2> QED BY <2>6, <2>7, <2>8 DEF TypeInv, PlacesInv
<1> QED BY <1>1, <1>2, <1>3

LEMMA MessageTypes ==
    ASSUME TypeInv, NEW c \in Conns,
           \/ PeerVerification(c) \/ (Expire(c) /\ c \in Inbound)
           \/ PeerValidation(c) \/ HandlerCloses(c) \/ RunEnds(c) \/ PeerOffer(c)
           \/ HandlerRaises(c)
    PROVE  TypeInv'
<1> USE TasksAssumption, ConnsAssumption
<1>1. CASE PeerVerification(c)
    <2>1. PlacesInv'
        BY <1>1, OneMoves DEF PeerVerification, Reading, frame, TypeInv,
            TypeOK, Tasks, Targets, CloseOrLog, Conns
    <2>2. TypeOK' /\ ListTypes'
        BY <1>1 DEF PeerVerification, frame, TypeInv, TypeOK, ListTypes,
            Lists, Owners, Tasks
    <2> QED BY <2>1, <2>2 DEF PlacesInv, TypeInv
<1>2. CASE Expire(c) /\ c \in Inbound
    BY <1>2 DEF Expire, frame, TypeInv, TypeOK, ListTypes, Lists, Owners,
        TaskPlaces, InboundPlaces, OutboundPlaces, Targets
<1>3. CASE PeerValidation(c)
    BY <1>3 DEF PeerValidation, frame, TypeInv, TypeOK, ListTypes, Lists,
        Owners, TaskPlaces, InboundPlaces, OutboundPlaces, Targets
<1>4. CASE HandlerCloses(c) \/ RunEnds(c)
    <2>1. /\ CallClose(c, c, "read") \/ CallClose(c, c, "gone")
          /\ pc[c] = "read"
        BY <1>4 DEF HandlerCloses, Reading, RunEnds
    <2>2. /\ UNCHANGED <<peers, lock, round, challenge, asked, closed, repeated>>
          /\ trusted' \subseteq Conns /\ trustsUs' \subseteq Conns
        BY <1>4 DEF HandlerCloses, RunEnds, flags, TypeInv, TypeOK
    <2>3. FrameTypes'
        BY <2>1, CloseCalled
    <2>4. TypeOK' /\ ListTypes'
        BY <2>2, <2>3 DEF FrameTypes, TypeInv, TypeOK, ListTypes, Owners
    <2> QED BY <2>3, <2>4 DEF FrameTypes, PlacesInv, TypeInv
<1>5. CASE PeerOffer(c)
    <2>1. PlacesInv'
        <3>1. CASE UNCHANGED <<pc, at>>
            BY <1>5, <3>1 DEF PeerOffer, PlacesInv, TypeInv, TaskPlaces,
                InboundPlaces, OutboundPlaces, Targets
        <3>2. CASE pc' = [pc EXCEPT ![c] = "offer"]
            BY <1>5, <3>2, OneMoves DEF PeerOffer, Reading, TypeInv, TypeOK,
                Tasks, Targets, CloseOrLog, Conns
        <3> QED BY <1>5, <3>1, <3>2 DEF PeerOffer
    <2>2. TypeOK' /\ ListTypes'
        BY <1>5 DEF PeerOffer, TypeInv, TypeOK, ListTypes,
            Lists, Owners, Tasks
    <2> QED BY <2>1, <2>2 DEF PlacesInv, TypeInv
<1>6. CASE HandlerRaises(c)
    <2>1. PlacesInv'
        BY <1>6, OneMoves DEF HandlerRaises, Reading, frame, TypeInv,
            TypeOK, Tasks, Targets, CloseOrLog, Conns
    <2>2. TypeOK' /\ ListTypes'
        BY <1>6 DEF HandlerRaises, frame, flags, TypeInv, TypeOK, ListTypes,
            Lists, Owners, Tasks
    <2> QED BY <2>1, <2>2 DEF PlacesInv, TypeInv
<1> QED BY <1>1, <1>2, <1>3, <1>4, <1>5, <1>6

LEMMA FirstOfProperties ==
    ASSUME NEW S \in SUBSET Lists, S # {}, NEW order \in [Lists -> Nat]
    PROVE  /\ FirstOf(S, order) \in S
           /\ \A l \in S : order[FirstOf(S, order)] <= order[l]
<1> DEFINE R == {order[l] : l \in S}
<1>1. R \subseteq Nat /\ R # {}
    OBVIOUS
<1>2. \E x \in R : \A y \in R : x <= y
    <2> HIDE DEF R
    <2> QED BY <1>1, SmallestExists
<1>3. \E l \in S : \A k \in S : order[l] <= order[k]
    BY <1>2
<1> QED BY <1>3 DEF FirstOf

LEMMA Orders == Searched \in [Lists -> Nat] /\ Logged \in [Lists -> Nat]
BY DEF Searched, Logged, Lists

\* What the search for a connection comes to: it waits at a list, or it takes
\* the connection out of the first list that has it, or out of none.
Passes(t, l) == Searched[at[t]] <= Searched[l]

Waits(t) ==
    \E stop \in Lists :
        /\ Passes(t, stop)
        /\ \A l \in Lists : Passes(t, l) /\ Searched[l] < Searched[stop]
                                => target[t] \notin Members(l)
        /\ at' = [at EXCEPT ![t] = stop]
        /\ UNCHANGED <<peers, lock, pc, target, after, round, flags, closed>>

Closes(t) ==
    /\ closed' = closed \cup {target[t]}
    /\ target' = [target EXCEPT ![t] = NoTask]
    /\ CallLog(t, after[t])
    /\ UNCHANGED <<lock, round, flags>>
    /\ \/ /\ \A l \in Lists : Passes(t, l) => target[t] \notin Members(l)
          /\ peers' = peers
       \/ \E stop \in Lists :
             /\ Passes(t, stop) /\ target[t] \in Members(stop)
             /\ peers' = [peers EXCEPT ![stop] = RemoveFirst(@, target[t])]
             /\ \A l \in Lists : Passes(t, l) /\ Searched[l] < Searched[stop]
                                     => target[t] \notin Members(l)

LEMMA SearchComesTo ==
    ASSUME TypeInv, NEW t \in Tasks, CloseSearch(t)
    PROVE  /\ pc[t] = "close" /\ target[t] \in Conns /\ t # Control
           /\ Waits(t) \/ Closes(t)
<1> DEFINE c == target[t]
           Held(l) == lock[l] # NoTask /\ ~HasLock(t, l)
           stops == {l \in From(at[t], Searched) :
                        Held(l) \/ Contains(peers[l], c)}
           stop == FirstOf(stops, Searched)
<1>1. pc[t] = "close" /\ c \in Conns /\ t # Control
    BY DEF CloseSearch, TypeInv, Targets, TaskPlaces
<1>2. at[t] \in Lists /\ \A l \in Lists : peers[l] \in Seq(Conns)
    BY DEF TypeInv, TypeOK
<1>3. \A l \in Lists : Contains(peers[l], c) <=> c \in Members(l)
    BY <1>2, ContainsIsMember DEF Members
<1>4. \A l \in Lists : Passes(t, l) /\ l \notin stops => c \notin Members(l)
    BY <1>2, <1>3, Orders DEF From, Passes
<1>5. \A l \in stops : l \in Lists /\ Passes(t, l)
    BY <1>2, Orders DEF From, Passes
<1>6. stops # {} =>
         /\ stop \in stops
         /\ \A l \in stops : Searched[stop] <= Searched[l]
    <2>1. stops \in SUBSET Lists
        BY DEF From
    <2> HIDE DEF stops
    <2> QED BY <2>1, FirstOfProperties, Orders
<1>7. \/ /\ stops # {} /\ Held(stop)
         /\ at' = [at EXCEPT ![t] = stop]
         /\ UNCHANGED <<peers, pc, target, after, closed>>
      \/ /\ stops # {} => c \in Members(stop)
         /\ peers' = IF stops = {} THEN peers
                     ELSE [peers EXCEPT ![stop] = RemoveFirst(@, c)]
         /\ closed' = closed \cup {c}
         /\ target' = [target EXCEPT ![t] = NoTask]
         /\ CallLog(t, after[t])
    <2>1. stops # {} /\ ~Held(stop) => c \in Members(stop)
        BY <1>3, <1>5, <1>6
    <2>2. \/ /\ stops # {} /\ Held(stop)
             /\ at' = [at EXCEPT ![t] = stop]
             /\ UNCHANGED <<peers, pc, target, after, closed>>
          \/ /\ stops # {} => ~Held(stop)
             /\ peers' = IF stops = {} THEN peers
                         ELSE [peers EXCEPT ![stop] = RemoveFirst(@, c)]
             /\ closed' = closed \cup {c}
             /\ target' = [target EXCEPT ![t] = NoTask]
             /\ CallLog(t, after[t])
        BY DEF CloseSearch
    <2> HIDE DEF stop, stops, Held, c
    <2> QED BY <2>1, <2>2
<1>8. UNCHANGED <<lock, round, flags>>
    BY DEF CloseSearch
<1> HIDE DEF stop, stops, Held, c
<1>9. stops # {} =>
         /\ stop \in Lists /\ Passes(t, stop)
         /\ \A l \in Lists : Passes(t, l) /\ Searched[l] < Searched[stop]
                                 => c \notin Members(l)
    BY <1>4, <1>5, <1>6, Orders
<1>10. CASE stops # {} /\ at' = [at EXCEPT ![t] = stop]
               /\ UNCHANGED <<peers, pc, target, after, closed>>
    BY <1>1, <1>8, <1>9, <1>10 DEF Waits, c
<1>11. CASE /\ stops # {} => c \in Members(stop)
            /\ peers' = IF stops = {} THEN peers
                        ELSE [peers EXCEPT ![stop] = RemoveFirst(@, c)]
            /\ closed' = closed \cup {c}
            /\ target' = [target EXCEPT ![t] = NoTask]
            /\ CallLog(t, after[t])
    <2>1. CASE stops = {}
        BY <1>1, <1>4, <1>8, <1>11, <2>1 DEF Closes, c
    <2>2. CASE stops # {}
        BY <1>1, <1>8, <1>9, <1>11, <2>2 DEF Closes, c
    <2> QED BY <2>1, <2>2
<1> QED BY <1>7, <1>10, <1>11

LEMMA SearchTypes ==
    ASSUME TypeInv, NEW t \in Tasks, CloseSearch(t)
    PROVE  TypeInv'
<1>1. pc[t] = "close" /\ target[t] \in Conns /\ t # Control
         /\ (Waits(t) \/ Closes(t))
    BY SearchComesTo
<1>2. CASE Waits(t)
    BY <1>2 DEF Waits, flags, TypeInv, TypeOK, ListTypes, TaskPlaces,
        InboundPlaces, OutboundPlaces, Targets
<1>3. CASE Closes(t)
    <2>1. FrameTypes'
        BY <1>1, <1>3, TasksAssumption, LogCalled DEF Closes, TypeInv, Tasks,
            TaskPlaces, InboundPlaces, OutboundPlaces, CloseOrLog
    <2>2. peers' \in [Lists -> Seq(Conns)] /\ ListTypes'
        <3>1. CASE peers' = peers
            BY <3>1 DEF TypeInv, TypeOK, ListTypes
        <3>2. CASE \E stop \in Lists :
                      peers' = [peers EXCEPT ![stop] = RemoveFirst(@, target[t])]
            <4>1. PICK stop \in Lists :
                      peers' = [peers EXCEPT ![stop] = RemoveFirst(@, target[t])]
                BY <3>2
            <4> DEFINE r == RemoveFirst(peers[stop], target[t])
            <4>2. peers[stop] \in Seq(Sides[stop])
                BY DEF TypeInv, ListTypes, Lists, Sides
            <4>3. r \in Seq(Sides[stop])
                BY <4>2, RemoveFirstProperties
            <4>4. peers' = [peers EXCEPT ![stop] = r]
                BY <4>1
            <4> HIDE DEF r
            <4> QED BY <4>3, <4>4, ListReplaced
        <3> QED BY <1>3, <3>1, <3>2 DEF Closes
    <2>3. TypeOK'
        BY <1>1, <1>3, <2>1, <2>2 DEF Closes, FrameTypes, flags, TypeInv,
            TypeOK, Owners
    <2> QED BY <2>1, <2>2, <2>3 DEF TypeInv, FrameTypes, PlacesInv
<1> QED BY <1>1, <1>2, <1>3

\* The lists are read.
LEMMA WalkComesTo ==
    ASSUME TypeInv, NEW t \in Tasks, NEW order \in [Lists -> Nat], NEW next,
           Walk(t, order, next)
    PROVE  /\ UNCHANGED <<peers, lock, target, round, flags, closed>>
           /\ \/ /\ \E l \in Lists : at' = [at EXCEPT ![t] = l]
                 /\ UNCHANGED <<pc, after>>
              \/ /\ pc' = [pc EXCEPT ![t] = next]
                 /\ at' = [at EXCEPT ![t] = "push"]
                 /\ after' = [after EXCEPT ![t] = "read"]
<1> DEFINE stops == {l \in From(at[t], order) : lock[l] # NoTask}
<1>1. stops \in SUBSET Lists
    BY DEF From
<1>2. \/ /\ stops # {}
         /\ at' = [at EXCEPT ![t] = FirstOf(stops, order)]
         /\ UNCHANGED <<pc, after>>
      \/ /\ pc' = [pc EXCEPT ![t] = next]
         /\ at' = [at EXCEPT ![t] = "push"]
         /\ after' = [after EXCEPT ![t] = "read"]
    BY DEF Walk
<1>3. UNCHANGED <<peers, lock, target, round, flags, closed>>
    BY DEF Walk
<1> HIDE DEF stops
<1>4. stops # {} => FirstOf(stops, order) \in Lists
    BY <1>1, FirstOfProperties
<1> QED BY <1>2, <1>3, <1>4

LEMMA WalkTypes ==
    ASSUME TypeInv, NEW t \in Tasks,
           LogPeers(t) \/ (t \in Conns /\ CollectPeers(t))
    PROVE  TypeInv'
<1>1. \/ pc[t] = "log" /\ Walk(t, Logged, after[t])
      \/ t \in Conns /\ pc[t] = "offer" /\ Walk(t, Searched, "missing")
    BY DEF LogPeers, CollectPeers
<1>2. PICK next : /\ \/ pc[t] = "log" /\ next = after[t]
                     \/ t \in Conns /\ pc[t] = "offer" /\ next = "missing"
                  /\ \/ Walk(t, Logged, next) \/ Walk(t, Searched, next)
    BY <1>1
<1>3. /\ UNCHANGED <<peers, lock, target, round, flags, closed>>
      /\ \/ /\ \E l \in Lists : at' = [at EXCEPT ![t] = l]
            /\ UNCHANGED <<pc, after>>
         \/ /\ pc' = [pc EXCEPT ![t] = next]
            /\ at' = [at EXCEPT ![t] = "push"]
            /\ after' = [after EXCEPT ![t] = "read"]
    BY <1>2, WalkComesTo, Orders
<1>4. CASE (\E l \in Lists : at' = [at EXCEPT ![t] = l])
              /\ UNCHANGED <<pc, after>>
    BY <1>3, <1>4 DEF flags, TypeInv, TypeOK, ListTypes, TaskPlaces,
        InboundPlaces, OutboundPlaces, Targets, Owners
<1>5. CASE /\ pc' = [pc EXCEPT ![t] = next]
           /\ at' = [at EXCEPT ![t] = "push"]
           /\ after' = [after EXCEPT ![t] = "read"]
    <2>1. next \in {"admit", "lockPush", "joinPush", "read", "gone", "missing"}
             \/ (t = Verifier /\ next = "send")
             \/ (t = Control /\ next = "sleep")
        BY <1>2 DEF TypeInv, TaskPlaces, InboundPlaces, OutboundPlaces,
            CloseOrLog, Tasks, Conns
    <2>2. t \in Outbound => next \in {"read", "gone", "missing"}
        BY <1>2 DEF TypeInv, OutboundPlaces, CloseOrLog
    <2>3. t \in {Verifier, Control} => next \in {"send", "sleep"}
        BY <1>2, TasksAssumption DEF TypeInv, TaskPlaces, CloseOrLog
    <2>4. PlacesInv'
        BY <1>2, <1>3, <1>5, <2>1, <2>2, <2>3, TasksAssumption, OneMoves
            DEF TypeInv, TypeOK, Targets, CloseOrLog, Tasks, Conns
    <2>5. TypeOK' /\ ListTypes'
        BY <1>3, <1>5, <2>1 DEF flags, TypeInv, TypeOK, ListTypes, Owners, Lists
    <2> QED BY <2>4, <2>5 DEF TypeInv, PlacesInv
<1> QED BY <1>3, <1>4, <1>5

LEMMA ConnectTypes ==
    ASSUME TypeInv, NEW c \in Conns,
           \/ OpenConnections(c)
           \/ \E new \in SUBSET Outbound :
                 ConnectionsOpened(c, new) \/ FactoryRaises(c, new)
    PROVE  TypeInv'
<1> USE TasksAssumption, ConnsAssumption
<1>1. CASE OpenConnections(c)
    <2>1. /\ pc[c] = "missing" /\ UNCHANGED <<peers, frame, round, flags, closed>>
          /\ lock' \in [Lists -> Owners]
          /\ pc' = [pc EXCEPT ![c] = "connect"] \/ pc' = [pc EXCEPT ![c] = "read"]
        BY <1>1 DEF OpenConnections, TypeInv, TypeOK, Lists, Owners, Tasks
    <2>2. PlacesInv'
        <3>1. CASE pc' = [pc EXCEPT ![c] = "connect"]
            BY <2>1, <3>1, OneMoves DEF frame, TypeInv, TypeOK, Tasks, Targets,
                CloseOrLog, Conns
        <3>2. CASE pc' = [pc EXCEPT ![c] = "read"]
            BY <2>1, <3>2, OneMoves DEF frame, TypeInv, TypeOK, Tasks, Targets,
                CloseOrLog, Conns
        <3> QED BY <2>1, <3>1, <3>2
    <2>3. TypeOK' /\ ListTypes'
        BY <2>1 DEF frame, flags, TypeInv, TypeOK, ListTypes
    <2> QED BY <2>2, <2>3 DEF PlacesInv, TypeInv
<1>2. ASSUME NEW new \in SUBSET Outbound, NEW next \in {"read", "dead"},
             ListAndRun(c, new, next)
      PROVE  TypeInv'
    <2> DEFINE s == peers["pull"]
               n == SetToSeq(new)
    <2>1. IsFiniteSet(new)
        BY <1>2, FS_Subset
    <2>2. n \in Seq(new)
        BY <2>1, SetToSeqProperties
    <2>3. n \in Seq(Outbound)
        BY <1>2, <2>2, MembersAreTyped, SeqOfMembers
    <2> HIDE DEF n
    <2>4. s \o n \in Seq(Outbound)
        BY <2>3, ConcatMembers DEF TypeInv, ListTypes
    <2> DEFINE r == s \o n
    <2>5. peers' = [peers EXCEPT !["pull"] = r]
        BY <1>2 DEF ListAndRun, n
    <2> HIDE DEF r
    <2>6. r \in Seq(Sides["pull"])
        BY <2>4 DEF Sides, r
    <2>7. peers' \in [Lists -> Seq(Conns)] /\ ListTypes'
        BY <2>5, <2>6, ListReplaced DEF Lists
    <2>8. /\ pc[c] = "connect" /\ \A o \in new : pc[o] = "new"
          /\ pc' = [t \in Tasks |-> IF t \in new THEN "read"
                                    ELSE IF t = c THEN next ELSE pc[t]]
          /\ UNCHANGED <<frame, round, challenge, trustsUs, asked, closed,
                         repeated>>
          /\ trusted' = trusted \cup new
          /\ lock' = [lock EXCEPT !["pull"] = NoTask]
        BY <1>2 DEF ListAndRun
    <2>9. \A t \in Tasks : \/ pc'[t] = pc[t]
                           \/ /\ pc'[t] \in {"read", "dead"}
                              /\ pc[t] \in {"new", "connect"}
        BY <2>8
    <2>10. UNCHANGED <<at, target, after>>
        BY <2>8 DEF frame
    <2>11. PlacesInv'
        BY <2>9, <2>10 DEF PlacesInv, TypeInv, TaskPlaces, InboundPlaces,
            OutboundPlaces, Targets, CloseOrLog, Tasks, Conns
    <2>12. TypeOK'
        BY <1>2, <2>7, <2>8, <2>10 DEF TypeInv, TypeOK, Owners, Lists, Conns
    <2> QED BY <2>7, <2>11, <2>12 DEF TypeInv, PlacesInv
<1> QED BY <1>1, <1>2 DEF ConnectionsOpened, FactoryRaises

LEMMA TypesStep == TypeInv /\ [Next]_vars => TypeInv'
<1> SUFFICES ASSUME TypeInv, [Next]_vars
             PROVE  TypeInv'
    OBVIOUS
<1>1. CASE VerifierTask
    BY <1>1, VerifierTypes, SearchTypes, WalkTypes DEF VerifierTask, Tasks
<1>2. CASE ControlTask
    BY <1>2, ControlTypes, WalkTypes DEF ControlTask, Tasks
<1>3. ASSUME NEW c \in Inbound,
             OnPeerConnection(c) \/ PeerVerification(c) \/ Expire(c)
      PROVE  TypeInv'
    BY <1>3, AcceptTypes, MessageTypes DEF Conns
<1>4. ASSUME NEW c \in Outbound, PeerValidation(c)
      PROVE  TypeInv'
    BY <1>4, MessageTypes DEF Conns
<1>5. ASSUME NEW c \in Conns,
             \/ ConnTask(c) \/ HandlerCloses(c) \/ HandlerRaises(c)
             \/ RunEnds(c) \/ PeerOffer(c)
      PROVE  TypeInv'
    BY <1>5, AcceptTypes, PromoteTypes, WalkTypes, SearchTypes, ConnectTypes,
        MessageTypes DEF ConnTask, Tasks
<1>6. CASE UNCHANGED vars
    BY <1>6 DEF vars, TypeInv, TypeOK, ListTypes, TaskPlaces, InboundPlaces,
        OutboundPlaces, Targets
<1> QED BY <1>1, <1>2, <1>3, <1>4, <1>5, <1>6 DEF Next

\* Type correctness of the lists, the locks, the places of the tasks and the
\* flags of the connections.
THEOREM PoolTypes == Spec => []TypeOK
<1>1. TypeInv => TypeOK
    BY DEF TypeInv
<1> QED BY <1>1, PlacesInit, TypesStep, PTL DEF Spec

-----------------------------------------------------------------------------
(* Who owns which lock.                                                     *)

LEMMA OwnedInit == Init => Owned
BY ConnsAssumption, TasksAssumption DEF Init, Owned, Holds, Arriving, Joining,
    CloseOrLog, Tasks, Conns, Lists

\* One task goes on: it may take a free lock, or release one of its own.
LEMMA OneOwns ==
    ASSUME Owned, NEW t \in Tasks,
           \A s \in Tasks \ {t} : pc'[s] = pc[s] /\ after'[s] = after[s],
           \A l \in Lists : \/ lock'[l] = lock[l]
                            \/ lock[l] \in {NoTask, t} /\ lock'[l] \in {NoTask, t},
           \A l \in Lists : lock'[l] = t <=> Holds(t, l)'
    PROVE  Owned'
<1> SUFFICES ASSUME NEW l \in Lists, NEW s \in Tasks
             PROVE  lock'[l] = s <=> Holds(s, l)'
    BY DEF Owned
<1>1. CASE s = t
    BY <1>1
<1>2. CASE s # t
    <2>1. Holds(s, l)' <=> Holds(s, l)
        BY <1>2 DEF Holds, Arriving, Joining
    <2>2. s # NoTask
        BY TasksAssumption DEF Tasks
    <2>3. lock'[l] = s <=> lock[l] = s
        BY <1>2, <2>2
    <2> QED BY <2>1, <2>3 DEF Owned
<1> QED BY <1>1, <1>2

\* It goes on between two places where it holds the same.
LEMMA OneKeeps ==
    ASSUME Owned, NEW t \in Tasks, lock' = lock,
           \A s \in Tasks \ {t} : pc'[s] = pc[s] /\ after'[s] = after[s],
           \A l \in Lists : Holds(t, l)' <=> Holds(t, l)
    PROVE  Owned'
BY OneOwns DEF Owned

LEMMA VerifierOwns ==
    ASSUME TypeInv, Owned, VerifierStarts \/ SendPeerChallenge \/ VerifierSleeps
    PROVE  Owned'
<1> USE TasksAssumption
<1>0. Verifier \in Tasks /\ Verifier \notin Inbound /\ Verifier \notin Conns
         /\ Verifier # Control
    BY DEF Tasks, Conns
<1>1. CASE VerifierStarts
    <2>1. \A l \in Lists : lock'[l] = Verifier <=> Holds(Verifier, l)'
        BY <1>0, <1>1 DEF VerifierStarts, Owned, Holds, TypeInv, TypeOK, Lists
    <2> QED BY <1>0, <1>1, <2>1, OneOwns DEF VerifierStarts, frame, TypeInv,
            TypeOK
<1>2. CASE SendPeerChallenge
    <2>1. pc[Verifier] = "send" /\ lock' = lock
        BY <1>2 DEF SendPeerChallenge
    <2>2. \/ UNCHANGED <<pc, after>>
          \/ /\ pc' = [pc EXCEPT ![Verifier] = "close"]
             /\ after' = [after EXCEPT ![Verifier] = "send"]
        BY <1>2 DEF SendPeerChallenge, CallClose, frame
    <2> QED BY <1>0, <2>1, <2>2, OneKeeps DEF Holds, TypeInv, TypeOK
<1>3. CASE VerifierSleeps
    <2>1. \A l \in Lists : lock'[l] = Verifier <=> Holds(Verifier, l)'
        BY <1>0, <1>3 DEF VerifierSleeps, Owned, Holds, TypeInv, TypeOK, Lists
    <2>2. lock["unverified"] = Verifier
        BY <1>0, <1>3 DEF VerifierSleeps, Owned, Holds, Lists
    <2> QED BY <1>0, <1>3, <2>1, <2>2, OneOwns DEF VerifierSleeps, frame,
            TypeInv, TypeOK
<1> QED BY <1>1, <1>2, <1>3

LEMMA ControlOwns ==
    ASSUME TypeInv, Owned,
           ControlLocksPull \/ ControlLocksPush \/ ControlReleases
    PROVE  Owned'
<1> USE TasksAssumption
<1>0. Control \in Tasks /\ Control \notin Inbound /\ Control \notin Conns
         /\ Verifier # Control
    BY DEF Tasks, Conns
<1>1. CASE ControlLocksPull
    <2>1. \A l \in Lists : lock'[l] = Control <=> Holds(Control, l)'
        BY <1>0, <1>1 DEF ControlLocksPull, Owned, Holds, TypeInv, TypeOK, Lists
    <2> QED BY <1>0, <1>1, <2>1, OneOwns DEF ControlLocksPull, frame, TypeInv,
            TypeOK
<1>2. CASE ControlLocksPush
    <2>1. \A l \in Lists : lock'[l] = Control <=> Holds(Control, l)'
        BY <1>0, <1>2 DEF ControlLocksPush, Owned, Holds, TypeInv, TypeOK, Lists
    <2> QED BY <1>0, <1>2, <2>1, OneOwns DEF ControlLocksPush, frame, TypeInv,
            TypeOK
<1>3. CASE ControlReleases
    <2>1. \A l \in Lists : lock'[l] = Control <=> Holds(Control, l)'
        BY <1>0, <1>3 DEF ControlReleases, CallLog, Owned, Holds, TypeInv,
            TypeOK, Lists
    <2>2. lock["pull"] = Control /\ lock["push"] = Control
        BY <1>0, <1>3 DEF ControlReleases, Owned, Holds, Lists
    <2>3. \A s \in Tasks \ {Control} : pc'[s] = pc[s] /\ after'[s] = after[s]
        BY <1>3 DEF ControlReleases, CallLog, TypeInv, TypeOK
    <2>4. lock' = [lock EXCEPT !["push"] = NoTask, !["pull"] = NoTask]
        BY <1>3 DEF ControlReleases
    <2>5. NoTask # Control /\ \A s \in Tasks : NoTask # s
        BY <1>0 DEF Tasks
    <2>6. \A l \in Lists :
             \/ lock'[l] = lock[l]
             \/ lock[l] = Control /\ lock'[l] = NoTask
        BY <2>2, <2>4 DEF TypeInv, TypeOK, Lists
    <2> QED BY <1>0, <2>1, <2>3, <2>5, <2>6, OneOwns
<1> QED BY <1>1, <1>2, <1>3

LEMMA AcceptOwns ==
    ASSUME TypeInv, Owned, NEW c \in Conns, OnPeerConnection(c) \/ Admit(c)
    PROVE  Owned'
<1>0. c \in Tasks /\ c \notin {Verifier, Control} /\ c # NoTask
    BY TasksAssumption DEF Tasks
<1>1. CASE OnPeerConnection(c)
    <2>1. /\ pc[c] = "new" /\ c \in Inbound /\ lock["unverified"] = NoTask
          /\ lock' = [lock EXCEPT !["unverified"] = c]
          /\ \/ pc' = [pc EXCEPT ![c] = "admit"] /\ UNCHANGED after
             \/ /\ pc' = [pc EXCEPT ![c] = "close"]
                /\ after' = [after EXCEPT ![c] = "admit"]
        BY <1>1 DEF OnPeerConnection, CallClose, frame
    <2>2. /\ pc'[c] = "admit" \/ (pc'[c] = "close" /\ after'[c] = "admit")
          /\ \A s \in Tasks \ {c} : pc'[s] = pc[s] /\ after'[s] = after[s]
        BY <1>0, <2>1 DEF TypeInv, TypeOK
    <2>3. /\ \A l \in Lists : Holds(c, l)' <=> l = "unverified"
          /\ \A l \in Lists : ~Holds(c, l)
        BY <1>0, <2>1, <2>2 DEF Holds, Arriving, Joining, CloseOrLog, Lists
    <2>4. \A l \in Lists : lock'[l] = IF l = "unverified" THEN c ELSE lock[l]
        BY <2>1 DEF TypeInv, TypeOK
    <2>5. \A l \in Lists : lock'[l] = c <=> Holds(c, l)'
        BY <1>0, <2>3, <2>4 DEF Owned
    <2> QED BY <1>0, <2>1, <2>2, <2>4, <2>5, OneOwns
<1>2. CASE Admit(c)
    <2>1. c \in Inbound
        BY <1>2 DEF Admit, TypeInv, OutboundPlaces, Conns
    <2>2. \A l \in Lists : lock'[l] = c <=> Holds(c, l)'
        BY <1>0, <1>2 DEF Admit, Owned, Holds, Arriving, Joining,
            CloseOrLog, TypeInv, TypeOK, Lists
    <2>3. lock["unverified"] = c
        BY <1>0, <1>2, <2>1 DEF Admit, Owned, Holds, Arriving, Lists
    <2> QED BY <1>0, <1>2, <2>2, <2>3, OneOwns DEF Admit, frame, TypeInv, TypeOK
<1> QED BY <1>1, <1>2

LEMMA PromoteOwns ==
    ASSUME TypeInv, Owned, NEW c \in Conns,
           LeaveUnverified(c) \/ LockPush(c) \/ JoinPush(c)
    PROVE  Owned'
<1>0. c \in Tasks /\ c \notin {Verifier, Control} /\ c # NoTask
    BY TasksAssumption DEF Tasks
<1>1. CASE LeaveUnverified(c)
    <2>1. /\ pc[c] = "leaveUnverified" /\ lock' = lock
          /\ \/ pc' = [pc EXCEPT ![c] = "lockPush"] /\ UNCHANGED after
             \/ /\ pc' = [pc EXCEPT ![c] = "log"]
                /\ after' = [after EXCEPT ![c] = "lockPush"]
        BY <1>1 DEF LeaveUnverified, CallLog
    <2> QED BY <1>0, <2>1, OneKeeps DEF Holds, Arriving, Joining, CloseOrLog,
            TypeInv, TypeOK
<1>2. CASE LockPush(c)
    <2>1. /\ pc[c] = "lockPush" /\ lock["push"] = NoTask
          /\ lock' = [lock EXCEPT !["push"] = c]
          /\ \/ pc' = [pc EXCEPT ![c] = "joinPush"] /\ UNCHANGED after
             \/ /\ pc' = [pc EXCEPT ![c] = "close"]
                /\ after' = [after EXCEPT ![c] = "joinPush"]
        BY <1>2 DEF LockPush, CallClose, frame
    <2>2. c \in Inbound
        BY <2>1 DEF TypeInv, OutboundPlaces, Conns
    <2>3. /\ pc'[c] = "joinPush" \/ (pc'[c] = "close" /\ after'[c] = "joinPush")
          /\ \A s \in Tasks \ {c} : pc'[s] = pc[s] /\ after'[s] = after[s]
        BY <1>0, <2>1 DEF TypeInv, TypeOK
    <2>4. /\ \A l \in Lists : Holds(c, l)' <=> l = "push"
          /\ \A l \in Lists : ~Holds(c, l)
        BY <1>0, <2>1, <2>2, <2>3 DEF Holds, Arriving, Joining, CloseOrLog,
            Lists
    <2>5. \A l \in Lists : lock'[l] = IF l = "push" THEN c ELSE lock[l]
        BY <2>1 DEF TypeInv, TypeOK
    <2>6. \A l \in Lists : lock'[l] = c <=> Holds(c, l)'
        BY <1>0, <2>4, <2>5 DEF Owned
    <2> QED BY <1>0, <2>1, <2>3, <2>5, <2>6, OneOwns
<1>3. CASE JoinPush(c)
    <2>1. c \in Inbound
        BY <1>3 DEF JoinPush, TypeInv, OutboundPlaces, Conns
    <2>2. \A l \in Lists : lock'[l] = c <=> Holds(c, l)'
        BY <1>0, <1>3 DEF JoinPush, Owned, Holds, Arriving, Joining,
            CloseOrLog, TypeInv, TypeOK, Lists
    <2>3. lock["push"] = c
        BY <1>0, <1>3, <2>1 DEF JoinPush, Owned, Holds, Joining, Lists
    <2> QED BY <1>0, <1>3, <2>2, <2>3, OneOwns DEF JoinPush, frame, TypeInv,
            TypeOK
<1> QED BY <1>1, <1>2, <1>3

LEMMA MessageOwns ==
    ASSUME TypeInv, Owned, NEW c \in Conns,
           \/ PeerVerification(c) \/ Expire(c) \/ PeerValidation(c)
           \/ HandlerCloses(c) \/ HandlerRaises(c) \/ RunEnds(c)
           \/ PeerOffer(c)
    PROVE  Owned'
<1>0. c \in Tasks /\ c \notin {Verifier, Control} /\ c # NoTask
    BY TasksAssumption DEF Tasks
<1>1. CASE PeerVerification(c)
    BY <1>0, <1>1, OneKeeps DEF PeerVerification, Reading, frame, Holds,
        Arriving, Joining, CloseOrLog, TypeInv, TypeOK
<1>2. CASE Expire(c) \/ PeerValidation(c)
    <2>1. UNCHANGED <<pc, after, lock>>
        BY <1>2 DEF Expire, PeerValidation, frame
    <2> QED BY <2>1 DEF Owned, Holds, Arriving, Joining
<1>3. CASE HandlerCloses(c) \/ RunEnds(c)
    <2>1. /\ pc[c] = "read" /\ UNCHANGED lock
          /\ CallClose(c, c, "read") \/ CallClose(c, c, "gone")
        BY <1>3 DEF HandlerCloses, Reading, RunEnds
    <2>2. /\ pc'[c] = "close" /\ after'[c] \in {"read", "gone"}
          /\ \A s \in Tasks \ {c} : pc'[s] = pc[s] /\ after'[s] = after[s]
        BY <1>0, <2>1 DEF CallClose, TypeInv, TypeOK
    <2> QED BY <1>0, <2>1, <2>2, OneKeeps DEF Holds, Arriving, Joining,
            CloseOrLog
<1>4. CASE PeerOffer(c)
    <2>1. /\ pc[c] = "read" /\ UNCHANGED <<lock, after>>
          /\ pc' = pc \/ pc' = [pc EXCEPT ![c] = "offer"]
        BY <1>4 DEF PeerOffer, Reading
    <2>2. /\ pc'[c] \in {"read", "offer"}
          /\ \A s \in Tasks \ {c} : pc'[s] = pc[s] /\ after'[s] = after[s]
        BY <1>0, <2>1 DEF TypeInv, TypeOK
    <2> QED BY <1>0, <2>1, <2>2, OneKeeps DEF Holds, Arriving, Joining,
            CloseOrLog
<1>5. CASE HandlerRaises(c)
    BY <1>0, <1>5, OneKeeps DEF HandlerRaises, Reading, frame, Holds,
        Arriving, Joining, CloseOrLog, TypeInv, TypeOK
<1> QED BY <1>1, <1>2, <1>3, <1>4, <1>5

\* What close_peer and the log are called under is held until they return.
LEMMA SearchOwns ==
    ASSUME TypeInv, Owned, NEW t \in Tasks, CloseSearch(t)
    PROVE  Owned'
<1>1. pc[t] = "close" /\ t # Control /\ (Waits(t) \/ Closes(t))
    BY SearchComesTo
<1>2. /\ lock' = lock
      /\ \A s \in Tasks \ {t} : pc'[s] = pc[s] /\ after'[s] = after[s]
      /\ after'[t] = after[t] /\ pc'[t] \in CloseOrLog
    <2>1. CASE Waits(t)
        BY <1>1, <2>1 DEF Waits, CloseOrLog
    <2>2. CASE Closes(t)
        BY <2>2 DEF Closes, CallLog, CloseOrLog, TypeInv, TypeOK
    <2> QED BY <1>1, <2>1, <2>2
<1>3. \A l \in Lists : Holds(t, l)' <=> Holds(t, l)
    BY <1>1, <1>2, TasksAssumption DEF Holds, Arriving, Joining, CloseOrLog
<1> QED BY <1>2, <1>3, OneKeeps

LEMMA WalkOwns ==
    ASSUME TypeInv, Owned, NEW t \in Tasks,
           LogPeers(t) \/ (t \in Conns /\ CollectPeers(t))
    PROVE  Owned'
<1>1. \/ pc[t] = "log" /\ Walk(t, Logged, after[t])
      \/ t \in Conns /\ pc[t] = "offer" /\ Walk(t, Searched, "missing")
    BY DEF LogPeers, CollectPeers
<1>2. PICK next : /\ \/ pc[t] = "log" /\ next = after[t]
                     \/ t \in Conns /\ pc[t] = "offer" /\ next = "missing"
                  /\ \/ Walk(t, Logged, next) \/ Walk(t, Searched, next)
    BY <1>1
<1>3. lock' = lock /\ (UNCHANGED <<pc, after>>
                        \/ /\ pc' = [pc EXCEPT ![t] = next]
                           /\ after' = [after EXCEPT ![t] = "read"])
    BY <1>2, WalkComesTo, Orders
<1>4. CASE UNCHANGED <<pc, after>>
    BY <1>3, <1>4 DEF Owned, Holds, Arriving, Joining
<1>5. CASE /\ pc' = [pc EXCEPT ![t] = next]
           /\ after' = [after EXCEPT ![t] = "read"]
    <2>1. /\ \A s \in Tasks \ {t} : pc'[s] = pc[s] /\ after'[s] = after[s]
          /\ pc'[t] = next /\ after'[t] = "read"
        BY <1>5 DEF TypeInv, TypeOK
    <2>2. \A l \in Lists : Holds(t, l)' <=> Holds(t, l)
        <3>1. CASE pc[t] = "log" /\ next = after[t]
            <4>1. /\ t = Control => next = "sleep"
                  /\ t = Verifier => next = "send"
                  /\ t \in Conns => next \in {"admit", "lockPush", "joinPush",
                                              "read", "gone"}
                BY <3>1, TasksAssumption DEF TypeInv, TaskPlaces,
                    InboundPlaces, OutboundPlaces, CloseOrLog, Conns
            <4> QED BY <2>1, <3>1, <4>1, TasksAssumption DEF Holds, Arriving,
                    Joining, CloseOrLog, Tasks, Conns
        <3>2. CASE t \in Conns /\ pc[t] = "offer" /\ next = "missing"
            BY <2>1, <3>2, TasksAssumption DEF Holds, Arriving, Joining,
                CloseOrLog, Tasks
        <3> QED BY <1>2, <3>1, <3>2
    <2> QED BY <1>3, <2>1, <2>2, OneKeeps
<1> QED BY <1>3, <1>4, <1>5

LEMMA ConnectOwns ==
    ASSUME TypeInv, Owned, NEW c \in Conns,
           \/ OpenConnections(c)
           \/ \E new \in SUBSET Outbound :
                 ConnectionsOpened(c, new) \/ FactoryRaises(c, new)
    PROVE  Owned'
<1>0. c \in Tasks /\ c \notin {Verifier, Control} /\ c # NoTask
    BY TasksAssumption DEF Tasks
<1>1. CASE OpenConnections(c)
    <2>1. /\ pc[c] = "missing" /\ lock["pull"] = NoTask /\ UNCHANGED after
          /\ \/ /\ lock' = [lock EXCEPT !["pull"] = c]
                /\ pc' = [pc EXCEPT ![c] = "connect"]
             \/ lock' = lock /\ pc' = [pc EXCEPT ![c] = "read"]
        BY <1>1 DEF OpenConnections, frame
    <2>2. CASE /\ lock' = [lock EXCEPT !["pull"] = c]
               /\ pc' = [pc EXCEPT ![c] = "connect"]
        <3>1. \A l \in Lists : lock'[l] = c <=> Holds(c, l)'
            BY <1>0, <2>1, <2>2 DEF Owned, Holds, Arriving, Joining,
                CloseOrLog, TypeInv, TypeOK, Lists
        <3> QED BY <1>0, <2>1, <2>2, <3>1, OneOwns DEF TypeInv, TypeOK
    <2>3. CASE lock' = lock /\ pc' = [pc EXCEPT ![c] = "read"]
        BY <1>0, <2>1, <2>3, OneKeeps DEF Holds, Arriving, Joining,
            CloseOrLog, TypeInv, TypeOK
    <2> QED BY <2>1, <2>2, <2>3
<1>2. ASSUME NEW new \in SUBSET Outbound, NEW next \in {"read", "dead"},
             ListAndRun(c, new, next)
      PROVE  Owned'
    <2>1. /\ pc[c] = "connect" /\ \A o \in new : pc[o] = "new"
          /\ pc' = [t \in Tasks |-> IF t \in new THEN "read"
                                    ELSE IF t = c THEN next ELSE pc[t]]
          /\ UNCHANGED after
          /\ lock' = [lock EXCEPT !["pull"] = NoTask]
        BY <1>2 DEF ListAndRun, frame
    <2>2. \A l \in Lists : lock'[l] = IF l = "pull" THEN NoTask ELSE lock[l]
        BY <2>1 DEF TypeInv, TypeOK
    <2>3. lock["pull"] = c
        BY <1>0, <2>1 DEF Owned, Holds, Lists
    <2> SUFFICES ASSUME NEW l \in Lists, NEW t \in Tasks
                 PROVE  lock'[l] = t <=> Holds(t, l)'
        BY DEF Owned
    <2>4. t # NoTask
        BY TasksAssumption DEF Tasks
    <2>5. CASE t = c
        <3>1. pc'[t] \in {"read", "dead"}
            BY <2>1, <2>5
        <3>2. ~Holds(t, l)'
            BY <1>0, <2>5, <3>1 DEF Holds, Arriving, Joining, CloseOrLog
        <3>3. l # "pull" => lock[l] # c
            BY <1>0, <2>1 DEF Owned, Holds, Arriving, Joining, CloseOrLog
        <3> QED BY <2>2, <2>4, <2>5, <3>2, <3>3
    <2>6. CASE t # c /\ t \in new
        <3>1. pc'[t] = "read" /\ pc[t] = "new" /\ t \in Outbound
            BY <1>2, <2>1, <2>6
        <3>2. ~Holds(t, l)' /\ ~Holds(t, l)
            BY <3>1, TasksAssumption DEF Holds, Arriving, Joining, CloseOrLog,
                Conns
        <3> QED BY <2>2, <2>4, <3>2 DEF Owned
    <2>7. CASE t # c /\ t \notin new
        <3>1. pc'[t] = pc[t] /\ after' = after
            BY <2>1, <2>7
        <3>2. Holds(t, l)' <=> Holds(t, l)
            BY <3>1 DEF Holds, Arriving, Joining
        <3> QED BY <2>2, <2>3, <2>4, <2>7, <3>2 DEF Owned
    <2> QED BY <2>5, <2>6, <2>7
<1> QED BY <1>1, <1>2 DEF ConnectionsOpened, FactoryRaises

LEMMA OwnedStep == TypeInv /\ Owned /\ [Next]_vars => Owned'
<1> SUFFICES ASSUME TypeInv, Owned, [Next]_vars
             PROVE  Owned'
    OBVIOUS
<1>1. CASE VerifierTask
    BY <1>1, VerifierOwns, SearchOwns, WalkOwns DEF VerifierTask, Tasks
<1>2. CASE ControlTask
    BY <1>2, ControlOwns, WalkOwns DEF ControlTask, Tasks
<1>3. ASSUME NEW c \in Inbound,
             OnPeerConnection(c) \/ PeerVerification(c) \/ Expire(c)
      PROVE  Owned'
    BY <1>3, AcceptOwns, MessageOwns DEF Conns
<1>4. ASSUME NEW c \in Outbound, PeerValidation(c)
      PROVE  Owned'
    BY <1>4, MessageOwns DEF Conns
<1>5. ASSUME NEW c \in Conns,
             \/ ConnTask(c) \/ HandlerCloses(c) \/ HandlerRaises(c)
             \/ RunEnds(c) \/ PeerOffer(c)
      PROVE  Owned'
    BY <1>5, AcceptOwns, PromoteOwns, WalkOwns, SearchOwns, ConnectOwns,
        MessageOwns DEF ConnTask, Tasks
<1>6. CASE UNCHANGED vars
    BY <1>6 DEF vars, Owned, Holds, Arriving, Joining
<1> QED BY <1>1, <1>2, <1>3, <1>4, <1>5, <1>6 DEF Next

\* Who holds a lock while it waits for another one is evicting, or is the peer
\* control on its way from pull_peers_lock to push_peers_lock.
LEMMA HoldersThatWait ==
    ASSUME TypeInv, Owned, NEW l \in Lists, lock[l] \in Tasks,
           WaitsFor(lock[l]) # {}
    PROVE  Evicting(lock[l]) \/ (l = "pull" /\ lock[l] = Control
                                   /\ pc[Control] = "lockBoth")
<1> DEFINE h == lock[l]
<1>1. Holds(h, l)
    BY DEF Owned
<1>2. pc[h] \in {"close", "log", "offer", "leaveUnverified", "lockPush",
                 "lockBoth", "missing"}
    BY DEF WaitsFor
<1>3. CASE h \in Inbound /\ (Arriving(h) \/ Joining(h))
    BY <1>2, <1>3 DEF Arriving, Joining, Evicting, CloseOrLog
<1>4. CASE h = Verifier
    BY <1>2, <1>4 DEF TypeInv, TaskPlaces, Evicting, CloseOrLog
<1>5. CASE h = Control
    BY <1>1, <1>2, <1>5, TasksAssumption DEF Holds, Conns
<1>6. CASE l = "pull" /\ h \in Conns /\ pc[h] = "connect"
    BY <1>2, <1>6
<1> QED BY <1>1, <1>3, <1>4, <1>5, <1>6 DEF Holds

\* Whatever tasks wait for each other's locks in a circle, one of them is
\* evicting: in __on_peer_connection, validate_peer or send_peer_challenge.
THEOREM OnlyEvictionsDeadlock == Spec => []DeadlockOnlyByEviction
<1>1. ASSUME TypeInv, Owned
      PROVE  DeadlockOnlyByEviction
    <2> SUFFICES ASSUME NEW S \in (SUBSET Tasks) \ {{}},
                        \A t \in S : \E l \in WaitsFor(t) : lock[l] \in S
                 PROVE  \E t \in S : Evicting(t)
        BY Zenon DEF DeadlockOnlyByEviction
    <2>1. \A t \in Tasks : WaitsFor(t) \subseteq Lists
        BY <1>1 DEF WaitsFor, TypeInv, TypeOK, Lists
    <2>2. PICK l \in Lists : lock[l] \in S
        <3>0. S # {}
            OBVIOUS
        <3>1. PICK t \in S : TRUE
            BY <3>0, Zenon
        <3>2. \E l \in WaitsFor(t) : lock[l] \in S
            OBVIOUS
        <3> QED BY <2>1, <3>2
    <2>3. WaitsFor(lock[l]) # {}
        BY <2>2
    <2>4. CASE Evicting(lock[l])
        BY <2>2, <2>4
    <2>5. CASE l = "pull" /\ lock[l] = Control /\ pc[Control] = "lockBoth"
        <3>1. WaitsFor(Control) = {"push"}
            BY <2>5 DEF WaitsFor
        <3>2. lock["push"] \in S /\ WaitsFor(lock["push"]) # {}
            BY <2>2, <2>5, <3>1
        <3>3. "push" \in Lists /\ "push" # "pull"
            BY DEF Lists
        <3> QED BY <1>1, <3>2, <3>3, HoldersThatWait
    <2> QED BY <1>1, <2>2, <2>3, <2>4, <2>5, HoldersThatWait
<1>2. Init => TypeInv /\ Owned
    BY PlacesInit, OwnedInit
<1>3. TypeInv /\ Owned /\ [Next]_vars => TypeInv' /\ Owned'
    BY TypesStep, OwnedStep
<1> QED BY <1>1, <1>2, <1>3, PTL DEF Spec

-----------------------------------------------------------------------------
(* Where the connections are listed.                                        *)

\* What the step of a task leaves alone: the other tasks, and the flags of the
\* other connections.  It lists nobody but itself, and takes nobody out that
\* it does not close.
Spares(t) ==
    /\ \A s \in Tasks \ {t} : /\ pc'[s] = pc[s] /\ at'[s] = at[s]
                              /\ target'[s] = target[s] /\ after'[s] = after[s]
    /\ \A c \in Conns \ {t} : /\ c \in trusted' <=> c \in trusted
                              /\ c \in trustsUs' <=> c \in trustsUs
                              /\ c \in repeated' <=> c \in repeated
    /\ closed \subseteq closed'
    /\ target[t] \in Conns => target'[t] = target[t] \/ target[t] \in closed'
    /\ \A l \in Lists, c \in Conns \ {t} :
          /\ c \in Members(l)' => c \in Members(l)
          /\ c \in Members(l) => \/ c \in Members(l)' \/ c \in closed'
                                 \/ target'[t] = c
    /\ \/ Len(peers'["unverified"]) <= Len(peers["unverified"])
       \/ \A c \in Conns \ {t} : ~Arriving(c)
    /\ \/ Len(peers'["push"]) <= Len(peers["push"])
       \/ \A c \in Conns \ {t} : ~Joining(c)

LEMMA OthersInOrder ==
    ASSUME TypeInv, TypeInv', PoolInv, NEW t \in Tasks, Spares(t),
           NEW c \in Conns \ {t}
    PROVE  InOrder(c)'
<1>1. c \in Tasks /\ InOrder(c)
    BY DEF PoolInv, Tasks
<1>2. /\ pc'[c] = pc[c] /\ at'[c] = at[c]
      /\ target'[c] = target[c] /\ after'[c] = after[c]
      /\ c \in trusted' <=> c \in trusted
      /\ c \in trustsUs' <=> c \in trustsUs
      /\ c \in repeated' <=> c \in repeated
      /\ c \in closed => c \in closed'
      /\ \A l \in Lists : c \in Members(l)' => c \in Members(l)
    BY <1>1 DEF Spares
<1>3. (Arriving(c)' <=> Arriving(c)) /\ (Joining(c)' <=> Joining(c))
    BY <1>2 DEF Arriving, Joining
<1>4. Room(c)'
    <2>1. {peers["unverified"], peers["push"], peers'["unverified"],
           peers'["push"]} \subseteq Seq(Inbound)
        BY DEF TypeInv, ListTypes
    <2>2. /\ Len(peers["unverified"]) \in Nat /\ Len(peers'["unverified"]) \in Nat
          /\ Len(peers["push"]) \in Nat /\ Len(peers'["push"]) \in Nat
        BY <2>1, LenProperties
    <2>3. CacheSize \in Nat /\ MaxPush \in Nat
        BY ConfigAssumption
    <2>4. Arriving(c)' => Len(peers'["unverified"]) < CacheSize
        BY <1>1, <1>3, <2>2, <2>3 DEF InOrder, Room, Spares
    <2>5. Joining(c)' => Len(peers'["push"]) < MaxPush
        BY <1>1, <1>3, <2>2, <2>3 DEF InOrder, Room, Spares
    <2> QED BY <2>4, <2>5 DEF Room
<1>5. (Between(c)' <=> Between(c)) /\ (Outside(c)' <=> Outside(c))
    BY <1>2, <1>3 DEF Outside, Between, Finished
<1>6. Placed(c)'
    BY <1>1, <1>2, <1>5 DEF InOrder, Placed, Lists
<1>7. Passed(c)'
    BY <1>1, <1>2 DEF InOrder, Passed
<1>8. Ending(c) => Ending(c)'
    BY <1>2 DEF Ending
<1>9. Trust(c)'
    BY <1>1, <1>2, <1>3, <1>5, <1>8 DEF InOrder, Trust, Lists
<1>10. Kept(c)'
    <2> SUFFICES ASSUME pc[c] \in {"read", "dead", "offer", "missing",
                                  "connect"},
                        c \notin closed', c \notin Members(Home(c))'
                 PROVE  \E s \in Tasks : target'[s] = c
        BY <1>2 DEF Kept
    <2>1. Home(c)' = Home(c) /\ Home(c) \in Lists
        BY <1>2 DEF Home, Lists
    <2>2. c \in Members(Home(c)) \/ \E s \in Tasks : target[s] = c
        BY <1>1, <1>2 DEF InOrder, Kept
    <2>3. CASE c \in Members(Home(c))
        BY <2>1, <2>3 DEF Spares
    <2>4. ASSUME NEW s \in Tasks, target[s] = c
          PROVE  target'[s] = c
        BY <2>4 DEF Spares
    <2> QED BY <2>2, <2>3, <2>4
<1> QED BY <1>4, <1>6, <1>7, <1>9, <1>10 DEF InOrder

LEMMA QuietStep ==
    ASSUME TypeInv, TypeInv', PoolInv, NEW t \in Tasks, peers' = peers,
           repeated \subseteq repeated', Spares(t), t \in Conns => InOrder(t)'
    PROVE  PoolInv'
<1>1. \A c \in Conns : InOrder(c)'
    BY OthersInOrder
<1>2. Sized' /\ Once'
    BY DEF PoolInv, Sized, Once, InOneList, Members
<1> QED BY <1>1, <1>2 DEF PoolInv

\* While the lists and the flags stay as they are, a step spares the others.
LEMMA QuietSpares ==
    ASSUME NEW t \in Tasks,
           UNCHANGED <<peers, trusted, trustsUs, closed, repeated>>,
           target[t] \notin Conns \/ target'[t] = target[t],
           \A s \in Tasks \ {t} : /\ pc'[s] = pc[s] /\ at'[s] = at[s]
                                  /\ target'[s] = target[s] /\ after'[s] = after[s],
           TypeInv
    PROVE  Spares(t)
<1>1. \A l \in Lists : Members(l)' = Members(l)
    BY DEF Members
<1>2. Len(peers["unverified"]) \in Nat /\ Len(peers["push"]) \in Nat
    BY LenProperties DEF TypeInv, ListTypes
<1> QED BY <1>1, <1>2 DEF Spares

LEMMA VerifierOrder ==
    ASSUME TypeInv, TypeInv', PoolInv,
           VerifierStarts \/ SendPeerChallenge \/ VerifierSleeps
    PROVE  PoolInv'
<1>0. Verifier \in Tasks /\ Verifier \notin Conns
    BY TasksAssumption DEF Tasks
<1>1. /\ UNCHANGED <<peers, trusted, trustsUs, closed, repeated>>
      /\ pc[Verifier] # "close"
      /\ \/ UNCHANGED frame /\ \E p \in {"sleep", "send"} :
                                   pc' = [pc EXCEPT ![Verifier] = p]
         \/ UNCHANGED <<pc, frame>>
         \/ CallClose(Verifier, Head(round), "send")
    BY DEF VerifierStarts, SendPeerChallenge, VerifierSleeps, flags
<1>2. \A s \in Tasks \ {Verifier} :
         /\ pc'[s] = pc[s] /\ at'[s] = at[s]
         /\ target'[s] = target[s] /\ after'[s] = after[s]
    BY <1>1 DEF CallClose, frame, TypeInv, TypeOK
<1>3. target[Verifier] \notin Conns
    BY <1>0, <1>1 DEF TypeInv, Targets
<1> QED BY <1>0, <1>1, <1>2, <1>3, QuietSpares, QuietStep

LEMMA ControlOrder ==
    ASSUME TypeInv, TypeInv', PoolInv,
           ControlLocksPull \/ ControlLocksPush \/ ControlReleases
    PROVE  PoolInv'
<1>0. Control \in Tasks /\ Control \notin Conns
    BY TasksAssumption DEF Tasks
<1>1. UNCHANGED <<peers, trusted, trustsUs, closed, target, repeated>>
    BY DEF ControlLocksPull, ControlLocksPush, ControlReleases, flags, frame
<1>2. \A s \in Tasks \ {Control} :
         /\ pc'[s] = pc[s] /\ at'[s] = at[s]
         /\ target'[s] = target[s] /\ after'[s] = after[s]
    BY <1>1 DEF ControlLocksPull, ControlLocksPush, ControlReleases, CallLog,
        frame, TypeInv, TypeOK
<1> QED BY <1>0, <1>1, <1>2, QuietSpares, QuietStep

\* The connection of a step that lists nothing: what it must still hold to,
\* with its lists as they were.
LEMMA OwnOrder ==
    ASSUME TypeInv, PoolInv, NEW c \in Conns, peers' = peers,
           repeated \subseteq repeated',
           Arriving(c)' => Arriving(c), Joining(c)' => Joining(c),
           Outside(c)' => Outside(c),
           pc'[c] = "leaveUnverified" /\ c \notin repeated'
               => c \notin Members("push"),
           pc'[c] = "close" => at'[c] = "unverified",
           Trust(c)', Kept(c)'
    PROVE  InOrder(c)'
<1>1. InOrder(c)
    BY DEF PoolInv
<1>2. \A l \in Lists : Members(l)' = Members(l)
    BY DEF Members
<1>3. Room(c)'
    BY <1>1 DEF InOrder, Room
<1>4. Placed(c)'
    BY <1>1, <1>2 DEF InOrder, Placed, Lists
<1>5. Passed(c)'
    BY DEF Passed, Searched, Lists
<1> QED BY <1>3, <1>4, <1>5 DEF InOrder

LEMMA MessageOrder ==
    ASSUME TypeInv, TypeInv', PoolInv, NEW c \in Conns,
           \/ PeerVerification(c) \/ Expire(c) \/ PeerValidation(c)
           \/ HandlerCloses(c) \/ HandlerRaises(c) \/ RunEnds(c)
           \/ PeerOffer(c)
    PROVE  PoolInv'
<1>0. c \in Tasks /\ InOrder(c)
    BY DEF PoolInv, Tasks
<1>1. CASE Expire(c)
    <2>1. UNCHANGED <<peers, pc, frame, trusted, trustsUs, closed, repeated>>
        BY <1>1 DEF Expire
    <2> QED BY <2>1 DEF PoolInv, Sized, Once, InOneList, InOrder, Room, Placed, Passed,
            Trust, Kept, Members, Home, Ending, Outside, Arriving, Joining,
            Between, Finished, frame
<1>2. CASE PeerVerification(c)
    <2>1. /\ pc[c] = "read" /\ c \notin closed /\ c \in Inbound
          /\ trusted' = trusted \cup {c}
          /\ repeated' = IF c \in trusted THEN repeated \cup {c} ELSE repeated
          /\ pc' = [pc EXCEPT ![c] = "leaveUnverified"]
          /\ UNCHANGED <<peers, frame, trustsUs, closed>>
        BY <1>2 DEF PeerVerification, Reading
    <2>2. target[c] \notin Conns
        BY <1>0, <2>1 DEF TypeInv, Targets
    <2>3. pc'[c] = "leaveUnverified" /\ UNCHANGED <<at, target, after>>
        BY <1>0, <2>1 DEF frame, TypeInv, TypeOK
    <2>4. c \notin repeated' => c \notin Members("push")
        BY <1>0, <2>1, <2>2 DEF InOrder, Trust, Ending
    <2>5. Spares(c)
        <3>1. \A l \in Lists : Members(l)' = Members(l)
            BY <2>1 DEF Members
        <3>2. Len(peers["unverified"]) \in Nat /\ Len(peers["push"]) \in Nat
            BY LenProperties DEF TypeInv, ListTypes
        <3>3. \A s \in Tasks \ {c} : pc'[s] = pc[s]
            BY <2>1 DEF TypeInv, TypeOK
        <3> QED BY <2>1, <2>3, <3>1, <3>2, <3>3 DEF Spares
    <2>6. Trust(c)'
        <3>1. ~Arriving(c)'
            BY <2>3 DEF Arriving, CloseOrLog
        <3>2. c \in trusted' /\ (c \in trustsUs' \/ Ending(c)')
            BY <1>0, <2>1, <2>2, <2>3 DEF InOrder, Trust, Ending
        <3> QED BY <2>1, <2>3, <3>1, <3>2 DEF Trust
    <2>7. Kept(c)'
        BY <2>3 DEF Kept
    <2>8. InOrder(c)'
        <3>1. repeated \subseteq repeated'
            BY <2>1
        <3> QED BY <2>1, <2>3, <2>4, <2>6, <2>7, <3>1, OwnOrder DEF Arriving,
                Joining, Outside, Between, Finished, CloseOrLog
    <2>9. repeated \subseteq repeated'
        BY <2>1
    <2> QED BY <1>0, <2>1, <2>5, <2>8, <2>9, QuietStep
<1>3. CASE PeerValidation(c)
    <2>1. /\ UNCHANGED <<peers, pc, frame, trusted, closed, repeated>>
          /\ trustsUs' = trustsUs \cup {c}
        BY <1>3 DEF PeerValidation
    <2> QED BY <2>1 DEF PoolInv, Sized, Once, InOneList, InOrder, Room, Placed, Passed,
            Trust, Kept, Members, Home, Ending, Outside, Arriving, Joining,
            Between, Finished, frame
<1>4. CASE HandlerCloses(c) \/ RunEnds(c)
    <2>1. /\ pc[c] = "read" /\ UNCHANGED <<peers, closed, repeated>>
          /\ CallClose(c, c, "read") \/ CallClose(c, c, "gone")
          /\ trusted' \in {trusted, trusted \ {c}}
          /\ trustsUs' \in {trustsUs, trustsUs \ {c}}
        BY <1>4 DEF HandlerCloses, Reading, RunEnds, flags
    <2>2. target[c] \notin Conns
        BY <1>0, <2>1 DEF TypeInv, Targets
    <2>3. /\ pc'[c] = "close" /\ at'[c] = "unverified" /\ target'[c] = c
          /\ after'[c] \in {"read", "gone"}
          /\ \A s \in Tasks \ {c} :
                /\ pc'[s] = pc[s] /\ at'[s] = at[s]
                /\ target'[s] = target[s] /\ after'[s] = after[s]
        BY <1>0, <2>1 DEF CallClose, TypeInv, TypeOK
    <2>4. Spares(c)
        <3>1. \A l \in Lists : Members(l)' = Members(l)
            BY <2>1 DEF Members
        <3>2. Len(peers["unverified"]) \in Nat /\ Len(peers["push"]) \in Nat
            BY LenProperties DEF TypeInv, ListTypes
        <3>3. \A d \in Conns \ {c} : /\ d \in trusted' <=> d \in trusted
                                     /\ d \in trustsUs' <=> d \in trustsUs
            BY <2>1
        <3> QED BY <2>1, <2>2, <2>3, <3>1, <3>2, <3>3 DEF Spares
    <2>5. ~Arriving(c)' /\ ~Joining(c)' /\ ~Outside(c)'
        BY <2>3 DEF Arriving, Joining, Outside, Between, Finished, CloseOrLog
    <2>6. Ending(c)'
        BY <2>3 DEF Ending
    <2>7. Trust(c)'
        BY <1>0, <2>1, <2>3, <2>5, <2>6 DEF InOrder, Trust, Outside
    <2>8. Kept(c)'
        BY <2>3 DEF Kept
    <2>9. InOrder(c)'
        BY <2>1, <2>3, <2>5, <2>7, <2>8, OwnOrder
    <2> QED BY <1>0, <2>1, <2>4, <2>9, QuietStep
<1>5. CASE PeerOffer(c)
    <2>1. /\ pc[c] = "read" /\ c \notin closed
          /\ UNCHANGED <<peers, trusted, trustsUs, closed, target, after,
                         repeated>>
          /\ \/ UNCHANGED <<pc, at>>
             \/ /\ pc' = [pc EXCEPT ![c] = "offer"]
                /\ at' = [at EXCEPT ![c] = "unverified"]
        BY <1>5 DEF PeerOffer, Reading
    <2>2. /\ pc'[c] \in {"read", "offer"}
          /\ \A s \in Tasks \ {c} : pc'[s] = pc[s] /\ at'[s] = at[s]
        BY <1>0, <2>1 DEF TypeInv, TypeOK
    <2>3. Spares(c)
        BY <1>0, <2>1, <2>2, QuietSpares
    <2>4. \A l \in Lists : Members(l)' = Members(l)
        BY <2>1 DEF Members
    <2>5. ~Arriving(c)' /\ ~Joining(c)' /\ ~Outside(c)'
        BY <2>2 DEF Arriving, Joining, Outside, Between, Finished, CloseOrLog
    <2>6. Trust(c)'
        BY <1>0, <2>1, <2>2, <2>4, <2>5 DEF InOrder, Trust, Outside, Ending,
            Lists
    <2>7. Home(c)' = Home(c) /\ Home(c) \in Lists
        BY <2>1 DEF Home, Lists
    <2>8. Kept(c)'
        BY <1>0, <2>1, <2>2, <2>4, <2>7 DEF InOrder, Kept, Members
    <2>9. InOrder(c)'
        BY <2>1, <2>2, <2>5, <2>6, <2>8, OwnOrder
    <2> QED BY <1>0, <2>1, <2>3, <2>9, QuietStep
<1>6. CASE HandlerRaises(c)
    <2>1. /\ pc[c] = "read" /\ pc' = [pc EXCEPT ![c] = "dead"]
          /\ UNCHANGED <<peers, trusted, trustsUs, closed, frame, repeated>>
        BY <1>6 DEF HandlerRaises, Reading, flags
    <2>2. /\ pc'[c] = "dead" /\ UNCHANGED <<at, target, after>>
          /\ \A s \in Tasks \ {c} : pc'[s] = pc[s]
        BY <1>0, <2>1 DEF frame, TypeInv, TypeOK
    <2>3. Spares(c)
        BY <1>0, <2>1, <2>2, QuietSpares
    <2>4. \A l \in Lists : Members(l)' = Members(l)
        BY <2>1 DEF Members
    <2>5. ~Arriving(c)' /\ ~Joining(c)' /\ ~Outside(c)'
        BY <2>2 DEF Arriving, Joining, Outside, Between, Finished, CloseOrLog
    <2>6. Trust(c)'
        BY <1>0, <2>1, <2>2, <2>4, <2>5 DEF InOrder, Trust, Outside, Ending,
            Lists
    <2>7. Home(c)' = Home(c) /\ Home(c) \in Lists
        BY <2>1 DEF Home, Lists
    <2>8. Kept(c)'
        BY <1>0, <2>1, <2>2, <2>4, <2>7 DEF InOrder, Kept, Members
    <2>9. InOrder(c)'
        BY <2>1, <2>2, <2>5, <2>6, <2>8, OwnOrder
    <2> QED BY <1>0, <2>1, <2>3, <2>9, QuietStep
<1> QED BY <1>1, <1>2, <1>3, <1>4, <1>5, <1>6

LEMMA WalkOrder ==
    ASSUME TypeInv, TypeInv', PoolInv, NEW t \in Tasks,
           LogPeers(t) \/ (t \in Conns /\ CollectPeers(t))
    PROVE  PoolInv'
<1>1. \/ pc[t] = "log" /\ Walk(t, Logged, after[t])
      \/ t \in Conns /\ pc[t] = "offer" /\ Walk(t, Searched, "missing")
    BY DEF LogPeers, CollectPeers
<1>2. PICK next : /\ \/ pc[t] = "log" /\ next = after[t]
                     \/ t \in Conns /\ pc[t] = "offer" /\ next = "missing"
                  /\ \/ Walk(t, Logged, next) \/ Walk(t, Searched, next)
    BY <1>1
<1>3. /\ UNCHANGED <<peers, target, trusted, trustsUs, closed, repeated>>
      /\ \/ /\ \E l \in Lists : at' = [at EXCEPT ![t] = l]
            /\ UNCHANGED <<pc, after>>
         \/ /\ pc' = [pc EXCEPT ![t] = next]
            /\ at' = [at EXCEPT ![t] = "push"]
            /\ after' = [after EXCEPT ![t] = "read"]
    BY <1>2, WalkComesTo, Orders DEF flags
<1>4. \A s \in Tasks \ {t} : /\ pc'[s] = pc[s] /\ at'[s] = at[s]
                             /\ target'[s] = target[s] /\ after'[s] = after[s]
    BY <1>3 DEF TypeInv, TypeOK
<1>5. Spares(t)
    BY <1>3, <1>4, QuietSpares
<1>6. ASSUME t \in Conns
      PROVE  InOrder(t)'
    <2>1. InOrder(t)
        BY <1>6 DEF PoolInv
    <2>2. \/ pc'[t] = pc[t] /\ after'[t] = after[t]
          \/ pc'[t] = next
        BY <1>3 DEF TypeInv, TypeOK
    <2>3. \A l \in Lists : Members(l)' = Members(l)
        BY <1>3 DEF Members
    <2>4. CASE pc[t] = "log" /\ next = after[t]
        <3>1. next \in {"admit", "lockPush", "joinPush", "read", "gone"}
            BY <1>6, <2>4 DEF TypeInv, InboundPlaces, OutboundPlaces,
                CloseOrLog, Conns
        <3>2. /\ Arriving(t)' => Arriving(t)
              /\ Joining(t)' => Joining(t)
              /\ Between(t)' => Between(t)
              /\ Outside(t)' => Outside(t)
              /\ pc'[t] \notin {"new", "close", "leaveUnverified"}
            BY <2>2, <2>4, <3>1 DEF Arriving, Joining, Outside, Between,
                Finished, CloseOrLog
        <3>3. Ending(t)' <=> Ending(t)
            BY <1>3 DEF Ending
        <3>4. Trust(t)'
            BY <1>3, <2>1, <2>2, <2>3, <2>4, <3>1, <3>2, <3>3 DEF InOrder,
                Trust, Lists
        <3>5. Kept(t)'
            BY <1>3, <2>1, <2>2, <2>4, <3>1 DEF InOrder, Trust, Kept
        <3> QED BY <1>3, <1>6, <3>2, <3>4, <3>5, OwnOrder
    <2>5. CASE pc[t] = "offer" /\ next = "missing"
        <3>1. pc'[t] \in {"offer", "missing"}
            BY <2>2, <2>5
        <3>2. ~Arriving(t)' /\ ~Joining(t)' /\ ~Outside(t)'
            BY <3>1 DEF Arriving, Joining, Outside, Between, Finished,
                CloseOrLog
        <3>3. Trust(t)'
            BY <1>3, <2>1, <2>3, <2>5, <3>1, <3>2 DEF InOrder, Trust, Outside,
                Ending, Lists
        <3>4. Home(t)' = Home(t) /\ Home(t) \in Lists
            BY <1>3 DEF Home, Lists
        <3>5. Kept(t)'
            BY <1>3, <2>1, <2>3, <2>5, <3>1, <3>4 DEF InOrder, Kept, Members
        <3> QED BY <1>3, <1>6, <3>1, <3>2, <3>3, <3>5, OwnOrder
    <2> QED BY <1>2, <2>4, <2>5
<1> QED BY <1>3, <1>5, <1>6, QuietStep

\* A list is replaced: what becomes of the members.
LEMMA MembersReplaced ==
    ASSUME TypeInv, NEW l \in Lists, NEW s, peers' = [peers EXCEPT ![l] = s]
    PROVE  /\ peers'[l] = s /\ Members(l)' = ToSet(s)
           /\ \A k \in Lists \ {l} : /\ peers'[k] = peers[k]
                                     /\ Members(k)' = Members(k)
BY DEF TypeInv, TypeOK, Members

LEMMA Lengths ==
    ASSUME TypeInv
    PROVE  /\ \A l \in Lists : Len(peers[l]) \in Nat /\ peers[l] \in Seq(Conns)
           /\ CacheSize \in Nat /\ MaxPush \in Nat
<1>1. \A l \in Lists : peers[l] \in Seq(Conns)
    BY DEF TypeInv, TypeOK
<1> QED BY <1>1, LenProperties, ConfigAssumption

\* An inbound connection is never in pull_peers, an outbound one only there.
LEMMA SidesApart ==
    ASSUME TypeInv
    PROVE  /\ Members("unverified") \subseteq Inbound
           /\ Members("push") \subseteq Inbound
           /\ Members("pull") \subseteq Outbound
BY MembersAreTyped DEF TypeInv, ListTypes, Members

\* One connection is taken out of the lists.
TakenOut(c) ==
    \A l \in Lists : /\ Members(l)' \subseteq Members(l)
                     /\ Members(l) \subseteq Members(l)' \cup {c}
                     /\ Len(peers'[l]) <= Len(peers[l])
                     /\ \A x : Single(peers[l], x) => Single(peers'[l], x)

LEMMA SmallerInOrder ==
    ASSUME TypeInv, TypeInv', PoolInv, NEW c, TakenOut(c),
           UNCHANGED repeated
    PROVE  Sized' /\ Once'
<1>1. Len(peers'["unverified"]) \in Nat /\ Len(peers'["push"]) \in Nat
    BY Lengths DEF Lists
<1>2. Sized'
    BY <1>1, Lengths DEF PoolInv, Sized, TakenOut, Lists
<1>3. Once'
    BY DEF PoolInv, Once, InOneList, TakenOut, Lists
<1> QED BY <1>2, <1>3

LEMMA SearchOrder ==
    ASSUME TypeInv, TypeInv', PoolInv, NEW t \in Tasks, CloseSearch(t)
    PROVE  PoolInv'
<1> DEFINE c == target[t]
<1>1. pc[t] = "close" /\ c \in Conns /\ t # Control /\ (Waits(t) \/ Closes(t))
    BY SearchComesTo
<1>2. CASE Waits(t)
    <2>1. UNCHANGED <<peers, pc, target, after, closed, trusted, trustsUs,
                      repeated>>
        BY <1>2 DEF Waits, flags
    <2>2. \A s \in Tasks \ {t} : at'[s] = at[s]
        BY <1>2 DEF Waits, TypeInv, TypeOK
    <2>3. Spares(t)
        BY <2>1, <2>2, QuietSpares
    <2>4. \A l \in Lists : Members(l)' = Members(l)
        BY <2>1 DEF Members
    <2>5. ASSUME t \in Conns
          PROVE  InOrder(t)'
        <3>1. InOrder(t)
            BY <2>5 DEF PoolInv
        <3>2. Room(t)' /\ Placed(t)'
            BY <2>1, <2>4, <3>1 DEF InOrder, Room, Placed, Arriving, Joining,
                Outside, Between, Finished, Lists
        <3>3. Trust(t)' /\ Kept(t)'
            BY <1>1, <2>1, <2>4, <3>1 DEF InOrder, Trust, Kept, Arriving,
                Joining, Outside, Between, Finished, Ending, Lists
        <3>4. Passed(t)'
            <4>1. PICK stop \in Lists :
                     /\ \A l \in Lists : Passes(t, l) /\ Searched[l] < Searched[stop]
                                             => target[t] \notin Members(l)
                     /\ at' = [at EXCEPT ![t] = stop]
                BY <1>2 DEF Waits
            <4>2. at'[t] = stop /\ at[t] \in Lists
                BY <4>1 DEF TypeInv, TypeOK
            <4> QED BY <2>1, <2>4, <3>1, <4>1, <4>2, Orders DEF InOrder,
                    Passed, Passes
        <3> QED BY <3>2, <3>3, <3>4 DEF InOrder
    <2> QED BY <2>1, <2>3, <2>5, QuietStep
<1>3. CASE Closes(t)
    <2>1. /\ closed' = closed \cup {c}
          /\ pc'[t] = "log" /\ after'[t] = after[t] /\ target'[t] = NoTask
          /\ \A s \in Tasks \ {t} :
                /\ pc'[s] = pc[s] /\ at'[s] = at[s]
                /\ target'[s] = target[s] /\ after'[s] = after[s]
          /\ UNCHANGED <<trusted, trustsUs, repeated>>
        BY <1>3 DEF Closes, CallLog, flags, TypeInv, TypeOK
    <2>2. /\ TakenOut(c)
          /\ c \notin repeated =>
                \A l \in Lists : Passes(t, l) => c \notin Members(l)'
        <3>1. CASE /\ peers' = peers
                   /\ \A l \in Lists : Passes(t, l) => c \notin Members(l)
            BY <3>1, Lengths DEF TakenOut, Members
        <3>2. ASSUME NEW stop \in Lists,
                     Passes(t, stop) /\ c \in Members(stop),
                     peers' = [peers EXCEPT ![stop] = RemoveFirst(@, c)],
                     \A l \in Lists : Passes(t, l) /\ Searched[l] < Searched[stop]
                                         => c \notin Members(l)
              PROVE  /\ TakenOut(c)
                     /\ c \notin repeated =>
                           \A l \in Lists : Passes(t, l) => c \notin Members(l)'
            <4> DEFINE r == RemoveFirst(peers[stop], c)
            <4>1. peers' = [peers EXCEPT ![stop] = r]
                BY <3>2
            <4>2. /\ r \in Seq(Conns) /\ Len(r) <= Len(peers[stop])
                  /\ ToSet(r) \subseteq Members(stop)
                  /\ Members(stop) \subseteq ToSet(r) \cup {c}
                  /\ \A x : Single(peers[stop], x) => Single(r, x)
                  /\ Single(peers[stop], c) => c \notin ToSet(r)
                BY Lengths, RemoveFirstProperties DEF Members
            <4> HIDE DEF r
            <4>3. /\ peers'[stop] = r /\ Members(stop)' = ToSet(r)
                  /\ \A k \in Lists \ {stop} : /\ peers'[k] = peers[k]
                                               /\ Members(k)' = Members(k)
                BY <4>1, <4>2, MembersReplaced
            <4>4. TakenOut(c)
                BY <4>2, <4>3, Lengths DEF TakenOut
            <4>5. ASSUME c \notin repeated
                  PROVE  \A k \in Lists : c \notin Members(k)'
                <5>1. InOneList(c)
                    BY <1>1, <4>5 DEF PoolInv, Once
                <5>2. c \notin Members(stop)'
                    BY <4>2, <4>3, <5>1 DEF InOneList
                <5>3. \A k \in Lists \ {stop} : c \notin Members(k)
                    BY <3>2, <5>1, SidesApart, ConnsAssumption DEF InOneList, Lists
                <5> QED BY <4>3, <5>2, <5>3
            <4> QED BY <4>4, <4>5
        <3> QED BY <1>3, <3>1, <3>2 DEF Closes
    <2>3. Spares(t)
        BY <1>1, <2>1, <2>2, Lengths DEF Spares, TakenOut, Lists
    <2>4. ASSUME t \in Conns
          PROVE  InOrder(t)'
        <3>1. InOrder(t)
            BY <2>4 DEF PoolInv
        <3>2. after[t] \in {"admit", "joinPush", "read", "gone"}
            BY <1>1, <2>4 DEF TypeInv, InboundPlaces, OutboundPlaces,
                CloseOrLog, Conns
        <3>3. /\ Arriving(t)' <=> Arriving(t)
              /\ Joining(t)' <=> Joining(t)
              /\ Between(t)' <=> Between(t)
            BY <1>1, <2>1, <3>2 DEF Arriving, Joining, Between, CloseOrLog
        <3>4. Room(t)'
            <4>1. /\ Len(peers'["unverified"]) <= Len(peers["unverified"])
                  /\ Len(peers'["push"]) <= Len(peers["push"])
                  /\ Len(peers'["unverified"]) \in Nat
                  /\ Len(peers'["push"]) \in Nat
                BY <2>2, Lengths DEF TakenOut, Lists
            <4>2. Len(peers["unverified"]) \in Nat /\ Len(peers["push"]) \in Nat
                     /\ CacheSize \in Nat /\ MaxPush \in Nat
                BY Lengths DEF Lists
            <4> QED BY <3>1, <3>3, <4>1, <4>2 DEF InOrder, Room
        <3>5. after[t] \in {"read", "gone"} => c = t
            BY <1>1, <2>4 DEF TypeInv, Targets
        <3>6. Placed(t)'
            <4>1. ASSUME t \notin repeated, Outside(t)', NEW l \in Lists
                  PROVE  t \notin Members(l)'
                <5>1. CASE Arriving(t) \/ Between(t)
                    BY <2>2, <3>1, <4>1, <5>1 DEF InOrder, Placed, Outside, TakenOut
                <5>2. CASE after[t] = "gone"
                    <6>1. c = t
                        BY <3>5, <5>2
                    <6>2. CASE Passes(t, l)
                        BY <2>2, <4>1, <6>1, <6>2
                    <6>3. CASE ~Passes(t, l)
                        <7>1. Searched[l] < Searched[at[t]]
                            BY <6>3, Orders DEF Passes, TypeInv, TypeOK
                        <7>2. t \notin Members(l)
                            BY <1>1, <3>1, <4>1, <6>1, <7>1 DEF InOrder, Passed
                        <7> QED BY <2>2, <7>2 DEF TakenOut
                    <6> QED BY <6>2, <6>3
                <5> QED BY <2>1, <3>3, <4>1, <5>1, <5>2 DEF Outside, Finished
            <4> QED BY <2>1, <4>1 DEF Placed
        <3>7. Trust(t)'
            <4>1. Ending(t) => Ending(t)'
                BY <1>1, <2>1 DEF Ending
            <4>2. t \in Members("push")' => t \in Members("push")
                BY <2>2 DEF TakenOut, Lists
            <4> QED BY <1>1, <2>1, <3>1, <3>3, <3>5, <4>1, <4>2 DEF InOrder,
                    Trust
        <3>8. Passed(t)' /\ Kept(t)'
            BY <2>1 DEF Passed, Kept
        <3> QED BY <3>4, <3>6, <3>7, <3>8 DEF InOrder
    <2> QED BY <2>1, <2>2, <2>3, <2>4, SmallerInOrder, OthersInOrder DEF PoolInv
<1> QED BY <1>1, <1>2, <1>3

\* The oldest member of a full list is taken out, or nobody is.
MakesRoomIn(l, c, next) ==
    \/ /\ ~Full(l) /\ UNCHANGED <<peers, frame>>
    \/ /\ Full(l) /\ peers' = [peers EXCEPT ![l] = Front(@)]
       /\ CallClose(c, Last(peers[l]), next)

OneLeaves(c) ==
    \E d \in Conns : TakenOut(d) /\ (peers' = peers \/ target'[c] = d)

LEMMA MakesRoom ==
    ASSUME TypeInv, PoolInv, NEW l \in Lists, NEW c \in Conns, NEW next,
           Capacity[l] \in Nat \ {0},
           Len(peers[l]) <= Capacity[l], MakesRoomIn(l, c, next)
    PROVE  /\ Len(peers'[l]) < Capacity[l]
           /\ OneLeaves(c)
<1> DEFINE s == peers[l]
           f == Front(s)
           d == Last(s)
<1>1. s \in Seq(Conns) /\ Len(s) \in Nat /\ c \in Tasks
    BY Lengths DEF Tasks
<1>2. CASE ~Full(l) /\ UNCHANGED <<peers, frame>>
    <2>1. Len(peers'[l]) < Capacity[l]
        BY <1>1, <1>2 DEF Full
    <2>2. TakenOut(c)
        BY <1>2, Lengths DEF TakenOut, Members
    <2> QED BY <1>2, <2>1, <2>2 DEF OneLeaves
<1>3. CASE /\ Full(l) /\ peers' = [peers EXCEPT ![l] = f]
           /\ CallClose(c, d, next)
    <2>1. Len(s) > 0
        BY <1>1, <1>3 DEF Full
    <2>2. /\ f \in Seq(Conns) /\ Len(f) = Len(s) - 1
          /\ \A x : Single(s, x) => Single(f, x)
          /\ d \in Conns /\ d \in Members(l)
          /\ Members(l) = ToSet(f) \cup {d}
        BY <1>1, <2>1, FrontProperties DEF Members
    <2>3. target'[c] = d
        BY <1>1, <1>3 DEF CallClose, TypeInv, TypeOK
    <2> HIDE DEF d, f, s
    <2>4. /\ peers'[l] = f /\ Members(l)' = ToSet(f)
          /\ \A k \in Lists \ {l} : /\ peers'[k] = peers[k]
                                    /\ Members(k)' = Members(k)
        BY <1>3, MembersReplaced
    <2>5. Len(f) <= Len(peers[l]) /\ Len(f) < Capacity[l]
        BY <1>1, <2>2 DEF s
    <2>6. TakenOut(d)
        BY <2>2, <2>4, <2>5, Lengths DEF TakenOut, s
    <2> QED BY <2>2, <2>3, <2>4, <2>5, <2>6 DEF OneLeaves
<1> QED BY <1>2, <1>3 DEF MakesRoomIn

LEMMA AcceptOrder ==
    ASSUME TypeInv, TypeInv', Owned, PoolInv, NEW c \in Conns,
           OnPeerConnection(c) \/ Admit(c)
    PROVE  PoolInv'
<1>0. /\ c \in Tasks /\ InOrder(c) /\ Sized /\ c # NoTask
      /\ "unverified" \in Lists /\ "push" \in Lists
    BY TasksAssumption DEF PoolInv, Tasks, Lists
<1>1. CASE OnPeerConnection(c)
    <2>1. /\ pc[c] = "new" /\ c \in Inbound
          /\ UNCHANGED <<trusted, closed, repeated>>
          /\ trustsUs' = trustsUs \cup {c}
          /\ \/ pc' = [pc EXCEPT ![c] = "admit"] /\ UNCHANGED frame
             \/ CallClose(c, Last(peers["unverified"]), "admit")
        BY <1>1 DEF OnPeerConnection
    <2>2. c \notin repeated /\ Outside(c) /\ \A l \in Lists : c \notin Members(l)
        BY <1>0, <2>1 DEF InOrder, Trust, Placed, Outside
    <2>3. /\ \/ pc'[c] = "admit"
             \/ pc'[c] = "close" /\ after'[c] = "admit" /\ at'[c] = "unverified"
          /\ \A s \in Tasks \ {c} :
                /\ pc'[s] = pc[s] /\ at'[s] = at[s]
                /\ target'[s] = target[s] /\ after'[s] = after[s]
        BY <1>0, <2>1 DEF CallClose, frame, TypeInv, TypeOK
    <2>4. /\ MakesRoomIn("unverified", c, "admit")
          /\ Capacity["unverified"] = CacheSize
          /\ Capacity["unverified"] \in Nat \ {0}
          /\ Len(peers["unverified"]) <= Capacity["unverified"]
        BY <1>0, <1>1, ConfigAssumption
            DEF OnPeerConnection, MakesRoomIn, Capacity, Sized
    <2>5. Len(peers'["unverified"]) < CacheSize /\ OneLeaves(c)
        BY <1>0, <2>4, MakesRoom
    <2>6. PICK d \in Conns : /\ TakenOut(d)
                             /\ peers' = peers \/ target'[c] = d
        BY <2>5 DEF OneLeaves
    <2>7. target[c] \notin Conns
        BY <1>0, <2>1 DEF TypeInv, Targets
    <2>8. Spares(c)
        <3>1. \A e \in Conns \ {c} : /\ e \in trusted' <=> e \in trusted
                                     /\ e \in trustsUs' <=> e \in trustsUs
                                     /\ e \in repeated' <=> e \in repeated
            BY <2>1
        <3>2. \A l \in Lists, e \in Conns \ {c} :
                 /\ e \in Members(l)' => e \in Members(l)
                 /\ e \in Members(l) => e \in Members(l)' \/ target'[c] = e
            BY <2>6 DEF TakenOut, Members
        <3> QED BY <1>0, <2>1, <2>3, <2>6, <2>7, <3>1, <3>2 DEF Spares, TakenOut
    <2>9. InOrder(c)'
        <3>1. ~Joining(c)' /\ ~Between(c)' /\ pc'[c] \notin {"leaveUnverified", "log", "new"}
            BY <2>3 DEF Joining, Between, CloseOrLog
        <3>2. \A l \in Lists : c \notin Members(l)'
            BY <2>2, <2>6 DEF TakenOut
        <3>3. Room(c)' /\ Placed(c)' /\ Passed(c)' /\ Kept(c)'
            BY <2>3, <2>5, <3>1, <3>2 DEF Room, Placed, Passed, Kept
        <3>4. c \notin trusted' /\ c \in trustsUs'
            BY <1>0, <2>1 DEF InOrder, Trust
        <3>5. Trust(c)'
            BY <1>0, <2>1, <2>2, <3>1, <3>2, <3>4 DEF Trust
        <3> QED BY <3>3, <3>5 DEF InOrder
    <2> QED BY <1>0, <2>1, <2>6, <2>8, <2>9, SmallerInOrder, OthersInOrder DEF PoolInv
<1>2. CASE Admit(c)
    <2> DEFINE s == peers["unverified"]
               r == AppendLeft(s, c, CacheSize)
    <2>1. pc[c] = "admit" /\ c \in Inbound
             /\ UNCHANGED <<frame, trusted, trustsUs, closed, repeated>>
        BY <1>2 DEF Admit, TypeInv, OutboundPlaces, Conns, flags
    <2>2. Arriving(c) /\ Outside(c) /\ c \notin repeated
        BY <1>0, <2>1 DEF Arriving, Outside, InOrder, Trust
    <2>3. Len(s) < CacheSize /\ \A l \in Lists : c \notin Members(l)
        BY <1>0, <2>2 DEF InOrder, Room, Placed
    <2>4. /\ r \in Seq(Conns) /\ Len(r) = Len(s) + 1
          /\ \A x : Single(s, x) => Single(r, x)
          /\ ToSet(r) = Members("unverified") \cup {c}
        BY <1>0, <2>3, Lengths, AppendLeftProperties DEF Members
    <2>5. peers' = [peers EXCEPT !["unverified"] = r]
        BY <1>2 DEF Admit
    <2> HIDE DEF r, s
    <2>6. /\ peers'["unverified"] = r
          /\ Members("unverified")' = Members("unverified") \cup {c}
          /\ \A k \in Lists \ {"unverified"} : /\ peers'[k] = peers[k]
                                               /\ Members(k)' = Members(k)
        BY <1>0, <2>4, <2>5, MembersReplaced
    <2>7. /\ pc'[c] = "read" /\ UNCHANGED <<at, target, after>>
          /\ \A q \in Tasks \ {c} : pc'[q] = pc[q]
        BY <1>0, <1>2, <2>1 DEF Admit, frame, TypeInv, TypeOK
    <2>8. \A e \in Conns \ {c} : ~Arriving(e)
        <3>1. lock["unverified"] = c
            BY <1>0, <2>1, <2>2 DEF Owned, Holds
        <3>2. \A e \in Conns : Arriving(e) => e \in Inbound
            BY DEF Arriving, TypeInv, OutboundPlaces, Conns, CloseOrLog
        <3> QED BY <1>0, <3>1, <3>2 DEF Owned, Holds, Tasks
    <2>9. Len(peers'["push"]) = Len(peers["push"])
        BY <1>0, <2>6
    <2>10. Spares(c)
        <3>1. target[c] \notin Conns
            BY <1>0, <2>1 DEF TypeInv, Targets
        <3>2. \A l \in Lists, e \in Conns \ {c} :
                 e \in Members(l)' <=> e \in Members(l)
            BY <2>6
        <3>3. Len(peers'["push"]) <= Len(peers["push"])
            BY <1>0, <2>9, Lengths
        <3> QED BY <2>1, <2>7, <2>8, <3>1, <3>2, <3>3 DEF Spares
    <2>11. Sized' /\ Once'
        <3>1. Len(peers'["unverified"]) <= CacheSize
            BY <1>0, <2>3, <2>4, <2>6, Lengths DEF s
        <3>2. ASSUME NEW e \in Conns \ repeated
              PROVE  InOneList(e)'
            <4>1. InOneList(e)
                BY DEF PoolInv, Once
            <4>2. \A l \in Lists : Single(peers'[l], e)
                BY <2>4, <2>6, <4>1 DEF InOneList, s
            <4> QED BY <1>0, <2>3, <2>6, <4>1, <4>2 DEF InOneList
        <3> QED BY <1>0, <2>1, <2>9, <3>1, <3>2 DEF Sized, Once
    <2>12. InOrder(c)'
        <3>1. ~Arriving(c)' /\ ~Joining(c)' /\ ~Outside(c)' /\ ~Between(c)'
            BY <2>7 DEF Arriving, Joining, Outside, Between, Finished, CloseOrLog
        <3>2. Room(c)' /\ Placed(c)' /\ Passed(c)'
            BY <2>7, <3>1 DEF Room, Placed, Passed
        <3>3. c \notin Members("push")'
            BY <1>0, <2>3, <2>6
        <3>4. c \notin trusted' /\ (c \in trustsUs' \/ Ending(c)')
            BY <1>0, <2>1, <2>2, <2>7 DEF InOrder, Trust, Ending
        <3>5. Trust(c)'
            BY <2>1, <2>2, <2>7, <3>1, <3>3, <3>4 DEF Trust
        <3>6. Home(c)' = "unverified"
            BY <2>1, <3>4, ConnsAssumption DEF Home
        <3>7. Kept(c)'
            BY <2>6, <3>6 DEF Kept, Members
        <3> QED BY <3>2, <3>5, <3>7 DEF InOrder
    <2> QED BY <1>0, <2>10, <2>11, <2>12, OthersInOrder DEF PoolInv
<1> QED BY <1>1, <1>2

LEMMA PromoteOrder ==
    ASSUME TypeInv, TypeInv', Owned, PoolInv, NEW c \in Conns,
           LeaveUnverified(c) \/ LockPush(c) \/ JoinPush(c)
    PROVE  PoolInv'
<1>0. /\ c \in Tasks /\ InOrder(c) /\ Sized /\ c # NoTask
      /\ "unverified" \in Lists /\ "push" \in Lists
    BY TasksAssumption DEF PoolInv, Tasks, Lists
<1>1. CASE LeaveUnverified(c)
    <2> DEFINE s == peers["unverified"]
               r == RemoveFirst(s, c)
    <2>1. /\ pc[c] = "leaveUnverified" /\ c \in Inbound
          /\ UNCHANGED <<target, trusted, trustsUs, closed, repeated>>
          /\ \/ CallLog(c, "lockPush")
             \/ pc' = [pc EXCEPT ![c] = "lockPush"] /\ UNCHANGED <<at, after>>
        BY <1>1 DEF LeaveUnverified, TypeInv, OutboundPlaces, Conns, flags
    <2>2. /\ r \in Seq(Conns) /\ Len(r) <= Len(s)
          /\ ToSet(r) \subseteq Members("unverified")
          /\ Members("unverified") \subseteq ToSet(r) \cup {c}
          /\ \A x : Single(peers["unverified"], x) => Single(r, x)
          /\ Single(peers["unverified"], c) => c \notin ToSet(r)
        BY <1>0, Lengths, RemoveFirstProperties DEF Members
    <2>3. peers' = [peers EXCEPT !["unverified"] = r]
        BY <1>1 DEF LeaveUnverified
    <2> HIDE DEF r
    <2>4. /\ peers'["unverified"] = r
          /\ Members("unverified")' = ToSet(r)
          /\ \A k \in Lists \ {"unverified"} : /\ peers'[k] = peers[k]
                                               /\ Members(k)' = Members(k)
        BY <1>0, <2>2, <2>3, MembersReplaced
    <2>5. TakenOut(c)
        BY <2>2, <2>4, Lengths DEF TakenOut
    <2>6. /\ \/ pc'[c] = "lockPush"
             \/ pc'[c] = "log" /\ after'[c] = "lockPush"
          /\ \A q \in Tasks \ {c} :
                /\ pc'[q] = pc[q] /\ at'[q] = at[q]
                /\ target'[q] = target[q] /\ after'[q] = after[q]
        BY <1>0, <2>1 DEF CallLog, TypeInv, TypeOK
    <2>7. Spares(c)
        <3>1. \A l \in Lists, e \in Conns \ {c} :
                 e \in Members(l)' <=> e \in Members(l)
            BY <2>5 DEF TakenOut
        <3> QED BY <1>0, <2>1, <2>5, <2>6, <3>1 DEF Spares, TakenOut
    <2>8. InOrder(c)'
        <3>1. /\ ~Arriving(c)' /\ ~Joining(c)' /\ Between(c)'
              /\ pc'[c] \notin {"leaveUnverified", "new", "close"}
            BY <2>6 DEF Arriving, Joining, Between, CloseOrLog
        <3>2. ASSUME c \notin repeated
              PROVE  \A l \in Lists : c \notin Members(l)'
            <4>1. c \notin Members("pull")
                BY <2>1, SidesApart, ConnsAssumption
            <4>2. c \notin Members("push")
                BY <1>0, <2>1, <3>2 DEF InOrder, Placed
            <4>3. c \notin Members("unverified")'
                BY <1>0, <2>2, <2>4, <3>2 DEF PoolInv, Once, InOneList
            <4> QED BY <2>4, <4>1, <4>2, <4>3 DEF Lists
        <3>3. Room(c)' /\ Placed(c)' /\ Passed(c)' /\ Kept(c)'
            BY <2>1, <2>6, <3>1, <3>2 DEF Room, Placed, Passed, Kept
        <3>4. c \in trusted' /\ (c \in trustsUs' \/ Ending(c)')
            BY <1>0, <2>1 DEF InOrder, Trust, Ending
        <3>5. Trust(c)'
            BY <1>0, <2>1, <2>2, <2>4, <2>6, <3>1, <3>4 DEF InOrder, Trust, Lists
        <3> QED BY <3>3, <3>5 DEF InOrder
    <2> QED BY <1>0, <2>1, <2>5, <2>7, <2>8, SmallerInOrder, OthersInOrder DEF PoolInv
<1>2. CASE LockPush(c)
    <2>1. /\ pc[c] = "lockPush" /\ c \in Inbound
          /\ UNCHANGED <<trusted, trustsUs, closed, repeated>>
          /\ \/ pc' = [pc EXCEPT ![c] = "joinPush"] /\ UNCHANGED frame
             \/ CallClose(c, Last(peers["push"]), "joinPush")
        BY <1>2 DEF LockPush, flags, TypeInv, OutboundPlaces, Conns
    <2>2. /\ Between(c) /\ Outside(c)
          /\ c \notin repeated => \A l \in Lists : c \notin Members(l)
        BY <1>0, <2>1 DEF InOrder, Placed, Outside, Between
    <2>3. /\ \/ pc'[c] = "joinPush"
             \/ pc'[c] = "close" /\ after'[c] = "joinPush"
                   /\ at'[c] = "unverified"
          /\ \A s \in Tasks \ {c} :
                /\ pc'[s] = pc[s] /\ at'[s] = at[s]
                /\ target'[s] = target[s] /\ after'[s] = after[s]
        BY <1>0, <2>1 DEF CallClose, frame, TypeInv, TypeOK
    <2>4. /\ MakesRoomIn("push", c, "joinPush")
          /\ Capacity["push"] = MaxPush
          /\ Capacity["push"] \in Nat \ {0}
          /\ Len(peers["push"]) <= Capacity["push"]
        BY <1>0, <1>2, ConfigAssumption
            DEF LockPush, MakesRoomIn, Capacity, Sized
    <2>5. Len(peers'["push"]) < MaxPush /\ OneLeaves(c)
        BY <1>0, <2>4, MakesRoom
    <2>6. PICK d \in Conns : /\ TakenOut(d)
                             /\ peers' = peers \/ target'[c] = d
        BY <2>5 DEF OneLeaves
    <2>7. target[c] \notin Conns
        BY <1>0, <2>1 DEF TypeInv, Targets
    <2>8. Spares(c)
        <3>1. \A l \in Lists, e \in Conns \ {c} :
                 /\ e \in Members(l)' => e \in Members(l)
                 /\ e \in Members(l) => e \in Members(l)' \/ target'[c] = e
            BY <2>6 DEF TakenOut, Members
        <3> QED BY <1>0, <2>1, <2>3, <2>6, <2>7, <3>1 DEF Spares, TakenOut
    <2>9. InOrder(c)'
        <3>1. /\ ~Arriving(c)' /\ Between(c)'
              /\ pc'[c] \notin {"leaveUnverified", "log", "new"}
            BY <2>3 DEF Arriving, Joining, Between, CloseOrLog
        <3>2. c \notin repeated => \A l \in Lists : c \notin Members(l)'
            BY <2>2, <2>6 DEF TakenOut
        <3>3. Room(c)' /\ Placed(c)' /\ Kept(c)'
            BY <2>1, <2>3, <2>5, <3>1, <3>2 DEF Room, Placed, Kept
        <3>7. Passed(c)'
            BY <2>3 DEF Passed, Searched, Lists
        <3>4. target[c] # c
            BY <2>7
        <3>5. c \in trusted' /\ (c \in trustsUs' \/ Ending(c)')
            BY <1>0, <2>1, <2>2, <3>4 DEF InOrder, Trust, Ending
        <3>6. Trust(c)'
            BY <1>0, <2>1, <2>3, <3>1, <3>5 DEF InOrder, Trust
        <3> QED BY <3>3, <3>6, <3>7 DEF InOrder
    <2> QED BY <1>0, <2>1, <2>6, <2>8, <2>9, SmallerInOrder, OthersInOrder DEF PoolInv
<1>3. CASE JoinPush(c)
    <2> DEFINE s == peers["push"]
               r == AppendLeft(s, c, MaxPush)
    <2>1. pc[c] = "joinPush" /\ c \in Inbound
             /\ UNCHANGED <<frame, trusted, trustsUs, closed, repeated>>
        BY <1>3 DEF JoinPush, TypeInv, OutboundPlaces, Conns, flags
    <2>2. Joining(c) /\ Between(c) /\ Outside(c)
        BY <2>1 DEF Joining, Between, Outside
    <2>3. /\ Len(s) < MaxPush
          /\ c \notin repeated => \A l \in Lists : c \notin Members(l)
        BY <1>0, <2>2 DEF InOrder, Room, Placed
    <2>4. /\ r \in Seq(Conns) /\ Len(r) = Len(s) + 1
          /\ \A x : Single(s, x) /\ (x = c => c \notin Members("push"))
                       => Single(r, x)
          /\ ToSet(r) = Members("push") \cup {c}
        BY <1>0, <2>3, Lengths, AppendLeftProperties DEF Members
    <2>5. peers' = [peers EXCEPT !["push"] = r]
        BY <1>3 DEF JoinPush
    <2> HIDE DEF r, s
    <2>6. /\ peers'["push"] = r
          /\ Members("push")' = Members("push") \cup {c}
          /\ \A k \in Lists \ {"push"} : /\ peers'[k] = peers[k]
                                         /\ Members(k)' = Members(k)
        BY <1>0, <2>4, <2>5, MembersReplaced
    <2>7. /\ pc'[c] = "read" /\ UNCHANGED <<at, target, after>>
          /\ \A q \in Tasks \ {c} : pc'[q] = pc[q]
        BY <1>0, <1>3, <2>1 DEF JoinPush, frame, TypeInv, TypeOK
    <2>8. \A e \in Conns \ {c} : ~Joining(e)
        <3>1. lock["push"] = c
            BY <1>0, <2>1, <2>2 DEF Owned, Holds
        <3>2. \A e \in Conns : Joining(e) => e \in Inbound
            BY DEF Joining, TypeInv, OutboundPlaces, Conns, CloseOrLog
        <3> QED BY <1>0, <3>1, <3>2 DEF Owned, Holds, Tasks
    <2>9. Len(peers'["unverified"]) = Len(peers["unverified"])
        BY <1>0, <2>6
    <2>10. Spares(c)
        <3>1. target[c] \notin Conns
            BY <1>0, <2>1 DEF TypeInv, Targets
        <3>2. \A l \in Lists, e \in Conns \ {c} :
                 e \in Members(l)' <=> e \in Members(l)
            BY <2>6
        <3>3. Len(peers'["unverified"]) <= Len(peers["unverified"])
            BY <1>0, <2>9, Lengths
        <3> QED BY <2>1, <2>7, <2>8, <3>1, <3>2, <3>3 DEF Spares
    <2>11. Sized' /\ Once'
        <3>1. Len(peers'["push"]) <= MaxPush
            BY <1>0, <2>3, <2>4, <2>6, Lengths DEF s
        <3>2. ASSUME NEW e \in Conns \ repeated
              PROVE  InOneList(e)'
            <4>1. InOneList(e)
                BY DEF PoolInv, Once
            <4>2. \A l \in Lists : Single(peers'[l], e)
                BY <1>0, <2>3, <2>4, <2>6, <4>1 DEF InOneList, s
            <4> QED BY <1>0, <2>3, <2>6, <4>1, <4>2 DEF InOneList
        <3> QED BY <1>0, <2>1, <2>9, <3>1, <3>2 DEF Sized, Once
    <2>12. InOrder(c)'
        <3>1. ~Arriving(c)' /\ ~Joining(c)' /\ ~Outside(c)' /\ ~Between(c)'
            BY <2>7 DEF Arriving, Joining, Outside, Between, Finished, CloseOrLog
        <3>2. Room(c)' /\ Placed(c)' /\ Passed(c)'
            BY <2>7, <3>1 DEF Room, Placed, Passed
        <3>3. c \in trusted' /\ (c \in trustsUs' \/ Ending(c)')
            BY <1>0, <2>1, <2>2, <2>7 DEF InOrder, Trust, Ending
        <3>4. Trust(c)'
            BY <2>1, <2>7, <3>1, <3>3 DEF Trust
        <3>5. Home(c)' = "push"
            BY <2>1, <3>3, ConnsAssumption DEF Home
        <3>6. Kept(c)'
            BY <2>6, <3>5 DEF Kept, Members
        <3> QED BY <3>2, <3>4, <3>6 DEF InOrder
    <2> QED BY <1>0, <2>10, <2>11, <2>12, OthersInOrder DEF PoolInv
<1> QED BY <1>1, <1>2, <1>3

LEMMA ConnectOrder ==
    ASSUME TypeInv, TypeInv', PoolInv, NEW c \in Conns,
           \/ OpenConnections(c)
           \/ \E new \in SUBSET Outbound :
                 ConnectionsOpened(c, new) \/ FactoryRaises(c, new)
    PROVE  PoolInv'
<1>0. c \in Tasks /\ InOrder(c)
    BY DEF PoolInv, Tasks
<1>1. CASE OpenConnections(c)
    <2>1. /\ pc[c] = "missing"
          /\ UNCHANGED <<peers, trusted, trustsUs, closed, frame, repeated>>
          /\ pc' = [pc EXCEPT ![c] = "connect"] \/ pc' = [pc EXCEPT ![c] = "read"]
        BY <1>1 DEF OpenConnections, flags
    <2>2. /\ pc'[c] \in {"connect", "read"} /\ UNCHANGED <<at, target, after>>
          /\ \A s \in Tasks \ {c} : pc'[s] = pc[s]
        BY <1>0, <2>1 DEF frame, TypeInv, TypeOK
    <2>3. Spares(c)
        BY <1>0, <2>1, <2>2, QuietSpares
    <2>4. \A l \in Lists : Members(l)' = Members(l)
        BY <2>1 DEF Members
    <2>5. ~Arriving(c)' /\ ~Joining(c)' /\ ~Outside(c)' /\ ~Between(c)'
        BY <2>2 DEF Arriving, Joining, Outside, Between, Finished, CloseOrLog
    <2>6. Trust(c)'
        BY <1>0, <2>1, <2>2, <2>4, <2>5 DEF InOrder, Trust, Ending, Lists
    <2>7. Home(c)' = Home(c) /\ Home(c) \in Lists
        BY <2>1 DEF Home, Lists
    <2>8. Kept(c)'
        BY <1>0, <2>1, <2>2, <2>4, <2>7 DEF InOrder, Kept, Members
    <2>9. InOrder(c)'
        BY <2>1, <2>2, <2>5, <2>6, <2>8, OwnOrder
    <2> QED BY <1>0, <2>1, <2>3, <2>9, QuietStep
<1>2. ASSUME NEW new \in SUBSET Outbound, NEW next \in {"read", "dead"},
             ListAndRun(c, new, next)
      PROVE  PoolInv'
    <2> DEFINE s == peers["pull"]
               n == SetToSeq(new)
               r == s \o n
    <2>1. /\ pc[c] = "connect" /\ \A o \in new : pc[o] = "new"
          /\ peers' = [peers EXCEPT !["pull"] = r]
          /\ trusted' = trusted \cup new
          /\ pc' = [t \in Tasks |-> IF t \in new THEN "read"
                                    ELSE IF t = c THEN next ELSE pc[t]]
          /\ UNCHANGED <<at, target, after, trustsUs, closed, repeated>>
        BY <1>2 DEF ListAndRun, frame
    <2>2. new \subseteq Conns /\ c \notin new
        BY <1>2, <2>1 DEF Conns
    <2>3. \A o \in new : o \notin repeated /\ \A l \in Lists : o \notin Members(l)
        BY <2>1, <2>2 DEF PoolInv, InOrder, Trust, Placed, Outside
    <2>4. n \in Seq(Outbound) /\ ToSet(n) = new /\ \A x : Single(n, x)
        <3>1. IsFiniteSet(new)
            BY <1>2, ConnsAssumption, FS_Subset
        <3>2. n \in Seq(new) /\ ToSet(n) = new /\ \A x : Single(n, x)
            BY <3>1, SetToSeqProperties
        <3> HIDE DEF n
        <3>3. n \in Seq(Outbound)
            BY <1>2, <3>2, SeqOfMembers
        <3> QED BY <3>2, <3>3
    <2>5. s \in Seq(Outbound) /\ ToSet(s) = Members("pull")
        BY DEF TypeInv, ListTypes, Members
    <2> HIDE DEF n, s
    <2>6. ToSet(s) \cap ToSet(n) = {}
        BY <2>3, <2>4, <2>5 DEF Lists
    <2>7. /\ ToSet(r) = Members("pull") \cup new
          /\ \A x : Single(s, x) => Single(r, x)
        BY <2>4, <2>5, <2>6, ConcatMembers
    <2> HIDE DEF r
    <2>8. /\ peers'["pull"] = r /\ Members("pull")' = Members("pull") \cup new
          /\ \A k \in Lists \ {"pull"} : /\ peers'[k] = peers[k]
                                         /\ Members(k)' = Members(k)
        BY <2>1, <2>7, MembersReplaced DEF Lists
    <2>9. Sized' /\ Once'
        BY <2>1, <2>7, <2>8 DEF PoolInv, Sized, Once, InOneList, Lists, s
    <2>10. ASSUME NEW e \in new
           PROVE  InOrder(e)'
        <3>1. pc'[e] = "read" /\ e \in Outbound /\ e \notin Inbound
            BY <1>2, <2>1, <2>2, <2>10, ConnsAssumption DEF Tasks
        <3>2. ~Arriving(e)' /\ ~Joining(e)' /\ ~Outside(e)'
            BY <3>1 DEF Arriving, Joining, Outside, Between, Finished, CloseOrLog
        <3>3. Room(e)' /\ Placed(e)' /\ Passed(e)' /\ Trust(e)'
            BY <2>1, <2>3, <3>1, <3>2 DEF Room, Placed, Passed, Trust
        <3>4. Home(e)' = "pull"
            BY <3>1 DEF Home
        <3>5. Kept(e)'
            BY <2>8, <2>10, <3>4 DEF Kept, Members
        <3> QED BY <3>3, <3>5 DEF InOrder
    <2>11. ASSUME NEW e \in Conns \ new
           PROVE  InOrder(e)'
        <3>1. /\ InOrder(e) /\ e \in Tasks
              /\ \A l \in Lists : e \in Members(l)' <=> e \in Members(l)
              /\ e \in trusted' <=> e \in trusted
            BY <2>1, <2>8 DEF PoolInv, Tasks
        <3>2. \/ pc'[e] = pc[e]
              \/ pc[e] = "connect" /\ pc'[e] \in {"read", "dead"}
            BY <2>1, <3>1
        <3>3. /\ Arriving(e)' <=> Arriving(e)
              /\ Joining(e)' <=> Joining(e)
              /\ Between(e)' <=> Between(e)
              /\ Outside(e)' <=> Outside(e)
              /\ Ending(e)' <=> Ending(e)
            BY <2>1, <3>2 DEF Arriving, Joining, Between, Outside, Finished,
                Ending, CloseOrLog
        <3>4. Room(e)'
            BY <2>8, <3>1, <3>3 DEF InOrder, Room, Lists
        <3>5. Placed(e)'
            BY <2>1, <3>1, <3>2, <3>3 DEF InOrder, Placed, Lists
        <3>6. Passed(e)'
            BY <2>1, <3>1, <3>2 DEF InOrder, Passed
        <3>7. Trust(e)'
            BY <2>1, <3>1, <3>2, <3>3 DEF InOrder, Trust, Lists
        <3>8. Home(e)' = Home(e) /\ Home(e) \in Lists
            BY <3>1 DEF Home, Lists
        <3>9. Kept(e)'
            BY <2>1, <3>1, <3>2, <3>8 DEF InOrder, Kept, Members
        <3> QED BY <3>4, <3>5, <3>6, <3>7, <3>9 DEF InOrder
    <2> QED BY <2>2, <2>9, <2>10, <2>11 DEF PoolInv
<1> QED BY <1>1, <1>2 DEF ConnectionsOpened, FactoryRaises

LEMMA OrderInit == Init => PoolInv
<1> SUFFICES ASSUME Init
             PROVE  PoolInv
    OBVIOUS
<1> DEFINE k == SetToSeq(KnownPeers)
<1>1. ToSet(k) = KnownPeers /\ \A x : Single(k, x)
    BY ConnsAssumption, FS_Subset, SetToSeqProperties
<1> HIDE DEF k
<1>2. peers["pull"] = k /\ peers["push"] = <<>> /\ peers["unverified"] = <<>>
    BY DEF Init, Lists, k
<1>3. /\ Members("pull") = KnownPeers
      /\ Members("push") = {} /\ Members("unverified") = {}
    BY <1>1, <1>2 DEF Members, ToSet
<1>4. Sized
    BY <1>2, ConfigAssumption DEF Sized
<1>5. \A x : Single(<<>>, x)
    BY DEF Single
<1>6. Once
    BY <1>1, <1>2, <1>3, <1>5 DEF Once, InOneList, Lists
<1>7. ASSUME NEW c \in Conns
      PROVE  InOrder(c)
    <2>1. /\ pc[c] = IF c \in KnownPeers THEN "read" ELSE "new"
          /\ trusted = KnownPeers /\ repeated = {}
        BY DEF Init, Tasks
    <2>2. ~Arriving(c) /\ ~Joining(c) /\ ~Between(c) /\ ~Finished(c)
        BY <2>1 DEF Arriving, Joining, Between, Finished, CloseOrLog
    <2>3. Outside(c) => c \notin KnownPeers
        BY <2>1, <2>2 DEF Outside
    <2>4. Room(c) /\ Placed(c) /\ Passed(c)
        BY <1>3, <2>1, <2>2, <2>3 DEF Room, Placed, Passed, Lists
    <2>5. Trust(c)
        BY <1>3, <2>1, <2>2, ConnsAssumption DEF Trust
    <2>6. Kept(c)
        BY <1>3, <2>1, ConnsAssumption DEF Kept, Home
    <2> QED BY <2>4, <2>5, <2>6 DEF InOrder
<1> QED BY <1>4, <1>6, <1>7 DEF PoolInv

LEMMA OrderStep == TypeInv /\ Owned /\ PoolInv /\ [Next]_vars => PoolInv'
<1> SUFFICES ASSUME TypeInv, Owned, PoolInv, [Next]_vars
             PROVE  PoolInv'
    OBVIOUS
<1>0. TypeInv'
    BY TypesStep
<1>1. CASE VerifierTask
    BY <1>0, <1>1, VerifierOrder, SearchOrder, WalkOrder DEF VerifierTask, Tasks
<1>2. CASE ControlTask
    BY <1>0, <1>2, ControlOrder, WalkOrder DEF ControlTask, Tasks
<1>3. ASSUME NEW c \in Inbound,
             OnPeerConnection(c) \/ PeerVerification(c) \/ Expire(c)
      PROVE  PoolInv'
    BY <1>0, <1>3, AcceptOrder, MessageOrder DEF Conns
<1>4. ASSUME NEW c \in Outbound, PeerValidation(c)
      PROVE  PoolInv'
    BY <1>0, <1>4, MessageOrder DEF Conns
<1>5. ASSUME NEW c \in Conns,
             \/ ConnTask(c) \/ HandlerCloses(c) \/ HandlerRaises(c)
             \/ RunEnds(c) \/ PeerOffer(c)
      PROVE  PoolInv'
    BY <1>0, <1>5, AcceptOrder, PromoteOrder, WalkOrder, SearchOrder,
        ConnectOrder, MessageOrder DEF ConnTask, Tasks
<1>6. CASE UNCHANGED vars
    BY <1>6 DEF vars, PoolInv, Sized, Once, InOneList, InOrder, Room, Placed, Passed,
        Trust, Kept, Members, Home, Ending, Outside, Arriving, Joining, Between,
        Finished
<1> QED BY <1>1, <1>2, <1>3, <1>4, <1>5, <1>6 DEF Next

-----------------------------------------------------------------------------
(* What follows of the lists.                                               *)

LEMMA AlwaysInOrder == Spec => [](TypeInv /\ PoolInv)
<1>1. Init => TypeInv /\ Owned /\ PoolInv
    BY PlacesInit, OwnedInit, OrderInit
<1>2. TypeInv /\ Owned /\ PoolInv /\ [Next]_vars
         => TypeInv' /\ Owned' /\ PoolInv'
    BY TypesStep, OwnedStep, OrderStep
<1> QED BY <1>1, <1>2, PTL DEF Spec

LEMMA ListedIsMember ==
    ASSUME TypeInv, NEW c, NEW l \in Lists
    PROVE  Listed(c, l) <=> c \in Members(l)
BY Lengths, ContainsIsMember DEF Listed, Members

\* A connection whose peer was not verified a second time is in one list at
\* most and there once, whoever accepts, promotes, evicts and closes at the
\* same time (validate_peer, __on_peer_connection, close_peer).
THEOREM EveryConnectionListedOnce == Spec => []ListedOnce
<1>1. TypeInv /\ PoolInv => ListedOnce
    <2> SUFFICES ASSUME TypeInv, PoolInv, NEW c \in Conns \ repeated
                 PROVE  /\ \A l \in Lists : Single(peers[l], c)
                        /\ \A k, l \in Lists :
                              k # l => ~(Listed(c, k) /\ Listed(c, l))
        BY DEF ListedOnce
    <2>1. InOneList(c)
        BY DEF PoolInv, Once
    <2>2. ASSUME NEW k \in Lists, NEW l \in Lists, k # l
          PROVE  ~(c \in Members(k) /\ c \in Members(l))
        BY <2>1, <2>2, SidesApart, ConnsAssumption DEF InOneList, Lists
    <2> QED BY <2>1, <2>2, ListedIsMember DEF InOneList
<1> QED BY <1>1, AlwaysInOrder, PTL

\* Whoever runs, or was ended by an exception with its connection open, is
\* listed where its state belongs, or somebody closes it.
THEOREM OpenConnectionsListed == Spec => []OpenIsListed
<1>1. TypeInv /\ PoolInv => OpenIsListed
    <2> SUFFICES ASSUME TypeInv, PoolInv, NEW c \in Conns,
                        pc[c] \in {"read", "dead"}, c \notin closed
                 PROVE  \/ Listed(c, Home(c))
                        \/ \E t \in Tasks : target[t] = c
        BY DEF OpenIsListed, Home
    <2>1. Kept(c) /\ Home(c) \in Lists
        BY DEF PoolInv, InOrder, Home, Lists
    <2> QED BY <2>1, ListedIsMember DEF Kept
<1> QED BY <1>1, AlwaysInOrder, PTL

\* No list keeps a connection whose run has returned, if its peer was not
\* verified a second time, although close_peer looks through the lists one
\* after the other while connections move.
THEOREM EndedConnectionsUnlisted == Spec => []GoneIsUnlisted
<1>1. TypeInv /\ PoolInv => GoneIsUnlisted
    <2> SUFFICES ASSUME TypeInv, PoolInv, NEW c \in Conns \ repeated,
                        pc[c] = "gone", NEW l \in Lists
                 PROVE  ~Listed(c, l)
        BY DEF GoneIsUnlisted
    <2>1. Placed(c) /\ Outside(c)
        BY DEF PoolInv, InOrder, Outside, Finished
    <2> QED BY <2>1, ListedIsMember DEF Placed
<1> QED BY <1>1, AlwaysInOrder, PTL

\* push_peers are validated on both sides, or about to be closed.
THEOREM PushPeersValidated == Spec => []PushIsValidated
<1>1. TypeInv /\ PoolInv => PushIsValidated
    <2> SUFFICES ASSUME TypeInv, PoolInv, NEW c \in Members("push")
                 PROVE  FullyValidated(c) \/ c \in closed \/ target[c] = c
        BY DEF PushIsValidated, Members
    <2>1. c \in Inbound /\ c \in Conns
        BY SidesApart DEF Conns
    <2>2. pc[c] # "new"
        BY <2>1 DEF PoolInv, InOrder, Trust, Placed, Outside, Lists
    <2>3. Trust(c)
        BY <2>1 DEF PoolInv, InOrder
    <2> QED BY <2>1, <2>2, <2>3 DEF Trust, FullyValidated, Ending
<1> QED BY <1>1, AlwaysInOrder, PTL
=============================================================================
