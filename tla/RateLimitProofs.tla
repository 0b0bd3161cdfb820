-------------------------- MODULE RateLimitProofs --------------------------
(***************************************************************************)
(* The rate limiter counts what it admitted, for any limit, window, number *)
(* of keys and of workers: the events it stores for a key are admissions   *)
(* of that key, and as long as the checks come in the order of their       *)
(* readings, every admission a later window can hold is still stored.      *)
(***************************************************************************)
EXTENDS RateLimit, FiniteSetTheorems, WellFoundedInduction, TLAPS

(* Sets of numbers: the least, and counting up to a bound *)

\* A set of numbers has a least member.
LEMMA LeastNumber ==
    ASSUME NEW T, T # {}
    PROVE  T \subseteq Nat => \E m \in T : \A k \in T : m <= k
<1>0. SUFFICES ASSUME T \subseteq Nat PROVE \E m \in T : \A k \in T : m <= k
    OBVIOUS
<1>1. PICK m \in T : \A k \in T : <<k, m>> \notin OpToRel(<, Nat)
    BY <1>0, NatLessThanWellFounded, WFMin
<1>2. ASSUME NEW k \in T PROVE m <= k
    <2>1. k \in Nat /\ m \in Nat
        BY <1>0
    <2>2. ~ (k < m)
        BY <1>1, <2>1 DEF OpToRel
    <2> QED
        BY <2>1, <2>2
<1> QED
    BY <1>2

\* Counting up from 0, one step at a time, reaches every number up to n.
LEMMA CountingUp ==
    ASSUME NEW n \in Nat, NEW G, 0 \in G, \A m \in 1 .. n : m - 1 \in G => m \in G
    PROVE  \A m \in 0 .. n : m \in G
<1> DEFINE T == {m \in 0 .. n : m \notin G}
<1>1. T \subseteq Nat
    OBVIOUS
<1>2. ASSUME NEW m \in T, \A k \in T : m <= k PROVE FALSE
    <2>1. m \in 1 .. n /\ m - 1 \in 0 .. n
        OBVIOUS
    <2>2. m - 1 \notin T
        BY <1>2, <2>1
    <2> QED
        BY <2>1, <2>2
<1>3. T = {}
    <2> HIDE DEF T
    <2> QED
        BY <1>1, <1>2, LeastNumber
<1> QED
    BY <1>3

(* Counting in a sequence                                                  *)

\* The places of a sequence of instants that are not before d.
Since(s, d) == {i \in DOMAIN s : s[i] >= d}

LEMMA SinceIsFinite ==
    ASSUME NEW s \in Seq(Int), NEW d
    PROVE  IsFiniteSet(Since(s, d)) /\ Cardinality(Since(s, d)) \in Nat
<1>1. IsFiniteSet(1 .. Len(s)) /\ Since(s, d) \subseteq 1 .. Len(s)
    BY FS_Interval DEF Since
<1> QED
    BY <1>1, FS_Subset, FS_CardinalityType

LEMMA SinceOfAppend ==
    ASSUME NEW s \in Seq(Int), NEW x \in Int, NEW d \in Int
    PROVE  Cardinality(Since(Append(s, x), d)) =
               IF x >= d THEN Cardinality(Since(s, d)) + 1 ELSE Cardinality(Since(s, d))
<1>1. /\ DOMAIN Append(s, x) = 1 .. Len(s) + 1 /\ DOMAIN s = 1 .. Len(s)
      /\ \A i \in 1 .. Len(s) + 1 : Append(s, x)[i] = IF i = Len(s) + 1 THEN x ELSE s[i]
    OBVIOUS
<1>2. CASE x >= d
    <2>1. Since(Append(s, x), d) = Since(s, d) \cup {Len(s) + 1}
        BY <1>1, <1>2 DEF Since
    <2>2. Len(s) + 1 \notin Since(s, d)
        BY DEF Since
    <2> QED
        BY <1>2, <2>1, <2>2, SinceIsFinite, FS_AddElement
<1>3. CASE ~ (x >= d)
    <2>1. Since(Append(s, x), d) = Since(s, d)
        BY <1>1, <1>3 DEF Since
    <2> QED
        BY <1>3, <2>1
<1> QED
    BY <1>2, <1>3

----------------------------------------------------------------------------
(* The events that are not before the cutoff                               *)

\* The recursive definition of NotBefore has a solution: it is built up one
\* place at a time.
LEMMA KeptExists ==
    ASSUME NEW s \in Seq(Int), NEW c \in Int
    PROVE  \E f : f = [n \in 0 .. Len(s) |->
                          IF n = 0 THEN <<>>
                          ELSE IF s[n] >= c THEN Append(f[n - 1], s[n]) ELSE f[n - 1]]
<1> DEFINE Up(m) == \E f : f = [n \in 0 .. m |->
                          IF n = 0 THEN <<>>
                          ELSE IF s[n] >= c THEN Append(f[n - 1], s[n]) ELSE f[n - 1]]
           G == {m \in 0 .. Len(s) : Up(m)}
<1>1. 0 \in G
    <2>1. PICK f : f = [n \in 0 .. 0 |-> <<>>]
        OBVIOUS
    <2>2. f = [n \in 0 .. 0 |-> IF n = 0 THEN <<>>
                          ELSE IF s[n] >= c THEN Append(f[n - 1], s[n]) ELSE f[n - 1]]
        BY <2>1
    <2> QED
        BY <2>2
<1>2. ASSUME NEW m \in 1 .. Len(s), m - 1 \in G PROVE m \in G
    <2>1. PICK g : g = [n \in 0 .. m - 1 |-> IF n = 0 THEN <<>>
                          ELSE IF s[n] >= c THEN Append(g[n - 1], s[n]) ELSE g[n - 1]]
        BY <1>2
    <2>2. PICK x : x = IF s[m] >= c THEN Append(g[m - 1], s[m]) ELSE g[m - 1]
        OBVIOUS
    <2>3. PICK h : h = [n \in 0 .. m |-> IF n = m THEN x ELSE g[n]]
        OBVIOUS
    <2>4. ASSUME NEW n \in 0 .. m
          PROVE  h[n] = IF n = 0 THEN <<>>
                        ELSE IF s[n] >= c THEN Append(h[n - 1], s[n]) ELSE h[n - 1]
        <3>1. CASE n = m
            <4>1. h[m - 1] = g[m - 1]
                BY <2>3
            <4>2. h[m] = x
                BY <2>3
            <4> QED
                BY <2>2, <3>1, <4>1, <4>2
        <3>2. CASE n # m
            <4>1. n \in 0 .. m - 1 /\ h[n] = g[n] /\ (n # 0 => h[n - 1] = g[n - 1])
                BY <2>3, <3>2
            <4>2. g[n] = IF n = 0 THEN <<>>
                         ELSE IF s[n] >= c THEN Append(g[n - 1], s[n]) ELSE g[n - 1]
                BY <2>1, <4>1
            <4> QED
                BY <4>1, <4>2
        <3> QED
            BY <3>1, <3>2
    <2>5. h = [n \in 0 .. m |-> IF n = 0 THEN <<>>
                          ELSE IF s[n] >= c THEN Append(h[n - 1], s[n]) ELSE h[n - 1]]
        BY <2>3, <2>4
    <2> QED
        BY <2>5
<1>3. Len(s) \in G
    <2> HIDE DEF G
    <2>1. Len(s) \in Nat /\ Len(s) \in 0 .. Len(s)
        OBVIOUS
    <2>2. \A m \in 1 .. Len(s) : m - 1 \in G => m \in G
        BY <1>2
    <2>3. \A m \in 0 .. Len(s) : m \in G
        BY <1>1, <2>1, <2>2, CountingUp
    <2> QED
        BY <2>1, <2>3
<1> QED
    BY <1>3

\* What NotBefore computes, place by place.
LEMMA NotBeforeByPlace ==
    ASSUME NEW s \in Seq(Int), NEW c \in Int
    PROVE  \E f : /\ f[0] = <<>> /\ \A n \in 0 .. Len(s) : f[n] \in Seq(Int)
                  /\ \A n \in 1 .. Len(s) :
                        f[n] = IF s[n] >= c THEN Append(f[n - 1], s[n]) ELSE f[n - 1]
                  /\ NotBefore(c, s) = f[Len(s)]
<1> DEFINE f == CHOOSE f : f = [n \in 0 .. Len(s) |->
                          IF n = 0 THEN <<>>
                          ELSE IF s[n] >= c THEN Append(f[n - 1], s[n]) ELSE f[n - 1]]
<1>1. f = [n \in 0 .. Len(s) |-> IF n = 0 THEN <<>>
                          ELSE IF s[n] >= c THEN Append(f[n - 1], s[n]) ELSE f[n - 1]]
    BY KeptExists
<1>2. NotBefore(c, s) = f[Len(s)]
    BY DEF NotBefore
<1> HIDE DEF f
<1>3. f[0] = <<>>
    BY <1>1
<1>4. ASSUME NEW n \in 1 .. Len(s)
      PROVE  f[n] = IF s[n] >= c THEN Append(f[n - 1], s[n]) ELSE f[n - 1]
    <2>1. n \in 0 .. Len(s) /\ n # 0
        OBVIOUS
    <2>2. f[n] = IF n = 0 THEN <<>>
                 ELSE IF s[n] >= c THEN Append(f[n - 1], s[n]) ELSE f[n - 1]
        BY <1>1, <2>1, Zenon
    <2> QED
        BY <2>1, <2>2
<1> DEFINE G == {n \in 0 .. Len(s) : f[n] \in Seq(Int)}
<1>5. 0 \in G
    <2>1. <<>> \in Seq(Int)
        OBVIOUS
    <2>2. 0 \in 0 .. Len(s)
        OBVIOUS
    <2>3. f[0] \in Seq(Int)
        BY <1>3, <2>1, Zenon
    <2> QED
        BY <2>2, <2>3, Zenon
<1>6. ASSUME NEW n \in 1 .. Len(s), n - 1 \in G PROVE n \in G
    <2>1. PICK q \in Seq(Int) : q = f[n - 1]
        BY <1>6
    <2>2. Append(q, s[n]) \in Seq(Int) /\ n \in 0 .. Len(s)
        OBVIOUS
    <2>3. f[n] \in {q, Append(q, s[n])}
        BY <1>4, <2>1
    <2> QED
        BY <2>1, <2>2, <2>3
<1>7. \A n \in 0 .. Len(s) : n \in G
    <2> HIDE DEF G
    <2>1. Len(s) \in Nat
        OBVIOUS
    <2>2. \A n \in 1 .. Len(s) : n - 1 \in G => n \in G
        BY <1>6
    <2> QED
        BY <1>5, <2>1, <2>2, CountingUp
<1> QED
    BY <1>2, <1>3, <1>4, <1>7

\* The newest event of a list is its last.
NewestLast(s) == \A i \in DOMAIN s : s[i] <= s[Len(s)]

LEMMA NotBeforeEvents ==
    ASSUME NEW s \in Seq(Int), NEW c \in Int
    PROVE  /\ NotBefore(c, s) \in Seq(Int)
           /\ \A i \in DOMAIN NotBefore(c, s) :
                 /\ NotBefore(c, s)[i] >= c
                 /\ \E j \in DOMAIN s : NotBefore(c, s)[i] = s[j]
<1>1. PICK f : /\ f[0] = <<>> /\ \A n \in 0 .. Len(s) : f[n] \in Seq(Int)
               /\ \A n \in 1 .. Len(s) :
                     f[n] = IF s[n] >= c THEN Append(f[n - 1], s[n]) ELSE f[n - 1]
               /\ NotBefore(c, s) = f[Len(s)]
    BY NotBeforeByPlace
<1> DEFINE Good(q) == \A i \in DOMAIN q : q[i] >= c /\ \E j \in DOMAIN s : q[i] = s[j]
           G == {n \in 0 .. Len(s) : Good(f[n])}
<1>2. 0 \in G
    <2>1. DOMAIN <<>> = {}
        OBVIOUS
    <2>2. PICK q : q = <<>>
        OBVIOUS
    <2>3. Good(q)
        BY <2>1, <2>2
    <2> QED
        BY <1>1, <2>2, <2>3
<1>3. ASSUME NEW n \in 1 .. Len(s), n - 1 \in G PROVE n \in G
    <2>1. PICK q : q = f[n - 1]
        OBVIOUS
    <2>2. q \in Seq(Int) /\ Good(q) /\ s[n] \in Int /\ n \in DOMAIN s
        BY <1>1, <1>3, <2>1
    <2>3. CASE s[n] >= c
        <3>1. PICK r : r = Append(q, s[n])
            OBVIOUS
        <3>2. f[n] = r
            BY <1>1, <2>1, <2>3, <3>1
        <3>3. ASSUME NEW i \in DOMAIN Append(q, s[n])
              PROVE  Append(q, s[n])[i] >= c /\ \E j \in DOMAIN s : Append(q, s[n])[i] = s[j]
            <4>1. CASE i \in DOMAIN q
                BY <2>2, <4>1
            <4>2. CASE i \notin DOMAIN q
                BY <2>2, <2>3, <4>2
            <4> QED
                BY <4>1, <4>2
        <3>4. Good(r)
            BY <3>1, <3>3
        <3> QED
            BY <3>2, <3>4
    <2>4. CASE ~ (s[n] >= c)
        BY <1>1, <2>1, <2>2, <2>4
    <2> QED
        BY <2>3, <2>4
<1>4. Len(s) \in G
    <2> HIDE DEF G
    <2>1. Len(s) \in Nat /\ Len(s) \in 0 .. Len(s)
        OBVIOUS
    <2>2. \A n \in 1 .. Len(s) : n - 1 \in G => n \in G
        BY <1>3
    <2> QED
        BY <1>2, <2>1, <2>2, CountingUp
<1> QED
    BY <1>1, <1>4

\* It keeps an event for every place of the list that is not before the cutoff.
LEMMA NotBeforeCounts ==
    ASSUME NEW s \in Seq(Int), NEW c \in Int, NEW d \in Int
    PROVE  /\ Cardinality(Since(NotBefore(c, s), d)) <= Cardinality(Since(s, d))
           /\ d >= c => Cardinality(Since(NotBefore(c, s), d)) = Cardinality(Since(s, d))
<1>1. PICK f : /\ f[0] = <<>> /\ \A n \in 0 .. Len(s) : f[n] \in Seq(Int)
               /\ \A n \in 1 .. Len(s) :
                     f[n] = IF s[n] >= c THEN Append(f[n - 1], s[n]) ELSE f[n - 1]
               /\ NotBefore(c, s) = f[Len(s)]
    BY NotBeforeByPlace
<1> DEFINE Places(n) == {j \in 1 .. n : s[j] >= c /\ s[j] >= d}
           G == {n \in 0 .. Len(s) : Cardinality(Since(f[n], d)) = Cardinality(Places(n))}
<1>2. 0 \in G
    <2>1. Places(0) = {}
        OBVIOUS
    <2>2. Since(<<>>, d) = {}
        BY DEF Since
    <2>3. Since(f[0], d) = {}
        BY <1>1, <2>2, Zenon
    <2>4. 0 \in 0 .. Len(s)
        OBVIOUS
    <2>5. Cardinality(Since(f[0], d)) = Cardinality(Places(0))
        BY <2>1, <2>3, Zenon
    <2> QED
        BY <2>4, <2>5, Zenon
<1>3. ASSUME NEW n \in 1 .. Len(s), n - 1 \in G PROVE n \in G
    <2>1. PICK q : q = f[n - 1]
        OBVIOUS
    <2>2. /\ q \in Seq(Int) /\ Cardinality(Since(q, d)) = Cardinality(Places(n - 1))
          /\ s[n] \in Int
        BY <1>1, <1>3, <2>1
    <2>3. /\ Places(n) = IF s[n] >= c /\ s[n] >= d THEN Places(n - 1) \cup {n} ELSE Places(n - 1)
          /\ n \notin Places(n - 1)
        OBVIOUS
    <2>4. IsFiniteSet(Places(n - 1))
        <3>1. IsFiniteSet(1 .. n - 1) /\ Places(n - 1) \subseteq 1 .. n - 1
            BY FS_Interval
        <3> QED
            BY <3>1, FS_Subset
    <2>5. Cardinality(Places(n)) = IF s[n] >= c /\ s[n] >= d THEN Cardinality(Places(n - 1)) + 1
                                   ELSE Cardinality(Places(n - 1))
        <3> HIDE DEF Places
        <3> QED
            BY <2>3, <2>4, FS_AddElement
    <2> HIDE DEF Places
    <2>6. CASE s[n] >= c
        <3>1. f[n] = Append(q, s[n])
            BY <1>1, <2>1, <2>6
        <3>2. Cardinality(Since(f[n], d)) =
                  IF s[n] >= d THEN Cardinality(Since(q, d)) + 1 ELSE Cardinality(Since(q, d))
            BY <2>2, <3>1, SinceOfAppend
        <3>3. Cardinality(Since(f[n], d)) = Cardinality(Places(n))
            BY <2>2, <2>5, <2>6, <3>2
        <3> QED
            BY <3>3
    <2>7. CASE ~ (s[n] >= c)
        BY <1>1, <2>1, <2>2, <2>5, <2>7
    <2> QED
        BY <2>6, <2>7
<1>4. Len(s) \in G
    <2> HIDE DEF G
    <2>1. Len(s) \in Nat /\ Len(s) \in 0 .. Len(s)
        OBVIOUS
    <2>2. \A n \in 1 .. Len(s) : n - 1 \in G => n \in G
        BY <1>3
    <2> QED
        BY <1>2, <2>1, <2>2, CountingUp
<1>5. Places(Len(s)) \subseteq Since(s, d) /\ (d >= c => Places(Len(s)) = Since(s, d))
    BY DEF Since
<1>6. IsFiniteSet(Since(s, d))
    BY SinceIsFinite
<1>7. Cardinality(Places(Len(s))) <= Cardinality(Since(s, d))
    BY <1>5, <1>6, FS_Subset
<1> QED
    BY <1>1, <1>4, <1>5, <1>7

\* Its newest event is its last if that was so of the list.
LEMMA NotBeforeNewest ==
    ASSUME NEW s \in Seq(Int), NEW c \in Int, NewestLast(s)
    PROVE  NewestLast(NotBefore(c, s))
<1>1. PICK f : /\ f[0] = <<>> /\ \A n \in 0 .. Len(s) : f[n] \in Seq(Int)
               /\ \A n \in 1 .. Len(s) :
                     f[n] = IF s[n] >= c THEN Append(f[n - 1], s[n]) ELSE f[n - 1]
               /\ NotBefore(c, s) = f[Len(s)]
    BY NotBeforeByPlace
<1>2. PICK q : q = NotBefore(c, s)
    OBVIOUS
<1>3. q \in Seq(Int) /\ \A i \in DOMAIN q : q[i] >= c /\ \E j \in DOMAIN s : q[i] = s[j]
    BY <1>2, NotBeforeEvents
<1>4. CASE Len(s) = 0
    <2>1. DOMAIN s = {}
        BY <1>4
    <2>2. DOMAIN q = {}
        BY <1>3, <2>1
    <2> QED
        BY <1>2, <2>2 DEF NewestLast
<1>5. CASE Len(s) # 0 /\ ~ (s[Len(s)] >= c)
    <2>1. ASSUME NEW i \in DOMAIN q PROVE FALSE
        <3>1. PICK j \in DOMAIN s : q[i] = s[j]
            BY <1>3
        <3>2. s[j] <= s[Len(s)] /\ s[j] \in Int /\ s[Len(s)] \in Int
            BY <1>5 DEF NewestLast
        <3> QED
            BY <1>3, <1>5, <3>1, <3>2
    <2> QED
        BY <1>2, <2>1 DEF NewestLast
<1>6. CASE Len(s) # 0 /\ s[Len(s)] >= c
    <2>1. Len(s) \in 1 .. Len(s)
        BY <1>6
    <2>2. PICK p \in Seq(Int) : p = f[Len(s) - 1]
        BY <1>1, <2>1
    <2>3. q = Append(p, s[Len(s)])
        BY <1>1, <1>2, <1>6, <2>1, <2>2
    <2>4. q[Len(q)] = s[Len(s)]
        BY <2>1, <2>3
    <2> QED
        BY <1>2, <1>3, <2>4 DEF NewestLast
<1> QED
    BY <1>4, <1>5, <1>6

----------------------------------------------------------------------------
(* The invariant                                                           *)

Checks == [key : Keys, now : 0 .. MaxTime]

TypeInv ==
    /\ DOMAIN rateEvents \subseteq Keys
    /\ \A k \in DOMAIN rateEvents : rateEvents[k] \in Seq(Int)
    /\ ratePrunedAt \in Int \cup {None}
    /\ clock \in 0 .. MaxTime /\ latest \in Int
    /\ call \in [Workers -> Checks \cup {None}]
    /\ admitted \in Seq(Checks)

\* What the limiter stores of key k.
Events(k) == IF k \in DOMAIN rateEvents THEN rateEvents[k] ELSE <<>>

\* The admissions of key k that are not before d.
AdmittedSince(k, d) == {i \in DOMAIN admitted : admitted[i].key = k /\ admitted[i].now >= d}

\* What is stored was admitted, as often.
StoredWasAdmitted ==
    \A k \in Keys, d \in Int :
        Cardinality(Since(Events(k), d)) <= Cardinality(AdmittedSince(k, d))

\* No admission that a later window can hold was forgotten.
AdmittedIsStored ==
    \A k \in Keys, d \in Int :
        d >= latest - Window =>
            Cardinality(AdmittedSince(k, d)) <= Cardinality(Since(Events(k), d))

\* Readings and stored events go up to the latest reading, each list in order.
UpToLatest ==
    /\ \A i \in DOMAIN admitted : admitted[i].now <= latest
    /\ \A k \in Keys : /\ NewestLast(Events(k))
                       /\ \A i \in DOMAIN Events(k) : Events(k)[i] <= latest

\* The last pruning was less than a window ago, and left nothing idle.
PrunedRecently ==
    IF ratePrunedAt = None THEN DOMAIN rateEvents = {}
    ELSE /\ latest - Window < ratePrunedAt /\ ratePrunedAt <= latest
         /\ Limit > 0 => \A k \in DOMAIN rateEvents :
                            /\ rateEvents[k] # <<>>
                            /\ rateEvents[k][Len(rateEvents[k])] >= ratePrunedAt - Window

InOrder == UpToLatest /\ AdmittedIsStored /\ PrunedRecently

Inv == TypeInv /\ StoredWasAdmitted /\ WindowLimit /\ (overtaken \/ InOrder)

LEMMA AdmittedSinceIsFinite ==
    ASSUME TypeInv, NEW k, NEW d
    PROVE  IsFiniteSet(AdmittedSince(k, d)) /\ Cardinality(AdmittedSince(k, d)) \in Nat
<1>1. DOMAIN admitted = 1 .. Len(admitted) /\ Len(admitted) \in Nat
    BY DEF TypeInv
<1>2. IsFiniteSet(1 .. Len(admitted)) /\ AdmittedSince(k, d) \subseteq 1 .. Len(admitted)
    BY <1>1, FS_Interval DEF AdmittedSince
<1> QED
    BY <1>2, FS_Subset, FS_CardinalityType

LEMMA EventsType == ASSUME TypeInv, NEW k PROVE Events(k) \in Seq(Int)
BY DEF TypeInv, Events

LEMMA InitInv == ASSUME Init PROVE Inv
<1>1. TypeInv
    <2>1. DOMAIN rateEvents = {}
        BY DEF Init
    <2>2. <<>> \in Seq(Checks) /\ 0 \in 0 .. MaxTime
        BY LimitAssumption
    <2> QED
        BY <2>1, <2>2 DEF Init, TypeInv
<1>2. \A k \in Keys : Events(k) = <<>>
    BY DEF Init, Events
<1>3. DOMAIN <<>> = {}
    OBVIOUS
<1>4. \A k, d : Since(<<>>, d) = {} /\ AdmittedSince(k, d) = {}
    BY <1>3 DEF Init, Since, AdmittedSince
<1>5. Cardinality({}) = 0
    BY FS_EmptySet
<1>6. StoredWasAdmitted /\ AdmittedIsStored
    <2>1. \A k \in Keys, d \in Int : /\ Cardinality(Since(Events(k), d)) = 0
                                     /\ Cardinality(AdmittedSince(k, d)) = 0
        BY <1>2, <1>4, <1>5, Zenon
    <2> QED
        BY <2>1 DEF StoredWasAdmitted, AdmittedIsStored
<1>7. UpToLatest
    BY <1>2, <1>3 DEF Init, UpToLatest, NewestLast
<1>8. PrunedRecently /\ WindowLimit
    BY <1>3 DEF Init, PrunedRecently, WindowLimit
<1> QED
    BY <1>1, <1>6, <1>7, <1>8 DEF Inv, InOrder

\* The clock, a reading and a step that changes nothing leave the counts alone.
LEMMA Uncounted ==
    ASSUME Inv, TypeInv', UNCHANGED <<rateEvents, ratePrunedAt, admitted, latest, overtaken>>
    PROVE  Inv'
<1>1. \A k : Events(k)' = Events(k)
    BY DEF Events
<1>2. \A k, d : AdmittedSince(k, d)' = AdmittedSince(k, d)
    BY DEF AdmittedSince
<1>3. WindowLimit'
    BY DEF Inv, WindowLimit, Admissions
<1>4. StoredWasAdmitted'
    BY <1>1, <1>2 DEF Inv, StoredWasAdmitted
<1>5. overtaken' \/ InOrder'
    BY <1>1, <1>2 DEF Inv, InOrder, UpToLatest, AdmittedIsStored, PrunedRecently
<1> QED
    BY <1>3, <1>4, <1>5 DEF Inv

LEMMA QuietStep ==
    ASSUME Inv, \/ \E w \in Workers, k \in Keys : ReadClock(w, k)
                \/ Tick \/ UNCHANGED vars
    PROVE  Inv'
<1>1. UNCHANGED <<rateEvents, ratePrunedAt, admitted, latest, overtaken>>
    BY DEF ReadClock, Tick, vars
<1>2. TypeInv'
    <2>1. CASE \E w \in Workers, k \in Keys : ReadClock(w, k)
        BY <1>1, <2>1 DEF Inv, TypeInv, ReadClock, Checks
    <2>2. CASE Tick
        BY <1>1, <2>2, LimitAssumption DEF Inv, TypeInv, Tick
    <2>3. CASE UNCHANGED vars
        BY <2>3 DEF Inv, TypeInv, vars
    <2> QED
        BY <2>1, <2>2, <2>3
<1> QED
    BY <1>1, <1>2, Uncounted

----------------------------------------------------------------------------
(* What a check reads                                                      *)

\* What pruning takes away could count no longer.
LEMMA PrunedIsOld ==
    ASSUME TypeInv, NEW k, NEW now \in Int, k \notin KeptKeys(now), NewestLast(Events(k)),
           NEW d \in Int, d >= now - Window
    PROVE  Since(Events(k), d) = {}
<1>1. CASE k \notin DOMAIN rateEvents
    <2>1. Events(k) = <<>> /\ DOMAIN <<>> = {}
        BY <1>1 DEF Events
    <2> QED
        BY <2>1 DEF Since
<1>2. CASE k \in DOMAIN rateEvents
    <2>1. Events(k) = rateEvents[k] /\ Idle(k, now - Window)
        BY <1>2 DEF Events, KeptKeys
    <2>2. PICK s \in Seq(Int) : s = Events(k)
        BY EventsType
    <2>3. s = <<>> \/ s[Len(s)] < now - Window
        BY <2>1, <2>2 DEF Idle, Last
    <2>4. CASE s = <<>>
        <3>1. DOMAIN s = {}
            BY <2>4
        <3> QED
            BY <2>2, <3>1 DEF Since
    <2>5. CASE s # <<>> /\ s[Len(s)] < now - Window
        <3>1. Len(s) \in DOMAIN s
            BY <2>5
        <3>2. ASSUME NEW i \in DOMAIN s PROVE ~ (s[i] >= d)
            <4>1. s[i] <= s[Len(s)] /\ s[i] \in Int /\ s[Len(s)] \in Int
                BY <2>2, <3>1 DEF NewestLast
            <4> QED
                BY <2>5, <4>1, LimitAssumption
        <3> QED
            BY <2>2, <3>2 DEF Since
    <2> QED
        BY <2>3, <2>4, <2>5
<1> QED
    BY <1>1, <1>2

LEMMA RecentFacts ==
    ASSUME TypeInv, NEW k, NEW now \in Int
    PROVE  /\ Recent(k, now) \in Seq(Int)
           /\ \A i \in DOMAIN Recent(k, now) :
                 /\ Recent(k, now)[i] >= now - Window
                 /\ \E j \in DOMAIN Events(k) : Recent(k, now)[i] = Events(k)[j]
           /\ NewestLast(Events(k)) => NewestLast(Recent(k, now))
           /\ \A d \in Int : Cardinality(Since(Recent(k, now), d)) <= Cardinality(Since(Events(k), d))
           /\ NewestLast(Events(k)) =>
                 \A d \in Int : d >= now - Window =>
                     Cardinality(Since(Recent(k, now), d)) = Cardinality(Since(Events(k), d))
<1> DEFINE cutoff == now - Window
<1>0. cutoff \in Int
    BY LimitAssumption
<1>1. CASE k \in KeptKeys(now)
    <2>1. k \in DOMAIN rateEvents
        BY <1>1 DEF KeptKeys
    <2>2. PICK s \in Seq(Int) : s = Events(k)
        BY EventsType
    <2>3. Recent(k, now) = NotBefore(cutoff, s)
        BY <1>1, <2>1, <2>2 DEF Recent, Events
    <2> HIDE DEF cutoff
    <2>4. /\ NotBefore(cutoff, s) \in Seq(Int)
          /\ \A i \in DOMAIN NotBefore(cutoff, s) :
                 /\ NotBefore(cutoff, s)[i] >= cutoff
                 /\ \E j \in DOMAIN s : NotBefore(cutoff, s)[i] = s[j]
        BY <1>0, NotBeforeEvents
    <2>5. NewestLast(s) => NewestLast(NotBefore(cutoff, s))
        BY <1>0, NotBeforeNewest
    <2>6. \A d \in Int :
              /\ Cardinality(Since(NotBefore(cutoff, s), d)) <= Cardinality(Since(s, d))
              /\ d >= cutoff =>
                     Cardinality(Since(NotBefore(cutoff, s), d)) = Cardinality(Since(s, d))
        BY <1>0, NotBeforeCounts
    <2> QED
        BY <2>2, <2>3, <2>4, <2>5, <2>6 DEF cutoff
<1>2. CASE k \notin KeptKeys(now)
    <2>1. Recent(k, now) = <<>>
        BY <1>2 DEF Recent
    <2>2. DOMAIN <<>> = {} /\ <<>> \in Seq(Int)
        OBVIOUS
    <2>3. \A d : Since(Recent(k, now), d) = {}
        BY <2>1, <2>2 DEF Since
    <2>4. NewestLast(Recent(k, now))
        BY <2>1, <2>2 DEF NewestLast
    <2>5. Cardinality({}) = 0
        BY FS_EmptySet
    <2>6. \A d \in Int : Cardinality(Since(Recent(k, now), d)) <= Cardinality(Since(Events(k), d))
        <3>1. \A d \in Int : Cardinality(Since(Recent(k, now), d)) = 0
            BY <2>3, <2>5
        <3>2. \A d \in Int : Cardinality(Since(Events(k), d)) \in Nat
            BY EventsType, SinceIsFinite
        <3> QED
            BY <3>1, <3>2
    <2>7. ASSUME NewestLast(Events(k)), NEW d \in Int, d >= now - Window
          PROVE  Cardinality(Since(Recent(k, now), d)) = Cardinality(Since(Events(k), d))
        BY <1>2, <2>3, <2>7, PrunedIsOld
    <2>8. /\ Recent(k, now) \in Seq(Int)
          /\ \A i \in DOMAIN Recent(k, now) :
                 /\ Recent(k, now)[i] >= now - Window
                 /\ \E j \in DOMAIN Events(k) : Recent(k, now)[i] = Events(k)[j]
        BY <2>1, <2>2, Zenon
    <2> QED
        BY <2>4, <2>6, <2>7, <2>8
<1> QED
    BY <1>1, <1>2

\* All of them count in the window that ends at now.
LEMMA RecentLength ==
    ASSUME TypeInv, NEW k, NEW now \in Int
    PROVE  Cardinality(Since(Recent(k, now), now - Window)) = Len(Recent(k, now))
<1>1. PICK s \in Seq(Int) : s = Recent(k, now) /\ \A i \in DOMAIN s : s[i] >= now - Window
    BY RecentFacts
<1>2. Since(s, now - Window) = 1 .. Len(s) /\ Len(s) \in Nat
    BY <1>1 DEF Since
<1>3. Cardinality(1 .. Len(s)) = Len(s)
    <2>1. PICK n \in Nat : n = Len(s)
        BY <1>2
    <2>2. 1 \in Int /\ n \in Int
        OBVIOUS
    <2>3. Cardinality(1 .. n) = IF 1 > n THEN 0 ELSE n - 1 + 1
        BY <2>2, FS_Interval, Zenon
    <2> QED
        BY <2>1, <2>3
<1> QED
    BY <1>1, <1>2, <1>3

----------------------------------------------------------------------------
(* What a check writes                                                     *)

\* The section's effect: key and now are the check's, F the recent events.
Wrote(key, now, F) ==
    /\ key \in Keys /\ now \in 0 .. MaxTime
    /\ F = Recent(key, now)
    /\ \A k \in Keys \ {key} :
          Events(k)' = IF k \in KeptKeys(now) THEN Events(k) ELSE <<>>
    /\ DOMAIN rateEvents' = KeptKeys(now) \cup {key}
    /\ ratePrunedAt' = IF PruneDue(now) THEN now ELSE ratePrunedAt
    /\ overtaken' = (overtaken \/ now < latest)
    /\ latest' = IF now < latest THEN latest ELSE now
    /\ \/ /\ Len(F) < Limit /\ Events(key)' = Append(F, now)
          /\ \E c \in Checks : c.key = key /\ c.now = now /\ admitted' = Append(admitted, c)
       \/ /\ Len(F) >= Limit /\ Events(key)' = F /\ admitted' = admitted

LEMMA CheckWrites ==
    ASSUME TypeInv, NEW w \in Workers, CheckRateLimit(w)
    PROVE  /\ Wrote(call[w].key, call[w].now, Recent(call[w].key, call[w].now))
           /\ TypeInv'
<1>1. PICK c \in Checks : c = call[w]
    BY DEF TypeInv, CheckRateLimit
<1>2. PICK key \in Keys, now \in 0 .. MaxTime : key = c.key /\ now = c.now
    BY <1>1 DEF Checks
<1>3. PICK F : F = Recent(key, now)
    OBVIOUS
<1>4. F \in Seq(Int) /\ now \in Int /\ Len(F) \in Int
    BY <1>2, <1>3, RecentFacts, LimitAssumption
<1>5. /\ rateEvents' = [k \in KeptKeys(now) \cup {key} |->
                          IF k # key THEN rateEvents[k]
                          ELSE IF Len(F) < Limit THEN Append(F, now) ELSE F]
      /\ admitted' = IF Len(F) < Limit THEN Append(admitted, c) ELSE admitted
      /\ ratePrunedAt' = IF PruneDue(now) THEN now ELSE ratePrunedAt
      /\ overtaken' = (overtaken \/ now < latest)
      /\ latest' = IF now < latest THEN latest ELSE now
      /\ call' = [call EXCEPT ![w] = None]
      /\ clock' = clock
    BY <1>1, <1>2, <1>3 DEF CheckRateLimit
<1>6. KeptKeys(now) \subseteq DOMAIN rateEvents
    BY DEF KeptKeys
<1>7. Append(F, now) \in Seq(Int) /\ Append(admitted, c) \in Seq(Checks)
    BY <1>4 DEF TypeInv
<1>8. TypeInv'
    <2>1. DOMAIN rateEvents' \subseteq Keys
        BY <1>5, <1>6 DEF TypeInv
    <2>2. \A k \in DOMAIN rateEvents' : rateEvents'[k] \in Seq(Int)
        BY <1>4, <1>5, <1>6, <1>7 DEF TypeInv
    <2>3. ratePrunedAt' \in Int \cup {None} /\ clock' \in 0 .. MaxTime /\ latest' \in Int
        BY <1>4, <1>5 DEF TypeInv
    <2>4. call' \in [Workers -> Checks \cup {None}]
        BY <1>5 DEF TypeInv
    <2>5. admitted' \in Seq(Checks)
        BY <1>5, <1>7 DEF TypeInv
    <2> QED
        BY <2>1, <2>2, <2>3, <2>4, <2>5 DEF TypeInv
<1>9. /\ \A k \in Keys \ {key} :
             Events(k)' = IF k \in KeptKeys(now) THEN Events(k) ELSE <<>>
      /\ Events(key)' = IF Len(F) < Limit THEN Append(F, now) ELSE F
    BY <1>5, <1>6 DEF Events
<1>10. DOMAIN rateEvents' = KeptKeys(now) \cup {key}
    BY <1>5
<1>11. Wrote(key, now, F)
    <2>1. CASE Len(F) < Limit
        BY <1>2, <1>3, <1>5, <1>9, <1>10, <2>1 DEF Wrote
    <2>2. CASE ~ (Len(F) < Limit)
        <3>1. Len(F) >= Limit
            BY <1>4, <2>2, LimitAssumption
        <3> QED
            BY <1>2, <1>3, <1>5, <1>9, <1>10, <2>2, <3>1 DEF Wrote
    <2> QED
        BY <2>1, <2>2
<1> QED
    BY <1>1, <1>2, <1>3, <1>8, <1>11

\* The counts of admissions.
LEMMA AdmittedMore ==
    ASSUME TypeInv, NEW c \in Checks, admitted' = Append(admitted, c), NEW k, NEW d \in Int
    PROVE  Cardinality(AdmittedSince(k, d)') =
               IF c.key = k /\ c.now >= d THEN Cardinality(AdmittedSince(k, d)) + 1
               ELSE Cardinality(AdmittedSince(k, d))
<1>1. /\ DOMAIN admitted = 1 .. Len(admitted) /\ Len(admitted) \in Nat
      /\ DOMAIN admitted' = 1 .. Len(admitted) + 1
      /\ \A i \in 1 .. Len(admitted) + 1 :
            admitted'[i] = IF i = Len(admitted) + 1 THEN c ELSE admitted[i]
    BY DEF TypeInv
<1>2. Len(admitted) + 1 \notin AdmittedSince(k, d)
    BY <1>1 DEF AdmittedSince
<1>3. AdmittedSince(k, d)' = IF c.key = k /\ c.now >= d
                             THEN AdmittedSince(k, d) \cup {Len(admitted) + 1}
                             ELSE AdmittedSince(k, d)
    <2>1. CASE c.key = k /\ c.now >= d
        BY <1>1, <2>1 DEF AdmittedSince
    <2>2. CASE ~ (c.key = k /\ c.now >= d)
        BY <1>1, <2>2 DEF AdmittedSince
    <2> QED
        BY <2>1, <2>2
<1> QED
    BY <1>2, <1>3, AdmittedSinceIsFinite, FS_AddElement

\* The counts of admissions after a check.
LEMMA AdmittedByCheck ==
    ASSUME TypeInv, NEW key, NEW now, NEW F, Wrote(key, now, F), NEW k, NEW d \in Int
    PROVE  Cardinality(AdmittedSince(k, d)') =
               IF Len(F) < Limit /\ key = k /\ now >= d THEN Cardinality(AdmittedSince(k, d)) + 1
               ELSE Cardinality(AdmittedSince(k, d))
<1>1. CASE Len(F) < Limit /\ \E c \in Checks :
               c.key = key /\ c.now = now /\ admitted' = Append(admitted, c)
    <2>1. PICK c \in Checks : c.key = key /\ c.now = now /\ admitted' = Append(admitted, c)
        BY <1>1
    <2> QED
        BY <1>1, <2>1, AdmittedMore
<1>2. CASE Len(F) >= Limit /\ admitted' = admitted
    <2>1. ~ (Len(F) < Limit)
        BY <1>2, RecentFacts, LimitAssumption DEF Wrote
    <2>2. AdmittedSince(k, d)' = AdmittedSince(k, d)
        BY <1>2 DEF AdmittedSince
    <2> QED
        BY <2>1, <2>2
<1> QED
    BY <1>1, <1>2 DEF Wrote

\* The counts of stored events of the check's key.
LEMMA StoredMore ==
    ASSUME TypeInv, NEW key, NEW now, NEW F, Wrote(key, now, F), NEW d \in Int
    PROVE  Cardinality(Since(Events(key)', d)) =
               IF Len(F) < Limit /\ now >= d THEN Cardinality(Since(F, d)) + 1
               ELSE Cardinality(Since(F, d))
<1>1. now \in Int /\ F \in Seq(Int) /\ Len(F) \in Int
    BY RecentFacts, LimitAssumption DEF Wrote
<1>2. CASE Len(F) < Limit /\ Events(key)' = Append(F, now)
    BY <1>1, <1>2, SinceOfAppend
<1>3. CASE Len(F) >= Limit /\ Events(key)' = F
    BY <1>1, <1>3, LimitAssumption
<1> QED
    BY <1>2, <1>3 DEF Wrote

----------------------------------------------------------------------------
(* A check keeps each part of the invariant                                *)

LEMMA StoredStep ==
    ASSUME TypeInv, StoredWasAdmitted, NEW key, NEW now, NEW F, Wrote(key, now, F)
    PROVE  StoredWasAdmitted'
<1> SUFFICES ASSUME NEW k \in Keys, NEW d \in Int
             PROVE  Cardinality(Since(Events(k)', d)) <= Cardinality(AdmittedSince(k, d)')
    BY DEF StoredWasAdmitted
<1>1. /\ Cardinality(Since(Events(k), d)) <= Cardinality(AdmittedSince(k, d))
      /\ Cardinality(AdmittedSince(k, d)) \in Nat /\ Cardinality(Since(Events(k), d)) \in Nat
    BY AdmittedSinceIsFinite, EventsType, SinceIsFinite DEF StoredWasAdmitted
<1>0. now \in Int
    BY DEF Wrote
<1>2. Cardinality(AdmittedSince(k, d)') =
          IF Len(F) < Limit /\ key = k /\ now >= d THEN Cardinality(AdmittedSince(k, d)) + 1
          ELSE Cardinality(AdmittedSince(k, d))
    BY AdmittedByCheck
<1>3. CASE k = key
    <2>1. F \in Seq(Int) /\ Cardinality(Since(F, d)) <= Cardinality(Since(Events(k), d))
        BY <1>0, <1>3, RecentFacts DEF Wrote
    <2>2. Cardinality(Since(F, d)) \in Nat
        BY <2>1, SinceIsFinite
    <2>3. Cardinality(Since(Events(k)', d)) =
              IF Len(F) < Limit /\ now >= d THEN Cardinality(Since(F, d)) + 1
              ELSE Cardinality(Since(F, d))
        BY <1>3, StoredMore
    <2> QED
        BY <1>0, <1>1, <1>2, <1>3, <2>1, <2>2, <2>3
<1>4. CASE k # key
    <2>1. Events(k)' \in {Events(k), <<>>}
        BY <1>4 DEF Wrote
    <2>2. Since(<<>>, d) = {} /\ Cardinality({}) = 0
        BY FS_EmptySet DEF Since
    <2>3. Cardinality(Since(Events(k)', d)) <= Cardinality(Since(Events(k), d))
        <3>1. CASE Events(k)' = Events(k)
            BY <1>1, <3>1
        <3>2. CASE Events(k)' = <<>>
            <4>1. Cardinality(Since(Events(k)', d)) = 0
                BY <2>2, <3>2, Zenon
            <4> QED
                BY <1>1, <4>1
        <3> QED
            BY <2>1, <3>1, <3>2
    <2>4. Cardinality(Since(Events(k)', d)) \in Nat
        <3>1. CASE Events(k)' = Events(k)
            BY <1>1, <3>1
        <3>2. CASE Events(k)' = <<>>
            <4>1. Cardinality(Since(Events(k)', d)) = 0
                BY <2>2, <3>2, Zenon
            <4> QED
                BY <4>1
        <3> QED
            BY <2>1, <3>1, <3>2
    <2> QED
        BY <1>1, <1>2, <1>4, <2>3, <2>4
<1> QED
    BY <1>3, <1>4

\* A check in order forgets nothing a later window can hold.
LEMMA AdmittedStep ==
    ASSUME TypeInv, InOrder, NEW key, NEW now, NEW F, Wrote(key, now, F), ~ (now < latest)
    PROVE  AdmittedIsStored'
<1>0. now \in Int /\ latest \in Int /\ Window \in Int /\ latest' = now
    BY LimitAssumption DEF TypeInv, Wrote
<1> SUFFICES ASSUME NEW k \in Keys, NEW d \in Int, d >= now - Window
             PROVE  Cardinality(AdmittedSince(k, d)') <= Cardinality(Since(Events(k)', d))
    BY <1>0 DEF AdmittedIsStored
<1>1. /\ Cardinality(AdmittedSince(k, d)) <= Cardinality(Since(Events(k), d))
      /\ Cardinality(AdmittedSince(k, d)) \in Nat /\ Cardinality(Since(Events(k), d)) \in Nat
    BY <1>0, AdmittedSinceIsFinite, EventsType, SinceIsFinite DEF InOrder, AdmittedIsStored
<1>2. Cardinality(AdmittedSince(k, d)') =
          IF Len(F) < Limit /\ key = k /\ now >= d THEN Cardinality(AdmittedSince(k, d)) + 1
          ELSE Cardinality(AdmittedSince(k, d))
    BY AdmittedByCheck
<1>3. NewestLast(Events(k))
    BY DEF InOrder, UpToLatest
<1>4. CASE k = key
    <2>1. Cardinality(Since(F, d)) = Cardinality(Since(Events(k), d))
        BY <1>0, <1>3, <1>4, RecentFacts DEF Wrote
    <2>2. Cardinality(Since(Events(k)', d)) =
              IF Len(F) < Limit /\ now >= d THEN Cardinality(Since(F, d)) + 1
              ELSE Cardinality(Since(F, d))
        BY <1>4, StoredMore
    <2> QED
        BY <1>1, <1>2, <1>4, <2>1, <2>2
<1>5. CASE k # key
    <2>1. CASE k \in KeptKeys(now)
        BY <1>1, <1>2, <1>5, <2>1 DEF Wrote
    <2>2. CASE k \notin KeptKeys(now)
        <3>1. Since(Events(k), d) = {}
            BY <1>0, <1>3, <2>2, PrunedIsOld
        <3>2. Events(k)' = <<>> /\ Since(<<>>, d) = {}
            BY <1>5, <2>2 DEF Wrote, Since
        <3>3. Since(Events(k)', d) = Since(Events(k), d)
            BY <3>1, <3>2, Zenon
        <3> QED
            BY <1>1, <1>2, <1>5, <3>3
    <2> QED
        BY <2>1, <2>2
<1> QED
    BY <1>4, <1>5

LEMMA UpToLatestStep ==
    ASSUME TypeInv, InOrder, NEW key, NEW now, NEW F, Wrote(key, now, F), ~ (now < latest)
    PROVE  UpToLatest'
<1>0. now \in Int /\ latest \in Int /\ latest' = now
    BY DEF TypeInv, Wrote
<1>1. \A i \in DOMAIN admitted' : admitted'[i].now <= now
    <2>0. \A i \in DOMAIN admitted : admitted[i].now <= now
        <3>1. ASSUME NEW i \in DOMAIN admitted PROVE admitted[i].now <= now
            <4>1. admitted[i] \in Checks
                BY DEF TypeInv
            <4>2. admitted[i].now \in Int /\ admitted[i].now <= latest
                BY <4>1 DEF InOrder, UpToLatest, Checks
            <4> QED
                BY <1>0, <4>2
        <3> QED
            BY <3>1
    <2>1. CASE \E c \in Checks : c.key = key /\ c.now = now /\ admitted' = Append(admitted, c)
        <3>1. PICK c \in Checks : c.now = now /\ admitted' = Append(admitted, c)
            BY <2>1
        <3>2. ASSUME NEW i \in DOMAIN admitted' PROVE admitted'[i].now <= now
            <4>1. admitted'[i] = c \/ (i \in DOMAIN admitted /\ admitted'[i] = admitted[i])
                BY <3>1 DEF TypeInv
            <4> QED
                BY <1>0, <2>0, <3>1, <4>1
        <3> QED
            BY <3>2
    <2>2. CASE admitted' = admitted
        BY <2>0, <2>2
    <2> QED
        BY <2>1, <2>2 DEF Wrote
<1>2. ASSUME NEW k \in Keys
      PROVE  NewestLast(Events(k)') /\ \A i \in DOMAIN Events(k)' : Events(k)'[i] <= now
    <2>1. PICK s \in Seq(Int) : s = Events(k) /\ NewestLast(s) /\ \A i \in DOMAIN s : s[i] <= now
        <3>1. PICK s \in Seq(Int) : s = Events(k)
            BY EventsType
        <3>2. NewestLast(s) /\ \A i \in DOMAIN s : s[i] <= latest
            BY <3>1 DEF InOrder, UpToLatest
        <3>3. \A i \in DOMAIN s : s[i] <= now
            BY <1>0, <3>2
        <3> QED
            BY <3>1, <3>2, <3>3
    <2>2. CASE k # key /\ Events(k)' = Events(k)
        BY <2>1, <2>2
    <2>3. CASE k # key /\ Events(k)' = <<>>
        <3>1. DOMAIN <<>> = {}
            OBVIOUS
        <3>2. DOMAIN Events(k)' = {}
            BY <2>3, <3>1, Zenon
        <3> QED
            BY <3>2 DEF NewestLast
    <2>4. CASE k = key
        <3>1. /\ F \in Seq(Int) /\ NewestLast(F)
              /\ \A i \in DOMAIN F : \E j \in DOMAIN s : F[i] = s[j]
            BY <1>0, <2>1, <2>4, RecentFacts DEF Wrote
        <3>2. \A i \in DOMAIN F : F[i] <= now
            BY <2>1, <3>1
        <3>3. CASE Events(k)' = F
            BY <3>1, <3>2, <3>3
        <3>4. CASE Events(k)' = Append(F, now)
            <4>1. PICK r : r = Append(F, now)
                OBVIOUS
            <4>2. r \in Seq(Int) /\ \A i \in DOMAIN r : r[i] <= now
                BY <1>0, <3>1, <3>2, <4>1
            <4>3. r[Len(r)] = now
                BY <1>0, <3>1, <4>1
            <4> QED
                BY <3>4, <4>1, <4>2, <4>3 DEF NewestLast
        <3> QED
            BY <2>4, <3>3, <3>4 DEF Wrote
    <2> QED
        BY <2>2, <2>3, <2>4 DEF Wrote
<1> QED
    BY <1>0, <1>1, <1>2 DEF UpToLatest

LEMMA PrunedStep ==
    ASSUME TypeInv, TypeInv', InOrder, NEW key, NEW now, NEW F, Wrote(key, now, F), ~ (now < latest)
    PROVE  PrunedRecently'
<1>0. /\ now \in Int /\ latest \in Int /\ latest' = now /\ F \in Seq(Int)
      /\ Window \in Int /\ Window > 0 /\ Limit \in Int
    BY RecentFacts, LimitAssumption DEF TypeInv, Wrote
<1>1. /\ ratePrunedAt' \in Int /\ ratePrunedAt' # None
      /\ now - Window < ratePrunedAt' /\ ratePrunedAt' <= now
    <2>1. CASE PruneDue(now)
        BY <1>0, <2>1, NoneAssumption DEF Wrote
    <2>2. CASE ~ PruneDue(now)
        <3>1. ratePrunedAt' = ratePrunedAt /\ ratePrunedAt # None /\ ratePrunedAt \in Int
            BY <2>2 DEF Wrote, PruneDue, TypeInv
        <3>2. ~ (now - ratePrunedAt >= Window)
            BY <2>2 DEF PruneDue
        <3>3. ratePrunedAt <= latest
            BY <3>1 DEF InOrder, PrunedRecently
        <3> QED
            BY <1>0, <3>1, <3>2, <3>3
    <2> QED
        BY <2>1, <2>2
<1>2. ASSUME Limit > 0, NEW k \in DOMAIN rateEvents'
      PROVE  /\ rateEvents'[k] # <<>>
             /\ rateEvents'[k][Len(rateEvents'[k])] >= ratePrunedAt' - Window
    <2>0. k \in Keys /\ Events(k)' = rateEvents'[k]
        BY DEF TypeInv, Events
    <2>1. CASE k # key
        <3>1. k \in KeptKeys(now) /\ k \in DOMAIN rateEvents /\ rateEvents'[k] = rateEvents[k]
            BY <2>0, <2>1 DEF Wrote, KeptKeys, Events
        <3>2. CASE PruneDue(now)
            <4>1. ~ Idle(k, now - Window) /\ ratePrunedAt' = now
                BY <3>1, <3>2 DEF KeptKeys, Wrote
            <4>2. PICK s \in Seq(Int) : s = rateEvents[k]
                BY <3>1 DEF TypeInv
            <4>3. s # <<>> /\ ~ (s[Len(s)] < now - Window)
                BY <4>1, <4>2 DEF Idle, Last
            <4>4. s[Len(s)] \in Int
                BY <4>3
            <4> QED
                BY <1>0, <3>1, <4>1, <4>2, <4>3, <4>4
        <3>3. CASE ~ PruneDue(now)
            BY <1>2, <3>1, <3>3 DEF Wrote, PruneDue, InOrder, PrunedRecently
        <3> QED
            BY <3>2, <3>3
    <2>2. CASE k = key
        <3>1. CASE Events(key)' = Append(F, now)
            <4>1. Append(F, now) # <<>> /\ Append(F, now)[Len(Append(F, now))] = now
                BY <1>0
            <4> QED
                BY <1>0, <1>1, <2>0, <2>2, <3>1, <4>1
        <3>2. CASE Events(key)' = F /\ Len(F) >= Limit
            <4>1. F # <<>> /\ Len(F) \in DOMAIN F
                BY <1>0, <1>2, <3>2
            <4>2. F[Len(F)] >= now - Window /\ F[Len(F)] \in Int
                BY <1>0, <4>1, RecentFacts DEF Wrote
            <4> QED
                BY <1>0, <1>1, <2>0, <2>2, <3>2, <4>1, <4>2
        <3> QED
            BY <3>1, <3>2 DEF Wrote
    <2> QED
        BY <2>1, <2>2
<1> QED
    BY <1>0, <1>1, <1>2 DEF PrunedRecently

\* Of the windows that end at an admission, a new one adds to those that end
\* at its own instant only, and these hold what its check has counted.
LEMMA WindowStep ==
    ASSUME Inv, NEW key, NEW now, NEW F, Wrote(key, now, F)
    PROVE  WindowLimit'
<1> SUFFICES ASSUME ~ overtaken', NEW i \in DOMAIN admitted', NEW x, NEW t,
                    x = admitted'[i].key, t = admitted'[i].now
             PROVE  Cardinality(Admissions(x, t - Window, t)') <= Limit
    BY DEF WindowLimit, Admissions
<1>1. TypeInv /\ InOrder /\ ~ (now < latest) /\ ~ overtaken
    BY DEF Inv, Wrote
<1>2. key \in Keys /\ now \in Int /\ latest \in Int /\ F = Recent(key, now)
    BY DEF Inv, TypeInv, Wrote
<1>3. Window \in Int /\ Window > 0 /\ Limit \in Nat /\ F \in Seq(Int)
    BY <1>1, <1>2, RecentFacts, LimitAssumption
<1>4. /\ TypeInv /\ InOrder /\ ~ (now < latest) /\ ~ overtaken
      /\ key \in Keys /\ now \in Int /\ latest \in Int /\ Window \in Int /\ Window > 0
      /\ Limit \in Nat /\ F \in Seq(Int) /\ F = Recent(key, now)
    BY <1>1, <1>2, <1>3
<1>5. \A j \in DOMAIN admitted :
          Cardinality(Admissions(admitted[j].key, admitted[j].now - Window, admitted[j].now)) <= Limit
    BY <1>4 DEF Inv, WindowLimit
<1>6. CASE admitted' = admitted
    <2>1. Admissions(x, t - Window, t)' = Admissions(x, t - Window, t)
        BY <1>6 DEF Admissions
    <2> QED
        BY <1>5, <1>6, <2>1
<1>7. CASE Len(F) < Limit /\ \E c \in Checks :
               c.key = key /\ c.now = now /\ admitted' = Append(admitted, c)
    <2>1. PICK c \in Checks : c.key = key /\ c.now = now /\ admitted' = Append(admitted, c)
        BY <1>7
    <2>2. PICK n \in Nat : n = Len(admitted)
        BY <1>4 DEF TypeInv
    <2>3. /\ DOMAIN admitted = 1 .. n /\ DOMAIN admitted' = 1 .. n + 1
          /\ \A j \in 1 .. n : admitted'[j] = admitted[j] /\ admitted[j] \in Checks
          /\ admitted'[n + 1] = c
        BY <1>4, <2>1, <2>2 DEF TypeInv
    <2>4. \A j \in 1 .. n : admitted[j].now \in Int /\ admitted[j].now <= now
        <3>1. \A j \in 1 .. n : admitted[j].now \in Int
            BY <2>3 DEF Checks
        <3>2. \A j \in 1 .. n : admitted[j].now <= latest
            BY <1>4, <2>3 DEF InOrder, UpToLatest
        <3> QED
            BY <1>4, <3>1, <3>2
    <2>5. Cardinality(Admissions(key, now - Window, now)') <= Limit
        <3>1. Cardinality(AdmittedSince(key, now - Window)') =
                  Cardinality(AdmittedSince(key, now - Window)) + 1
            <4>1. now - Window \in Int /\ now >= now - Window
                BY <1>4
            <4> QED
                BY <1>4, <2>1, <4>1, AdmittedMore
        <3>2. Cardinality(AdmittedSince(key, now - Window)) <= Len(F)
            <4>1. now - Window \in Int /\ now - Window >= latest - Window
                  /\ now - Window >= now - Window
                BY <1>4
            <4>2. Cardinality(AdmittedSince(key, now - Window)) <=
                      Cardinality(Since(Events(key), now - Window))
                BY <1>4, <4>1 DEF InOrder, AdmittedIsStored
            <4>3. Cardinality(Since(F, now - Window)) = Cardinality(Since(Events(key), now - Window))
                BY <1>4, <4>1, RecentFacts DEF InOrder, UpToLatest
            <4>4. Cardinality(Since(F, now - Window)) = Len(F)
                BY <1>4, RecentLength
            <4> QED
                BY <4>2, <4>3, <4>4
        <3>3. IsFiniteSet(AdmittedSince(key, now - Window)')
            <4>1. /\ IsFiniteSet(1 .. n + 1)
                  /\ AdmittedSince(key, now - Window)' \subseteq 1 .. n + 1
                BY <2>3, FS_Interval DEF AdmittedSince
            <4> QED
                BY <4>1, FS_Subset
        <3>4. Admissions(key, now - Window, now)' \subseteq AdmittedSince(key, now - Window)'
            BY <1>4 DEF Admissions, AdmittedSince
        <3>5. Cardinality(Admissions(key, now - Window, now)') <=
                  Cardinality(AdmittedSince(key, now - Window)')
            BY <3>3, <3>4, FS_Subset
        <3>6. /\ Cardinality(AdmittedSince(key, now - Window)) \in Nat
              /\ Len(F) \in Nat /\ Len(F) < Limit
            BY <1>4, <1>7, AdmittedSinceIsFinite
        <3>7. Cardinality(Admissions(key, now - Window, now)') \in Nat
            BY <3>3, <3>4, FS_Subset, FS_CardinalityType
        <3>8. PICK a, b, m, l \in Nat :
                  /\ a = Cardinality(Admissions(key, now - Window, now)')
                  /\ b = Cardinality(AdmittedSince(key, now - Window))
                  /\ m = Len(F) /\ l = Limit
            BY <1>4, <3>6, <3>7
        <3>9. a <= b + 1 /\ b <= m /\ m < l
            BY <3>1, <3>2, <3>5, <3>6, <3>8
        <3> QED
            BY <3>8, <3>9
    <2>6. CASE x = key /\ t = now
        BY <2>5, <2>6
    <2>7. CASE ~ (x = key /\ t = now)
        <3>1. i \in 1 .. n /\ x = admitted[i].key /\ t = admitted[i].now
            BY <2>1, <2>3, <2>7
        <3>2. t \in Int /\ t <= now
            BY <2>4, <3>1
        <3>3. x # key \/ ~ (now \in t - Window .. t)
            BY <1>4, <2>7, <3>2
        <3>4. Admissions(x, t - Window, t)' = Admissions(x, t - Window, t)
            BY <2>1, <2>3, <3>3 DEF Admissions
        <3> QED
            BY <1>5, <2>3, <3>1, <3>4
    <2> QED
        BY <2>6, <2>7
<1> QED
    BY <1>6, <1>7 DEF Wrote

LEMMA CheckStep ==
    ASSUME Inv, NEW w \in Workers, CheckRateLimit(w)
    PROVE  Inv'
<1>1. PICK key, now, F : Wrote(key, now, F)
    BY CheckWrites DEF Inv
<1>2. TypeInv'
    BY CheckWrites DEF Inv
<1>3. StoredWasAdmitted'
    BY <1>1, StoredStep DEF Inv
<1>4. WindowLimit'
    BY <1>1, WindowStep
<1>5. ASSUME ~ overtaken' PROVE InOrder'
    <2>1. InOrder /\ ~ (now < latest)
        BY <1>1, <1>5 DEF Inv, Wrote
    <2>2. UpToLatest'
        BY <1>1, <2>1, UpToLatestStep DEF Inv
    <2>3. AdmittedIsStored'
        BY <1>1, <2>1, AdmittedStep DEF Inv
    <2>4. PrunedRecently'
        BY <1>1, <1>2, <2>1, PrunedStep DEF Inv
    <2> QED
        BY <2>2, <2>3, <2>4 DEF InOrder
<1> QED
    BY <1>2, <1>3, <1>4, <1>5 DEF Inv

LEMMA NextInv == ASSUME Inv, [Next]_vars PROVE Inv'
BY CheckStep, QuietStep DEF Next, Stopped

----------------------------------------------------------------------------
(* Theorems                                                                *)

\* The limiter's bookkeeping: whatever order the checks come in, what is stored
\* was admitted; in the order of their readings, what can count is stored.
THEOREM InvHolds == Spec => []Inv
<1>1. Init => Inv
    BY InitInv
<1>2. Inv /\ [Next]_vars => Inv'
    BY NextInv
<1> QED
    BY <1>1, <1>2, PTL DEF Spec

\* No window that ends at an admission holds more than Limit of its key, for
\* any limit, window, keys and workers, unless a check overtook another.
THEOREM WindowLimitHolds == Spec => []WindowLimit
<1>1. Inv => WindowLimit
    BY DEF Inv
<1> QED
    BY <1>1, InvHolds, PTL

\* Only its check ends a worker's call.
LEMMA EndsByCheck ==
    ASSUME Inv, [Next]_vars, NEW v \in Workers, Ends(v)
    PROVE  CheckRateLimit(v)
<1>1. call[v] # None /\ call'[v] = None /\ call \in [Workers -> Checks \cup {None}]
    BY DEF Ends, Inv, TypeInv
<1>2. ASSUME NEW w \in Workers, CheckRateLimit(w) PROVE w = v
    BY <1>1, <1>2 DEF CheckRateLimit
<1>3. ASSUME NEW w \in Workers, NEW k \in Keys, ReadClock(w, k) PROVE FALSE
    <2>1. call' = [call EXCEPT ![w] = [key |-> k, now |-> clock]] /\ call[w] = None
        BY <1>3 DEF ReadClock
    <2> QED
        BY <1>1, <2>1
<1>4. ~ (Tick \/ Stopped \/ UNCHANGED vars)
    BY <1>1 DEF Tick, Stopped, vars
<1> QED
    BY <1>2, <1>3, <1>4 DEF Next

LEMMA RefusalIsJustified ==
    ASSUME Inv, [Next]_vars
    PROVE  RefusalJustified
<1> SUFFICES ASSUME NEW v \in Workers, Ends(v), admitted' = admitted
             PROVE  Cardinality(Admissions(call[v].key, call[v].now - Window, MaxTime)) >= Limit
    BY DEF RefusalJustified
<1>1. CheckRateLimit(v)
    BY EndsByCheck
<1>2. PICK key \in Keys, now \in 0 .. MaxTime : key = call[v].key /\ now = call[v].now
    BY <1>1 DEF Inv, TypeInv, Checks, CheckRateLimit
<1>3. PICK F : F = Recent(key, now) /\ Wrote(key, now, F)
    BY <1>1, <1>2, CheckWrites DEF Inv
<1>4. /\ TypeInv /\ now \in Int /\ Limit \in Nat /\ Window \in Int /\ now - Window \in Int
      /\ F \in Seq(Int) /\ Len(F) \in Nat
    BY <1>2, <1>3, RecentFacts, LimitAssumption DEF Inv
<1>5. Len(F) >= Limit
    <2>1. ASSUME NEW c \in Checks, admitted' = Append(admitted, c) PROVE FALSE
        <3>1. PICK q \in Seq(Checks) : q = admitted
            BY <1>4 DEF TypeInv
        <3>2. Len(Append(q, c)) = Len(q) + 1 /\ Len(q) \in Nat
            OBVIOUS
        <3> QED
            BY <2>1, <3>1, <3>2
    <2> QED
        BY <1>3, <2>1 DEF Wrote
<1>6. Cardinality(AdmittedSince(key, now - Window)) >= Limit
    <2>1. Cardinality(Since(F, now - Window)) = Len(F)
        BY <1>3, <1>4, RecentLength
    <2>2. Cardinality(Since(F, now - Window)) <= Cardinality(Since(Events(key), now - Window))
        BY <1>3, <1>4, RecentFacts
    <2>3. Cardinality(Since(Events(key), now - Window)) <= Cardinality(AdmittedSince(key, now - Window))
        BY <1>4 DEF Inv, StoredWasAdmitted
    <2>4. /\ Cardinality(Since(Events(key), now - Window)) \in Nat
          /\ Cardinality(AdmittedSince(key, now - Window)) \in Nat
        BY <1>4, EventsType, SinceIsFinite, AdmittedSinceIsFinite
    <2> QED
        BY <1>4, <1>5, <2>1, <2>2, <2>3, <2>4
<1>7. Admissions(key, now - Window, MaxTime) = AdmittedSince(key, now - Window)
    <2>1. \A i \in DOMAIN admitted : admitted[i] \in Checks
        BY <1>4 DEF TypeInv
    <2>2. \A i \in DOMAIN admitted : admitted[i].now \in 0 .. MaxTime
        BY <2>1 DEF Checks
    <2> QED
        BY <1>4, <2>2, LimitAssumption DEF Admissions, AdmittedSince
<1> QED
    BY <1>2, <1>6, <1>7

\* A refusal is never earlier than the limit asks for, however late the check
\* got the lock and whatever pruning and other checks did meanwhile.
THEOREM RefusalsAreJustified == Spec => RefusalsJustified
<1>1. Inv /\ [Next]_vars => RefusalJustified
    BY RefusalIsJustified
<1> QED
    BY <1>1, InvHolds, PTL DEF Spec, RefusalsJustified

LEMMA IdleKeyIsForgotten ==
    ASSUME Inv, Inv', [Next]_vars, Limit > 0
    PROVE  IdleKeyForgotten
<1> SUFFICES ASSUME NEW v \in Workers, Ends(v), ~ overtaken', NEW k \in DOMAIN rateEvents'
             PROVE  Last(rateEvents'[k]) > call[v].now - 2 * Window
    BY DEF IdleKeyForgotten
<1>1. CheckRateLimit(v)
    BY EndsByCheck
<1>2. PICK key \in Keys, now \in 0 .. MaxTime : now = call[v].now /\ key = call[v].key
    BY <1>1 DEF Inv, TypeInv, Checks, CheckRateLimit
<1>3. latest' = now
    <2>1. \E F : Wrote(key, now, F)
        BY <1>1, <1>2, CheckWrites DEF Inv
    <2> QED
        BY <2>1 DEF Wrote, Inv, TypeInv
<1>4. PICK s \in Seq(Int), p \in Int :
          /\ s = rateEvents'[k] /\ p = ratePrunedAt' /\ s # <<>>
          /\ now - Window < p /\ s[Len(s)] >= p - Window
    BY <1>3 DEF Inv, TypeInv, InOrder, PrunedRecently
<1>5. s[Len(s)] \in Int
    BY <1>4
<1> QED
    BY <1>2, <1>4, <1>5, LimitAssumption DEF Last

\* The limiter forgets the clients it no longer needs, as long as its limit is
\* not 0 and no check overtook another.
THEOREM IdleKeysAreForgotten == Limit > 0 /\ Spec => IdleKeysForgotten
<1>1. Limit > 0 /\ Inv /\ Inv' /\ [Next]_vars => IdleKeyForgotten
    BY IdleKeyIsForgotten
<1>2. CASE Limit > 0
    BY <1>1, <1>2, InvHolds, PTL DEF Spec, IdleKeysForgotten
<1> QED
    BY <1>2

LEMMA ForgottenIsIdle ==
    ASSUME Inv, [Next]_vars, ~ overtaken'
    PROVE  ForgottenKeyIsIdle
<1> SUFFICES ASSUME NEW k \in DOMAIN rateEvents, k \notin DOMAIN rateEvents',
                    NEW i \in DOMAIN rateEvents[k]
             PROVE  rateEvents[k][i] < ratePrunedAt' - Window
    BY DEF ForgottenKeyIsIdle
<1>1. PICK w \in Workers : CheckRateLimit(w)
    BY DEF Next, ReadClock, Tick, Stopped, vars
<1>2. PICK key, now, F : Wrote(key, now, F)
    BY <1>1, CheckWrites DEF Inv
<1>3. k \in Keys /\ k # key /\ k \notin KeptKeys(now) /\ now \in Int /\ Window \in Int
    BY <1>2, LimitAssumption DEF Wrote, Inv, TypeInv
<1>4. ratePrunedAt' = now
    BY <1>2, <1>3 DEF KeptKeys, Wrote
<1>5. InOrder
    BY <1>2 DEF Wrote, Inv
<1>6. PICK s \in Seq(Int) : s = rateEvents[k] /\ s = Events(k)
    BY DEF Inv, TypeInv, Events
<1>7. now - Window \in Int /\ now - Window >= now - Window
    BY <1>3
<1>8. Since(s, now - Window) = {}
    BY <1>3, <1>5, <1>6, <1>7, PrunedIsOld DEF Inv, InOrder, UpToLatest
<1>9. i \in DOMAIN s /\ s[i] \in Int /\ ~ (s[i] >= now - Window)
    BY <1>6, <1>8 DEF Since
<1> QED
    BY <1>4, <1>6, <1>7, <1>9

\* What the comment of _prune_rate_events says of a forgotten key is true of
\* every step in which no check has overtaken another; the run that refutes the
\* comment as it stands needs such a check.
THEOREM ForgottenInOrderAreIdle == Spec => [][overtaken' \/ ForgottenKeyIsIdle]_vars
<1>1. Inv /\ [Next]_vars => overtaken' \/ ForgottenKeyIsIdle
    BY ForgottenIsIdle
<1> QED
    BY <1>1, InvHolds, PTL DEF Spec

=============================================================================
