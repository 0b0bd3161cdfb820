--------------------------- MODULE VerifierProofs ---------------------------
(***************************************************************************)
(* The gateway derives the address that a wallet shows, for keys of any    *)
(* length: _convert_bits takes the digits in fives, and _polymod divides   *)
(* by the polynomial of its table's first entry, whose other entries are   *)
(* the multiples of the first.  Different keys have different addresses.   *)
(* From this, what verify_signature accepts and what it does not refuse.   *)
(***************************************************************************)
EXTENDS Verifier, SequenceTheorems, FiniteSetTheorems, WellFoundedInduction, TLAPS

(* Sets of numbers: the least, and counting up to a bound *)

\* A set of numbers has a least member.
LEMMA LeastNumber ==
    ASSUME NEW T, T # {}
    PROVE  T \subseteq Nat => \E m \in T : \A k \in T : m <= k
<1>0. SUFFICES ASSUME T \subseteq Nat PROVE \E m \in T : \A k \in T : m <= k
    OBVIOUS
<1>1. PICK m \in T : \A k \in T : <<k, m>> \notin OpToRel(<, Nat)
    BY <1>0, NatLessThanWellFounded, WFMin
<1>2. ASSUME NEW k \in T PROVE m <= k
    <2>1. k \in Nat /\ m \in Nat
        BY <1>0
    <2>2. ~ (k < m)
        BY <1>1, <2>1 DEF OpToRel
    <2> QED
        BY <2>1, <2>2
<1> QED
    BY <1>2

\* Counting up from 0, one step at a time, reaches every number up to n.
LEMMA CountingUp ==
    ASSUME NEW n \in Nat, NEW G, 0 \in G, \A m \in 1 .. n : m - 1 \in G => m \in G
    PROVE  \A m \in 0 .. n : m \in G
<1> DEFINE T == {m \in 0 .. n : m \notin G}
<1>1. T \subseteq Nat
    OBVIOUS
<1>2. ASSUME NEW m \in T, \A k \in T : m <= k PROVE FALSE
    <2>1. m \in 1 .. n /\ m - 1 \in 0 .. n
        OBVIOUS
    <2>2. m - 1 \notin T
        BY <1>2, <2>1
    <2> QED
        BY <2>1, <2>2
<1>3. T = {}
    <2> HIDE DEF T
    <2> QED
        BY <1>1, <1>2, LeastNumber
<1> QED
    BY <1>3

(* Functions that are defined by iteration                                 *)

\* What a recursive definition over 0 .. N says: f starts with base, and step
\* takes its value at n - 1 and n to its value at n.
Iterates(f, N, base, step) ==
    f = [n \in 0..N |-> IF n = 0 THEN base ELSE step[n][f[n - 1]]]

\* Such a function exists: it is built up one place at a time.
LEMMA IterationExists ==
    ASSUME NEW N \in Nat, NEW base, NEW step
    PROVE  \E f : Iterates(f, N, base, step)
<1> DEFINE G == {m \in 0..N : \E f : Iterates(f, m, base, step)}
<1>1. 0 \in G
    <2>1. PICK f : f = [n \in 0..0 |-> base]
        OBVIOUS
    <2>2. Iterates(f, 0, base, step)
        BY <2>1 DEF Iterates
    <2> QED
        BY <2>2
<1>2. ASSUME NEW m \in 1..N, m - 1 \in G PROVE m \in G
    <2>1. PICK g : Iterates(g, m - 1, base, step)
        BY <1>2
    <2>2. PICK x : x = step[m][g[m - 1]]
        OBVIOUS
    <2>3. PICK h : h = [n \in 0..m |-> IF n = m THEN x ELSE g[n]]
        OBVIOUS
    <2>4. ASSUME NEW n \in 0..m
          PROVE  h[n] = IF n = 0 THEN base ELSE step[n][h[n - 1]]
        <3>1. CASE n = m
            <4>1. h[m - 1] = g[m - 1] /\ h[m] = x
                BY <2>3
            <4> QED
                BY <2>2, <3>1, <4>1
        <3>2. CASE n # m
            <4>1. n \in 0..m - 1 /\ h[n] = g[n] /\ (n # 0 => h[n - 1] = g[n - 1])
                BY <2>3, <3>2
            <4>2. g[n] = IF n = 0 THEN base ELSE step[n][g[n - 1]]
                BY <2>1, <4>1 DEF Iterates
            <4> QED
                BY <4>1, <4>2
        <3> QED
            BY <3>1, <3>2
    <2>5. Iterates(h, m, base, step)
        BY <2>3, <2>4 DEF Iterates
    <2> QED
        BY <2>5
<1>3. N \in 0..N /\ \A m \in 0..N : m \in G
    <2> HIDE DEF G
    <2>1. \A m \in 1..N : m - 1 \in G => m \in G
        BY <1>2
    <2> QED
        BY <1>1, <2>1, CountingUp
<1> QED
    BY <1>3

\* The steps lead from T into T; and f takes them wherever it is in T.
Stays(T, N, step) == \A n \in 1..N : \A x \in T : step[n][x] \in T
Follows(f, T, N, base, step) ==
    f[0] = base /\ \A n \in 1..N : f[n - 1] \in T => f[n] = step[n][f[n - 1]]

\* Such a function stays in T.
LEMMA IterationType ==
    ASSUME NEW N \in Nat, NEW base, NEW step, NEW f, NEW T,
           base \in T, Stays(T, N, step), Follows(f, T, N, base, step)
    PROVE  \A n \in 0..N : f[n] \in T
<1> DEFINE G == {n \in 0..N : f[n] \in T}
<1>1. 0 \in G
    BY DEF Follows
<1>2. ASSUME NEW n \in 1..N, n - 1 \in G PROVE n \in G
    BY <1>2 DEF Stays, Follows
<1>3. \A n \in 0..N : n \in G
    <2> HIDE DEF G
    <2>1. \A n \in 1..N : n - 1 \in G => n \in G
        BY <1>2
    <2> QED
        BY <1>1, <2>1, CountingUp
<1> QED
    BY <1>3

LEMMA Iteration ==
    ASSUME NEW N \in Nat, NEW base, NEW step, NEW T, base \in T, Stays(T, N, step)
    PROVE  \E f : /\ Iterates(f, N, base, step)
                  /\ \A n \in 0..N : f[n] \in T
<1>1. PICK f : Iterates(f, N, base, step)
    BY IterationExists
<1>2. Follows(f, T, N, base, step)
    BY <1>1 DEF Iterates, Follows
<1> QED
    BY <1>1, <1>2, IterationType

----------------------------------------------------------------------------
(* Exclusive or                                                            *)

\* The binary digits, without powers of two.
LEMMA BitIs ==
    ASSUME NEW n \in Nat
    PROVE  /\ Bit(n, 0) = n % 2 /\ Bit(n, 1) = (n \div 2) % 2 /\ Bit(n, 2) = (n \div 4) % 2
           /\ Bit(n, 3) = (n \div 8) % 2 /\ Bit(n, 4) = (n \div 16) % 2
           /\ Bit(n, 5) = (n \div 32) % 2 /\ Bit(n, 6) = (n \div 64) % 2
           /\ Bit(n, 7) = (n \div 128) % 2
BY DEF Bit

\* A number below 32 and its digits.
FromBits(e, d, c, b, a) == 16 * e + 8 * d + 4 * c + 2 * b + a

LEMMA BitsOf ==
    ASSUME NEW n \in Symbols
    PROVE  /\ n = FromBits(Bit(n, 4), Bit(n, 3), Bit(n, 2), Bit(n, 1), Bit(n, 0))
           /\ \A i \in 0..4 : Bit(n, i) \in {0, 1}
<1>1. \A i \in 0..4 : i = 0 \/ i = 1 \/ i = 2 \/ i = 3 \/ i = 4
    OBVIOUS
<1>2. /\ n \in Nat /\ n \in 0..31
      /\ n = 16 * ((n \div 16) % 2) + 8 * ((n \div 8) % 2) + 4 * ((n \div 4) % 2)
                + 2 * ((n \div 2) % 2) + (n % 2)
    BY DEF Symbols
<1>3. n = FromBits(Bit(n, 4), Bit(n, 3), Bit(n, 2), Bit(n, 1), Bit(n, 0))
    BY <1>2, BitIs DEF FromBits
<1>4. Bit(n, 0) \in {0, 1} /\ Bit(n, 1) \in {0, 1} /\ Bit(n, 2) \in {0, 1}
      /\ Bit(n, 3) \in {0, 1} /\ Bit(n, 4) \in {0, 1}
    <2>1. \A m \in Nat : m % 2 \in {0, 1}
        OBVIOUS
    <2>2. n \div 2 \in Nat /\ n \div 4 \in Nat /\ n \div 8 \in Nat /\ n \div 16 \in Nat
        BY <1>2
    <2>3. /\ n % 2 \in {0, 1} /\ (n \div 2) % 2 \in {0, 1} /\ (n \div 4) % 2 \in {0, 1}
          /\ (n \div 8) % 2 \in {0, 1} /\ (n \div 16) % 2 \in {0, 1}
        BY <1>2, <2>1, <2>2
    <2>4. /\ Bit(n, 0) = n % 2 /\ Bit(n, 1) = (n \div 2) % 2 /\ Bit(n, 2) = (n \div 4) % 2
          /\ Bit(n, 3) = (n \div 8) % 2 /\ Bit(n, 4) = (n \div 16) % 2
        BY <1>2, BitIs
    <2> QED
        BY <2>3, <2>4, Zenon
<1> QED
    BY <1>1, <1>3, <1>4

LEMMA BitsFrom ==
    ASSUME NEW a \in {0, 1}, NEW b \in {0, 1}, NEW c \in {0, 1}, NEW d \in {0, 1}, NEW e \in {0, 1}
    PROVE  /\ FromBits(e, d, c, b, a) \in Symbols
           /\ Bit(FromBits(e, d, c, b, a), 0) = a /\ Bit(FromBits(e, d, c, b, a), 1) = b
           /\ Bit(FromBits(e, d, c, b, a), 2) = c /\ Bit(FromBits(e, d, c, b, a), 3) = d
           /\ Bit(FromBits(e, d, c, b, a), 4) = e
<1>1. PICK n : n = 16 * e + 8 * d + 4 * c + 2 * b + a
    OBVIOUS
<1>2. /\ n \in 0..31 /\ n \in Nat
      /\ n % 2 = a /\ (n \div 2) % 2 = b /\ (n \div 4) % 2 = c
      /\ (n \div 8) % 2 = d /\ (n \div 16) % 2 = e
    BY <1>1
<1>3. FromBits(e, d, c, b, a) = n
    BY <1>1 DEF FromBits
<1> QED
    BY <1>2, <1>3, BitIs DEF Symbols

\* Its digits are the sums of the digits.
LEMMA XorBits ==
    ASSUME NEW a \in Symbols, NEW b \in Symbols
    PROVE  /\ Xor(a, b) \in Symbols
           /\ \A i \in 0..4 : Bit(Xor(a, b), i) = (Bit(a, i) + Bit(b, i)) % 2
<1>1. \A i \in 0..4 : (Bit(a, i) + Bit(b, i)) % 2 \in {0, 1}
    BY BitsOf
<1>2. Xor(a, b) = FromBits((Bit(a, 4) + Bit(b, 4)) % 2, (Bit(a, 3) + Bit(b, 3)) % 2,
                           (Bit(a, 2) + Bit(b, 2)) % 2, (Bit(a, 1) + Bit(b, 1)) % 2,
                           (Bit(a, 0) + Bit(b, 0)) % 2)
    BY <1>1 DEF Xor, FromBits
<1>3. \A i \in 0..4 : i = 0 \/ i = 1 \/ i = 2 \/ i = 3 \/ i = 4
    OBVIOUS
<1> QED
    BY <1>1, <1>2, <1>3, BitsFrom

\* Numbers with the same digits are equal.
LEMMA SameBits ==
    ASSUME NEW a \in Symbols, NEW b \in Symbols, \A i \in 0..4 : Bit(a, i) = Bit(b, i)
    PROVE  a = b
BY BitsOf

LEMMA XorZero == ASSUME NEW a \in Symbols PROVE Xor(a, 0) = a /\ Xor(0, a) = a
<1>1. 0 \in Symbols /\ \A i \in 0..4 : Bit(0, i) = 0
    <2>1. \A i \in 0..4 : i = 0 \/ i = 1 \/ i = 2 \/ i = 3 \/ i = 4
        OBVIOUS
    <2> QED
        BY <2>1, BitIs DEF Symbols
<1>2. \A i \in 0..4 : Bit(Xor(a, 0), i) = Bit(a, i) /\ Bit(Xor(0, a), i) = Bit(a, i)
    BY <1>1, XorBits, BitsOf
<1> QED
    BY <1>1, <1>2, XorBits, SameBits

LEMMA XorAssociative ==
    ASSUME NEW a \in Symbols, NEW b \in Symbols, NEW c \in Symbols
    PROVE  Xor(Xor(a, b), c) = Xor(a, Xor(b, c))
<1>1. ASSUME NEW i \in 0..4
      PROVE  Bit(Xor(Xor(a, b), c), i) = Bit(Xor(a, Xor(b, c)), i)
    <2>1. Bit(a, i) \in {0, 1} /\ Bit(b, i) \in {0, 1} /\ Bit(c, i) \in {0, 1}
        BY BitsOf
    <2>0. Xor(a, b) \in Symbols /\ Xor(b, c) \in Symbols
        BY XorBits
    <2>2. Bit(Xor(Xor(a, b), c), i) = (((Bit(a, i) + Bit(b, i)) % 2) + Bit(c, i)) % 2
        BY <2>0, XorBits
    <2>3. Bit(Xor(a, Xor(b, c)), i) = (Bit(a, i) + ((Bit(b, i) + Bit(c, i)) % 2)) % 2
        <3>1. Bit(Xor(b, c), i) = (Bit(b, i) + Bit(c, i)) % 2
            BY XorBits
        <3>2. Bit(Xor(a, Xor(b, c)), i) = (Bit(a, i) + Bit(Xor(b, c), i)) % 2
            BY <2>0, XorBits
        <3> QED
            BY <3>1, <3>2
    <2> QED
        BY <2>1, <2>2, <2>3
<1> QED
    BY <1>1, XorBits, SameBits

----------------------------------------------------------------------------
(* Registers of eight symbols, and the table                               *)

Registers == [1..8 -> Symbols]

LEMMA PlusIs ==
    ASSUME NEW a \in Registers, NEW b \in Registers
    PROVE  Plus(a, b) \in Registers /\ \A i \in 1..8 : Plus(a, b)[i] = Xor(a[i], b[i])
<1>1. \A i \in 1..8 : a[i] \in Symbols /\ b[i] \in Symbols /\ Xor(a[i], b[i]) \in Symbols
    BY XorBits DEF Registers
<1>2. \A i \in 1..8 : i = 1 \/ i = 2 \/ i = 3 \/ i = 4 \/ i = 5 \/ i = 6 \/ i = 7 \/ i = 8
    OBVIOUS
<1>3. \A i \in 1..8 : Plus(a, b)[i] = Xor(a[i], b[i])
    BY <1>2 DEF Plus
<1>4. Plus(a, b) \in Registers
    <2>1. ASSUME NEW u1 \in Symbols, NEW u2 \in Symbols, NEW u3 \in Symbols, NEW u4 \in Symbols,
                 NEW u5 \in Symbols, NEW u6 \in Symbols, NEW u7 \in Symbols, NEW u8 \in Symbols
          PROVE  <<u1, u2, u3, u4, u5, u6, u7, u8>> \in Registers
        BY DEF Registers
    <2>2. /\ Xor(a[1], b[1]) \in Symbols /\ Xor(a[2], b[2]) \in Symbols
          /\ Xor(a[3], b[3]) \in Symbols /\ Xor(a[4], b[4]) \in Symbols
          /\ Xor(a[5], b[5]) \in Symbols /\ Xor(a[6], b[6]) \in Symbols
          /\ Xor(a[7], b[7]) \in Symbols /\ Xor(a[8], b[8]) \in Symbols
        BY <1>1
    <2> QED
        BY <2>1, <2>2, Zenon DEF Plus
<1> QED
    BY <1>3, <1>4

\* Registers with the same symbols are equal.
LEMMA SameRegister ==
    ASSUME NEW a \in Registers, NEW b \in Registers, \A i \in 1..8 : a[i] = b[i]
    PROVE  a = b
BY DEF Registers

\* The register moved up by one symbol.
Shifted(c, v) == Tail(c) \o <<v>>

LEMMA RegistersAreSequences ==
    \A c : c \in Registers <=> c \in Seq(Symbols) /\ Len(c) = 8
<1>1. ASSUME NEW c \in Registers PROVE c \in Seq(Symbols)
    BY SeqDef DEF Registers
<1>2. ASSUME NEW c \in Registers, c \in Seq(Symbols) PROVE Len(c) = 8
    BY DEF Registers
<1>3. ASSUME NEW c \in Seq(Symbols), Len(c) = 8 PROVE c \in Registers
    <2>1. c \in [1..Len(c) -> Symbols]
        BY <1>3, LenProperties
    <2> QED
        BY <1>3, <2>1 DEF Registers
<1> QED
    BY <1>1, <1>2, <1>3

LEMMA ShiftedIs ==
    ASSUME NEW c \in Registers, NEW v \in Symbols
    PROVE  Shifted(c, v) \in Registers
<1>1. c \in Seq(Symbols) /\ Len(c) = 8 /\ c # <<>>
    BY RegistersAreSequences, EmptySeq
<1>2. Tail(c) \in Seq(Symbols) /\ Len(Tail(c)) = 7
    <2>1. Tail(c) \in Seq(Symbols) /\ Len(Tail(c)) = Len(c) - 1
        BY <1>1, HeadTailProperties, Zenon
    <2> QED
        BY <1>1, <2>1
<1>3. <<v>> \in Seq(Symbols) /\ Len(<<v>>) = 1
    OBVIOUS
<1>4. Shifted(c, v) \in Seq(Symbols) /\ Len(Shifted(c, v)) = 8
    BY <1>2, <1>3, ConcatProperties DEF Shifted
<1> QED
    BY <1>4, RegistersAreSequences

LEMMA ConstantRegisters == One \in Registers /\ Zeros \in Registers
BY DEF One, Zeros, Registers, Symbols

LEMMA Table == \A j \in 1..5 : GENERATOR[j] \in Registers
<1>1. \A j \in 1..5 : j = 1 \/ j = 2 \/ j = 3 \/ j = 4 \/ j = 5
    OBVIOUS
<1>2. \A i \in 0..31 : i \in Symbols
    BY DEF Symbols
<1>3. /\ GENERATOR[1] \in Registers /\ GENERATOR[2] \in Registers /\ GENERATOR[3] \in Registers
      /\ GENERATOR[4] \in Registers /\ GENERATOR[5] \in Registers
    BY DEF GENERATOR, Registers, Symbols
<1> QED
    BY <1>1, <1>3

\* An exclusive or in numbers, for the entries of the table.
LEMMA XorNumbers ==
    ASSUME NEW a \in Nat, NEW b \in Nat
    PROVE  Xor(a, b) = (((a % 2) + (b % 2)) % 2)
                       + 2 * ((((a \div 2) % 2) + ((b \div 2) % 2)) % 2)
                       + 4 * ((((a \div 4) % 2) + ((b \div 4) % 2)) % 2)
                       + 8 * ((((a \div 8) % 2) + ((b \div 8) % 2)) % 2)
                       + 16 * ((((a \div 16) % 2) + ((b \div 16) % 2)) % 2)
<1> DEFINE Sum(i) == (Bit(a, i) + Bit(b, i)) % 2
<1>1. Xor(a, b) = 2^0 * Sum(0) + 2^1 * Sum(1) + 2^2 * Sum(2) + 2^3 * Sum(3) + 2^4 * Sum(4)
    BY DEF Xor
<1>2. /\ Sum(0) = ((a % 2) + (b % 2)) % 2
      /\ Sum(1) = (((a \div 2) % 2) + ((b \div 2) % 2)) % 2
      /\ Sum(2) = (((a \div 4) % 2) + ((b \div 4) % 2)) % 2
      /\ Sum(3) = (((a \div 8) % 2) + ((b \div 8) % 2)) % 2
      /\ Sum(4) = (((a \div 16) % 2) + ((b \div 16) % 2)) % 2
    BY BitIs
<1>3. Sum(0) \in Nat /\ Sum(1) \in Nat /\ Sum(2) \in Nat /\ Sum(3) \in Nat /\ Sum(4) \in Nat
    BY <1>2
<1> HIDE DEF Sum
<1>4. Xor(a, b) = Sum(0) + 2 * Sum(1) + 4 * Sum(2) + 8 * Sum(3) + 16 * Sum(4)
    BY <1>1, <1>3
<1> QED
    BY <1>2, <1>3, <1>4

\* Multiplication by x, without the exclusive or.
LEMMA DoubledIs ==
    ASSUME NEW a \in Symbols
    PROVE  /\ Doubled(a) \in Symbols
           /\ Doubled(a) = IF a < 16 THEN 2 * a ELSE IF a % 8 >= 4 THEN 2 * a - 39 ELSE 2 * a - 23
<1>1. a \in 0..31 /\ a \in Nat
    BY DEF Symbols
<1>2. CASE a < 16
    BY <1>1, <1>2 DEF Doubled, Symbols
<1>3. CASE a >= 16
    <2>1. 2 * a - 32 \in Nat /\ 9 \in Nat
        BY <1>1, <1>3
    <2>2. PICK b \in Nat : b = 2 * a - 32
        BY <2>1
    <2>3. Xor(b, 9) = (((b % 2) + 1) % 2) + 2 * ((((b \div 2) % 2) + 0) % 2)
                      + 4 * ((((b \div 4) % 2) + 0) % 2) + 8 * ((((b \div 8) % 2) + 1) % 2)
                      + 16 * ((((b \div 16) % 2) + 0) % 2)
        <3>1. /\ 9 % 2 = 1 /\ (9 \div 2) % 2 = 0 /\ (9 \div 4) % 2 = 0
              /\ (9 \div 8) % 2 = 1 /\ (9 \div 16) % 2 = 0
            OBVIOUS
        <3> QED
            BY <2>1, <3>1, XorNumbers
    <2>4. Xor(b, 9) = IF a % 8 >= 4 THEN b - 7 ELSE b + 9
        BY <1>1, <1>3, <2>2, <2>3
    <2> QED
        BY <1>1, <1>3, <2>2, <2>4 DEF Doubled, Symbols
<1> QED
    BY <1>1, <1>2, <1>3

\* Each entry of the table is its predecessor times x.
LEMMA TableDoubles ==
    \A j \in 1..4, i \in 1..8 : GENERATOR[j + 1][i] = Doubled(GENERATOR[j][i])
<1> DEFINE Next2(a) == IF a < 16 THEN 2 * a ELSE IF a % 8 >= 4 THEN 2 * a - 39 ELSE 2 * a - 23
<1>1. \A i \in 1..8 : i = 1 \/ i = 2 \/ i = 3 \/ i = 4 \/ i = 5 \/ i = 6 \/ i = 7 \/ i = 8
    OBVIOUS
<1>2. \A i \in 1..8 : GENERATOR[2][i] = Next2(GENERATOR[1][i])
    BY <1>1 DEF GENERATOR
<1>3. \A i \in 1..8 : GENERATOR[3][i] = Next2(GENERATOR[2][i])
    BY <1>1 DEF GENERATOR
<1>4. \A i \in 1..8 : GENERATOR[4][i] = Next2(GENERATOR[3][i])
    BY <1>1 DEF GENERATOR
<1>5. \A i \in 1..8 : GENERATOR[5][i] = Next2(GENERATOR[4][i])
    BY <1>1 DEF GENERATOR
<1>6. \A j \in 1..5, i \in 1..8 : GENERATOR[j][i] \in Symbols
    BY Table DEF Registers
<1>7. \A a \in Symbols : Doubled(a) = Next2(a)
    BY DoubledIs
<1> HIDE DEF Next2
<1>8. ASSUME NEW i \in 1..8
      PROVE  /\ GENERATOR[2][i] = Doubled(GENERATOR[1][i]) /\ GENERATOR[3][i] = Doubled(GENERATOR[2][i])
             /\ GENERATOR[4][i] = Doubled(GENERATOR[3][i]) /\ GENERATOR[5][i] = Doubled(GENERATOR[4][i])
    BY <1>2, <1>3, <1>4, <1>5, <1>6, <1>7
<1>9. 1 + 1 = 2 /\ 2 + 1 = 3 /\ 3 + 1 = 4 /\ 4 + 1 = 5 /\ \A j \in 1..4 : j \in {1, 2, 3, 4}
    OBVIOUS
<1> QED
    BY <1>8, <1>9

LEMMA PlusAssociative ==
    ASSUME NEW a \in Registers, NEW b \in Registers, NEW c \in Registers
    PROVE  Plus(Plus(a, b), c) = Plus(a, Plus(b, c))
<1>1. Plus(a, b) \in Registers /\ Plus(b, c) \in Registers
    BY PlusIs
<1>2. Plus(Plus(a, b), c) \in Registers /\ Plus(a, Plus(b, c)) \in Registers
    BY <1>1, PlusIs
<1>3. ASSUME NEW i \in 1..8 PROVE Plus(Plus(a, b), c)[i] = Plus(a, Plus(b, c))[i]
    <2>1. a[i] \in Symbols /\ b[i] \in Symbols /\ c[i] \in Symbols
        BY DEF Registers
    <2>2. Plus(Plus(a, b), c)[i] = Xor(Xor(a[i], b[i]), c[i])
        BY <1>1, PlusIs
    <2>3. Plus(a, Plus(b, c))[i] = Xor(a[i], Xor(b[i], c[i]))
        BY <1>1, PlusIs
    <2> QED
        BY <2>1, <2>2, <2>3, XorAssociative
<1> QED
    BY <1>2, <1>3, SameRegister

LEMMA PlusZeros == ASSUME NEW a \in Registers PROVE Plus(a, Zeros) = a
<1>1. Zeros \in Registers /\ \A i \in 1..8 : Zeros[i] = 0
    BY ConstantRegisters DEF Zeros
<1>2. \A i \in 1..8 : a[i] \in Symbols
    BY DEF Registers
<1>3. \A i \in 1..8 : Plus(a, Zeros)[i] = a[i]
    BY <1>1, <1>2, PlusIs, XorZero
<1> QED
    BY <1>1, <1>3, PlusIs, SameRegister

----------------------------------------------------------------------------
(* One step of the checksum is one step of the division                    *)

\* What the table gives for the digit i - 1 of the symbol that leaves.
Entry(t, i) == IF Bit(t, i - 1) = 1 THEN GENERATOR[i] ELSE Zeros

LEMMA EntryIs == \A t : \A i \in 1..5 : Entry(t, i) \in Registers
BY Table, ConstantRegisters DEF Entry

\* _polymod adds the five entries one by one.
LEMMA AbsorbedIs ==
    ASSUME NEW c \in Registers, NEW v \in Symbols
    PROVE  LET t == c[1]
           IN  Absorbed(c, v) = Plus(Plus(Plus(Plus(Plus(Shifted(c, v), Entry(t, 1)), Entry(t, 2)),
                                               Entry(t, 3)), Entry(t, 4)), Entry(t, 5))
<1> DEFINE t == c[1]
           x == Shifted(c, v)
           Sum(f) == f = [i \in 0..5 |->
               IF i = 0 THEN Tail(c) \o <<v>>
               ELSE IF Bit(c[1], i - 1) = 1 THEN Plus(f[i - 1], GENERATOR[i]) ELSE f[i - 1]]
           Adds(f) == f[0] = x /\ \A i \in 1..5 : f[i] = IF Bit(t, i - 1) = 1
                                                   THEN Plus(f[i - 1], GENERATOR[i]) ELSE f[i - 1]
<1>1. x \in Registers
    BY ShiftedIs
<1>2. \E f : Sum(f)
    <2> DEFINE step == [i \in 1..5 |-> [s \in Registers |->
                   IF Bit(t, i - 1) = 1 THEN Plus(s, GENERATOR[i]) ELSE s]]
    <2>1. Stays(Registers, 5, step)
        BY PlusIs, Table DEF Stays
    <2>2. PICK g : Iterates(g, 5, x, step) /\ \A i \in 0..5 : g[i] \in Registers
        <3> HIDE DEF step
        <3> QED
            BY <1>1, <2>1, Iteration
    <2>3. \A i \in 1..5 : step[i][g[i - 1]]
                          = IF Bit(t, i - 1) = 1 THEN Plus(g[i - 1], GENERATOR[i]) ELSE g[i - 1]
        BY <2>2
    <2>4. g = [i \in 0..5 |-> IF i = 0 THEN x ELSE step[i][g[i - 1]]]
        BY <2>2 DEF Iterates
    <2>5. Sum(g)
        <3>1. \A i \in 0..5 : i # 0 => i \in 1..5
            OBVIOUS
        <3> HIDE DEF step
        <3>2. \A i \in 0..5 : (IF i = 0 THEN x ELSE step[i][g[i - 1]])
                  = IF i = 0 THEN Tail(c) \o <<v>>
                    ELSE IF Bit(c[1], i - 1) = 1 THEN Plus(g[i - 1], GENERATOR[i]) ELSE g[i - 1]
            BY <2>3, <3>1, Zenon DEF Shifted
        <3> QED
            BY <2>4, <3>2, Zenon
    <2> QED
        BY <2>5
<1>3. Absorbed(c, v) = (CHOOSE f : Sum(f))[5]
    BY DEF Absorbed
<1>4. PICK f : Absorbed(c, v) = f[5] /\ Sum(f)
    <2> HIDE DEF Sum
    <2> QED
        BY <1>2, <1>3
<1>5. Adds(f)
    <2>1. 0 \in 0..5 /\ \A i \in 1..5 : i \in 0..5 /\ i # 0
        OBVIOUS
    <2> QED
        BY <1>4, <2>1, Zenon DEF Shifted
<1>6. ASSUME NEW i \in 1..5, f[i - 1] \in Registers
      PROVE  f[i] \in Registers /\ f[i] = Plus(f[i - 1], Entry(t, i))
    <2>1. f[i] = IF Bit(t, i - 1) = 1 THEN Plus(f[i - 1], GENERATOR[i]) ELSE f[i - 1]
        BY <1>5
    <2>2. f[i] = Plus(f[i - 1], Entry(t, i))
        BY <1>6, <2>1, PlusZeros DEF Entry
    <2> QED
        BY <1>6, <2>2, PlusIs, EntryIs
<1>7. f[0] = x
    BY <1>5
<1> HIDE DEF x, t, Sum, Adds
<1>8. f[1] \in Registers /\ f[1] = Plus(f[0], Entry(t, 1))
    BY <1>1, <1>6, <1>7
<1>9. f[2] \in Registers /\ f[2] = Plus(f[1], Entry(t, 2))
    BY <1>6, <1>8
<1>10. f[3] \in Registers /\ f[3] = Plus(f[2], Entry(t, 3))
    BY <1>6, <1>9
<1>11. f[4] \in Registers /\ f[4] = Plus(f[3], Entry(t, 4))
    BY <1>6, <1>10
<1>12. f[5] = Plus(f[4], Entry(t, 5))
    BY <1>6, <1>11
<1> QED
    BY <1>4, <1>7, <1>8, <1>9, <1>10, <1>11, <1>12 DEF x, t

\* The products with the first entry are the entries.
LEMMA TimesEntry ==
    ASSUME NEW i \in 1..8, NEW t \in Symbols
    PROVE  Times(GENERATOR[1][i], t) =
               Xor(Xor(Xor(Xor(Entry(t, 1)[i], Entry(t, 2)[i]), Entry(t, 3)[i]), Entry(t, 4)[i]),
                   Entry(t, 5)[i])
<1> DEFINE a == GENERATOR[1][i]
           Multiple(f) == f = [k \in 0..4 |-> IF k = 0 THEN a ELSE Doubled(f[k - 1])]
           Term(f, k) == IF Bit(t, k) = 1 THEN f[k] ELSE 0
<1>1. \E f : Multiple(f)
    <2> DEFINE g == [k \in 0..4 |-> GENERATOR[k + 1][i]]
    <2>1. \A k \in 0..4 : k # 0 => k \in 1..4 /\ k - 1 \in 0..4 /\ (k - 1) + 1 = k
        OBVIOUS
    <2>2. \A k \in 0..4 : g[k] = IF k = 0 THEN a ELSE Doubled(g[k - 1])
        BY <2>1, TableDoubles
    <2>3. g = [k \in 0..4 |-> g[k]]
        OBVIOUS
    <2> HIDE DEF g, a
    <2> QED
        BY <2>2, <2>3
<1>2. PICK f : Multiple(f) /\ f = CHOOSE h : Multiple(h)
    <2> HIDE DEF Multiple
    <2> QED
        BY <1>1
<1>3. Times(a, t) = Xor(Xor(Xor(Xor(Term(f, 0), Term(f, 1)), Term(f, 2)), Term(f, 3)), Term(f, 4))
    <2> DEFINE m == CHOOSE h : Multiple(h)
    <2>1. Times(a, t) = Xor(Xor(Xor(Xor(Term(m, 0), Term(m, 1)), Term(m, 2)), Term(m, 3)), Term(m, 4))
        BY DEF Times
    <2>2. m = f
        BY <1>2
    <2> HIDE DEF m, Term
    <2> QED
        BY <2>1, <2>2
<1>4. f[0] = a /\ \A k \in 1..4 : f[k] = Doubled(f[k - 1])
    <2>1. 0 \in 0..4 /\ \A k \in 1..4 : k \in 0..4 /\ k # 0
        OBVIOUS
    <2> QED
        BY <1>2, <2>1, Zenon
<1>5. /\ f[0] = GENERATOR[1][i] /\ f[1] = GENERATOR[2][i] /\ f[2] = GENERATOR[3][i]
      /\ f[3] = GENERATOR[4][i] /\ f[4] = GENERATOR[5][i]
    <2> HIDE DEF Multiple
    <2>1. f[1] = GENERATOR[2][i]
        BY <1>4, TableDoubles
    <2>2. f[2] = GENERATOR[3][i]
        BY <1>4, <2>1, TableDoubles
    <2>3. f[3] = GENERATOR[4][i]
        BY <1>4, <2>2, TableDoubles
    <2>4. f[4] = GENERATOR[5][i]
        BY <1>4, <2>3, TableDoubles
    <2> QED
        BY <1>4, <2>1, <2>2, <2>3, <2>4
<1>6. /\ Term(f, 0) = Entry(t, 1)[i] /\ Term(f, 1) = Entry(t, 2)[i] /\ Term(f, 2) = Entry(t, 3)[i]
      /\ Term(f, 3) = Entry(t, 4)[i] /\ Term(f, 4) = Entry(t, 5)[i]
    <2>1. Zeros[i] = 0 /\ 1 - 1 = 0 /\ 2 - 1 = 1 /\ 3 - 1 = 2 /\ 4 - 1 = 3 /\ 5 - 1 = 4
        BY DEF Zeros
    <2> QED
        BY <1>5, <2>1 DEF Entry
<1> QED
    BY <1>3, <1>6

LEMMA DividedIs ==
    ASSUME NEW c \in Registers, NEW v \in Symbols
    PROVE  LET t == c[1]
           IN  Divided(c, v) = Plus(Shifted(c, v),
                   Plus(Plus(Plus(Plus(Entry(t, 1), Entry(t, 2)), Entry(t, 3)), Entry(t, 4)), Entry(t, 5)))
<1> DEFINE t == c[1]
           p == Plus(Plus(Plus(Plus(Entry(t, 1), Entry(t, 2)), Entry(t, 3)), Entry(t, 4)), Entry(t, 5))
           q == [i \in 1..8 |-> Times(GENERATOR[1][i], t)]
<1>1. t \in Symbols
    BY DEF Registers
<1>2. PICK e1, e2, e3, e4, e5 \in Registers :
          /\ e1 = Entry(t, 1) /\ e2 = Entry(t, 2) /\ e3 = Entry(t, 3) /\ e4 = Entry(t, 4)
          /\ e5 = Entry(t, 5)
    <2>1. 1 \in 1..5 /\ 2 \in 1..5 /\ 3 \in 1..5 /\ 4 \in 1..5 /\ 5 \in 1..5
        OBVIOUS
    <2> QED
        BY <2>1, EntryIs, Zenon
<1>3. /\ Plus(e1, e2) \in Registers /\ Plus(Plus(e1, e2), e3) \in Registers
      /\ Plus(Plus(Plus(e1, e2), e3), e4) \in Registers
      /\ Plus(Plus(Plus(Plus(e1, e2), e3), e4), e5) \in Registers
    <2>1. Plus(e1, e2) \in Registers
        BY PlusIs
    <2>2. Plus(Plus(e1, e2), e3) \in Registers
        BY <2>1, PlusIs
    <2>3. Plus(Plus(Plus(e1, e2), e3), e4) \in Registers
        BY <2>2, PlusIs
    <2> QED
        BY <2>1, <2>2, <2>3, PlusIs
<1>4. ASSUME NEW i \in 1..8
      PROVE  Plus(Plus(Plus(Plus(e1, e2), e3), e4), e5)[i]
             = Xor(Xor(Xor(Xor(e1[i], e2[i]), e3[i]), e4[i]), e5[i])
    <2>1. Plus(e1, e2)[i] = Xor(e1[i], e2[i])
        BY PlusIs
    <2>2. Plus(Plus(e1, e2), e3)[i] = Xor(Plus(e1, e2)[i], e3[i])
        BY <1>3, PlusIs
    <2>3. Plus(Plus(Plus(e1, e2), e3), e4)[i] = Xor(Plus(Plus(e1, e2), e3)[i], e4[i])
        BY <1>3, PlusIs
    <2>4. Plus(Plus(Plus(Plus(e1, e2), e3), e4), e5)[i] = Xor(Plus(Plus(Plus(e1, e2), e3), e4)[i], e5[i])
        BY <1>3, PlusIs
    <2> QED
        BY <2>1, <2>2, <2>3, <2>4
<1>5. \A i \in 1..8 : Times(GENERATOR[1][i], t) = p[i]
    <2>1. ASSUME NEW i \in 1..8 PROVE Times(GENERATOR[1][i], t) = p[i]
        BY <1>1, <1>2, <1>4, TimesEntry, Zenon
    <2> QED
        BY <2>1
<1>6. p \in Registers
    BY <1>2, <1>3, Zenon
<1> HIDE DEF p
<1>7. q = p
    BY <1>5, <1>6 DEF Registers
<1>8. Divided(c, v) = Plus(Shifted(c, v), q)
    BY DEF Divided, Shifted
<1> QED
    BY <1>7, <1>8 DEF p

LEMMA SameStep ==
    ASSUME NEW c \in Registers, NEW v \in Symbols
    PROVE  Absorbed(c, v) \in Registers /\ Divided(c, v) = Absorbed(c, v)
<1> DEFINE t == c[1]
           x == Shifted(c, v)
<1>1. PICK e1, e2, e3, e4, e5 \in Registers :
          /\ e1 = Entry(t, 1) /\ e2 = Entry(t, 2) /\ e3 = Entry(t, 3) /\ e4 = Entry(t, 4)
          /\ e5 = Entry(t, 5)
    <2>1. 1 \in 1..5 /\ 2 \in 1..5 /\ 3 \in 1..5 /\ 4 \in 1..5 /\ 5 \in 1..5
        OBVIOUS
    <2> QED
        BY <2>1, EntryIs, Zenon
<1>2. Absorbed(c, v) = Plus(Plus(Plus(Plus(Plus(x, e1), e2), e3), e4), e5)
    BY <1>1, AbsorbedIs, Zenon
<1>3. Divided(c, v) = Plus(x, Plus(Plus(Plus(Plus(e1, e2), e3), e4), e5))
    BY <1>1, DividedIs, Zenon
<1>4. x \in Registers
    BY ShiftedIs
<1> HIDE DEF x, t
<1>5. Plus(e1, e2) \in Registers /\ Plus(x, e1) \in Registers
    BY <1>4, PlusIs
<1>6. Plus(Plus(e1, e2), e3) \in Registers /\ Plus(Plus(x, e1), e2) \in Registers
    BY <1>5, PlusIs
<1>7. Plus(Plus(Plus(e1, e2), e3), e4) \in Registers /\ Plus(Plus(Plus(x, e1), e2), e3) \in Registers
    BY <1>6, PlusIs
<1>8. Plus(Plus(Plus(Plus(x, e1), e2), e3), e4) \in Registers
    BY <1>7, PlusIs
<1>9. Plus(x, Plus(e1, e2)) = Plus(Plus(x, e1), e2)
    BY <1>4, PlusAssociative
<1>10. Plus(x, Plus(Plus(e1, e2), e3)) = Plus(Plus(Plus(x, e1), e2), e3)
    BY <1>4, <1>5, <1>9, PlusAssociative
<1>11. Plus(x, Plus(Plus(Plus(e1, e2), e3), e4)) = Plus(Plus(Plus(Plus(x, e1), e2), e3), e4)
    BY <1>4, <1>6, <1>10, PlusAssociative
<1>12. Plus(x, Plus(Plus(Plus(Plus(e1, e2), e3), e4), e5))
       = Plus(Plus(Plus(Plus(Plus(x, e1), e2), e3), e4), e5)
    BY <1>4, <1>7, <1>11, PlusAssociative
<1> QED
    BY <1>2, <1>3, <1>8, <1>12, PlusIs

----------------------------------------------------------------------------
(* The checksum of any sequence of symbols is the remainder                *)

\* Two functions that take the same steps are the same.
LEMMA SameIteration ==
    ASSUME NEW N \in Nat, NEW base, NEW step, NEW f, NEW g, NEW T, base \in T, Stays(T, N, step),
           Follows(f, T, N, base, step), Follows(g, T, N, base, step)
    PROVE  \A n \in 0..N : f[n] \in T /\ f[n] = g[n]
<1> DEFINE G == {n \in 0..N : f[n] = g[n]}
<1>1. \A n \in 0..N : f[n] \in T /\ g[n] \in T
    BY IterationType
<1>2. 0 \in G
    BY DEF Follows
<1>3. ASSUME NEW n \in 1..N, n - 1 \in G PROVE n \in G
    <2>1. n - 1 \in 0..N /\ n \in 0..N
        OBVIOUS
    <2> QED
        BY <1>1, <1>3, <2>1 DEF Follows
<1>4. \A n \in 0..N : n \in G
    <2> HIDE DEF G
    <2>1. \A n \in 1..N : n - 1 \in G => n \in G
        BY <1>3
    <2> QED
        BY <1>2, <2>1, CountingUp
<1> QED
    BY <1>1, <1>4

LEMMA PolymodIsRemainder ==
    ASSUME NEW values \in Seq(Symbols)
    PROVE  Polymod(values) \in Registers /\ Polymod(values) = Remainder(values)
<1> DEFINE N == Len(values)
           step == [n \in 1..N |-> [c \in Registers |-> Absorbed(c, values[n])]]
           Checks(f) == f = [n \in 0..N |-> IF n = 0 THEN One ELSE Absorbed(f[n - 1], values[n])]
           Rests(f) == f = [n \in 0..N |-> IF n = 0 THEN One ELSE Divided(f[n - 1], values[n])]
<1>1. N \in Nat /\ One \in Registers /\ \A n \in 1..N : values[n] \in Symbols
    BY ConstantRegisters, LenProperties
<1>2. \A n \in 1..N : \A c \in Registers :
          /\ step[n][c] = Absorbed(c, values[n])
          /\ step[n][c] = Divided(c, values[n])
          /\ step[n][c] \in Registers
    BY <1>1, SameStep
<1>3. \A n \in 0..N : n # 0 => n \in 1..N /\ n - 1 \in 0..N
    BY <1>1
<1> HIDE DEF step, N
<1>4. Stays(Registers, N, step)
    BY <1>2 DEF Stays
<1>5. PICK g : Iterates(g, N, One, step) /\ \A n \in 0..N : g[n] \in Registers
    BY <1>1, <1>4, Iteration
<1>6. Checks(g) /\ Rests(g)
    <2>1. g = [n \in 0..N |-> IF n = 0 THEN One ELSE step[n][g[n - 1]]]
        BY <1>5 DEF Iterates
    <2>2. \A n \in 0..N : (IF n = 0 THEN One ELSE step[n][g[n - 1]])
                          = IF n = 0 THEN One ELSE Absorbed(g[n - 1], values[n])
        BY <1>2, <1>3, <1>5, Zenon
    <2>3. \A n \in 0..N : (IF n = 0 THEN One ELSE step[n][g[n - 1]])
                          = IF n = 0 THEN One ELSE Divided(g[n - 1], values[n])
        BY <1>2, <1>3, <1>5, Zenon
    <2>4. Checks(g)
        BY <2>1, <2>2, Zenon
    <2>5. Rests(g)
        BY <2>1, <2>3, Zenon
    <2> QED
        BY <2>4, <2>5, Zenon
<1>7. PICK f : Checks(f) /\ f = CHOOSE h : Checks(h)
    <2> HIDE DEF Checks
    <2> QED
        BY <1>6
<1>8. PICK r : Rests(r) /\ r = CHOOSE h : Rests(h)
    <2> HIDE DEF Rests
    <2> QED
        BY <1>6
<1>9. Polymod(values) = f[N] /\ Remainder(values) = r[N]
    <2>1. Polymod(values) = (CHOOSE h : Checks(h))[N]
        BY DEF Polymod, N
    <2>2. Remainder(values) = (CHOOSE h : Rests(h))[N]
        BY DEF Remainder, N
    <2> HIDE DEF Checks, Rests
    <2> QED
        BY <1>7, <1>8, <2>1, <2>2
<1>10. 0 \in 0..N /\ N \in 0..N /\ \A n \in 1..N : n \in 0..N /\ n # 0
    BY <1>1
<1>11. Follows(f, Registers, N, One, step)
    <2>1. f[0] = One /\ \A n \in 1..N : f[n] = Absorbed(f[n - 1], values[n])
        BY <1>7, <1>10, Zenon
    <2> QED
        BY <1>2, <2>1, Zenon DEF Follows
<1>12. Follows(r, Registers, N, One, step)
    <2>1. r[0] = One /\ \A n \in 1..N : r[n] = Divided(r[n - 1], values[n])
        BY <1>8, <1>10, Zenon
    <2> QED
        BY <1>2, <2>1, Zenon DEF Follows
<1>13. \A n \in 0..N : f[n] \in Registers /\ f[n] = r[n]
    <2> HIDE DEF Checks, Rests
    <2> QED
        BY <1>1, <1>4, <1>11, <1>12, SameIteration
<1> QED
    BY <1>9, <1>10, <1>13, Zenon

----------------------------------------------------------------------------
(* The groups that _convert_bits takes are the digits in fives             *)

Octets == 0..255

LEMMA FunctionIsSequence ==
    ASSUME NEW S, NEW n \in Nat, NEW f \in [1..n -> S]
    PROVE  f \in Seq(S) /\ Len(f) = n
<1>1. f \in Seq(S)
    BY SeqDef
<1> QED
    BY <1>1

\* A number below 256 and its digits.
LEMMA OctetBits ==
    ASSUME NEW b \in Octets
    PROVE  /\ b = 128 * Bit(b, 7) + 64 * Bit(b, 6) + 32 * Bit(b, 5) + 16 * Bit(b, 4)
                  + 8 * Bit(b, 3) + 4 * Bit(b, 2) + 2 * Bit(b, 1) + Bit(b, 0)
           /\ \A j \in 0..7 : Bit(b, j) \in {0, 1}
<1>1. b \in 0..255 /\ b \in Nat
    BY DEF Octets
<1>2. b = 128 * ((b \div 128) % 2) + 64 * ((b \div 64) % 2) + 32 * ((b \div 32) % 2)
          + 16 * ((b \div 16) % 2) + 8 * ((b \div 8) % 2) + 4 * ((b \div 4) % 2)
          + 2 * ((b \div 2) % 2) + (b % 2)
    BY <1>1
<1>3. /\ b % 2 \in {0, 1} /\ (b \div 2) % 2 \in {0, 1} /\ (b \div 4) % 2 \in {0, 1}
      /\ (b \div 8) % 2 \in {0, 1} /\ (b \div 16) % 2 \in {0, 1} /\ (b \div 32) % 2 \in {0, 1}
      /\ (b \div 64) % 2 \in {0, 1} /\ (b \div 128) % 2 \in {0, 1}
    BY <1>1
<1>4. \A j \in 0..7 : j = 0 \/ j = 1 \/ j = 2 \/ j = 3 \/ j = 4 \/ j = 5 \/ j = 6 \/ j = 7
    OBVIOUS
<1>5. /\ Bit(b, 0) = b % 2 /\ Bit(b, 1) = (b \div 2) % 2 /\ Bit(b, 2) = (b \div 4) % 2
      /\ Bit(b, 3) = (b \div 8) % 2 /\ Bit(b, 4) = (b \div 16) % 2 /\ Bit(b, 5) = (b \div 32) % 2
      /\ Bit(b, 6) = (b \div 64) % 2 /\ Bit(b, 7) = (b \div 128) % 2
    BY <1>1, BitIs
<1>6. ASSUME NEW j \in 0..7 PROVE Bit(b, j) \in {0, 1}
    BY <1>3, <1>4, <1>5
<1> QED
    BY <1>2, <1>5, <1>6

\* The digit q places above the last one of two bytes a, b.
TwoBytesBit(a, b, q) == IF q < 8 THEN Bit(b, q) ELSE Bit(a, q - 8)

\* Numbers of five digits between an upper part and a lower one of k digits.
LEMMA MiddleDigits ==
    ASSUME NEW k \in 0..7, NEW upper \in Nat, NEW middle \in 0..31, NEW lower \in 0..(2^k - 1),
           NEW n \in Nat, n = 2^k * (32 * upper + middle) + lower
    PROVE  (n \div 2^k) % 32 = middle
<1>1. \A j \in 0..7 : j = 0 \/ j = 1 \/ j = 2 \/ j = 3 \/ j = 4 \/ j = 5 \/ j = 6 \/ j = 7
    OBVIOUS
<1>2. PICK m \in Nat : m = 32 * upper + middle
    OBVIOUS
<1>3. m % 32 = middle
    BY <1>2
<1>4. n = 2^k * m + lower
    BY <1>2
<1>5. n \div 2^k = m
    <2>1. CASE k = 0
        BY <1>4, <2>1
    <2>2. CASE k = 1
        BY <1>4, <2>2
    <2>3. CASE k = 2
        BY <1>4, <2>3
    <2>4. CASE k = 3
        BY <1>4, <2>4
    <2>5. CASE k = 4
        BY <1>4, <2>5
    <2>6. CASE k = 5
        BY <1>4, <2>6
    <2>7. CASE k = 6
        BY <1>4, <2>7
    <2>8. CASE k = 7
        BY <1>4, <2>8
    <2> QED
        BY <1>1, <2>1, <2>2, <2>3, <2>4, <2>5, <2>6, <2>7, <2>8
<1> QED
    BY <1>3, <1>5

\* The last twelve digits of a number, and what is above them.
Spelled(n, u, d) ==
    n = 4096 * u + 2048 * d[11] + 1024 * d[10] + 512 * d[9] + 256 * d[8] + 128 * d[7] + 64 * d[6]
        + 32 * d[5] + 16 * d[4] + 8 * d[3] + 4 * d[2] + 2 * d[1] + d[0]

LEMMA FiveOfTwelve ==
    ASSUME NEW u \in Nat, NEW d \in [0..11 -> {0, 1}], NEW n \in Nat, Spelled(n, u, d), NEW k \in 0..7
    PROVE  (n \div 2^k) % 32 = FromBits(d[k + 4], d[k + 3], d[k + 2], d[k + 1], d[k])
<1>1. \A j \in 0..11 : d[j] \in {0, 1}
    BY SMT
<1>2. PICK d0, d1, d2, d3 \in {0, 1} : d0 = d[0] /\ d1 = d[1] /\ d2 = d[2] /\ d3 = d[3]
    BY <1>1, SMT
<1>3. PICK d4, d5, d6, d7 \in {0, 1} : d4 = d[4] /\ d5 = d[5] /\ d6 = d[6] /\ d7 = d[7]
    BY <1>1, SMT
<1>4. PICK d8, d9, d10, d11 \in {0, 1} : d8 = d[8] /\ d9 = d[9] /\ d10 = d[10] /\ d11 = d[11]
    BY <1>1, SMT
<1>5. n = 4096 * u + 2048 * d11 + 1024 * d10 + 512 * d9 + 256 * d8 + 128 * d7 + 64 * d6
          + 32 * d5 + 16 * d4 + 8 * d3 + 4 * d2 + 2 * d1 + d0
    BY <1>2, <1>3, <1>4, SMT DEF Spelled
<1>6. CASE k = 0
    <2>1. PICK upper \in Nat, middle \in 0..31, lower \in 0..(2^0 - 1) :
              /\ upper = 128 * u + 64 * d11 + 32 * d10 + 16 * d9 + 8 * d8 + 4 * d7 + 2 * d6 + d5
              /\ middle = 16 * d4 + 8 * d3 + 4 * d2 + 2 * d1 + d0
              /\ lower = 0
        BY SMT
    <2>2. 0 \in 0..7 /\ n = 2^0 * (32 * upper + middle) + lower
        BY <1>5, <2>1, SMT
    <2>3. (n \div 2^0) % 32 = middle
        BY <2>2, MiddleDigits, SMT
    <2> QED
        BY <1>2, <1>3, <1>4, <1>6, <2>1, <2>2, <2>3, SMT DEF FromBits
<1>7. CASE k = 1
    <2>1. PICK upper \in Nat, middle \in 0..31, lower \in 0..(2^1 - 1) :
              /\ upper = 64 * u + 32 * d11 + 16 * d10 + 8 * d9 + 4 * d8 + 2 * d7 + d6
              /\ middle = 16 * d5 + 8 * d4 + 4 * d3 + 2 * d2 + d1
              /\ lower = d0
        BY SMT
    <2>2. 1 \in 0..7 /\ n = 2^1 * (32 * upper + middle) + lower
        BY <1>5, <2>1, SMT
    <2>3. (n \div 2^1) % 32 = middle
        BY <2>2, MiddleDigits, SMT
    <2> QED
        BY <1>2, <1>3, <1>4, <1>7, <2>1, <2>2, <2>3, SMT DEF FromBits
<1>8. CASE k = 2
    <2>1. PICK upper \in Nat, middle \in 0..31, lower \in 0..(2^2 - 1) :
              /\ upper = 32 * u + 16 * d11 + 8 * d10 + 4 * d9 + 2 * d8 + d7
              /\ middle = 16 * d6 + 8 * d5 + 4 * d4 + 2 * d3 + d2
              /\ lower = 2 * d1 + d0
        BY SMT
    <2>2. 2 \in 0..7 /\ n = 2^2 * (32 * upper + middle) + lower
        BY <1>5, <2>1, SMT
    <2>3. (n \div 2^2) % 32 = middle
        BY <2>2, MiddleDigits, SMT
    <2> QED
        BY <1>2, <1>3, <1>4, <1>8, <2>1, <2>2, <2>3, SMT DEF FromBits
<1>9. CASE k = 3
    <2>1. PICK upper \in Nat, middle \in 0..31, lower \in 0..(2^3 - 1) :
              /\ upper = 16 * u + 8 * d11 + 4 * d10 + 2 * d9 + d8
              /\ middle = 16 * d7 + 8 * d6 + 4 * d5 + 2 * d4 + d3
              /\ lower = 4 * d2 + 2 * d1 + d0
        BY SMT
    <2>2. 3 \in 0..7 /\ n = 2^3 * (32 * upper + middle) + lower
        BY <1>5, <2>1, SMT
    <2>3. (n \div 2^3) % 32 = middle
        BY <2>2, MiddleDigits, SMT
    <2> QED
        BY <1>2, <1>3, <1>4, <1>9, <2>1, <2>2, <2>3, SMT DEF FromBits
<1>10. CASE k = 4
    <2>1. PICK upper \in Nat, middle \in 0..31, lower \in 0..(2^4 - 1) :
              /\ upper = 8 * u + 4 * d11 + 2 * d10 + d9
              /\ middle = 16 * d8 + 8 * d7 + 4 * d6 + 2 * d5 + d4
              /\ lower = 8 * d3 + 4 * d2 + 2 * d1 + d0
        BY SMT
    <2>2. 4 \in 0..7 /\ n = 2^4 * (32 * upper + middle) + lower
        BY <1>5, <2>1, SMT
    <2>3. (n \div 2^4) % 32 = middle
        BY <2>2, MiddleDigits, SMT
    <2> QED
        BY <1>2, <1>3, <1>4, <1>10, <2>1, <2>2, <2>3, SMT DEF FromBits
<1>11. CASE k = 5
    <2>1. PICK upper \in Nat, middle \in 0..31, lower \in 0..(2^5 - 1) :
              /\ upper = 4 * u + 2 * d11 + d10
              /\ middle = 16 * d9 + 8 * d8 + 4 * d7 + 2 * d6 + d5
              /\ lower = 16 * d4 + 8 * d3 + 4 * d2 + 2 * d1 + d0
        BY SMT
    <2>2. 5 \in 0..7 /\ n = 2^5 * (32 * upper + middle) + lower
        BY <1>5, <2>1, SMT
    <2>3. (n \div 2^5) % 32 = middle
        BY <2>2, MiddleDigits, SMT
    <2> QED
        BY <1>2, <1>3, <1>4, <1>11, <2>1, <2>2, <2>3, SMT DEF FromBits
<1>12. CASE k = 6
    <2>1. PICK upper \in Nat, middle \in 0..31, lower \in 0..(2^6 - 1) :
              /\ upper = 2 * u + d11
              /\ middle = 16 * d10 + 8 * d9 + 4 * d8 + 2 * d7 + d6
              /\ lower = 32 * d5 + 16 * d4 + 8 * d3 + 4 * d2 + 2 * d1 + d0
        BY SMT
    <2>2. 6 \in 0..7 /\ n = 2^6 * (32 * upper + middle) + lower
        BY <1>5, <2>1, SMT
    <2>3. (n \div 2^6) % 32 = middle
        BY <2>2, MiddleDigits, SMT
    <2> QED
        BY <1>2, <1>3, <1>4, <1>12, <2>1, <2>2, <2>3, SMT DEF FromBits
<1>13. CASE k = 7
    <2>1. PICK upper \in Nat, middle \in 0..31, lower \in 0..(2^7 - 1) :
              /\ upper = u
              /\ middle = 16 * d11 + 8 * d10 + 4 * d9 + 2 * d8 + d7
              /\ lower = 64 * d6 + 32 * d5 + 16 * d4 + 8 * d3 + 4 * d2 + 2 * d1 + d0
        BY SMT
    <2>2. 7 \in 0..7 /\ n = 2^7 * (32 * upper + middle) + lower
        BY <1>5, <2>1, SMT
    <2>3. (n \div 2^7) % 32 = middle
        BY <2>2, MiddleDigits, SMT
    <2> QED
        BY <1>2, <1>3, <1>4, <1>13, <2>1, <2>2, <2>3, SMT DEF FromBits
<1> QED
    BY <1>6, <1>7, <1>8, <1>9, <1>10, <1>11, <1>12, <1>13, SMT

\* The last two bytes of an accumulator.
Ends(accumulator, a, b) == accumulator % 65536 = 256 * a + b

\* Five of its digits, k places above its end.
LEMMA Window ==
    ASSUME NEW a \in Octets, NEW b \in Octets, NEW accumulator \in Nat,
           Ends(accumulator, a, b), NEW k \in 0..7
    PROVE  (accumulator \div 2^k) % 32 =
               FromBits(TwoBytesBit(a, b, k + 4), TwoBytesBit(a, b, k + 3), TwoBytesBit(a, b, k + 2),
                        TwoBytesBit(a, b, k + 1), TwoBytesBit(a, b, k))
<1>1. PICK d : d = [q \in 0..11 |-> TwoBytesBit(a, b, q)]
    OBVIOUS
<1>2. d \in [0..11 -> {0, 1}]
    BY <1>1, OctetBits, SMT DEF TwoBytesBit
<1>3. /\ d[0] = Bit(b, 0) /\ d[1] = Bit(b, 1) /\ d[2] = Bit(b, 2) /\ d[3] = Bit(b, 3)
      /\ d[4] = Bit(b, 4) /\ d[5] = Bit(b, 5) /\ d[6] = Bit(b, 6) /\ d[7] = Bit(b, 7)
      /\ d[8] = Bit(a, 0) /\ d[9] = Bit(a, 1) /\ d[10] = Bit(a, 2) /\ d[11] = Bit(a, 3)
    BY <1>1, SMT DEF TwoBytesBit
<1>4. PICK u \in Nat : accumulator = 4096 * u + 256 * (a % 16) + b
    <2>1. PICK h \in Nat : accumulator = 65536 * h + 256 * a + b
        <3>1. /\ accumulator = 65536 * (accumulator \div 65536) + (accumulator % 65536)
              /\ accumulator \div 65536 \in Nat
            BY SMT
        <3> QED
            BY <3>1, SMT DEF Octets, Ends
    <2>2. 16 * h + (a \div 16) \in Nat /\ a = 16 * (a \div 16) + (a % 16)
        BY SMT DEF Octets
    <2>3. accumulator = 4096 * (16 * h + (a \div 16)) + 256 * (a % 16) + b
        BY <2>1, <2>2, SMT DEF Octets
    <2> QED
        BY <2>2, <2>3, SMT
<1>5. /\ a % 16 = 8 * d[11] + 4 * d[10] + 2 * d[9] + d[8]
      /\ b = 128 * d[7] + 64 * d[6] + 32 * d[5] + 16 * d[4] + 8 * d[3] + 4 * d[2] + 2 * d[1] + d[0]
    <2>1. a % 16 = 8 * Bit(a, 3) + 4 * Bit(a, 2) + 2 * Bit(a, 1) + Bit(a, 0)
        <3>1. a \in Nat /\ a % 16 = 8 * ((a \div 8) % 2) + 4 * ((a \div 4) % 2) + 2 * ((a \div 2) % 2) + (a % 2)
            BY SMT DEF Octets
        <3>2. /\ Bit(a, 0) = a % 2 /\ Bit(a, 1) = (a \div 2) % 2 /\ Bit(a, 2) = (a \div 4) % 2
              /\ Bit(a, 3) = (a \div 8) % 2
            <4>1. a \in Nat
                BY DEF Octets
            <4> QED
                BY <4>1, BitIs
        <3> QED
            BY <3>1, <3>2, Zenon
    <2> QED
        BY <1>3, <2>1, OctetBits, SMT
<1>6. Spelled(accumulator, u, d)
    <2>1. \A j \in 0..11 : d[j] \in {0, 1}
        BY <1>2, SMT
    <2>2. PICK d8, d9, d10, d11 \in {0, 1} : d8 = d[8] /\ d9 = d[9] /\ d10 = d[10] /\ d11 = d[11]
        BY <2>1, SMT
    <2>3. PICK r \in Nat : r = a % 16
        BY SMT DEF Octets
    <2>4. r = 8 * d11 + 4 * d10 + 2 * d9 + d8
        BY <1>5, <2>2, <2>3, SMT
    <2>5. 256 * (a % 16) + b = 2048 * d11 + 1024 * d10 + 512 * d9 + 256 * d8 + b
        BY <2>3, <2>4, SMT DEF Octets
    <2>6. PICK d0, d1, d2, d3 \in {0, 1} : d0 = d[0] /\ d1 = d[1] /\ d2 = d[2] /\ d3 = d[3]
        BY <2>1, SMT
    <2>7. PICK d4, d5, d6, d7 \in {0, 1} : d4 = d[4] /\ d5 = d[5] /\ d6 = d[6] /\ d7 = d[7]
        BY <2>1, SMT
    <2>8. accumulator = 4096 * u + 2048 * d11 + 1024 * d10 + 512 * d9 + 256 * d8 + b
        BY <1>4, <2>3, <2>5, SMT DEF Octets
    <2>9. b = 128 * d7 + 64 * d6 + 32 * d5 + 16 * d4 + 8 * d3 + 4 * d2 + 2 * d1 + d0
        BY <1>5, <2>6, <2>7, SMT
    <2>10. accumulator = 4096 * u + 2048 * d11 + 1024 * d10 + 512 * d9 + 256 * d8 + 128 * d7
                         + 64 * d6 + 32 * d5 + 16 * d4 + 8 * d3 + 4 * d2 + 2 * d1 + d0
        BY <2>8, <2>9, SMT
    <2> QED
        BY <2>2, <2>6, <2>7, <2>10, SMT DEF Spelled
<1>7. (accumulator \div 2^k) % 32 = FromBits(d[k + 4], d[k + 3], d[k + 2], d[k + 1], d[k])
    BY <1>2, <1>6, FiveOfTwelve, Zenon
<1> QED
    BY <1>1, <1>7, SMT

\* Digit p of a sequence of bytes, counted from 1, and zeros after the last.
Digit(bytes, p) ==
    IF p > 8 * Len(bytes) THEN 0 ELSE Bit(bytes[(p + 7) \div 8], (8 - (p % 8)) % 8)
Group(bytes, g) ==
    FromBits(Digit(bytes, 5 * g - 4), Digit(bytes, 5 * g - 3), Digit(bytes, 5 * g - 2),
             Digit(bytes, 5 * g - 1), Digit(bytes, 5 * g))

\* The byte before the n-th.
Previous(bytes, n) == IF n = 1 THEN 0 ELSE bytes[n - 1]

LEMMA BytesAreOctets ==
    ASSUME NEW bytes \in Seq(Octets), NEW n \in 1..Len(bytes)
    PROVE  Previous(bytes, n) \in Octets /\ bytes[n] \in Octets
<1>1. PICK N \in Nat : N = Len(bytes)
    BY LenProperties
<1>2. \A m \in 1..N : bytes[m] \in Octets
    BY <1>1, ElementOfSeq
<1>3. n \in 1..N /\ (n # 1 => n - 1 \in 1..N) /\ 0 \in Octets
    BY <1>1 DEF Octets
<1> QED
    BY <1>2, <1>3 DEF Previous

LEMMA DigitBefore ==
    ASSUME NEW bytes \in Seq(Octets), NEW n \in 1..Len(bytes), NEW q \in 0..11, 8 * n - q >= 1
    PROVE  Digit(bytes, 8 * n - q) = TwoBytesBit(Previous(bytes, n), bytes[n], q)
<1>1. PICK N \in Nat : N = Len(bytes)
    BY LenProperties
<1>2. PICK p \in Nat : p = 8 * n - q
    <2>1. 8 * n - q \in Nat
        BY <1>1
    <2> QED
        BY <2>1
<1>3. ~ (p > 8 * Len(bytes))
    BY <1>1, <1>2
<1>4. \A i \in 0..11 : i = 0 \/ i = 1 \/ i = 2 \/ i = 3 \/ i = 4 \/ i = 5 \/ i = 6 \/ i = 7
                       \/ i = 8 \/ i = 9 \/ i = 10 \/ i = 11
    OBVIOUS
<1>5. CASE q < 8
    <2>1. (p + 7) \div 8 = n
        BY <1>1, <1>2, <1>5
    <2>2. (8 - (p % 8)) % 8 = q
        BY <1>1, <1>2, <1>4, <1>5
    <2> QED
        BY <1>2, <1>3, <1>5, <2>1, <2>2 DEF Digit, TwoBytesBit
<1>6. CASE q >= 8
    <2>1. (p + 7) \div 8 = n - 1 /\ n # 1
        BY <1>1, <1>2, <1>6
    <2>2. (8 - (p % 8)) % 8 = q - 8
        BY <1>1, <1>2, <1>4, <1>6
    <2> QED
        BY <1>2, <1>3, <1>6, <2>1, <2>2 DEF Digit, TwoBytesBit, Previous
<1> QED
    BY <1>5, <1>6

\* With the n-th byte in the accumulator group g is complete and k digits are
\* after it.
Completes(bytes, n, accumulator, g, k) ==
    /\ bytes \in Seq(Octets) /\ n \in 1..Len(bytes)
    /\ accumulator \in Nat /\ Ends(accumulator, Previous(bytes, n), bytes[n])
    /\ g \in Nat \ {0} /\ k \in 0..7 /\ 5 * g = 8 * n - k

LEMMA GroupTaken ==
    ASSUME NEW bytes, NEW n, NEW accumulator, NEW g, NEW k, Completes(bytes, n, accumulator, g, k)
    PROVE  (accumulator \div 2^k) % 32 = Group(bytes, g)
<1>0. /\ bytes \in Seq(Octets) /\ n \in 1..Len(bytes)
      /\ accumulator \in Nat /\ Ends(accumulator, Previous(bytes, n), bytes[n])
      /\ g \in Nat \ {0} /\ k \in 0..7 /\ 5 * g = 8 * n - k
    BY DEF Completes
<1> DEFINE a == Previous(bytes, n)
           b == bytes[n]
<1>1. a \in Octets /\ b \in Octets
    BY <1>0, BytesAreOctets
<1>2. \A q \in 0..11 : 8 * n - q >= 1 => Digit(bytes, 8 * n - q) = TwoBytesBit(a, b, q)
    BY <1>0, DigitBefore
<1>3. Len(bytes) \in Nat /\ 5 * g = 8 * n - k
    BY <1>0, LenProperties
<1>4. /\ 5 * g - 4 = 8 * n - (k + 4) /\ 5 * g - 3 = 8 * n - (k + 3) /\ 5 * g - 2 = 8 * n - (k + 2)
      /\ 5 * g - 1 = 8 * n - (k + 1)
      /\ 8 * n - (k + 4) >= 1 /\ 8 * n - (k + 3) >= 1 /\ 8 * n - (k + 2) >= 1
      /\ 8 * n - (k + 1) >= 1 /\ 8 * n - k >= 1
      /\ k + 4 \in 0..11 /\ k + 3 \in 0..11 /\ k + 2 \in 0..11 /\ k + 1 \in 0..11 /\ k \in 0..11
    BY <1>0, <1>3
<1> HIDE DEF a, b
<1>5. /\ Digit(bytes, 5 * g - 4) = TwoBytesBit(a, b, k + 4)
      /\ Digit(bytes, 5 * g - 3) = TwoBytesBit(a, b, k + 3)
      /\ Digit(bytes, 5 * g - 2) = TwoBytesBit(a, b, k + 2)
      /\ Digit(bytes, 5 * g - 1) = TwoBytesBit(a, b, k + 1)
      /\ Digit(bytes, 5 * g) = TwoBytesBit(a, b, k)
    BY <1>2, <1>3, <1>4
<1>6. (accumulator \div 2^k) % 32 = FromBits(TwoBytesBit(a, b, k + 4), TwoBytesBit(a, b, k + 3),
          TwoBytesBit(a, b, k + 2), TwoBytesBit(a, b, k + 1), TwoBytesBit(a, b, k))
    BY <1>0, <1>1, Window, Zenon DEF a, b
<1> QED
    BY <1>5, <1>6 DEF Group

\* All bytes are in the accumulator, and the r digits that are left over begin
\* group g.
Fills(bytes, n, accumulator, g, r) ==
    /\ bytes \in Seq(Octets) /\ n \in 1..Len(bytes) /\ n = Len(bytes)
    /\ accumulator \in Nat /\ Ends(accumulator, Previous(bytes, n), bytes[n])
    /\ g \in Nat \ {0} /\ r \in 1..4 /\ 5 * g = 8 * n + (5 - r)

\* The last group is filled up with zeros.
LEMMA LastGroup ==
    ASSUME NEW bytes, NEW n, NEW accumulator, NEW g, NEW r, Fills(bytes, n, accumulator, g, r)
    PROVE  (accumulator * 2^(5 - r)) % 32 = Group(bytes, g)
<1>0. /\ bytes \in Seq(Octets) /\ n \in 1..Len(bytes) /\ n = Len(bytes)
      /\ accumulator \in Nat /\ Ends(accumulator, Previous(bytes, n), bytes[n])
      /\ g \in Nat \ {0} /\ r \in 1..4 /\ 5 * g = 8 * n + (5 - r)
    BY DEF Fills
<1> DEFINE a == Previous(bytes, n)
           b == bytes[n]
<1>1. a \in Octets /\ b \in Octets
    BY <1>0, BytesAreOctets
<1>2. PICK b0, b1, b2, b3, b4 \in {0, 1} :
          b0 = Bit(b, 0) /\ b1 = Bit(b, 1) /\ b2 = Bit(b, 2) /\ b3 = Bit(b, 3) /\ b4 = Bit(b, 4)
    BY <1>1, OctetBits
<1>3. accumulator % 32 = 16 * b4 + 8 * b3 + 4 * b2 + 2 * b1 + b0
    <2>1. (accumulator \div 2^0) % 32 = FromBits(TwoBytesBit(a, b, 0 + 4), TwoBytesBit(a, b, 0 + 3),
              TwoBytesBit(a, b, 0 + 2), TwoBytesBit(a, b, 0 + 1), TwoBytesBit(a, b, 0))
        <3>1. 0 \in 0..7
            OBVIOUS
        <3> QED
            BY <1>0, <1>1, <3>1, Window, Zenon
    <2>2. accumulator \div 2^0 = accumulator
        BY <1>0
    <2>3. /\ TwoBytesBit(a, b, 0 + 4) = b4 /\ TwoBytesBit(a, b, 0 + 3) = b3
          /\ TwoBytesBit(a, b, 0 + 2) = b2 /\ TwoBytesBit(a, b, 0 + 1) = b1
          /\ TwoBytesBit(a, b, 0) = b0
        BY <1>2 DEF TwoBytesBit
    <2> HIDE DEF a, b
    <2> QED
        BY <2>1, <2>2, <2>3 DEF FromBits
<1>4. PICK h \in Nat : accumulator = 32 * h + 16 * b4 + 8 * b3 + 4 * b2 + 2 * b1 + b0
    <2>1. accumulator = 32 * (accumulator \div 32) + (accumulator % 32) /\ accumulator \div 32 \in Nat
        BY <1>0
    <2> QED
        BY <1>0, <1>3, <2>1
<1>5. PICK N \in Nat : N = Len(bytes) /\ N = n
    BY <1>0, LenProperties
<1>6. /\ Digit(bytes, 8 * n) = b0 /\ Digit(bytes, 8 * n - 1) = b1
      /\ Digit(bytes, 8 * n - 2) = b2 /\ Digit(bytes, 8 * n - 3) = b3
    <2>1. \A q \in 0..3 : q \in 0..11 /\ 8 * n - q >= 1
        BY <1>0, <1>5
    <2>2. \A q \in 0..3 : Digit(bytes, 8 * n - q) = Bit(b, q)
        <3>1. \A q \in 0..3 : Digit(bytes, 8 * n - q) = TwoBytesBit(a, b, q)
            BY <1>0, <2>1, DigitBefore
        <3>2. \A q \in 0..3 : TwoBytesBit(a, b, q) = Bit(b, q)
            BY DEF TwoBytesBit
        <3> QED
            BY <3>1, <3>2
    <2>3. 8 * n - 0 = 8 * n
        BY <1>5
    <2> QED
        BY <1>2, <2>2, <2>3
<1>7. /\ Digit(bytes, 8 * n + 1) = 0 /\ Digit(bytes, 8 * n + 2) = 0
      /\ Digit(bytes, 8 * n + 3) = 0 /\ Digit(bytes, 8 * n + 4) = 0
    BY <1>5 DEF Digit
<1> HIDE DEF a, b
<1>8. CASE r = 1
    <2>1. /\ 5 * g = 8 * n + 4 /\ 5 * g - 1 = 8 * n + 3 /\ 5 * g - 2 = 8 * n + 2
          /\ 5 * g - 3 = 8 * n + 1 /\ 5 * g - 4 = 8 * n
        BY <1>0, <1>5, <1>8
    <2>2. Group(bytes, g) = FromBits(b0, 0, 0, 0, 0)
        BY <1>6, <1>7, <2>1 DEF Group
    <2>3. (accumulator * 16) % 32 = 16 * b0
        BY <1>4
    <2> QED
        BY <1>8, <2>2, <2>3 DEF FromBits
<1>9. CASE r = 2
    <2>1. /\ 5 * g = 8 * n + 3 /\ 5 * g - 1 = 8 * n + 2 /\ 5 * g - 2 = 8 * n + 1
          /\ 5 * g - 3 = 8 * n /\ 5 * g - 4 = 8 * n - 1
        BY <1>0, <1>5, <1>9
    <2>2. Group(bytes, g) = FromBits(b1, b0, 0, 0, 0)
        BY <1>6, <1>7, <2>1 DEF Group
    <2>3. (accumulator * 8) % 32 = 16 * b1 + 8 * b0
        BY <1>4
    <2> QED
        BY <1>9, <2>2, <2>3 DEF FromBits
<1>10. CASE r = 3
    <2>1. /\ 5 * g = 8 * n + 2 /\ 5 * g - 1 = 8 * n + 1 /\ 5 * g - 2 = 8 * n
          /\ 5 * g - 3 = 8 * n - 1 /\ 5 * g - 4 = 8 * n - 2
        BY <1>0, <1>5, <1>10
    <2>2. Group(bytes, g) = FromBits(b2, b1, b0, 0, 0)
        BY <1>6, <1>7, <2>1 DEF Group
    <2>3. (accumulator * 4) % 32 = 16 * b2 + 8 * b1 + 4 * b0
        BY <1>4
    <2> QED
        BY <1>10, <2>2, <2>3 DEF FromBits
<1>11. CASE r = 4
    <2>1. /\ 5 * g = 8 * n + 1 /\ 5 * g - 1 = 8 * n /\ 5 * g - 2 = 8 * n - 1
          /\ 5 * g - 3 = 8 * n - 2 /\ 5 * g - 4 = 8 * n - 3
        BY <1>0, <1>5, <1>11
    <2>2. Group(bytes, g) = FromBits(b3, b2, b1, b0, 0)
        BY <1>6, <1>7, <2>1 DEF Group
    <2>3. (accumulator * 2) % 32 = 16 * b3 + 8 * b2 + 4 * b1 + 2 * b0
        BY <1>4
    <2> QED
        BY <1>11, <2>2, <2>3 DEF FromBits
<1> QED
    BY <1>0, <1>8, <1>9, <1>10, <1>11

\* What _convert_bits has between two bytes.
Taken == [accumulator: Nat, bits: 0..4, result: Seq(Symbols)]
NothingTaken == [accumulator |-> 0, bits |-> 0, result |-> <<>>]

LEMMA TakeByteIs ==
    ASSUME NEW s \in Taken, NEW v \in Octets
    PROVE  LET t == TakeByte(s, v)
               bits == s.bits + 8
           IN  /\ t \in Taken
               /\ t.accumulator = s.accumulator * 256 + v /\ t.bits = bits % 5
               /\ Len(t.result) = Len(s.result) + (bits \div 5)
               /\ \A i \in 1..Len(s.result) : t.result[i] = s.result[i]
               /\ \A i \in 1..(bits \div 5) :
                      t.result[Len(s.result) + i] = (t.accumulator \div 2^(bits - 5 * i)) % 32
<1> DEFINE accumulator == s.accumulator * 256 + v
           bits == s.bits + 8
           groups == [i \in 1..(bits \div 5) |-> (accumulator \div 2^(bits - 5 * i)) % 32]
<1>1. s.accumulator \in Nat /\ s.bits \in 0..4 /\ s.result \in Seq(Symbols)
    BY DEF Taken
<1>2. accumulator \in Nat /\ bits \in 8..12 /\ bits \div 5 \in 1..2 /\ bits % 5 \in 0..4
    <2>1. accumulator \in Nat
        <3>1. v \in Nat /\ \A c, e \in Nat : c * 256 + e \in Nat
            BY DEF Octets
        <3> QED
            BY <1>1, <3>1, Zenon
    <2>2. \A d \in 0..4 : d + 8 \in 8..12 /\ (d + 8) \div 5 \in 1..2 /\ (d + 8) % 5 \in 0..4
        OBVIOUS
    <2> QED
        BY <1>1, <2>1, <2>2
<1>3. \A i \in 1..(bits \div 5) : bits - 5 * i \in 0..7
    BY <1>2
<1>4. \A k \in 0..7 : (accumulator \div 2^k) % 32 \in Symbols
    <2> HIDE DEF accumulator
    <2>1. \A k \in 0..7 : k = 0 \/ k = 1 \/ k = 2 \/ k = 3 \/ k = 4 \/ k = 5 \/ k = 6 \/ k = 7
        OBVIOUS
    <2>2. \A k \in 0..7 : 2^k \in Nat \ {0}
        <3>1. /\ 2^0 \in Nat \ {0} /\ 2^1 \in Nat \ {0} /\ 2^2 \in Nat \ {0} /\ 2^3 \in Nat \ {0}
              /\ 2^4 \in Nat \ {0} /\ 2^5 \in Nat \ {0} /\ 2^6 \in Nat \ {0} /\ 2^7 \in Nat \ {0}
            OBVIOUS
        <3> QED
            BY <2>1, <3>1, Zenon
    <2>3. \A p \in Nat \ {0} : (accumulator \div p) % 32 \in 0..31
        <3>1. \A p \in Nat \ {0} : accumulator \div p \in Nat
            BY <1>2
        <3>2. \A m \in Nat : m % 32 \in 0..31
            OBVIOUS
        <3> QED
            BY <3>1, <3>2
    <2> QED
        BY <2>2, <2>3 DEF Symbols
<1> HIDE DEF accumulator, bits
<1>5. groups \in [1..(bits \div 5) -> Symbols]
    BY <1>3, <1>4
<1>6. bits \div 5 \in Nat
    BY <1>2
<1>7. groups \in Seq(Symbols) /\ Len(groups) = bits \div 5
    <2> HIDE DEF groups
    <2> QED
        BY <1>5, <1>6, FunctionIsSequence
<1>8. TakeByte(s, v) = [accumulator |-> accumulator, bits |-> bits % 5, result |-> s.result \o groups]
    BY DEF TakeByte, accumulator, bits
<1>9. \A i \in 1..(bits \div 5) : groups[i] = (accumulator \div 2^(bits - 5 * i)) % 32
    OBVIOUS
<1> HIDE DEF groups
<1>10. /\ s.result \o groups \in Seq(Symbols)
       /\ Len(s.result \o groups) = Len(s.result) + Len(groups)
       /\ \A i \in 1..(Len(s.result) + Len(groups)) :
              (s.result \o groups)[i] = IF i <= Len(s.result) THEN s.result[i]
                                        ELSE groups[i - Len(s.result)]
    BY <1>1, <1>7, ConcatProperties
<1>11. PICK m \in Nat : m = Len(s.result)
    BY <1>1, LenProperties
<1>12. /\ \A i \in 1..m : (s.result \o groups)[i] = s.result[i]
       /\ \A i \in 1..(bits \div 5) : (s.result \o groups)[m + i] = groups[i]
    <2>1. ASSUME NEW i \in 1..(bits \div 5)
          PROVE  m + i \in 1..(m + (bits \div 5)) /\ ~ (m + i <= m) /\ (m + i) - m = i
        BY <1>6, <1>11
    <2> QED
        BY <1>6, <1>7, <1>10, <1>11, <2>1
<1>13. TakeByte(s, v) \in Taken
    BY <1>2, <1>8, <1>10 DEF Taken
<1> QED
    BY <1>7, <1>8, <1>9, <1>10, <1>11, <1>12, <1>13 DEF accumulator, bits

\* After n bytes: the digits that are left over, and the groups.
TakenFrom(s, bytes, n) ==
    /\ s \in Taken /\ s.bits = (8 * n) % 5 /\ Len(s.result) = (8 * n) \div 5
    /\ IF n = 0 THEN s.accumulator = 0 ELSE Ends(s.accumulator, Previous(bytes, n), bytes[n])
    /\ \A g \in 1..Len(s.result) : s.result[g] = Group(bytes, g)

LEMMA TakeNext ==
    ASSUME NEW bytes \in Seq(Octets), NEW n \in 1..Len(bytes), NEW s, TakenFrom(s, bytes, n - 1)
    PROVE  TakenFrom(TakeByte(s, bytes[n]), bytes, n)
<1> DEFINE v == bytes[n]
           t == TakeByte(s, v)
           bits == s.bits + 8
           a == Previous(bytes, n)
<1>1. a \in Octets /\ v \in Octets
    BY BytesAreOctets
<1>2. s \in Taken /\ s.accumulator \in Nat /\ s.bits \in 0..4
    BY DEF TakenFrom, Taken
<1>3. PICK N \in Nat : N = Len(bytes)
    BY LenProperties
<1>4. n \in 1..N /\ n \in Nat /\ n - 1 \in Nat
    BY <1>3
<1> HIDE DEF v, t
<1>5. /\ t \in Taken /\ t.accumulator \in Nat
      /\ t.accumulator = s.accumulator * 256 + v /\ t.bits = bits % 5
      /\ Len(t.result) = Len(s.result) + (bits \div 5)
      /\ \A i \in 1..Len(s.result) : t.result[i] = s.result[i]
      /\ \A i \in 1..(bits \div 5) :
             t.result[Len(s.result) + i] = (t.accumulator \div 2^(bits - 5 * i)) % 32
    <2>1. t \in Taken => t.accumulator \in Nat
        BY DEF Taken
    <2> QED
        BY <1>1, <1>2, <2>1, TakeByteIs DEF t
<1>6. PICK m \in Nat : m = n - 1
    BY <1>4
<1>7. s.bits = (8 * m) % 5 /\ Len(s.result) = (8 * m) \div 5
    BY <1>6 DEF TakenFrom
<1>8. PICK q \in Nat, d \in 0..4 : /\ 8 * m = 5 * q + d /\ s.bits = d /\ Len(s.result) = q
                                   /\ 8 * n = 5 * q + (d + 8) /\ bits = d + 8
    <2>1. PICK q \in Nat, d \in 0..4 :
              q = (8 * m) \div 5 /\ d = (8 * m) % 5 /\ 8 * m = 5 * q + d
        <3>1. PICK e \in Nat : e = 8 * m
            OBVIOUS
        <3>2. e \div 5 \in Nat /\ e % 5 \in 0..4 /\ e = 5 * (e \div 5) + (e % 5)
            OBVIOUS
        <3> QED
            BY <3>1, <3>2
    <2>2. 8 * n = 5 * q + (d + 8)
        BY <1>4, <1>6, <2>1
    <2> QED
        BY <1>7, <2>1, <2>2
<1>9. /\ \A d1 \in 0..4 : (5 * q + (d1 + 8)) % 5 = (d1 + 8) % 5
      /\ \A d1 \in 0..4 : (5 * q + (d1 + 8)) \div 5 = q + ((d1 + 8) \div 5)
    OBVIOUS
<1>10. t.bits = (8 * n) % 5 /\ Len(t.result) = (8 * n) \div 5
    BY <1>5, <1>8, <1>9
<1>11. Ends(t.accumulator, a, v)
    <2>1. s.accumulator % 256 = a
        <3>1. CASE n = 1
            <4>1. s.accumulator = 0 /\ a = 0
                BY <3>1 DEF TakenFrom, Previous
            <4> QED
                BY <4>1
        <3>2. CASE n # 1
            <4>1. n - 1 # 0 /\ n - 1 \in 1..Len(bytes)
                BY <1>3, <1>4, <3>2
            <4>2. Ends(s.accumulator, Previous(bytes, n - 1), bytes[n - 1])
                BY <4>1 DEF TakenFrom
            <4>3. a = bytes[n - 1] /\ Previous(bytes, n - 1) \in Octets /\ a \in Octets
                BY <1>1, <3>2, <4>1, BytesAreOctets DEF Previous
            <4>4. PICK c \in Octets : Ends(s.accumulator, c, a)
                BY <4>2, <4>3
            <4>5. PICK x \in Nat : x = s.accumulator
                BY <1>2
            <4>6. x % 65536 = 256 * c + a /\ c \in 0..255 /\ a \in 0..255
                BY <4>3, <4>4, <4>5, SMT DEF Ends, Octets
            <4> HIDE DEF a
            <4>7. x % 256 = a
                <5>1. PICK h \in Nat : x = 65536 * h + 256 * c + a
                    <6>1. /\ x = 65536 * (x \div 65536) + (x % 65536)
                          /\ x \div 65536 \in Nat
                        BY SMT
                    <6>2. x = 65536 * (x \div 65536) + 256 * c + a
                        BY <4>6, <6>1, SMT
                    <6> QED
                        BY <6>1, <6>2, SMT
                <5>2. PICK j \in Nat : j = 256 * h + c
                    BY <4>6, SMT
                <5>3. x = 256 * j + a
                    BY <4>6, <5>1, <5>2, SMT
                <5> QED
                    BY <4>6, <5>3, SMT
            <4> QED
                BY <4>5, <4>7, SMT
        <3> QED
            BY <3>1, <3>2
    <2> HIDE DEF a
    <2>2. PICK h \in Nat : s.accumulator = 256 * h + a
        <3>1. s.accumulator = 256 * (s.accumulator \div 256) + (s.accumulator % 256)
              /\ s.accumulator \div 256 \in Nat
            BY <1>2
        <3> QED
            BY <2>1, <3>1
    <2>3. PICK y \in Nat : y = 256 * a + v /\ y < 65536
        BY <1>1, SMT DEF Octets
    <2>4. t.accumulator = 65536 * h + y
        BY <1>1, <1>5, <2>2, <2>3, SMT DEF Octets
    <2>5. (65536 * h + y) % 65536 = y
        BY <2>3, SMT
    <2> QED
        BY <2>3, <2>4, <2>5, SMT DEF Ends
<1>12. ASSUME NEW g \in 1..Len(t.result) PROVE t.result[g] = Group(bytes, g)
    <2>1. CASE g <= Len(s.result)
        <3>1. g \in 1..Len(s.result)
            BY <1>4, <1>6, <1>7, <1>10, <2>1
        <3> QED
            BY <1>5, <3>1 DEF TakenFrom
    <2>2. CASE ~ (g <= Len(s.result))
        <3>1. PICK j \in 1..2 : j = (d + 8) \div 5 /\ Len(t.result) = q + j
            BY <1>5, <1>8
        <3>2. PICK i \in 1..j : g = q + i
            <4>1. g - q \in 1..j /\ g = q + (g - q)
                BY <1>8, <2>2, <3>1
            <4> QED
                BY <4>1
        <3>3. PICK k \in 0..7 : k = (d + 8) - 5 * i
            <4>1. (d + 8) - 5 * i \in 0..7
                BY <3>1
            <4> QED
                BY <4>1
        <3>4. g \in Nat \ {0} /\ 5 * g = 8 * n - k
            BY <1>8, <3>1, <3>2, <3>3
        <3>5. t.result[g] = (t.accumulator \div 2^k) % 32
            BY <1>5, <1>8, <3>1, <3>2, <3>3
        <3>6. Ends(t.accumulator, Previous(bytes, n), bytes[n]) /\ t.accumulator \in Nat
            BY <1>5, <1>11 DEF v
        <3>7. Completes(bytes, n, t.accumulator, g, k)
            BY <3>4, <3>6 DEF Completes
        <3>8. (t.accumulator \div 2^k) % 32 = Group(bytes, g)
            <4>1. \A accumulator : Completes(bytes, n, accumulator, g, k) =>
                                       (accumulator \div 2^k) % 32 = Group(bytes, g)
                BY GroupTaken
            <4> QED
                BY <3>7, <4>1
        <3> QED
            BY <3>5, <3>8
    <2> QED
        BY <2>1, <2>2
<1>13. TakenFrom(t, bytes, n)
    BY <1>4, <1>5, <1>10, <1>11, <1>12 DEF TakenFrom, v
<1> QED
    BY <1>13 DEF t, v

LEMMA ConvertBitsIs ==
    ASSUME NEW bytes \in Seq(Octets), NEW N \in Nat \ {0}, N = Len(bytes)
    PROVE  /\ ConvertBits(bytes) \in Seq(Symbols)
           /\ Len(ConvertBits(bytes)) = (8 * N + 4) \div 5
           /\ \A g \in 1..((8 * N + 4) \div 5) : ConvertBits(bytes)[g] = Group(bytes, g)
<1> DEFINE step == [n \in 1..N |-> [s \in Taken |-> TakeByte(s, bytes[n])]]
           Takes(f) == f = [n \in 0..N |-> IF n = 0 THEN NothingTaken
                                           ELSE TakeByte(f[n - 1], bytes[n])]
<1>1. NothingTaken \in Taken /\ \A n \in 1..N : bytes[n] \in Octets
    <2>1. <<>> \in Seq(Symbols) /\ 0 \in 0..4
        OBVIOUS
    <2> QED
        BY <2>1, ElementOfSeq DEF NothingTaken, Taken
<1>2. \A n \in 1..N : \A s \in Taken :
          step[n][s] = TakeByte(s, bytes[n]) /\ step[n][s] \in Taken
    BY <1>1, TakeByteIs
<1>3. \A n \in 0..N : n # 0 => n \in 1..N /\ n - 1 \in 0..N
    OBVIOUS
<1> HIDE DEF step
<1>4. PICK f0 : Iterates(f0, N, NothingTaken, step) /\ \A n \in 0..N : f0[n] \in Taken
    <2>1. Stays(Taken, N, step)
        BY <1>2 DEF Stays
    <2> QED
        BY <1>1, <2>1, Iteration
<1>5. Takes(f0)
    <2>1. f0 = [n \in 0..N |-> IF n = 0 THEN NothingTaken ELSE step[n][f0[n - 1]]]
        BY <1>4 DEF Iterates
    <2>2. \A n \in 0..N : (IF n = 0 THEN NothingTaken ELSE step[n][f0[n - 1]])
                          = IF n = 0 THEN NothingTaken ELSE TakeByte(f0[n - 1], bytes[n])
        BY <1>2, <1>3, <1>4, Zenon
    <2> QED
        BY <2>1, <2>2, Zenon
<1>6. PICK f : Takes(f) /\ f = CHOOSE h : Takes(h)
    <2> HIDE DEF Takes
    <2> QED
        BY <1>5
<1>7. f[0] = NothingTaken /\ \A n \in 1..N : f[n] = TakeByte(f[n - 1], bytes[n])
    <2>1. 0 \in 0..N /\ \A n \in 1..N : n \in 0..N /\ n # 0
        OBVIOUS
    <2> QED
        BY <1>6, <2>1, Zenon
<1> DEFINE end == f[N]
<1>8. ConvertBits(bytes) = IF end.bits = 0 THEN end.result
                           ELSE Append(end.result, (end.accumulator * 2^(5 - end.bits)) % 32)
    <2> DEFINE last == (CHOOSE h : Takes(h))[N]
    <2>1. ConvertBits(bytes) = IF last.bits = 0 THEN last.result
                               ELSE Append(last.result, (last.accumulator * 2^(5 - last.bits)) % 32)
        BY DEF ConvertBits, NothingTaken
    <2>2. last = end
        BY <1>6
    <2> HIDE DEF last, end
    <2> QED
        BY <2>1, <2>2
<1> HIDE DEF Takes
<1>9. TakenFrom(end, bytes, N)
    <2> DEFINE G == {n \in 0..N : TakenFrom(f[n], bytes, n)}
    <2>1. 0 \in G
        <3>1. (8 * 0) % 5 = 0 /\ (8 * 0) \div 5 = 0 /\ 0 \in 0..N
            OBVIOUS
        <3>2. /\ NothingTaken.accumulator = 0 /\ NothingTaken.bits = 0
              /\ NothingTaken.result = <<>> /\ Len(<<>>) = 0
            BY DEF NothingTaken
        <3>3. \A g \in 1..0 : FALSE
            OBVIOUS
        <3> QED
            BY <1>1, <1>7, <3>1, <3>2, <3>3 DEF TakenFrom
    <2>2. ASSUME NEW n \in 1..N, n - 1 \in G PROVE n \in G
        <3>1. n \in 1..Len(bytes) /\ n \in 0..N /\ TakenFrom(f[n - 1], bytes, n - 1)
            BY <2>2
        <3>2. TakenFrom(TakeByte(f[n - 1], bytes[n]), bytes, n)
            BY <3>1, TakeNext
        <3> QED
            BY <1>7, <3>1, <3>2
    <2>3. N \in 0..N /\ \A n \in 0..N : n \in G
        <3> HIDE DEF G
        <3>1. \A n \in 1..N : n - 1 \in G => n \in G
            BY <2>2
        <3>2. N \in 0..N
            OBVIOUS
        <3> QED
            BY <2>1, <3>1, <3>2, CountingUp
    <2> QED
        BY <2>3
<1> HIDE DEF end
<1>10. PICK q \in Nat, r \in 0..4 :
           /\ 8 * N = 5 * q + r /\ end.bits = r /\ Len(end.result) = q
           /\ end.result \in Seq(Symbols) /\ end.accumulator \in Nat
    <2>1. PICK e \in Nat : e = 8 * N
        OBVIOUS
    <2>2. e \div 5 \in Nat /\ e % 5 \in 0..4 /\ e = 5 * (e \div 5) + (e % 5)
        OBVIOUS
    <2>3. end.result \in Seq(Symbols) /\ end.accumulator \in Nat
        BY <1>9 DEF TakenFrom, Taken
    <2>4. end.bits = e % 5 /\ Len(end.result) = e \div 5
        BY <1>9, <2>1 DEF TakenFrom
    <2> QED
        BY <2>1, <2>2, <2>3, <2>4
<1>11. /\ \A g \in 1..q : end.result[g] = Group(bytes, g)
       /\ Ends(end.accumulator, Previous(bytes, N), bytes[N])
    BY <1>9, <1>10 DEF TakenFrom
<1>12. CASE r = 0
    <2>1. (8 * N + 4) \div 5 = q
        BY <1>10, <1>12
    <2> QED
        BY <1>8, <1>10, <1>11, <1>12, <2>1
<1>13. CASE r # 0
    <2>1. (8 * N + 4) \div 5 = q + 1 /\ r \in 1..4
        <3>1. \A e \in 1..4 : (5 * q + e + 4) \div 5 = q + 1
            OBVIOUS
        <3>2. r \in 1..4 /\ 8 * N + 4 = 5 * q + r + 4
            BY <1>10, <1>13
        <3> QED
            BY <3>1, <3>2
    <2>2. 5 * (q + 1) = 8 * N + (5 - r) /\ q + 1 \in Nat \ {0}
        BY <1>10
    <2> DEFINE last == (end.accumulator * 2^(5 - r)) % 32
    <2>3. last = Group(bytes, q + 1)
        <3>1. N \in 1..Len(bytes)
            OBVIOUS
        <3>2. Fills(bytes, N, end.accumulator, q + 1, r)
            BY <1>10, <1>11, <2>1, <2>2, <3>1 DEF Fills
        <3>3. \A accumulator : Fills(bytes, N, accumulator, q + 1, r) =>
                  (accumulator * 2^(5 - r)) % 32 = Group(bytes, q + 1)
            BY LastGroup
        <3> QED
            BY <3>2, <3>3
    <2>4. last \in Symbols
        <3>1. end.accumulator * 2^(5 - r) \in Nat
            <4>1. 5 - r = 1 \/ 5 - r = 2 \/ 5 - r = 3 \/ 5 - r = 4
                BY <2>1
            <4>2. 2^1 \in Nat /\ 2^2 \in Nat /\ 2^3 \in Nat /\ 2^4 \in Nat
                OBVIOUS
            <4>3. 2^(5 - r) \in Nat
                BY <4>1, <4>2, Zenon
            <4>4. \A x, y \in Nat : x * y \in Nat
                OBVIOUS
            <4> QED
                BY <1>10, <4>3, <4>4, Zenon
        <3>2. \A x \in Nat : x % 32 \in Symbols
            BY DEF Symbols
        <3> QED
            BY <3>1, <3>2, Zenon
    <2> HIDE DEF last
    <2>5. ConvertBits(bytes) = Append(end.result, last)
        BY <1>8, <1>10, <1>13 DEF last
    <2>6. /\ Append(end.result, last) \in Seq(Symbols)
          /\ Len(Append(end.result, last)) = q + 1
          /\ \A i \in 1..q : Append(end.result, last)[i] = end.result[i]
          /\ Append(end.result, last)[q + 1] = last
        BY <1>10, <2>4, AppendProperties
    <2>7. \A g \in 1..(q + 1) : g \in 1..q \/ g = q + 1
        OBVIOUS
    <2> QED
        BY <1>11, <2>1, <2>3, <2>5, <2>6, <2>7
<1> QED
    BY <1>12, <1>13

\* The reference takes the digits of version byte and key.
LEMMA PayloadIs ==
    ASSUME NEW key \in Seq(Octets), NEW N \in Nat, N = Len(key) + 1
    PROVE  LET bytes == <<0>> \o key
           IN  /\ bytes \in Seq(Octets) /\ Len(bytes) = N /\ N # 0
               /\ Payload(key) \in Seq(Symbols) /\ Len(Payload(key)) = (8 * N + 4) \div 5
               /\ \A g \in 1..((8 * N + 4) \div 5) : Payload(key)[g] = Group(bytes, g)
<1> DEFINE bytes == <<0>> \o key
           G == (8 * N + 4) \div 5
           digits == [p \in 1..(5 * G) |->
               IF p > 8 * N THEN 0 ELSE Bit(bytes[(p + 7) \div 8], (8 - (p % 8)) % 8)]
<1>1. Len(key) \in Nat /\ N # 0
    BY LenProperties
<1>2. bytes \in Seq(Octets) /\ Len(bytes) = N
    <2>1. <<0>> \in Seq(Octets) /\ Len(<<0>>) = 1
        BY DEF Octets
    <2> QED
        BY <1>1, <2>1, ConcatProperties
<1> HIDE DEF bytes
<1>3. G \in Nat /\ 5 * G \in Nat
    <2>1. \A e \in Nat : e \div 5 \in Nat /\ 5 * e \in Nat
        OBVIOUS
    <2>2. 8 * N + 4 \in Nat
        OBVIOUS
    <2> QED
        BY <2>1, <2>2
<1>4. Digits(key) = digits
    BY <1>2 DEF Digits, bytes
<1> HIDE DEF G
<1>5. \A p \in 1..(5 * G) : digits[p] = Digit(bytes, p)
    BY <1>2 DEF Digit
<1>6. \A p \in 1..(5 * G) : Digit(bytes, p) \in {0, 1}
    <2>1. ASSUME NEW p \in 1..(5 * G), ~ (p > 8 * N) PROVE Digit(bytes, p) \in {0, 1}
        <3>1. (p + 7) \div 8 \in 1..N /\ (8 - (p % 8)) % 8 \in 0..7
            <4>1. p \in 1..(8 * N)
                BY <1>3, <2>1
            <4>2. \A e \in 0..7 : (8 - e) % 8 \in 0..7
                OBVIOUS
            <4>3. p % 8 \in 0..7
                BY <4>1
            <4>4. (p + 7) \div 8 \in 1..N
                BY <4>1
            <4> QED
                BY <4>2, <4>3, <4>4
        <3>2. bytes[(p + 7) \div 8] \in Octets
            BY <1>2, <3>1, ElementOfSeq
        <3> QED
            BY <1>2, <2>1, <3>1, <3>2, OctetBits DEF Digit
    <2>2. ASSUME NEW p \in 1..(5 * G), p > 8 * N PROVE Digit(bytes, p) \in {0, 1}
        BY <1>2, <2>2 DEF Digit
    <2> QED
        BY <2>1, <2>2
<1>7. Len(Digits(key)) = 5 * G
    <2>1. digits \in [1..(5 * G) -> {0, 1}]
        BY <1>5, <1>6
    <2> HIDE DEF digits
    <2> QED
        BY <1>3, <1>4, <2>1, FunctionIsSequence
<1>8. Len(Digits(key)) \div 5 = G
    BY <1>3, <1>7
<1> DEFINE d == Digits(key)
           groups == [g \in 1..G |-> 16 * d[5 * (g - 1) + 1] + 8 * d[5 * (g - 1) + 2]
                         + 4 * d[5 * (g - 1) + 3] + 2 * d[5 * (g - 1) + 4] + d[5 * (g - 1) + 5]]
<1>9. Payload(key) = groups
    BY <1>8 DEF Payload
<1>10. ASSUME NEW g \in 1..G PROVE groups[g] = Group(bytes, g) /\ Group(bytes, g) \in Symbols
    <2>1. /\ 5 * (g - 1) + 1 = 5 * g - 4 /\ 5 * (g - 1) + 2 = 5 * g - 3 /\ 5 * (g - 1) + 3 = 5 * g - 2
          /\ 5 * (g - 1) + 4 = 5 * g - 1 /\ 5 * (g - 1) + 5 = 5 * g
          /\ 5 * g - 4 \in 1..(5 * G) /\ 5 * g - 3 \in 1..(5 * G) /\ 5 * g - 2 \in 1..(5 * G)
          /\ 5 * g - 1 \in 1..(5 * G) /\ 5 * g \in 1..(5 * G)
        BY <1>3
    <2>2. \A p \in 1..(5 * G) : d[p] = Digit(bytes, p)
        BY <1>4, <1>5
    <2>3. groups[g] = 16 * d[5 * (g - 1) + 1] + 8 * d[5 * (g - 1) + 2]
                      + 4 * d[5 * (g - 1) + 3] + 2 * d[5 * (g - 1) + 4] + d[5 * (g - 1) + 5]
        BY Zenon
    <2> HIDE DEF d, groups
    <2>4. groups[g] = Group(bytes, g)
        BY <2>1, <2>2, <2>3 DEF Group, FromBits
    <2>5. Group(bytes, g) \in Symbols
        BY <1>6, <2>1, BitsFrom DEF Group
    <2> QED
        BY <2>4, <2>5
<1>11. groups \in [1..G -> Symbols]
    BY <1>10
<1> HIDE DEF groups
<1>12. Payload(key) \in Seq(Symbols) /\ Len(Payload(key)) = G
    BY <1>3, <1>9, <1>11, FunctionIsSequence
<1> QED
    BY <1>1, <1>2, <1>9, <1>10, <1>12 DEF bytes, G

LEMMA ConvertBitsIsPayload ==
    ASSUME NEW key \in Seq(Octets)
    PROVE  ConvertBits(<<0>> \o key) \in Seq(Symbols) /\ ConvertBits(<<0>> \o key) = Payload(key)
<1>1. PICK N \in Nat : N = Len(key) + 1
    <2>1. Len(key) \in Nat
        BY LenProperties
    <2> QED
        BY <2>1
<1> DEFINE bytes == <<0>> \o key
           G == (8 * N + 4) \div 5
<1>2. /\ bytes \in Seq(Octets) /\ Len(bytes) = N /\ N # 0
      /\ Payload(key) \in Seq(Symbols) /\ Len(Payload(key)) = G
      /\ \A g \in 1..G : Payload(key)[g] = Group(bytes, g)
    BY <1>1, PayloadIs
<1> HIDE DEF bytes
<1>3. /\ ConvertBits(bytes) \in Seq(Symbols) /\ Len(ConvertBits(bytes)) = G
      /\ \A g \in 1..G : ConvertBits(bytes)[g] = Group(bytes, g)
    BY <1>2, ConvertBitsIs
<1> HIDE DEF G
<1>4. \A g \in 1..G : ConvertBits(bytes)[g] = Payload(key)[g]
    BY <1>2, <1>3
<1>5. ConvertBits(bytes) = Payload(key)
    BY <1>2, <1>3, <1>4, SeqEqual
<1> QED
    BY <1>3, <1>5 DEF bytes

LEMMA HrpIsSymbols ==
    ASSUME NEW network \in Supported
    PROVE  HrpExpand(network) \in Seq(Symbols)
<1>1. <<11, 1, 19, 16, 1, 0>> \in Seq(Symbols)
    BY DEF Symbols
<1>2. <<11, 1, 19, 16, 1, 20, 5, 19, 20, 0>> \in Seq(Symbols)
    BY DEF Symbols
<1>3. network = "mainnet" \/ network = "testnet"
    BY DEF Supported
<1> QED
    BY <1>1, <1>2, <1>3 DEF HrpExpand

\* The address that the gateway derives from a key of any length, for either
\* network, is the one the wallet shows: the groups that _convert_bits takes
\* out of its accumulator are the digits of version byte and key in fives, and
\* _polymod with the five entries of its table leaves the remainder of the
\* division by the polynomial of the first.
THEOREM DerivedAsShown ==
    \A key \in Seq(Octets), network \in Supported :
        DerivedAddress(key, network) = WalletAddress(key, network)
<1> SUFFICES ASSUME NEW key \in Seq(Octets), NEW network \in Supported
             PROVE  DerivedAddress(key, network) = WalletAddress(key, network)
    OBVIOUS
<1>1. /\ Payload(key) \in Seq(Symbols) /\ ConvertBits(<<0>> \o key) = Payload(key)
    BY ConvertBitsIsPayload
<1>2. HrpExpand(network) \in Seq(Symbols)
    BY HrpIsSymbols
<1>3. Zeros \in Seq(Symbols)
    BY ConstantRegisters, RegistersAreSequences
<1>4. HrpExpand(network) \o Payload(key) \o Zeros \in Seq(Symbols)
    BY <1>1, <1>2, <1>3, ConcatProperties
<1>5. Polymod(HrpExpand(network) \o Payload(key) \o Zeros)
      = Remainder(HrpExpand(network) \o Payload(key) \o Zeros)
    BY <1>4, PolymodIsRemainder
<1> QED
    BY <1>1, <1>5 DEF DerivedAddress, WalletAddress, CreateChecksum

----------------------------------------------------------------------------
(* Different keys have different addresses                                 *)

\* Equal groups have equal digits.
LEMMA SameDigits ==
    ASSUME NEW b1 \in Seq(Octets), NEW b2 \in Seq(Octets), NEW N \in Nat, N = Len(b1), N = Len(b2),
           \A g \in 1..((8 * N + 4) \div 5) : Group(b1, g) = Group(b2, g),
           NEW p \in 1..(8 * N)
    PROVE  Digit(b1, p) = Digit(b2, p)
<1>1. \A e \in 1..(8 * N + 4) : Digit(b1, e) \in {0, 1} /\ Digit(b2, e) \in {0, 1}
    <2>1. ASSUME NEW b \in Seq(Octets), N = Len(b), NEW e \in 1..(8 * N + 4)
          PROVE  Digit(b, e) \in {0, 1}
        <3>1. CASE e > 8 * N
            BY <2>1, <3>1 DEF Digit
        <3>2. CASE ~ (e > 8 * N)
            <4>1. \A i \in 0..7 : (8 - i) % 8 \in 0..7
                OBVIOUS
            <4>2. e % 8 \in 0..7 /\ (e + 7) \div 8 \in 1..N
                BY <3>2
            <4>3. (8 - (e % 8)) % 8 \in 0..7
                BY <4>1, <4>2
            <4>4. b[(e + 7) \div 8] \in Octets
                BY <2>1, <4>2, ElementOfSeq
            <4> QED
                BY <2>1, <3>2, <4>3, <4>4, OctetBits DEF Digit
        <3> QED
            BY <3>1, <3>2
    <2> QED
        BY <2>1
<1>2. PICK g \in 1..((8 * N + 4) \div 5), j \in 0..4 : p = 5 * g - j /\ 5 * g \in 5..(8 * N + 4)
    <2>1. PICK h \in Nat, i \in 0..4 : p + 4 = 5 * h + i
        <3>1. PICK e \in Nat : e = p + 4
            OBVIOUS
        <3>2. e \div 5 \in Nat /\ e % 5 \in 0..4 /\ e = 5 * (e \div 5) + (e % 5)
            OBVIOUS
        <3> QED
            BY <3>1, <3>2
    <2>2. p = 5 * h - (4 - i) /\ 4 - i \in 0..4 /\ h >= 1 /\ 5 * h \in 5..(8 * N + 4)
        BY <2>1
    <2>3. h \in 1..((8 * N + 4) \div 5)
        <3>1. PICK e \in Nat : e = 8 * N + 4
            OBVIOUS
        <3>2. e = 5 * (e \div 5) + (e % 5) /\ e % 5 \in 0..4 /\ e \div 5 \in Nat
            OBVIOUS
        <3>3. 5 * h <= e /\ h >= 1
            BY <2>2, <3>1
        <3>4. h \in 1..(e \div 5)
            BY <3>2, <3>3
        <3> QED
            BY <3>1, <3>4
    <2> QED
        BY <2>2, <2>3
<1>3. Group(b1, g) = Group(b2, g)
    BY <1>2
<1>4. \A i \in 0..4 : 5 * g - i \in 1..(8 * N + 4)
    BY <1>2
<1>5. ASSUME NEW b \in Seq(Octets), \A e \in 1..(8 * N + 4) : Digit(b, e) \in {0, 1}
      PROVE  /\ Bit(Group(b, g), 0) = Digit(b, 5 * g) /\ Bit(Group(b, g), 1) = Digit(b, 5 * g - 1)
             /\ Bit(Group(b, g), 2) = Digit(b, 5 * g - 2) /\ Bit(Group(b, g), 3) = Digit(b, 5 * g - 3)
             /\ Bit(Group(b, g), 4) = Digit(b, 5 * g - 4)
    <2>1. /\ Digit(b, 5 * g) \in {0, 1} /\ Digit(b, 5 * g - 1) \in {0, 1} /\ Digit(b, 5 * g - 2) \in {0, 1}
          /\ Digit(b, 5 * g - 3) \in {0, 1} /\ Digit(b, 5 * g - 4) \in {0, 1}
        <3>1. /\ 5 * g \in 1..(8 * N + 4) /\ 5 * g - 1 \in 1..(8 * N + 4) /\ 5 * g - 2 \in 1..(8 * N + 4)
              /\ 5 * g - 3 \in 1..(8 * N + 4) /\ 5 * g - 4 \in 1..(8 * N + 4)
            BY <1>2
        <3> QED
            BY <1>5, <3>1
    <2> QED
        BY <2>1, BitsFrom DEF Group
<1>6. /\ Digit(b1, 5 * g) = Digit(b2, 5 * g) /\ Digit(b1, 5 * g - 1) = Digit(b2, 5 * g - 1)
      /\ Digit(b1, 5 * g - 2) = Digit(b2, 5 * g - 2) /\ Digit(b1, 5 * g - 3) = Digit(b2, 5 * g - 3)
      /\ Digit(b1, 5 * g - 4) = Digit(b2, 5 * g - 4)
    BY <1>1, <1>3, <1>5
<1>7. \/ p = 5 * g \/ p = 5 * g - 1 \/ p = 5 * g - 2 \/ p = 5 * g - 3 \/ p = 5 * g - 4
    BY <1>2
<1> QED
    BY <1>6, <1>7

\* Keys with the same digits are the same.
LEMMA SamePayload ==
    ASSUME NEW k1 \in Seq(Octets), NEW k2 \in Seq(Octets), Payload(k1) = Payload(k2)
    PROVE  k1 = k2
<1>1. PICK N \in Nat, M \in Nat : N = Len(k1) + 1 /\ M = Len(k2) + 1
    <2>1. Len(k1) \in Nat /\ Len(k2) \in Nat
        BY LenProperties
    <2> QED
        BY <2>1
<1> DEFINE b1 == <<0>> \o k1
           b2 == <<0>> \o k2
<1>2. /\ b1 \in Seq(Octets) /\ Len(b1) = N /\ Len(Payload(k1)) = (8 * N + 4) \div 5
      /\ \A g \in 1..((8 * N + 4) \div 5) : Payload(k1)[g] = Group(b1, g)
    BY <1>1, PayloadIs
<1>3. /\ b2 \in Seq(Octets) /\ Len(b2) = M /\ Len(Payload(k2)) = (8 * M + 4) \div 5
      /\ \A g \in 1..((8 * M + 4) \div 5) : Payload(k2)[g] = Group(b2, g)
    BY <1>1, PayloadIs
<1> HIDE DEF b1, b2
<1>4. N = M
    <2>1. (8 * N + 4) \div 5 = (8 * M + 4) \div 5
        BY <1>2, <1>3
    <2> QED
        BY <2>1
<1>5. \A g \in 1..((8 * N + 4) \div 5) : Group(b1, g) = Group(b2, g)
    BY <1>2, <1>3, <1>4
<1>6. \A p \in 1..(8 * N) : Digit(b1, p) = Digit(b2, p)
    BY <1>2, <1>3, <1>4, <1>5, SameDigits
<1>7. ASSUME NEW n \in 1..N PROVE b1[n] = b2[n]
    <2>1. ASSUME NEW q \in 0..7 PROVE Bit(b1[n], q) = Bit(b2[n], q)
        <3>1. 8 * n - q \in 1..(8 * N) /\ 8 * n - q >= 1 /\ q \in 0..11 /\ q < 8
            OBVIOUS
        <3>2. Digit(b1, 8 * n - q) = TwoBytesBit(Previous(b1, n), b1[n], q)
            BY <1>2, <3>1, DigitBefore
        <3>3. Digit(b2, 8 * n - q) = TwoBytesBit(Previous(b2, n), b2[n], q)
            BY <1>3, <1>4, <3>1, DigitBefore
        <3> QED
            BY <1>6, <3>1, <3>2, <3>3 DEF TwoBytesBit
    <2>2. b1[n] \in Octets /\ b2[n] \in Octets
        BY <1>2, <1>3, <1>4, ElementOfSeq
    <2> QED
        BY <2>1, <2>2, OctetBits
<1>8. ASSUME NEW i \in 1..Len(k1) PROVE k1[i] = k2[i]
    <2>1. i + 1 \in 1..N
        BY <1>1
    <2>2. b1[i + 1] = k1[i] /\ b2[i + 1] = k2[i]
        <3>1. <<0>> \in Seq(Octets) /\ Len(<<0>>) = 1
            BY DEF Octets
        <3>2. /\ \A j \in 1..(1 + Len(k1)) : b1[j] = IF j <= 1 THEN <<0>>[j] ELSE k1[j - 1]
              /\ \A j \in 1..(1 + Len(k2)) : b2[j] = IF j <= 1 THEN <<0>>[j] ELSE k2[j - 1]
            BY <3>1, ConcatProperties DEF b1, b2
        <3>3. i + 1 \in 1..(1 + Len(k1)) /\ i + 1 \in 1..(1 + Len(k2)) /\ ~ (i + 1 <= 1) /\ (i + 1) - 1 = i
            BY <1>1, <1>4
        <3> QED
            BY <3>2, <3>3
    <2> QED
        BY <1>7, <2>1, <2>2
<1>9. Len(k1) = Len(k2)
    <2>1. Len(k1) \in Nat /\ Len(k2) \in Nat
        BY LenProperties
    <2> QED
        BY <1>1, <1>4, <2>1
<1> QED
    BY <1>8, <1>9, SeqEqual

\* An address belongs to one key and one network: no two keys, of whatever
\* lengths, and no two networks have the same.
THEOREM AddressTellsKey ==
    \A k1, k2 \in Seq(Octets), n1, n2 \in Supported :
        WalletAddress(k1, n1) = WalletAddress(k2, n2) => k1 = k2 /\ n1 = n2
<1> SUFFICES ASSUME NEW k1 \in Seq(Octets), NEW k2 \in Seq(Octets),
                    NEW n1 \in Supported, NEW n2 \in Supported,
                    WalletAddress(k1, n1) = WalletAddress(k2, n2)
             PROVE  k1 = k2 /\ n1 = n2
    OBVIOUS
<1> DEFINE check(k, n) == Plus(Remainder(HrpExpand(n) \o Payload(k) \o Zeros), One)
<1>1. n1 = n2 /\ Payload(k1) \o check(k1, n1) = Payload(k2) \o check(k2, n2)
    <2>1. /\ WalletAddress(k1, n1).network = n1 /\ WalletAddress(k2, n2).network = n2
          /\ WalletAddress(k1, n1).symbols = Payload(k1) \o check(k1, n1)
          /\ WalletAddress(k2, n2).symbols = Payload(k2) \o check(k2, n2)
        BY DEF WalletAddress
    <2> HIDE DEF check
    <2> QED
        BY <2>1
<1>2. ASSUME NEW k \in Seq(Octets), NEW n \in Supported
      PROVE  /\ Payload(k) \in Seq(Symbols)
             /\ check(k, n) \in Seq(Symbols) /\ Len(check(k, n)) = 8
    <2>1. Payload(k) \in Seq(Symbols)
        BY ConvertBitsIsPayload
    <2>2. Polymod(HrpExpand(n) \o Payload(k) \o Zeros) \in Registers
          /\ Polymod(HrpExpand(n) \o Payload(k) \o Zeros) = Remainder(HrpExpand(n) \o Payload(k) \o Zeros)
        BY <2>1, HrpIsSymbols, ConstantRegisters, RegistersAreSequences, ConcatProperties, PolymodIsRemainder
    <2>3. check(k, n) \in Registers
        BY <2>2, ConstantRegisters, PlusIs
    <2> HIDE DEF check
    <2> QED
        BY <2>1, <2>3, RegistersAreSequences
<1> HIDE DEF check
<1>3. PICK p1, p2, c1, c2 \in Seq(Symbols) :
          /\ p1 = Payload(k1) /\ p2 = Payload(k2) /\ c1 = check(k1, n1) /\ c2 = check(k2, n2)
          /\ Len(c1) = 8 /\ Len(c2) = 8 /\ p1 \o c1 = p2 \o c2
    <2>1. /\ Payload(k1) \in Seq(Symbols) /\ Payload(k2) \in Seq(Symbols)
          /\ check(k1, n1) \in Seq(Symbols) /\ check(k2, n2) \in Seq(Symbols)
          /\ Len(check(k1, n1)) = 8 /\ Len(check(k2, n2)) = 8
        BY <1>2
    <2> QED
        BY <1>1, <2>1, Zenon
<1>4. PICK m \in Nat : Len(p1) = m /\ Len(p2) = m
    <2>1. Len(p1) \in Nat /\ Len(p2) \in Nat
        BY LenProperties
    <2>2. Len(p1 \o c1) = Len(p1) + Len(c1) /\ Len(p2 \o c2) = Len(p2) + Len(c2)
        BY ConcatProperties
    <2> QED
        BY <1>3, <2>1, <2>2
<1>5. ASSUME NEW i \in 1..m PROVE p1[i] = p2[i]
    <2>1. /\ (p1 \o c1)[i] = IF i <= Len(p1) THEN p1[i] ELSE c1[i - Len(p1)]
          /\ (p2 \o c2)[i] = IF i <= Len(p2) THEN p2[i] ELSE c2[i - Len(p2)]
        BY <1>3, <1>4, ConcatProperties
    <2> QED
        BY <1>3, <1>4, <2>1
<1>6. p1 = p2
    BY <1>4, <1>5, SeqEqual
<1> QED
    BY <1>1, <1>3, <1>6, SamePayload

----------------------------------------------------------------------------
(* The checks of a request                                                 *)

LEMMA NoFailure ==
    ASSUME NEW N \in Nat, NEW checks, DOMAIN checks = 1..N,
           \A i \in 1..N : (checks[i][1] = TRUE) => checks[i][2] # "ok",
           \A i \in 1..N : checks[i][1] \in BOOLEAN
    PROVE  (FirstFailure(checks) = "ok") <=> \A i \in 1..N : checks[i][1] = FALSE
<1> DEFINE failing == {i \in DOMAIN checks: checks[i][1]}
           first == CHOOSE i \in failing: \A j \in failing: i <= j
<1>1. FirstFailure(checks) = IF failing = {} THEN "ok" ELSE checks[first][2]
    BY DEF FirstFailure
<1>2. failing \subseteq 1..N /\ \A i \in 1..N : (i \in failing) <=> (checks[i][1] = TRUE)
    OBVIOUS
<1> HIDE DEF failing
<1>3. CASE failing = {}
    BY <1>1, <1>2, <1>3
<1>4. CASE failing # {}
    <2>1. IsFiniteSet(failing) /\ failing \subseteq Nat
        <3>1. IsFiniteSet(1..N) /\ 1..N \subseteq Nat
            BY FS_Interval
        <3>2. IsFiniteSet(failing)
            BY <1>2, <3>1, FS_Subset
        <3> QED
            BY <1>2, <3>1, <3>2, Zenon
    <2>2. \E i \in failing : \A j \in failing : i <= j
        BY <1>4, <2>1, LeastNumber
    <2>3. first \in failing
        BY <2>2
    <2> HIDE DEF first
    <2> QED
        BY <1>1, <1>2, <1>4, <2>3
<1> QED
    BY <1>3, <1>4

\* The four checks of every mode.
LEMMA FourChecks ==
    ASSUME NEW c1 \in BOOLEAN, NEW c2 \in BOOLEAN, NEW c3 \in BOOLEAN, NEW c4 \in BOOLEAN,
           NEW s1, NEW s2, NEW s3, NEW s4,
           c1 => s1 # "ok", c2 => s2 # "ok", c3 => s3 # "ok", c4 => s4 # "ok"
    PROVE  (FirstFailure(<<<<c1, s1>>, <<c2, s2>>, <<c3, s3>>, <<c4, s4>>>>) = "ok")
           <=> ~c1 /\ ~c2 /\ ~c3 /\ ~c4
<1> DEFINE checks == <<<<c1, s1>>, <<c2, s2>>, <<c3, s3>>, <<c4, s4>>>>
<1>1. DOMAIN checks = 1..4
    OBVIOUS
<1>2. \A i \in 1..4 : i = 1 \/ i = 2 \/ i = 3 \/ i = 4
    OBVIOUS
<1>3. /\ checks[1] = <<c1, s1>> /\ checks[2] = <<c2, s2>> /\ checks[3] = <<c3, s3>>
      /\ checks[4] = <<c4, s4>>
    OBVIOUS
<1> HIDE DEF checks
<1>4. /\ checks[1][1] = c1 /\ checks[2][1] = c2 /\ checks[3][1] = c3 /\ checks[4][1] = c4
      /\ checks[1][2] = s1 /\ checks[2][2] = s2 /\ checks[3][2] = s3 /\ checks[4][2] = s4
    BY <1>3
<1>5. \A i \in 1..4 : checks[i][1] \in BOOLEAN /\ ((checks[i][1] = TRUE) => checks[i][2] # "ok")
    BY <1>2, <1>4
<1>6. (FirstFailure(checks) = "ok") <=> \A i \in 1..4 : checks[i][1] = FALSE
    BY <1>1, <1>5, NoFailure
<1>7. (\A i \in 1..4 : checks[i][1] = FALSE) <=> ~c1 /\ ~c2 /\ ~c3 /\ ~c4
    BY <1>2, <1>4
<1> QED
    BY <1>6, <1>7 DEF checks

----------------------------------------------------------------------------
(* The inductive invariant                                                 *)

\* The message of a challenge names its own address and its own nonce.
Drafted ==
    /\ challenges \in Seq([address: Addresses, network: Networks,
                           message: [address: Addresses, nonce: Nat]])
    /\ \A i \in DOMAIN challenges : challenges[i].message = Message(challenges[i].address, i)

\* Wallets sign messages of challenges there are, and other texts.
Signed ==
    \A s \in signatures :
        /\ s.kind = "schnorr" /\ s.key \in Wallets /\ s.challenge \in DOMAIN challenges
        /\ s.message \in {challenges[s.challenge].message, Message(NoAddress, s.challenge)}

\* The answer is verify_signature's of the request that was made.
Answered ==
    answer # None =>
        \E i, j \in DOMAIN challenges, f \in Form, s \in Submitted, k \in KeyText :
            LET r == [address |-> challenges[j].address, form |-> f, signature |-> s, publicKey |-> k]
                said == Verify(i, r)
            IN  answer = [challenge |-> i, request |-> r, said |-> said,
                          report |-> IF said = "ok" THEN Report(i, r) ELSE None]

VerifierInv == Drafted /\ Signed /\ Answered

ChallengeRecord == [address: Addresses, network: Networks, message: [address: Addresses, nonce: Nat]]

\* A challenge more leaves the others where they are.
LEMMA ChallengesGrow ==
    ASSUME Drafted, CreateChallenge
    PROVE  /\ Drafted'
           /\ \A i \in DOMAIN challenges : i \in DOMAIN challenges' /\ challenges'[i] = challenges[i]
<1>1. PICK address \in Addresses, n \in Networks :
          challenges' = Append(challenges, [address |-> address, network |-> n,
                                            message |-> Message(address, Len(challenges) + 1)])
    BY DEF CreateChallenge
<1>2. challenges \in Seq(ChallengeRecord)
    BY DEF Drafted, ChallengeRecord
<1>3. PICK m \in Nat : m = Len(challenges) /\ DOMAIN challenges = 1..m
    BY <1>2, LenProperties
<1> DEFINE c == [address |-> address, network |-> n, message |-> Message(address, m + 1)]
<1>4. c \in ChallengeRecord /\ c.message = Message(c.address, m + 1)
    BY DEF ChallengeRecord, Message
<1>5. challenges' = Append(challenges, c)
    BY <1>1, <1>3
<1> HIDE DEF c
<1>6. /\ challenges' \in Seq(ChallengeRecord) /\ Len(challenges') = m + 1
      /\ \A i \in 1..m : challenges'[i] = challenges[i]
      /\ challenges'[m + 1] = c
    BY <1>2, <1>3, <1>4, <1>5, AppendProperties
<1>7. DOMAIN challenges' = 1..(m + 1)
    BY <1>6, LenProperties
<1>8. \A i \in 1..(m + 1) : i \in 1..m \/ i = m + 1
    OBVIOUS
<1>9. \A i \in DOMAIN challenges' : challenges'[i].message = Message(challenges'[i].address, i)
    BY <1>3, <1>4, <1>6, <1>7, <1>8 DEF Drafted
<1>10. Drafted'
    BY <1>6, <1>9 DEF Drafted, ChallengeRecord, Addresses, Shown, Message
<1> QED
    BY <1>3, <1>6, <1>7, <1>10

\* Whatever verify_signature says depends on the mode and the challenges alone.
LEMMA SameAnswer ==
    ASSUME UNCHANGED <<mode, challenges, signatures>>, NEW i, NEW r
    PROVE  Verify(i, r)' = Verify(i, r) /\ Report(i, r)' = Report(i, r) /\ Submitted' = Submitted
BY DEF Verify, Report, Submitted

LEMMA AnswerStays ==
    ASSUME UNCHANGED <<mode, challenges, signatures>>,
           NEW i \in DOMAIN challenges, NEW j \in DOMAIN challenges, NEW f \in Form, NEW s \in Submitted,
           NEW k \in KeyText,
           LET r == [address |-> challenges[j].address, form |-> f, signature |-> s, publicKey |-> k]
               said == Verify(i, r)
           IN  answer' = [challenge |-> i, request |-> r, said |-> said,
                          report |-> IF said = "ok" THEN Report(i, r) ELSE None]
    PROVE  Answered'
<1> DEFINE r == [address |-> challenges[j].address, form |-> f, signature |-> s, publicKey |-> k]
<1>1. PICK q : q = r
    OBVIOUS
<1>2. answer' = [challenge |-> i, request |-> q, said |-> Verify(i, q),
                 report |-> IF Verify(i, q) = "ok" THEN Report(i, q) ELSE None]
    BY <1>1
<1>3. Verify(i, q)' = Verify(i, q) /\ Report(i, q)' = Report(i, q)
    BY SameAnswer
<1>4. answer' = [challenge |-> i, request |-> q, said |-> Verify(i, q)',
                 report |-> IF Verify(i, q)' = "ok" THEN Report(i, q)' ELSE None]
    BY <1>2, <1>3
<1>5. q = r' /\ i \in DOMAIN challenges' /\ j \in DOMAIN challenges' /\ s \in Submitted'
    BY <1>1, SameAnswer
<1>6. answer' = [challenge |-> i, request |-> r', said |-> Verify(i, r)',
                 report |-> IF Verify(i, r)' = "ok" THEN Report(i, r)' ELSE None]
    BY <1>4, <1>5 DEF Verify, Report
<1> QED
    BY <1>5, <1>6, Zenon DEF Answered

LEMMA InitVerifierInv == Init => VerifierInv
BY DEF Init, VerifierInv, Drafted, Signed, Answered

LEMMA NextVerifierInv == VerifierInv /\ [Next]_vars => VerifierInv'
<1> SUFFICES ASSUME VerifierInv, [Next]_vars PROVE VerifierInv'
    OBVIOUS
<1> USE DEF VerifierInv
<1>1. CASE CreateChallenge
    <2>1. /\ Drafted'
          /\ \A i \in DOMAIN challenges : i \in DOMAIN challenges' /\ challenges'[i] = challenges[i]
        BY <1>1, ChallengesGrow
    <2>2. signatures' = signatures /\ answer' = None
        BY <1>1 DEF CreateChallenge
    <2>3. Signed'
        BY <2>1, <2>2 DEF Signed
    <2>4. Answered'
        BY <2>2 DEF Answered
    <2> QED
        BY <2>1, <2>3, <2>4
<1>2. CASE WalletSigns
    <2>1. PICK w \in Wallets, i \in DOMAIN challenges, tampered \in BOOLEAN :
              signatures' = signatures \cup
                  {[kind |-> "schnorr", key |-> w, challenge |-> i,
                    message |-> IF tampered THEN Message(NoAddress, i) ELSE challenges[i].message]}
        BY <1>2 DEF WalletSigns
    <2>2. challenges' = challenges /\ answer' = None
        BY <1>2 DEF WalletSigns
    <2>3. Drafted'
        BY <2>2 DEF Drafted
    <2>4. Signed'
        BY <2>1, <2>2 DEF Signed
    <2>5. Answered'
        BY <2>2 DEF Answered
    <2> QED
        BY <2>3, <2>4, <2>5
<1>3. CASE Approve
    <2>1. UNCHANGED <<mode, challenges, signatures>>
        BY <1>3 DEF Approve
    <2>2. Drafted' /\ Signed'
        BY <2>1 DEF Drafted, Signed
    <2>3. PICK i, j \in DOMAIN challenges, f \in Form, s \in Submitted, k \in KeyText :
              LET r == [address |-> challenges[j].address, form |-> f, signature |-> s, publicKey |-> k]
                  said == Verify(i, r)
              IN  answer' = [challenge |-> i, request |-> r, said |-> said,
                             report |-> IF said = "ok" THEN Report(i, r) ELSE None]
        BY <1>3, Zenon DEF Approve
    <2>4. Answered'
        BY <2>1, <2>3, AnswerStays, Zenon
    <2> QED
        BY <2>2, <2>4
<1>4. CASE UNCHANGED vars
    <2>1. UNCHANGED <<mode, challenges, signatures>> /\ answer' = answer
        BY <1>4 DEF vars
    <2>2. Drafted' /\ Signed'
        BY <2>1 DEF Drafted, Signed
    <2>3. CASE answer = None
        BY <2>1, <2>2, <2>3 DEF Answered
    <2>4. CASE answer # None
        <3>1. PICK i, j \in DOMAIN challenges, f \in Form, s \in Submitted, k \in KeyText :
                  LET r == [address |-> challenges[j].address, form |-> f, signature |-> s, publicKey |-> k]
                      said == Verify(i, r)
                  IN  answer = [challenge |-> i, request |-> r, said |-> said,
                                report |-> IF said = "ok" THEN Report(i, r) ELSE None]
            BY <2>4, Zenon DEF Answered
        <3>2. Answered'
            BY <2>1, <3>1, AnswerStays, Zenon
        <3> QED
            BY <2>2, <3>2
    <2> QED
        BY <2>3, <2>4
<1> QED
    BY <1>1, <1>2, <1>3, <1>4 DEF Next

LEMMA VerifierInvariant == Spec => []VerifierInv
BY InitVerifierInv, NextVerifierInv, PTL DEF Spec

----------------------------------------------------------------------------
(* What is accepted                                                        *)

LEMMA DerivedIsShown ==
    ASSUME NEW k \in Keys, NEW n \in Supported
    PROVE  Derived[k][n] = Shown[k][n]
<1>1. Bytes[k] \in Seq(Octets)
    BY KeysAssumption DEF Octets
<1>2. DerivedAddress(Bytes[k], n) = WalletAddress(Bytes[k], n)
    BY <1>1, DerivedAsShown
<1> QED
    BY <1>2 DEF Derived, Shown

\* All checks of _verify_native_signature together.
Passes(c, r) ==
    LET n == Normalized(c.network)
    IN  /\ r.publicKey \notin {"none", "blank", "nonhex", "short"}
        /\ r.signature.kind # "short" /\ IsHex(r.signature)
        /\ n \in Supported
        /\ ~(r.publicKey \in Keys /\ n \in Supported /\ Derived[r.publicKey][n] # StripLower(r))
        /\ ~(IsHex(r.signature) /\ ~Verifies(r.publicKey, r.signature, c.message))

LEMMA NativeIs == ASSUME NEW c, NEW r PROVE (Native(c, r) = "ok") <=> Passes(c, r)
<1> DEFINE n == Normalized(c.network)
           c1 == r.publicKey \in {"none", "blank"}
           c2 == r.publicKey = "nonhex"
           c3 == r.publicKey = "short"
           c4 == r.signature.kind = "short"
           c5 == ~IsHex(r.signature)
           c6 == n \notin Supported
           c7 == r.publicKey \in Keys /\ n \in Supported /\ Derived[r.publicKey][n] # StripLower(r)
           c8 == IsHex(r.signature) /\ ~Verifies(r.publicKey, r.signature, c.message)
<1>1. Native(c, r) = FirstFailure(<<
          <<c1, "public_key_required">>, <<c2, "public_key_invalid_hex">>,
          <<c3, "public_key_invalid_length">>, <<c4, "signature_invalid_length">>,
          <<c5, "signature_invalid_hex">>, <<c6, "unsupported_network">>,
          <<c7, "address_does_not_match_public_key">>, <<c8, "auth_signature_invalid">> >>)
    BY DEF Native
<1>2. Passes(c, r) <=> ~c1 /\ ~c2 /\ ~c3 /\ ~c4 /\ ~c5 /\ ~c6 /\ ~c7 /\ ~c8
    BY DEF Passes
<1>3. /\ c1 \in BOOLEAN /\ c2 \in BOOLEAN /\ c3 \in BOOLEAN /\ c4 \in BOOLEAN
      /\ c5 \in BOOLEAN /\ c6 \in BOOLEAN /\ c7 \in BOOLEAN /\ c8 \in BOOLEAN
    BY DEF IsHex
<1> HIDE DEF c1, c2, c3, c4, c5, c6, c7, c8
<1> DEFINE checks == <<
          <<c1, "public_key_required">>, <<c2, "public_key_invalid_hex">>,
          <<c3, "public_key_invalid_length">>, <<c4, "signature_invalid_length">>,
          <<c5, "signature_invalid_hex">>, <<c6, "unsupported_network">>,
          <<c7, "address_does_not_match_public_key">>, <<c8, "auth_signature_invalid">> >>
<1>4. DOMAIN checks = 1..8
    OBVIOUS
<1>5. \A i \in 1..8 : i = 1 \/ i = 2 \/ i = 3 \/ i = 4 \/ i = 5 \/ i = 6 \/ i = 7 \/ i = 8
    OBVIOUS
<1>6. /\ checks[1][1] = c1 /\ checks[2][1] = c2 /\ checks[3][1] = c3 /\ checks[4][1] = c4
      /\ checks[5][1] = c5 /\ checks[6][1] = c6 /\ checks[7][1] = c7 /\ checks[8][1] = c8
    OBVIOUS
<1>7. /\ checks[1][2] # "ok" /\ checks[2][2] # "ok" /\ checks[3][2] # "ok" /\ checks[4][2] # "ok"
      /\ checks[5][2] # "ok" /\ checks[6][2] # "ok" /\ checks[7][2] # "ok" /\ checks[8][2] # "ok"
    OBVIOUS
<1> HIDE DEF checks
<1>8. \A i \in 1..8 : checks[i][1] \in BOOLEAN /\ checks[i][2] # "ok"
    BY <1>3, <1>5, <1>6, <1>7
<1>9. (FirstFailure(checks) = "ok") <=> \A i \in 1..8 : checks[i][1] = FALSE
    BY <1>4, <1>8, NoFailure
<1>10. (\A i \in 1..8 : checks[i][1] = FALSE) <=> ~c1 /\ ~c2 /\ ~c3 /\ ~c4 /\ ~c5 /\ ~c6 /\ ~c7 /\ ~c8
    BY <1>5, <1>6
<1> QED
    BY <1>1, <1>2, <1>9, <1>10 DEF checks

LEMMA VerifyIs ==
    ASSUME ChecksSignatures, NEW i, NEW r
    PROVE  (Verify(i, r) = "ok") <=> /\ challenges[i].address = StripLower(r)
                                     /\ r.signature.kind # "blank"
                                     /\ Passes(challenges[i], r)
<1> DEFINE c == challenges[i]
           c1 == c.address # StripLower(r)
           c2 == r.signature.kind = "blank"
           c3 == mode \notin {"disabled", "demo"} /\ Native(c, r) # "ok"
           c4 == mode = "demo" /\ Compared(i, r) # "ok"
           s3 == Native(c, r)
           s4 == Compared(i, r)
<1>1. Verify(i, r) = FirstFailure(<<<<c1, "auth_challenge_address_mismatch">>,
                                    <<c2, "signature_required">>, <<c3, s3>>, <<c4, s4>> >>)
    BY DEF Verify
<1>2. c1 \in BOOLEAN /\ c2 \in BOOLEAN /\ c3 \in BOOLEAN /\ c4 \in BOOLEAN
    OBVIOUS
<1>3. (c3 => s3 # "ok") /\ (c4 => s4 # "ok")
    OBVIOUS
<1>4. (c3 <=> Native(c, r) # "ok") /\ ~c4
    BY DEF ChecksSignatures
<1>5. (Native(c, r) = "ok") <=> Passes(c, r)
    BY NativeIs
<1>6. (Verify(i, r) = "ok") <=> ~c1 /\ ~c2 /\ ~c3 /\ ~c4
    <2> HIDE DEF c1, c2, c3, c4, s3, s4
    <2> QED
        BY <1>1, <1>2, <1>3, FourChecks
<1> QED
    BY <1>4, <1>5, <1>6

\* Drafting a challenge, answering it: what an answer says of its request.
LEMMA AnswerIs ==
    ASSUME VerifierInv, answer # None
    PROVE  \E i, j \in DOMAIN challenges, f \in Form, s \in Submitted, k \in KeyText :
               /\ answer.challenge = i
               /\ answer.request = [address |-> challenges[j].address, form |-> f,
                                    signature |-> s, publicKey |-> k]
               /\ answer.said = Verify(i, answer.request)
               /\ Accepted => answer.report = Report(i, answer.request)
<1>1. PICK i, j \in DOMAIN challenges, f \in Form, s \in Submitted, k \in KeyText :
          LET r == [address |-> challenges[j].address, form |-> f, signature |-> s, publicKey |-> k]
              said == Verify(i, r)
          IN  answer = [challenge |-> i, request |-> r, said |-> said,
                        report |-> IF said = "ok" THEN Report(i, r) ELSE None]
    BY Zenon DEF VerifierInv, Answered
<1>2. PICK r : r = [address |-> challenges[j].address, form |-> f, signature |-> s, publicKey |-> k]
    OBVIOUS
<1>3. answer = [challenge |-> i, request |-> r, said |-> Verify(i, r),
                report |-> IF Verify(i, r) = "ok" THEN Report(i, r) ELSE None]
    BY <1>1, <1>2
<1>4. /\ answer.challenge = i /\ answer.request = r /\ answer.said = Verify(i, answer.request)
      /\ Accepted => answer.report = Report(i, answer.request)
    BY <1>3 DEF Accepted
<1> QED
    BY <1>2, <1>4

LEMMA SignerFromInv == VerifierInv => SignerOwnsAddress
<1> SUFFICES ASSUME VerifierInv, Accepted, ChecksSignatures
             PROVE  \E s \in signatures:
                        /\ s.challenge = answer.challenge /\ s.message = Challenge.message
                        /\ answer.report.network \in Supported
                        /\ Shown[s.key][answer.report.network] = Challenge.address
                        /\ answer.report.recorded = s.key
    BY DEF SignerOwnsAddress
<1>1. answer # None
    BY DEF Accepted, None
<1>2. PICK i, j \in DOMAIN challenges, f \in Form, s \in Submitted, k \in KeyText :
          /\ answer.challenge = i
          /\ answer.request = [address |-> challenges[j].address, form |-> f,
                               signature |-> s, publicKey |-> k]
          /\ answer.said = Verify(i, answer.request)
          /\ Accepted => answer.report = Report(i, answer.request)
    BY <1>1, AnswerIs
<1> DEFINE r == answer.request
           n == Normalized(challenges[i].network)
<1>3. r.signature = s /\ r.publicKey = k /\ StripLower(r) = challenges[j].address
    BY <1>2 DEF StripLower
<1>4. Passes(challenges[i], r) /\ challenges[i].address = StripLower(r)
    BY <1>2, VerifyIs DEF Accepted
<1>5. /\ IsHex(s) /\ n \in Supported /\ Verifies(k, s, challenges[i].message)
      /\ k \in Keys => Derived[k][n] = challenges[i].address
    BY <1>3, <1>4 DEF Passes
<1>6. s \in signatures
    BY <1>5 DEF IsHex, Submitted, Demo, Malformed
<1>7. k \in Wallets /\ s.key = k /\ s.message = challenges[i].message /\ k \in Keys
    BY <1>5 DEF Verifies, Keys
<1>8. s.challenge = i
    <2>1. /\ s.challenge \in DOMAIN challenges
          /\ s.message \in {challenges[s.challenge].message, Message(NoAddress, s.challenge)}
        BY <1>6 DEF VerifierInv, Signed
    <2>2. \A a, nonce : Message(a, nonce).nonce = nonce
        BY DEF Message
    <2>3. \A e \in DOMAIN challenges : challenges[e].message.nonce = e
        BY <2>2 DEF VerifierInv, Drafted
    <2>4. s.message.nonce = s.challenge
        BY <2>1, <2>2, <2>3
    <2> QED
        BY <1>7, <2>3, <2>4
<1>9. answer.report.network = n /\ answer.report.recorded = k
    <2>1. answer.report = Report(i, r)
        BY <1>2
    <2>2. Report(i, r) = [verifier |-> "native", network |-> n, recorded |-> r.publicKey]
        BY DEF ChecksSignatures, Report
    <2> QED
        BY <1>3, <2>1, <2>2
<1>10. Shown[k][n] = challenges[i].address
    BY <1>5, <1>7, DerivedIsShown
<1>11. Challenge = challenges[i]
    BY <1>2 DEF Challenge
<1> HIDE DEF n
<1> QED
    BY <1>2, <1>5, <1>6, <1>7, <1>8, <1>9, <1>10, <1>11

LEMMA OwnerFromInv == VerifierInv => OwnerIsAccepted
<1> SUFFICES ASSUME VerifierInv, answer # None, ChecksSignatures,
                    answer.request.address = Challenge.address,
                    Normalized(Challenge.network) \in Supported,
                    answer.request.publicKey \in Wallets,
                    Shown[answer.request.publicKey][Normalized(Challenge.network)] = Challenge.address,
                    answer.request.signature \in signatures,
                    answer.request.signature.key = answer.request.publicKey,
                    answer.request.signature.message = Challenge.message
             PROVE  Accepted
    BY DEF OwnerIsAccepted
<1>1. PICK i, j \in DOMAIN challenges, f \in Form, s \in Submitted, k \in KeyText :
          /\ answer.challenge = i
          /\ answer.request = [address |-> challenges[j].address, form |-> f,
                               signature |-> s, publicKey |-> k]
          /\ answer.said = Verify(i, answer.request)
          /\ Accepted => answer.report = Report(i, answer.request)
    BY AnswerIs
<1> DEFINE r == answer.request
           c == challenges[i]
           n == Normalized(c.network)
<1>2. Challenge = c /\ StripLower(r) = c.address
    BY <1>1 DEF Challenge, StripLower
<1>3. r.publicKey \in Keys /\ r.publicKey \notin {"none", "blank", "nonhex", "short"}
    BY KeysAssumption DEF Keys, Malformed
<1>4. r.signature.kind = "schnorr" /\ IsHex(r.signature)
    BY DEF VerifierInv, Signed, IsHex
<1>5. Derived[r.publicKey][n] = StripLower(r)
    BY <1>2, <1>3, DerivedIsShown
<1>6. Verifies(r.publicKey, r.signature, c.message)
    BY <1>2 DEF Verifies
<1>7. Passes(c, r)
    BY <1>2, <1>3, <1>4, <1>5, <1>6 DEF Passes
<1>8. Verify(i, r) = "ok"
    BY <1>2, <1>4, <1>7, VerifyIs
<1> QED
    BY <1>1, <1>8 DEF Accepted

\* In native mode, and in any mode but the two that check no signature, a
\* request succeeds only with a signature by the wallet that shows the
\* challenge's address for the network of the session, made over that
\* challenge's message for that challenge; that wallet's key goes into the
\* session. For any keys of any length, any networks and modes.
THEOREM OnlyTheSigner == Spec => []SignerOwnsAddress
BY VerifierInvariant, SignerFromInv, PTL

\* Who signed the message of a challenge for the address that the own wallet
\* shows is never turned away.
THEOREM OwnerPasses == Spec => []OwnerIsAccepted
BY VerifierInvariant, OwnerFromInv, PTL

=============================================================================
