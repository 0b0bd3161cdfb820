---------------------------- MODULE KaspaAddress ----------------------------
(***************************************************************************)
(* The derivation of an address from a public key in verifier.py, and, as  *)
(* the reference, the address a wallet shows for its key.  An address is   *)
(* its network, whose prefix it begins with, and its symbols, numbers      *)
(* below 32; CHARSET only spells them.                                     *)
(*                                                                         *)
(* A checksum has 40 bits.  It is kept as its eight groups of five, most   *)
(* significant first, so that every number stays below 2^31.  A real key   *)
(* has 32 bytes; with the version byte the 33 leave the same four bits     *)
(* over as the 3 bytes of a key of two.                                    *)
(***************************************************************************)
EXTENDS Naturals, Sequences

GENERATOR == <<<<19,  3, 25, 11, 25,  3, 19,  1>>,
               <<15,  6, 27, 22, 27,  6, 15,  2>>,
               <<30, 12, 31,  5, 31, 12, 30,  4>>,
               <<21, 24, 23, 10, 23, 24, 21,  8>>,
               << 3, 25,  7, 20,  7, 25,  3, 16>>>>

One == [i \in 1..8 |-> IF i = 8 THEN 1 ELSE 0]
Zeros == [i \in 1..8 |-> 0]
Symbols == 0..31

\* Binary digits, and the exclusive or of two numbers below 32.
Bit(n, i) == (n \div 2^i) % 2
Xor(a, b) ==
    LET digit(i) == 2^i * ((Bit(a, i) + Bit(b, i)) % 2)
    IN  digit(0) + digit(1) + digit(2) + digit(3) + digit(4)
Plus(a, b) == <<Xor(a[1], b[1]), Xor(a[2], b[2]), Xor(a[3], b[3]), Xor(a[4], b[4]),
                Xor(a[5], b[5]), Xor(a[6], b[6]), Xor(a[7], b[7]), Xor(a[8], b[8])>>

\* Mutant: the table is read from its other end.
AbsorbedBackwards(c, value) ==
    LET sum[i \in 0..5] ==
            IF i = 0 THEN Tail(c) \o <<value>>
            ELSE IF Bit(c[1], i - 1) = 1 THEN Plus(sum[i - 1], GENERATOR[6 - i]) ELSE sum[i - 1]
    IN  sum[5]

\* One iteration of _polymod: the top five bits leave the register and come
\* back as the table's entries for those of them that are set.
Absorbed(c, value) ==
    LET sum[i \in 0..5] ==
            IF i = 0 THEN Tail(c) \o <<value>>
            ELSE IF Bit(c[1], i - 1) = 1 THEN Plus(sum[i - 1], GENERATOR[i]) ELSE sum[i - 1]
    IN  sum[5]

Polymod(values) ==
    LET checksum[n \in 0..Len(values)] ==
            IF n = 0 THEN One ELSE Absorbed(checksum[n - 1], values[n])
    IN  checksum[Len(values)]

\* _hrp_expand of "kaspa" and of "kaspatest": the low five bits of each
\* letter, and a zero.
HrpExpand(network) ==
    CASE network = "mainnet" -> <<11, 1, 19, 16, 1, 0>>
      [] network = "testnet" -> <<11, 1, 19, 16, 1, 20, 5, 19, 20, 0>>
Supported == {"mainnet", "testnet"}

CreateChecksum(network, values) == Plus(Polymod(HrpExpand(network) \o values \o Zeros), One)

\* One byte in the for loop of _convert_bits, with the while loop's groups.
TakeByte(s, value) ==
    LET accumulator == s.accumulator * 256 + value
        bits == s.bits + 8
    IN  [accumulator |-> accumulator, bits |-> bits % 5,
         result |-> s.result \o
             [i \in 1..(bits \div 5) |-> (accumulator \div 2^(bits - 5 * i)) % 32]]

ConvertBits(bytes) ==
    LET taken[n \in 0..Len(bytes)] ==
            IF n = 0 THEN [accumulator |-> 0, bits |-> 0, result |-> <<>>]
            ELSE TakeByte(taken[n - 1], bytes[n])
        end == taken[Len(bytes)]
    IN  IF end.bits = 0 THEN end.result
        ELSE Append(end.result, (end.accumulator * 2^(5 - end.bits)) % 32)

\* kaspa_address_from_xonly_public_key; the version byte 0 goes before the key.
DerivedAddress(key, network) ==
    LET values == ConvertBits(<<0>> \o key)
    IN  [network |-> network, symbols |-> values \o CreateChecksum(network, values)]

-----------------------------------------------------------------------------
(* The reference *)

\* The binary digits of version and key, with zeros up to whole groups.
Digits(key) ==
    LET bytes == <<0>> \o key
        count == 8 * Len(bytes)
    IN  [p \in 1..(5 * ((count + 4) \div 5)) |->
            IF p > count THEN 0 ELSE Bit(bytes[(p + 7) \div 8], (8 - (p % 8)) % 8)]

Payload(key) ==
    [g \in 1..(Len(Digits(key)) \div 5) |->
        LET digit(j) == Digits(key)[5 * (g - 1) + j]
        IN  16 * digit(1) + 8 * digit(2) + 4 * digit(3) + 2 * digit(4) + digit(5)]

\* The product of two elements of GF(32), whose modulus is x^5 + x^3 + 1: the
\* sum of b's digits times the powers of x times a.
Doubled(a) == IF a >= 16 THEN Xor(2 * a - 32, 9) ELSE 2 * a
Times(a, b) ==
    LET multiple[i \in 0..4] == IF i = 0 THEN a ELSE Doubled(multiple[i - 1])
        term(i) == IF Bit(b, i) = 1 THEN multiple[i] ELSE 0
    IN  Xor(Xor(Xor(Xor(term(0), term(1)), term(2)), term(3)), term(4))

\* A polynomial over GF(32), coefficients in order of falling degree, divided by
\* x^8 plus the polynomial of the table's first entry: the rest takes up the
\* next coefficient, and what gets to x^8 is replaced by so much of the entry.
Divided(rest, coefficient) ==
    Plus(Tail(rest) \o <<coefficient>>, [i \in 1..8 |-> Times(GENERATOR[1][i], rest[1])])

\* The remainder of a polynomial behind a leading 1.
Remainder(coefficients) ==
    LET rest[n \in 0..Len(coefficients)] ==
            IF n = 0 THEN One ELSE Divided(rest[n - 1], coefficients[n])
    IN  rest[Len(coefficients)]

\* The address of a key: its digits, and the eight symbols that leave 1 when
\* prefix and symbols are divided.
WalletAddress(key, network) ==
    [network |-> network,
     symbols |-> Payload(key) \o
                 Plus(Remainder(HrpExpand(network) \o Payload(key) \o Zeros), One)]
=============================================================================
