------------------------------ MODULE BlockCode ------------------------------
(***************************************************************************)
(* The block codes of frame_decode.c and ida_decode.c.  A word is the set  *)
(* of the bits that are one, so exclusive or is the symmetric difference,  *)
(* and a polynomial over GF(2) the set of its exponents.                   *)
(***************************************************************************)
EXTENDS Integers, Sequences, FiniteSetsExt

Bits(n) == {b \in 0 .. 30 : (n \div 2^b) % 2 = 1}

Xor(a, b) == (a \ b) \cup (b \ a)

\* The division, from the highest bit down.
gf2_remainder(poly, val) ==
    LET deg == Max(poly)
        rem[i \in deg .. 32] ==
          IF i = 32 THEN val
          ELSE LET v == rem[i + 1]
               IN  IF i \in v THEN Xor(v, {b + i - deg : b \in poly}) ELSE v
    IN  rem[deg]

\* Two-bit errors are entered over one-bit errors.
build_syn_TwoOverOne(poly, nbits, max_errors) ==
    LET ones == {<<gf2_remainder(poly, {b}), b>> : b \in 0 .. nbits - 1}
        twos == IF max_errors < 2 THEN {}
                ELSE UNION {{<<gf2_remainder(poly, {b1, b2}), 32 * b1 + b2>> :
                               b2 \in b1 + 1 .. nbits - 1} : b1 \in 0 .. nbits - 1}
        at(s, es) == {e[2] : e \in {d \in es : d[1] = s}}
    IN  [s \in {e[1] : e \in ones \cup twos} |->
           IF at(s, twos) = {} THEN {Max(at(s, ones))}
           ELSE LET e == Min(at(s, twos)) IN {e \div 32, e % 32}]

\* The table of the errors to correct, by syndrome: one-bit errors, and then
\* two-bit errors, the first of each syndrome, where there is no entry yet.
build_syn(poly, nbits, max_errors) ==
    LET ones == {<<gf2_remainder(poly, {b}), b>> : b \in 0 .. nbits - 1}
        twos == IF max_errors < 2 THEN {}
                ELSE UNION {{<<gf2_remainder(poly, {b1, b2}), 32 * b1 + b2>> :
                               b2 \in b1 + 1 .. nbits - 1} : b1 \in 0 .. nbits - 1}
        at(s, es) == {e[2] : e \in {d \in es : d[1] = s}}
    IN  [s \in {e[1] : e \in ones \cup twos} |->
           IF at(s, ones) # {} THEN {Max(at(s, ones))}
           ELSE LET e == Min(at(s, twos)) IN {e \div 32, e % 32}]

\* The codes in use: the polynomial, the bits read, and the table.
CodeOf(poly, nbits, max_errors, read) ==
    [poly |-> Bits(poly), read |-> read, table |-> build_syn(Bits(poly), nbits, max_errors)]

Codes ==
    [ra   |-> CodeOf(1207, 31, 2, 0 .. 30),  \* ring alerts and broadcasts
     hdr  |-> CodeOf(29, 7, 1, 0 .. 5),      \* the header of a broadcast: six bits
     da   |-> CodeOf(3545, 31, 2, 0 .. 30),  \* data
     lcw1 |-> CodeOf(29, 7, 1, 0 .. 6),
     lcw2 |-> CodeOf(465, 14, 1, 1 .. 13),   \* its last bit is not sent
     lcw3 |-> CodeOf(41, 26, 2, 0 .. 25)]

Failed == [ok |-> FALSE, word |-> {}]

\* Decoding with the table: chase_bch_decode_p, decode_lcw, the header.
Hard(c, val) ==
    LET s == gf2_remainder(c.poly, val)
    IN  CASE s = {} -> [ok |-> TRUE, word |-> val]
          [] s # {} /\ s \in DOMAIN c.table -> [ok |-> TRUE, word |-> Xor(val, c.table[s])]
          [] OTHER -> Failed

\* A block of 32 bits, the last one, 31, making the number of ones even.
check_parity32(block) ==
    LET r == Hard(Codes.ra, block \ {31})
    IN  r.ok /\ Cardinality(r.word \cup (block \cap {31})) % 2 = 0

\* The bits flipped for a mask, weak being the least reliable ones in order.
Flips(weak, mask) ==
    {weak[i] : i \in {j \in DOMAIN weak : (mask \div 2^(j - 1)) % 2 = 1}}

\* First the word as received, then with the flips of each mask, in order: the
\* first that decodes is taken.  Without --chase, weak is empty.
chase_bch_da(val, weak) ==
    LET last == 2^Len(weak)
        try[m \in 0 .. last] ==
          IF m = last THEN Failed
          ELSE LET r == Hard(Codes.da, Xor(val, Flips(weak, m)))
               IN  IF r.ok THEN r ELSE try[m + 1]
    IN  try[0]
=============================================================================
