----------------------------- MODULE FrameCodec -----------------------------
(***************************************************************************)
(* From symbols to frames: qpsk_demod.c's last steps, and the layout and   *)
(* the length of what frame_decode.c and ida_decode.c read.  Whether a     *)
(* block decodes is an input here (BlockCode says when): a frame is given  *)
(* by how many of its blocks do before the first that does not.            *)
(***************************************************************************)
EXTENDS Integers, Sequences, FiniteSetsExt

IR_UW == [DL |-> <<0, 2, 2, 2, 2, 0, 0, 0, 2, 0, 0, 2>>,
          UL |-> <<2, 2, 0, 0, 0, 2, 0, 0, 2, 0, 2, 2>>]

\* The code frame_decode compares the first 24 bits with, two bits a number.
access == [DL |-> <<0, 3, 0, 0, 0, 3, 0, 0, 3, 3, 0, 3>>,
           UL |-> <<3, 0, 3, 0, 0, 3, 3, 0, 3, 3, 3, 0>>]

\* The number itself, for its Gray code.
dqpsk_map_Plain == <<0, 1, 2, 3>>

dqpsk_map == <<0, 2, 3, 1>>

decode_dqpsk(symbols) ==
    [i \in DOMAIN symbols |->
       LET old == IF i = 1 THEN 0 ELSE symbols[i - 1]
       IN  dqpsk_map[1 + (((symbols[i] - old) + 4) % 4)]]

\* Steps between two symbols, three being one step the other way.
Steps(a, b) == LET d == IF a < b THEN b - a ELSE a - b IN IF d = 3 THEN 1 ELSE d

check_sync_word(symbols, dir) ==
    MapThenSumSet(LAMBDA i : Steps(symbols[i], IR_UW[dir][i]), 1 .. 12) <= 2

\* The direction qpsk_demod gives a frame: by the hard checks, else by the soft
\* one ("none": a frame refused), else the one found by correlation.
Direction(symbols, soft, found) ==
    LET dl == check_sync_word(symbols, "DL")
        ul == check_sync_word(symbols, "UL")
    IN  CASE ~dl /\ ~ul -> soft
          [] dl /\ ~ul -> "DL"
          [] ul /\ ~dl -> "UL"
          [] OTHER -> found
-----------------------------------------------------------------------------
\* Layouts: the received bit that each bit read from comes from.

\* de_interleave_n, and for 32 symbols de_interleave: two arrays of symbols,
\* taken from the last down.
de_interleave_n(n) ==
    LET from(s) == [j \in 0 .. 2 * (n \div 2) - 1 |-> 2 * (s - 2 * (j \div 2)) + (j % 2)]
    IN  <<from(n - 1), from(n - 2)>>

de_interleave3 ==
    [w \in 1 .. 3 |-> [j \in 0 .. 31 |-> 2 * (48 - w - 3 * (j \div 2)) + (j % 2)]]

lcw_perm ==
    <<40, 39, 36, 35, 32, 31, 28, 27, 24, 23,
      20, 19, 16, 15, 12, 11,  8,  7,  4,  3,
      41, 38, 37, 34, 33, 30, 29, 26, 25, 22,
      21, 18, 17, 14, 13, 10,  9,  6,  5,  2,
       1, 46, 45, 44, 43, 42>>

\* decode_lcw swaps the bits of each pair and applies the permutation.
LcwLayout ==
    LET swapped(i) == IF i % 2 = 0 THEN i + 1 ELSE i - 1
    IN  [i \in 0 .. 45 |-> swapped(lcw_perm[i + 1] - 1)]

\* The four blocks of 124 bits, in the order they are decoded in.
FullBlocks ==
    LET h == de_interleave_n(62)
        combined(i) == IF i < 62 THEN h[1][i] ELSE h[2][i - 62]
        order == <<3, 1, 2, 0>>
    IN  [c \in 1 .. 4 |-> [b \in 0 .. 30 |-> combined((31 * order[c]) + b)]]

\* A cell of h1 or h2 that de_interleave_n has not written.
Unset == -1

\* The blocks of a last piece of n symbols: each half without its first bit.
TailBlocks(n) ==
    LET h == de_interleave_n(n)
        cell(w, i) == IF i \in DOMAIN h[w] THEN h[w][i] ELSE Unset
        combined(k) == IF k < n - 1 THEN cell(2, k + 1) ELSE cell(1, (k - n) + 2)
    IN  [c \in 1 .. (2 * (n - 1)) \div 31 |-> [b \in 0 .. 30 |-> combined((31 * (c - 1)) + b)]]
-----------------------------------------------------------------------------
\* Lengths.  A frame is [len, header, ibc, ibc_beam, head, ira, ira_beam]: its
\* data bits, whether the header of a broadcast decodes and how many pairs of
\* blocks behind it, and the same for the three blocks of a ring alert.

IbcBits(f) ==
    42 * Min({f.ibc, (Min({f.len, 262}) - 6) \div 64, 256 \div 42})

IraBits(f) == 63 + 42 * Min({f.ira, (f.len - 96) \div 64, (512 - 63) \div 42})

\* parse_ira: pages up to the first of ones only, the blank-th.
Pages(bits, blank) == Min({(bits - 63) \div 42, 12, blank - 1})

Nothing == [type |-> "none", bits |-> 0, beam |-> 0]

frame_decode(f) ==
    LET real(r) == IF r.beam \in 1 .. 48 THEN r ELSE Nothing
    IN  CASE f.len >= 70 /\ f.header /\ f.ibc > 0 ->
               real([type |-> "IBC", bits |-> IbcBits(f), beam |-> f.ibc_beam])
          [] ~(f.len >= 70 /\ f.header /\ f.ibc > 0) /\ f.len >= 96 /\ f.head ->
               real([type |-> "IRA", bits |-> IraBits(f), beam |-> f.ira_beam])
          [] OTHER -> Nothing

\* max_bch bits hold this many blocks of 20.
Room == 512 \div 20

\* A block that fails only ends the group of four it is in.
descramble_payload_Continues(n, good) ==
    LET full == 4 * (n \div 62)
        rest == n % 62
        done == Min({full, Room})
    IN  20 * (done + (IF rest < 2 \/ 20 * done + 2 * (rest - 1) > 512 THEN 0
                      ELSE Min({(2 * (rest - 1)) \div 31, Room - done})))

\* The bits decoded of a payload of n symbols whose first good blocks decode:
\* a block that fails ends it.
descramble_payload(n, good) ==
    LET full == 4 * (n \div 62)
        rest == n % 62
        done == Min({full, Room, good})
    IN  20 * IF done < Min({full, Room}) \/ rest < 2 \/ 20 * done + 2 * (rest - 1) > 512
             THEN done
             ELSE done + Min({(2 * (rest - 1)) \div 31, Room - done, good - done})

\* crc_bytes: the bits but the last four, with twelve zeros put in.
CrcBytes(bits) == (bits + 15) \div 8

\* ida_decode, behind the LCW: n symbols of payload, and the header's length.
ida_decode(n, good, da_len) ==
    LET bits == descramble_payload(n, good)
    IN  IF 2 * n < 124 \/ bits < 196 \/ da_len > 20
        THEN [ok |-> FALSE, bits |-> bits, crc |-> FALSE, len |-> 0]
        ELSE [ok |-> TRUE, bits |-> bits,
              crc |-> da_len > 0 /\ CrcBytes(bits) <= 64,
              len |-> IF da_len > 0 THEN da_len ELSE 20]
=============================================================================
