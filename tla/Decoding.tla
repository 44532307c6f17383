------------------------------ MODULE Decoding ------------------------------
(***************************************************************************)
(* What a burst goes through from symbols to frames, one question a step:  *)
(* a code word with bits in error, a block with its parity, a unique word, *)
(* a layout, the lengths of a frame and of a payload.  The sender is       *)
(* external.                                                               *)
(***************************************************************************)
EXTENDS BlockCode, FrameCodec

CONSTANTS Burst,        \* bits that may be wrong together, more than two of them
          WeakLists,    \* the least reliable bits, in order (--chase)
          Payloads,     \* symbols of a payload
          FrameLens     \* data bits of a frame

VARIABLE exam

decodeVars == <<exam>>

DecodeInit == exam = [kind |-> "none"]

\* External: the systematic word of the data bits, with its check bits.
Encode(c, data) == data \cup gf2_remainder(c.poly, data)

Data(c) == LET d == {b \in c.read : b >= Max(c.poly)} IN {{}, {Min(d)}, d}

OneOrTwo(bits) == {{a, b} : a, b \in bits}

\* A word of a code as read, some of its bits wrong, is decoded.
CodeWord(name, data, err, weak) ==
    LET c == Codes[name]
        sent == Encode(c, data)
        val == Xor(sent, err) \cap c.read
    IN  exam' = [kind |-> "word", code |-> name, sent |-> sent, val |-> val, weak |-> Range(weak),
                 got |-> IF name = "da" THEN chase_bch_da(val, weak) ELSE Hard(c, val)]

\* A block of a broadcast or a ring alert, the parity bit included.
Block(data, err) ==
    LET word == Encode(Codes.ra, data)
        sent == word \cup (IF Cardinality(word) % 2 = 1 THEN {31} ELSE {})
        val == Xor(sent, err)
    IN  exam' = [kind |-> "block", sent |-> sent, err |-> err,
                 taken |-> check_parity32(val), got |-> Hard(Codes.ra, val \ {31})]

\* The twelve symbols of the unique word, up to two of them different.
Sync(dir, i, a, j, b, soft, found) ==
    LET symbols == [IR_UW[dir] EXCEPT ![i] = a, ![j] = b]
    IN  exam' = [kind |-> "sync", symbols |-> symbols,
                 direction |-> Direction(symbols, soft, found),
                 coded |-> {d \in {"DL", "UL"} : decode_dqpsk(symbols) = access[d]}]

Layout(what, n) ==
    exam' = [kind |-> "layout", what |-> what, n |-> n,
             reads |-> CASE what = "pair" -> de_interleave_n(n)
                         [] what = "three" -> de_interleave3
                         [] what = "lcw" -> <<LcwLayout>>
                         [] what = "full" -> FullBlocks
                         [] what = "tail" -> TailBlocks(n)]

Payload(n, good, da_len) ==
    exam' = [kind |-> "payload", n |-> n, good |-> good, got |-> ida_decode(n, good, da_len)]

Frame(f, blank) ==
    LET r == frame_decode(f)
    IN  exam' = [kind |-> "frame", f |-> f, got |-> r,
                 pages |-> IF r.type = "IRA" THEN Pages(r.bits, blank) ELSE 0]

Idle == exam.kind = "none"

DecodeNext ==
    \/ Idle /\ \E name \in DOMAIN Codes : \E data \in Data(Codes[name]) :
         \E err \in {{}} \cup OneOrTwo(Codes[name].read) : CodeWord(name, data, err, <<>>)
    \/ Idle /\ \E data \in Data(Codes.da), weak \in WeakLists :
         \E err \in SUBSET Burst : CodeWord("da", data, err, weak)
    \/ Idle /\ \E data \in Data(Codes.ra), last \in 0 .. 31 :
         \E err \in {{}} \cup OneOrTwo(0 .. last) : Block(data, err \cup {last})
    \/ Idle /\ \E dir, found \in {"DL", "UL"}, soft \in {"DL", "UL", "none"} :
         \E i, j \in 1 .. 12, a, b \in 0 .. 3 : Sync(dir, i, a, j, b, soft, found)
    \/ Idle /\ \E what \in {"three", "lcw", "full"} : Layout(what, 0)
    \/ Idle /\ Layout("pair", 32)
    \/ Idle /\ \E k \in 1 .. 30 : Layout("tail", 2 * k)
    \/ Idle /\ \E n \in Payloads, good \in 0 .. 30, da_len \in {0, 20, 21} : Payload(n, good, da_len)
    \/ Idle /\ \E len \in FrameLens, header, head \in BOOLEAN, ibc \in 0 .. 6, ira \in 0 .. 14 :
         \E ibc_beam, ira_beam \in {0, 48}, blank \in {1, 4, 20} :
           Frame([len |-> len, header |-> header, ibc |-> ibc, ibc_beam |-> ibc_beam,
                  head |-> head, ira |-> ira, ira_beam |-> ira_beam], blank)

DecodeSpec == DecodeInit /\ [][DecodeNext]_decodeVars
-----------------------------------------------------------------------------
Reach(name) == IF name \in {"ra", "da"} THEN 2 ELSE 1

\* The syndrome tables correct what the codes are used for: up to two wrong bits
\* in a word of a ring alert, a broadcast or a data block, one in the header and
\* in the parts of the LCW, a bit that is not sent being a wrong one too; and
\* what --chase takes for weak does not matter then.
CorrectsErrors ==
    exam.kind = "word" =>
      LET e == Xor(exam.sent, exam.val)
      IN  Cardinality(e) <= Reach(exam.code) =>
            exam.got = [ok |-> TRUE, word |-> exam.sent]

\* What a decoder returns is a word of its code that differs from the one
\* received in no more than two bits outside of the weak ones; and with --chase a
\* data block is not given up on while two wrong bits are strong.
DecodesToCodeWords ==
    exam.kind = "word" =>
      LET c == Codes[exam.code]
      IN  /\ exam.got.ok =>
               /\ gf2_remainder(c.poly, exam.got.word) = {}
               /\ Cardinality(Xor(exam.got.word, exam.val) \ exam.weak) <= 2
          /\ exam.code = "da" /\ Cardinality(Xor(exam.sent, exam.val) \ exam.weak) <= 2 =>
               exam.got.ok

\* The parity bit of a block catches what the code corrects to another word: a
\* block with up to three of its 32 bits wrong is refused or gives what was sent,
\* and up to two wrong bits of the code word alone do not make it refused.
ParityGuardsBlocks ==
    exam.kind = "block" =>
      /\ exam.taken => exam.got.word = exam.sent \ {31}
      /\ 31 \notin exam.err /\ Cardinality(exam.err) <= 2 => exam.taken

\* A unique word up to two steps off gives its own direction whatever the soft
\* check and the correlation say; and frame_decode, which compares bits, sees an
\* access code exactly when the word is free of errors.
UniqueWordTellsDirection ==
    exam.kind = "sync" =>
      \A d \in {"DL", "UL"} :
        /\ check_sync_word(exam.symbols, d) => exam.direction = d
        /\ (d \in exam.coded) = (exam.symbols = IR_UW[d])
        /\ Cardinality({i \in 1 .. 12 : exam.symbols[i] # IR_UW[d][i]}) <= 1 => exam.direction = d

\* The bits that the blocks of a layout are read from are bits received, and no
\* bit is used twice: pairs, triples, the LCW's permutation, the four blocks of
\* 124 bits and the blocks of a last piece of an even number of symbols.
EveryBitOnce ==
    exam.kind = "layout" =>
      LET size == CASE exam.what = "three" -> 96
                    [] exam.what = "lcw" -> 46
                    [] exam.what = "full" -> 124
                    [] OTHER -> 2 * exam.n
          reads == exam.reads
          all == {<<c, b>> : c \in DOMAIN reads, b \in 0 .. 45} \cap
                   UNION {{c} \X DOMAIN reads[c] : c \in DOMAIN reads}
          from == {reads[p[1]][p[2]] : p \in all}
      IN  /\ from \subseteq 0 .. size - 1
          /\ Cardinality(from) = Cardinality(all)
          /\ exam.what # "tail" => from = 0 .. size - 1

\* A data stream is the blocks before the first that fails, and all of them
\* unless the room of 512 bits ends it.
StreamIsThePrefix ==
    exam.kind = "payload" =>
      LET rest == exam.n % 62
          blocks == 4 * (exam.n \div 62) + (IF rest < 2 THEN 0 ELSE (2 * (rest - 1)) \div 31)
          bits == exam.got.bits
      IN  /\ bits <= 20 * exam.good
          /\ bits < 20 * Min({exam.good, blocks}) => bits + 2 * 61 > 512 \/ bits + 20 > 512

\* What is decoded fits where it is put: 256 bits of a broadcast, 512 of a ring
\* alert and of data, 64 bytes under the CRC (so a message with data always has
\* its CRC computed), 12 pages; and only bits decoded are parsed.
StreamsFit ==
    /\ exam.kind = "payload" =>
         /\ exam.got.bits <= 512
         /\ exam.got.ok => CrcBytes(exam.got.bits) <= 64 /\ exam.got.bits >= 20 + 8 * exam.got.len + 16
    /\ exam.kind = "frame" =>
         /\ exam.got.bits <= IF exam.got.type = "IBC" THEN 256 ELSE 512
         /\ exam.got.type = "IRA" => exam.pages <= 12 /\ 63 + 42 * exam.pages <= exam.got.bits
         /\ exam.got.bits <= exam.f.len

\* The block decoders are right for every code: within reach of a code word they
\* find it, beyond it they invent nothing the parity bit would not catch.
DecodersAreRight == CorrectsErrors /\ DecodesToCodeWords /\ ParityGuardsBlocks

\* From the symbols to the stream no bit is used twice, skipped, taken from
\* behind a block that failed, or put where there is no room.
StreamsAreWhole == EveryBitOnce /\ StreamIsThePrefix /\ StreamsFit
=============================================================================
