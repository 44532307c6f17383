---------------------------- MODULE IdaReassembly ----------------------------
(***************************************************************************)
(* ida_reassemble and ida_reassemble_flush of ida_decode.c, fed by the     *)
(* output thread of main.c, with the satellites' traffic and the pipeline  *)
(* in front of it.                                                         *)
(*                                                                         *)
(* A channel sends messages of several bursts, numbered modulo CtrMod, all *)
(* but the last marked cont.  The burst carries its number within its      *)
(* message, the time its message began and the length sent so far, and     *)
(* once copied its offset in the slot; the code sees none of them, they    *)
(* say what a callback ought to contain.  When the run is faulty the       *)
(* bursts may be lost, fail their CRC, or overtake each other in the       *)
(* workers, and nothing is said of them beyond what the code sees.         *)
(***************************************************************************)
EXTENDS Integers, Sequences, FiniteSets, FiniteSetsExt

CONSTANTS
    NSlots,    \* IDA_MAX_REASSEMBLY, 16 in the code
    CtrMod,    \* the burst counter's modulus, 8
    Window,    \* 280 ms
    Tolerance, \* 260 Hz
    DataCap,   \* sizeof(s->data), 256
    Lengths,   \* da_len of a burst, 1 to 20
    Channels,  \* the senders: direction and frequency
    Drift,     \* how far a burst may be off its channel's frequency
    MaxParts,  \* bound: bursts of a message
    MaxTime,   \* bound: the clock
    InFlight,  \* bound: bursts in the pipeline at a time
    Faults     \* whether runs are faulty, a set of Booleans

ASSUME IdaAssumption ==
    /\ {NSlots, CtrMod, MaxParts, InFlight} \subseteq Nat \ {0}
    /\ {Window, Tolerance, DataCap, MaxTime} \subseteq Nat
    /\ Lengths \subseteq 1 .. DataCap
    /\ Channels \subseteq [dir : {"DL", "UL"}, freq : Int]
    /\ Drift \subseteq Int
    /\ Faults \subseteq BOOLEAN

Distance(x, y) == IF x < y THEN y - x ELSE x - y

\* A channel's bursts are near each other and far from those of the others,
\* and there is a slot for each channel.
ASSUME ChannelsAssumption ==
    /\ IsFiniteSet(Channels) /\ Cardinality(Channels) <= NSlots
    /\ \A c, e \in Channels, x, y \in Drift :
         c.dir = e.dir => (Distance(c.freq + x, e.freq + y) <= Tolerance <=> c = e)

VARIABLES
    faulty,  \* this run loses, damages and reorders bursts
    clock,   \* the time of transmission
    sender,  \* each channel's message in progress: parts sent, its times
    pending, \* bursts sent and not yet at the output thread
    slots,   \* ida_context_t
    got,     \* the burst this step has processed, <<>> if none
    out      \* what this step's callback was given: the bursts copied, and
             \* how many had been accepted

vars == <<faulty, clock, sender, pending, slots, got, out>>

\* The callback's argument when there was no call.
NoMessage == [data |-> <<>>, accepted |-> 0]

\* A slot that is not active; the code leaves the other fields as they were
\* and never reads them.
EmptySlot == [active |-> FALSE, dir |-> "DL", freq |-> 0, last |-> 0,
              ctr |-> 0, data |-> <<>>, len |-> 0, accepted |-> 0]

Init ==
    /\ faulty \in Faults
    /\ clock = 0
    /\ sender = [c \in Channels |-> [sent |-> 0, began |-> 0, last |-> 0, total |-> 0]]
    /\ pending = <<>>
    /\ slots = [i \in 1 .. NSlots |-> EmptySlot]
    /\ got = <<>>
    /\ out = NoMessage

(***************************************************************************)
(* ida_reassemble.                                                         *)
(***************************************************************************)

\* A match that does not look at the age of the slot.
Matches_AnyAge(s, b) ==
    /\ s.active
    /\ s.dir = b.dir
    /\ Distance(s.freq, b.freq) <= Tolerance
    /\ b.time >= s.last
    /\ (s.ctr + 1) % CtrMod = b.ctr

Matches(s, b) ==
    /\ s.active
    /\ s.dir = b.dir
    /\ Distance(s.freq, b.freq) <= Tolerance
    /\ b.time >= s.last
    /\ b.time - s.last <= Window
    /\ (s.ctr + 1) % CtrMod = b.ctr

\* Append the payload if it fits; the slot moves on in any case.
Accept(s, b) ==
    LET fits == s.len + b.len <= DataCap
    IN  [s EXCEPT !.data = IF fits THEN Append(@, [b EXCEPT !.at = s.len]) ELSE @,
                  !.len = IF fits THEN @ + b.len ELSE @,
                  !.last = b.time, !.ctr = b.ctr, !.accepted = @ + 1]

\* The first free slot, or else the first of those with the oldest burst.
SlotFor(ctx) ==
    LET free == {i \in DOMAIN ctx : ~ctx[i].active}
        oldest == {i \in DOMAIN ctx :
                     \A j \in DOMAIN ctx : ctx[i].last <= ctx[j].last}
    IN  IF free # {} THEN Min(free) ELSE Min(oldest)

Started(b) ==
    [active |-> TRUE, dir |-> b.dir, freq |-> b.freq, last |-> b.time,
     ctr |-> b.ctr, data |-> <<[b EXCEPT !.at = 0]>>, len |-> b.len, accepted |-> 1]

\* The slots after a burst, and what the callback gets.
ida_reassemble(ctx, b) ==
    LET matching == {i \in DOMAIN ctx : Matches(ctx[i], b)}
        m == Min(matching)
        s == Accept(ctx[m], b)
    IN  CASE ~b.ok -> [ctx |-> ctx, msg |-> NoMessage]
          [] b.ok /\ matching # {} ->
               [ctx |-> [ctx EXCEPT ![m] = IF b.cont THEN s ELSE EmptySlot],
                msg |-> IF b.cont THEN NoMessage
                        ELSE [data |-> s.data, accepted |-> s.accepted]]
          [] b.ok /\ matching = {} /\ b.ctr = 0 /\ ~b.cont ->
               [ctx |-> ctx, msg |-> [data |-> <<b>>, accepted |-> 1]]
          [] b.ok /\ matching = {} /\ b.ctr = 0 /\ b.cont ->
               [ctx |-> [ctx EXCEPT ![SlotFor(ctx)] = Started(b)],
                msg |-> NoMessage]
          [] OTHER -> [ctx |-> ctx, msg |-> NoMessage]

\* Expiry one tick too early.
ida_reassemble_flush_Early(ctx, now) ==
    [i \in DOMAIN ctx |->
       IF ctx[i].active /\ now >= ctx[i].last + Window
       THEN EmptySlot ELSE ctx[i]]

ida_reassemble_flush(ctx, now) ==
    [i \in DOMAIN ctx |->
       IF ctx[i].active /\ now > ctx[i].last + Window
       THEN EmptySlot ELSE ctx[i]]

(***************************************************************************)
(* The traffic.                                                            *)
(***************************************************************************)
Without(q, i) == SubSeq(q, 1, i - 1) \o SubSeq(q, i + 1, Len(q))

Silent == got' = <<>> /\ out' = NoMessage
Open(c) == sender[c].sent > 0

\* A sender goes on with a message before the receiver's window is over.
Tick ==
    /\ clock < MaxTime
    /\ \A c \in Channels : Open(c) => clock - sender[c].last < Window
    /\ clock' = clock + 1
    /\ Silent
    /\ UNCHANGED <<faulty, sender, pending, slots>>

\* The next burst of channel c's message, or the first of a new one.
Send(c) ==
    /\ sender[c].last < clock
    /\ Len(pending) < InFlight
    /\ \E more \in BOOLEAN, len \in Lengths, d \in Drift :
         LET n == sender[c].sent
             began == CASE faulty -> 0 [] ~faulty /\ n = 0 -> clock [] OTHER -> sender[c].began
             total == CASE faulty -> 0 [] ~faulty /\ n = 0 -> len [] OTHER -> len + sender[c].total
         IN  /\ more => n + 1 < MaxParts
             /\ pending' = Append(pending,
                  [chan |-> c, began |-> began, part |-> IF faulty THEN 0 ELSE n + 1,
                   total |-> total, at |-> 0, dir |-> c.dir, freq |-> c.freq + d, time |-> clock,
                   ctr |-> n % CtrMod, cont |-> more, len |-> len, ok |-> TRUE])
             /\ sender' = [sender EXCEPT ![c] =
                  [sent |-> IF more THEN n + 1 ELSE 0,
                   began |-> began, last |-> clock, total |-> total]]
    /\ Silent
    /\ UNCHANGED <<faulty, clock, slots>>

\* A burst is never demodulated, or dropped at a full queue.
Lose ==
    /\ faulty
    /\ \E i \in DOMAIN pending : pending' = Without(pending, i)
    /\ Silent
    /\ UNCHANGED <<faulty, clock, sender, slots>>

\* The output thread's part for one frame: reassemble, then flush with the
\* frame's time.  A faulty run lets it overtake, and its CRC fail.
Process ==
    /\ \E i \in DOMAIN pending,
          ok \in (IF faulty THEN BOOLEAN ELSE {TRUE}) :
         LET b == [pending[i] EXCEPT !.ok = ok]
             r == ida_reassemble(slots, b)
         IN  /\ faulty \/ i = 1
             /\ slots' = ida_reassemble_flush(r.ctx, b.time)
             /\ out' = r.msg
             /\ got' = <<b>>
             /\ pending' = Without(pending, i)
    /\ UNCHANGED <<faulty, clock, sender>>

Next == Tick \/ (\E c \in Channels : Send(c)) \/ Lose \/ Process

Spec == Init /\ [][Next]_vars

(***************************************************************************)
(* Properties.                                                             *)
(***************************************************************************)
\* The slots stay well formed: each burst was copied right behind the one
\* before, and the recorded length, never more than the array holds, is where
\* the last one ends.
SlotOK(s) ==
    /\ s.active \in BOOLEAN /\ s.len \in 0 .. DataCap /\ s.ctr \in 0 .. CtrMod - 1
    /\ s.len = IF s.data = <<>> THEN 0 ELSE s.data[Len(s.data)].at + s.data[Len(s.data)].len
    /\ \A k \in DOMAIN s.data :
         s.data[k].at = IF k = 1 THEN 0 ELSE s.data[k - 1].at + s.data[k - 1].len

TypeOK ==
    /\ faulty \in BOOLEAN /\ clock \in 0 .. MaxTime
    /\ \A c \in Channels : sender[c].sent \in 0 .. MaxParts - 1
    /\ \A i \in 1 .. NSlots : SlotOK(slots[i])
    /\ Len(got) <= 1

\* The callback just made, or not, is the right one for burst b: the whole
\* message when b is its last burst, and otherwise none.
RightCallback(b) ==
    IF b.cont THEN out = NoMessage
    ELSE /\ Len(out.data) = b.part
         /\ \A k \in 1 .. b.part :
              /\ out.data[k].chan = b.chan
              /\ out.data[k].began = b.began
              /\ out.data[k].part = k

\* When nothing is lost or overtakes, the last burst of every message that
\* fits in a slot makes the callback happen, with exactly the bursts of that
\* message in their order, whatever the other channels send.
WholeMessages ==
    ~faulty => \A k \in DOMAIN got :
                 got[k].total <= DataCap => RightCallback(got[k])

\* "Calls cb when a complete message is assembled": the same of every message.
CompleteMessages == ~faulty => \A k \in DOMAIN got : RightCallback(got[k])

\* Whatever is lost, damaged or reordered, a callback gets a plausible
\* message: bursts of one direction and nearly one frequency, numbered from 0
\* without a gap, each within the window after the one before, ending in the
\* only burst that announces no other.
PlausibleMessages ==
    out.accepted = Len(out.data) =>
      \A k \in DOMAIN out.data :
        LET b == out.data[k]
        IN  /\ b.ok
            /\ b.dir = out.data[1].dir
            /\ Distance(b.freq, out.data[1].freq) <= Tolerance
            /\ b.ctr = (k - 1) % CtrMod
            /\ b.cont = (k < Len(out.data))
            /\ k > 1 => b.time - out.data[k - 1].time \in 0 .. Window

\* Whatever is lost, damaged or reordered, the slots stay within their arrays
\* and what ida_reassemble calls back with is plausible.
OnlyPlausibleMessages == TypeOK /\ PlausibleMessages
=============================================================================
