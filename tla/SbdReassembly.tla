---------------------------- MODULE SbdReassembly ----------------------------
(***************************************************************************)
(* The multi-packet messages of sbd_acars.c under traffic.  Every sender   *)
(* sends one message after the other; the packets reach sbd_extract in the *)
(* order sent, or, where bursts are decoded by several workers and may be  *)
(* missed, in any order and not all of them.                               *)
(***************************************************************************)
EXTENDS SbdOps

CONSTANTS
    Senders,      \* who sends
    DirOf(_),     \* a sender's direction, "UL" or "DL"
    Counts,       \* how many packets a message has
    Sizes,        \* how many bytes a packet has
    MaxMessages,  \* bound on the messages sent
    SbdMaxTime,   \* bound on the clock
    SbdInFlight   \* bound on the packets sent and not yet handled

ASSUME SendersAssumption ==
    /\ \A s \in Senders : DirOf(s) \in {"UL", "DL"}
    /\ Counts \subseteq Nat /\ Sizes \subseteq Nat

VARIABLES
    clean,    \* packets arrive, in order, and senders of a direction take turns
    sbd_multi,  \* the messages of several packets
    sending,  \* sender -> the packets of its message so far, and their number
    sent,     \* the messages so far: how many
    air,      \* the packets not yet handled
    sbdClock, \* the time of transmission
    extracted \* the packet handled last (in clean traffic), and what sbd_extract made of it

sbdVars == <<clean, sbd_multi, sending, sent, air, sbdClock, extracted>>

NotSending == [cnt |-> 0, packets |-> <<>>]

NoPacket == [last |-> <<>>, msg |-> <<>>, len |-> 0]

SbdInit ==
    /\ clean \in BOOLEAN
    /\ sbd_multi = NoSlots
    /\ sending = [s \in Senders |-> NotSending]
    /\ sent = 0
    /\ air = <<>>
    /\ sbdClock = 1
    /\ extracted = NoPacket

\* In clean traffic a packet also says what it is part of: its sender, its
\* message and the bytes of the message so far.
Packet(s, form, cnt, no, len) ==
    [form |-> form, cnt |-> cnt, no |-> no, dir |-> DirOf(s), time |-> sbdClock,
     len |-> len, id |-> IF clean THEN sent ELSE 0, by |-> IF clean THEN s ELSE "",
     upto |-> IF clean THEN len ELSE 0]

\* Whether s may start: in clean traffic the others of its direction are silent.
MayStart(s) ==
    /\ Len(sending[s].packets) = sending[s].cnt
    /\ clean => \A r \in Senders \ {s} :
                  DirOf(r) = DirOf(s) => Len(sending[r].packets) = sending[r].cnt

Start(s, form, cnt, len) ==
    LET p == Packet(s, form, cnt, 1, len)
    IN  /\ MayStart(s) /\ sent < MaxMessages /\ Len(air) < SbdInFlight
        /\ sending' = [sending EXCEPT ![s] = [cnt |-> cnt, packets |-> <<p>>]]
        /\ sent' = sent + 1
        /\ air' = Append(air, p)
        /\ UNCHANGED <<clean, sbd_multi, sbdClock, extracted>>

\* A packet without a number, and one its header rejects.
SendAlone(s, form, len) ==
    LET p == Packet(s, form, 0, 0, len)
    IN  /\ ~clean /\ sent < MaxMessages /\ Len(air) < SbdInFlight
        /\ sent' = sent + 1
        /\ air' = Append(air, p)
        /\ UNCHANGED <<clean, sbd_multi, sending, sbdClock, extracted>>

SendNext(s, len) ==
    LET m == sending[s]
        p == [Packet(s, "later", 0, Len(m.packets) + 1, len) EXCEPT
                !.id = m.packets[1].id, !.upto = @ + m.packets[Len(m.packets)].upto]
    IN  /\ Len(m.packets) < m.cnt /\ Len(air) < SbdInFlight
        /\ sending' = [sending EXCEPT ![s].packets = Append(@, p)]
        /\ air' = Append(air, p)
        /\ UNCHANGED <<clean, sbd_multi, sent, sbdClock, extracted>>

\* The packets on their way, all but the one at i.
Without(q, i) == SubSeq(q, 1, i - 1) \o SubSeq(q, i + 1, Len(q))

\* acars_ida_cb, sbd_extract and, for a message that is whole, sbd_process.
Handle(i) ==
    LET r == sbd_extract(sbd_multi, air[i])
    IN  /\ clean => i = 1
        /\ sbd_multi' = r.slots
        /\ extracted' = [last |-> IF clean THEN <<air[i]>> ELSE <<>>, msg |-> r.msg, len |-> r.len]
        /\ air' = Without(air, i)
        /\ UNCHANGED <<clean, sending, sent, sbdClock>>

LosePacket(i) ==
    /\ ~clean
    /\ air' = Without(air, i)
    /\ UNCHANGED <<clean, sbd_multi, sending, sent, sbdClock, extracted>>

SbdTick ==
    /\ sbdClock < SbdMaxTime
    /\ sbdClock' = sbdClock + 1
    /\ UNCHANGED <<clean, sbd_multi, sending, sent, air, extracted>>

SbdNext ==
    \/ \E s \in Senders, c \in Counts, n \in Sizes : Start(s, "first", c, n)
    \/ \E s \in Senders, c \in Counts, n \in Sizes : Start(s, "hello", c, n)
    \/ \E s \in Senders, n \in Sizes : SendAlone(s, "plain", n)
    \/ \E s \in Senders, n \in Sizes : SendAlone(s, "cut", n)
    \/ \E s \in Senders, n \in Sizes : SendNext(s, n)
    \/ \E i \in 1 .. Len(air) : Handle(i)
    \/ \E i \in 1 .. Len(air) : LosePacket(i)
    \/ SbdTick

SbdSpec == SbdInit /\ [][SbdNext]_sbdVars
-----------------------------------------------------------------------------
\* Fragments follow one another within the timeout.
Timely(ps) ==
    \A i \in 1 .. Len(ps) - 1 : ps[i + 1].time <= ps[i].time + SbdTimeout

(* While the messages of each direction take turns and no packet is lost or *)
(* overtaken, the last packet of a message, sent in time, hands all its     *)
(* packets to sbd_process in order, and if there are several, cut to the    *)
(* buffer: messages of the two directions never mix.                        *)
WholeSbdMessages ==
    clean /\ extracted.last # <<>> =>
      LET p == extracted.last[1]
          m == sending[p.by].packets
      IN  m[1].id = p.id /\ Len(m) = sending[p.by].cnt /\ p = m[Len(m)] /\ Timely(m) =>
            /\ extracted.msg = m
            /\ extracted.len = IF Len(m) = 1 THEN p.len ELSE Min({p.upto, SbdCap})

(* Whatever is lost, late or sent at the same time, what sbd_process gets   *)
(* is one packet, or as many as the first says, all of one direction,       *)
(* numbered one after the other and none later than the timeout.            *)
PlausibleSbdMessages ==
    LET m == extracted.msg
    IN  Len(m) > 1 =>
          /\ Len(m) = m[1].cnt
          /\ \A i \in 1 .. Len(m) : MsgNo(m[i]) = i /\ m[i].dir = m[1].dir
          /\ Timely(m)
=============================================================================
