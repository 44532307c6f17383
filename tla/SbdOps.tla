------------------------------- MODULE SbdOps -------------------------------
(***************************************************************************)
(* sbd_extract of sbd_acars.c: the packets of a short-burst data message   *)
(* are numbered, the first also says how many there are, and a later one   *)
(* is joined to the message of its direction that waits for its number.    *)
(* A packet is [form, cnt, no, dir, time, len]: its header as sent, its    *)
(* direction, the time it was received and how many bytes it carries.      *)
(***************************************************************************)
EXTENDS Integers, Sequences, FiniteSetsExt

CONSTANTS
    SbdSlots,   \* SBD_MAX_MULTI, 8
    SbdCap,     \* SBD_MAX_DATA, 1024
    SbdTimeout  \* SBD_TIMEOUT_NS, 5 s

ASSUME SbdAssumption ==
    SbdSlots \in Nat \ {0, 1} /\ {SbdCap, SbdTimeout} \subseteq Nat

\* sbd_multi_t.  A slot that is given up keeps its time.
FreeSlot == [active |-> FALSE, msgno |-> 0, msgcnt |-> 0, dir |-> "DL",
             time |-> 0, data |-> <<>>, len |-> 0]

NoSlots == [i \in 1 .. SbdSlots |-> FreeSlot]

\* The three headers: 06 00 with a count and no number; 76 08 with a count and
\* the packet's number; 76 with the number only.  Without the 0x10 marker a
\* packet is a message by itself.  "cut" is a packet its header rejects.
MsgCnt(p) == IF p.form \in {"hello", "first"} THEN p.cnt ELSE -1

MsgNo(p) == CASE p.form = "hello" -> IF p.cnt = 0 THEN 0 ELSE 1
              [] p.form \in {"first", "later"} -> p.no
              [] OTHER -> 0

\* A message is not given up, however long its next packet takes.
sbd_expire_Never(slots, now) == slots

sbd_expire(slots, now) ==
    [i \in DOMAIN slots |->
       [slots[i] EXCEPT !.active = @ /\ now <= slots[i].time + SbdTimeout]]

\* The first free slot, or else the first of those with the oldest packet.
SbdSlotFor(slots) ==
    LET free == {i \in DOMAIN slots : ~slots[i].active}
        oldest == {i \in DOMAIN slots :
                     \A j \in DOMAIN slots : slots[i].time <= slots[j].time}
    IN  IF free # {} THEN Min(free) ELSE Min(oldest)

Opened(p) ==
    [active |-> TRUE, msgno |-> MsgNo(p), msgcnt |-> MsgCnt(p), dir |-> p.dir,
     time |-> p.time, data |-> <<p>>, len |-> Min({p.len, SbdCap})]

Continues(s, p) == s.active /\ s.dir = p.dir /\ MsgNo(p) = s.msgno + 1

\* The timeout runs from the first packet.
Extended_FirstTime(s, p) ==
    [s EXCEPT !.data = Append(@, p), !.len = @ + Min({p.len, SbdCap - @}),
              !.msgno = MsgNo(p)]

Extended(s, p) ==
    [s EXCEPT !.data = Append(@, p), !.len = @ + Min({p.len, SbdCap - @}),
              !.msgno = MsgNo(p), !.time = p.time]

\* The slots afterwards, and the message given to sbd_process as the packets
\* it is made of (none: <<>>) with the number of bytes.
sbd_extract(slots, p) ==
    LET live == sbd_expire(slots, p.time)
        at == {i \in DOMAIN live : Continues(live[i], p)}
        s == Extended(live[Max(at)], p)
        keeping(t) == [slots |-> t, msg |-> <<>>, len |-> 0]
        single == [slots |-> live, msg |-> <<p>>, len |-> p.len]
    IN  CASE p.form = "cut" -> keeping(slots)
          [] p.form # "cut" /\ MsgNo(p) = 0 -> IF p.len > 0 THEN single ELSE keeping(live)
          [] MsgNo(p) = 1 /\ MsgCnt(p) = 1 -> single
          [] MsgNo(p) > 0 /\ MsgCnt(p) > 1 ->
               keeping([live EXCEPT ![SbdSlotFor(live)] = Opened(p)])
          [] MsgNo(p) > 1 /\ MsgCnt(p) <= 1 /\ at # {} ->
               IF MsgNo(p) # s.msgcnt
               THEN keeping([live EXCEPT ![Max(at)] = s])
               ELSE [slots |-> [live EXCEPT ![Max(at)] = [s EXCEPT !.active = FALSE]],
                     msg |-> s.data, len |-> s.len]
          [] OTHER -> keeping(live)
=============================================================================
