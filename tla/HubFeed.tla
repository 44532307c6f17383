------------------------------- MODULE HubFeed -------------------------------
(***************************************************************************)
(* A TCP feed of sbd_acars.c: each message is sent as a line, in two sends *)
(* on one connection, which is made again when the last send failed.       *)
(***************************************************************************)
EXTENDS Integers, Sequences

CONSTANT MaxLines  \* bound on the messages

VARIABLES
    fd,       \* whether the feed is connected
    up,       \* whether the aggregator listens
    broken,   \* whether it has dropped the connection
    stream,   \* what arrived on the connection: "body", "part" and "newline"
    emitted   \* messages emitted

hubVars == <<fd, up, broken, stream, emitted>>

HubInit ==
    /\ up \in BOOLEAN /\ fd \in {FALSE, up}
    /\ broken = FALSE /\ stream = <<>> /\ emitted = 0

\* A failed newline leaves the connection open.
After_Newline(body, newline) == body # "none"

\* Whether the connection is kept: both sends returned something.
After(body, newline) == body # "none" /\ newline

\* hub_buf_emit for one feed: connected again if need be, then the two sends;
\* the first may be cut short, and either fails once the peer is gone.
Emit(body, newline) ==
    LET connected == fd \/ up
        on == IF fd THEN stream ELSE <<>>
        gone == fd /\ broken
        sent == (IF body = "none" THEN <<>> ELSE <<body>>)
                \o (IF body # "none" /\ newline THEN <<"newline">> ELSE <<>>)
    IN  /\ emitted < MaxLines
        /\ emitted' = emitted + 1
        /\ body = "none" => ~newline
        /\ gone => body = "none" \/ ~newline
        /\ IF connected
           THEN /\ fd' = After(body, newline)
                /\ stream' = on \o sent
                /\ broken' = (gone /\ After(body, newline))
           ELSE fd' = FALSE /\ UNCHANGED <<stream, broken>>
        /\ UNCHANGED up

\* The aggregator goes away, and drops the connection, or comes back.
PeerChanges ==
    /\ up' = ~up
    /\ broken' = (broken \/ up)
    /\ UNCHANGED <<fd, stream, emitted>>

HubNext ==
    \/ \E body \in {"body", "part", "none"}, newline \in BOOLEAN : Emit(body, newline)
    \/ PeerChanges
-----------------------------------------------------------------------------
(* On a connection every line holds one message, or the beginning of one:   *)
(* two messages never run together, because a send that fails, the newline  *)
(* included, ends the connection.                                           *)
LinesNeverMerge ==
    \A i \in 1 .. Len(stream) - 1 : stream[i] = "newline" \/ stream[i + 1] = "newline"
=============================================================================
