------------------------------ MODULE WebServer ------------------------------
(***************************************************************************)
(* The HTTP server of web_map.c: one thread accepts, a detached thread     *)
(* serves each request, and at most MAX_SSE_CLIENTS of them stream events. *)
(* build_json runs under state.lock, as does every update by the output    *)
(* thread; a shutdown destroys the lock once the accepting thread is gone. *)
(***************************************************************************)
EXTENDS Integers, FiniteSets

CONSTANTS
    Requests,      \* the connections made
    MaxSse,        \* MAX_SSE_CLIENTS, 8
    MaxEvents      \* bound on the events sent to one client

ASSUME WebAssumption ==
    /\ IsFiniteSet(Requests) /\ {"none", "output"} \cap Requests = {}
    /\ MaxSse \in Nat

VARIABLES
    server_running, \* volatile flag
    accepting,      \* server_thread: TRUE until it has ended
    conn,             \* where the thread of each connection is
    sse_client_count,
    lock,           \* who holds state.lock: a connection, "output" or "none"
    destroyed,      \* whether state.lock is
    version,        \* updates made by the output thread, modulo 2
    read,           \* connection -> the version its snapshot began with
    events          \* connection -> events sent

webVars == <<server_running, accepting, conn, sse_client_count, lock, destroyed,
             version, read, events>>

WebInit ==
    /\ server_running = TRUE /\ accepting = TRUE
    /\ conn = [r \in Requests |-> "none"]
    /\ sse_client_count = 0
    /\ lock = "none" /\ destroyed = FALSE
    /\ version = 0
    /\ read = [r \in Requests |-> 0]
    /\ events = [r \in Requests |-> 0]

\* server_thread_fn: accept, and a thread for the client.
Accept(r) ==
    /\ accepting /\ server_running /\ conn[r] = "none"
    /\ conn' = [conn EXCEPT ![r] = "read"]
    /\ UNCHANGED <<server_running, accepting, sse_client_count, lock, destroyed,
                   version, read, events>>

AcceptEnds ==
    /\ accepting /\ ~server_running
    /\ accepting' = FALSE
    /\ UNCHANGED <<server_running, conn, sse_client_count, lock, destroyed,
                   version, read, events>>

\* client_thread: the page, an error or a hang-up end the connection; a state
\* is built first.
Answer(r, path) ==
    /\ conn[r] = "read"
    /\ conn' = [conn EXCEPT ![r] = IF path = "/api/state" THEN "build_state" ELSE "closed"]
    /\ UNCHANGED <<server_running, accepting, sse_client_count, lock, destroyed,
                   version, read, events>>

\* atomic_fetch_add: the old value decides.
AskForEvents(r) ==
    /\ conn[r] = "read"
    /\ conn' = [conn EXCEPT ![r] = IF sse_client_count >= MaxSse THEN "refuse" ELSE "stream"]
    /\ sse_client_count' = sse_client_count + 1
    /\ UNCHANGED <<server_running, accepting, lock, destroyed, version, read, events>>

\* The refused client stays in the count.
Refuse_Counted(r) ==
    /\ conn[r] = "refuse"
    /\ conn' = [conn EXCEPT ![r] = "closed"]
    /\ UNCHANGED <<server_running, accepting, sse_client_count, lock, destroyed, version,
                   read, events>>

Refuse(r) ==
    /\ conn[r] = "refuse"
    /\ conn' = [conn EXCEPT ![r] = "closed"]
    /\ sse_client_count' = sse_client_count - 1
    /\ UNCHANGED <<server_running, accepting, lock, destroyed, version, read, events>>

\* handle_sse: a second's sleep, then an event while the server runs; a write
\* that fails, and the end of the server, end it.
NextEvent(r) ==
    /\ conn[r] = "stream" /\ server_running /\ events[r] < MaxEvents
    /\ conn' = [conn EXCEPT ![r] = "build_event"]
    /\ UNCHANGED <<server_running, accepting, sse_client_count, lock, destroyed,
                   version, read, events>>

StreamEnds(r) ==
    /\ conn[r] = "stream"
    /\ conn' = [conn EXCEPT ![r] = "closed"]
    /\ sse_client_count' = sse_client_count - 1
    /\ UNCHANGED <<server_running, accepting, lock, destroyed, version, read, events>>

\* build_json: from the first table it reads to the last.
BuildBegins(r) ==
    /\ conn[r] \in {"build_state", "build_event"} /\ lock = "none"
    /\ conn' = [conn EXCEPT ![r] = IF @ = "build_state" THEN "read_state" ELSE "read_event"]
    /\ lock' = r
    /\ read' = [read EXCEPT ![r] = version]
    /\ UNCHANGED <<server_running, accepting, sse_client_count, destroyed, version, events>>

BuildEnds(r) ==
    /\ conn[r] \in {"read_state", "read_event"}
    /\ lock' = IF lock = r THEN "none" ELSE lock
    /\ conn' = [conn EXCEPT ![r] = IF @ = "read_state" THEN "closed" ELSE "stream"]
    /\ events' = [events EXCEPT ![r] = IF conn[r] = "read_event" THEN @ + 1 ELSE @]
    /\ UNCHANGED <<server_running, accepting, sse_client_count, destroyed, version, read>>

\* An update by the output thread: several assignments under the lock.
UpdateBegins ==
    /\ lock = "none" /\ server_running
    /\ lock' = "output"
    /\ UNCHANGED <<server_running, accepting, conn, sse_client_count, destroyed, version,
                   read, events>>

UpdateEnds ==
    /\ lock = "output"
    /\ lock' = "none"
    /\ version' = 1 - version
    /\ UNCHANGED <<server_running, accepting, conn, sse_client_count, destroyed, read, events>>

\* web_map_shutdown, called once the output thread has ended: up to the join,
\* and from it on.
Shutdown ==
    /\ server_running /\ lock # "output"
    /\ server_running' = FALSE
    /\ UNCHANGED <<accepting, conn, sse_client_count, lock, destroyed, version, read, events>>

LockDestroyed ==
    /\ ~accepting /\ ~destroyed
    /\ destroyed' = TRUE
    /\ UNCHANGED <<server_running, accepting, conn, sse_client_count, lock, version, read, events>>

WebNext ==
    \/ \E r \in Requests : Accept(r)
    \/ AcceptEnds
    \/ \E r \in Requests, path \in {"/api/state", "other"} : Answer(r, path)
    \/ \E r \in Requests : AskForEvents(r)
    \/ \E r \in Requests : Refuse(r)
    \/ \E r \in Requests : NextEvent(r)
    \/ \E r \in Requests : StreamEnds(r)
    \/ \E r \in Requests : BuildBegins(r)
    \/ \E r \in Requests : BuildEnds(r)
    \/ UpdateBegins \/ UpdateEnds
    \/ Shutdown \/ LockDestroyed

WebSpec == WebInit /\ [][WebNext]_webVars
-----------------------------------------------------------------------------
Streaming == {r \in Requests : conn[r] \in {"stream", "build_event", "read_event"}}

(* The count is that of the clients streaming and those being refused:      *)
(* whoever comes and goes at the same time, a place is never lost, and no   *)
(* more than MaxSse stream.                                                 *)
SseCountIsExact ==
    /\ sse_client_count = Cardinality(Streaming) +
                          Cardinality({r \in Requests : conn[r] = "refuse"})
    /\ Cardinality(Streaming) <= MaxSse

(* A snapshot shows one state: no update falls between its first table and  *)
(* its last.                                                                *)
SnapshotsAreWhole ==
    \A r \in Requests : conn[r] \in {"read_state", "read_event"} => read[r] = version

(* What concurrent clients rely on: places for event streams are neither    *)
(* lost nor exceeded, and what is sent is one state of the tables.          *)
ClientsAreServed == SseCountIsExact /\ SnapshotsAreWhole
=============================================================================
