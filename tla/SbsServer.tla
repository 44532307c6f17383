------------------------------ MODULE SbsServer ------------------------------
(***************************************************************************)
(* basestation.c: SBS lines go to the clients that connected to the        *)
(* server's port, or to the one remote host the program connects to, and   *)
(* reconnects to.  The accept (or reconnect) thread, the output thread and *)
(* main share the list of clients; descriptors are numbers, and a number   *)
(* closed may be given to another part of the program.                     *)
(***************************************************************************)
EXTENDS Integers, Sequences

CONSTANTS
    Fds,         \* descriptor numbers
    MaxClients,  \* BS_MAX_CLIENTS, 16
    SbsModes,    \* "server", "client"
    MaxPeers     \* bound on the connections made

ASSUME SbsAssumption == Fds \subseteq Nat \ {0} /\ MaxClients \in Nat \ {0}

VARIABLES
    bs_mode,    \* "server" or "client"
    stage,      \* main: "running", "stopping" (running is 0), "closing", "done"
    owner,      \* the owner of each number: "none", "sbs" or another part
    alive,      \* the numbers whose peer still reads
    listen_fd,  \* 0 when it is closed
    clients, bs_client_fd,
    thread,     \* accept or reconnect thread: its place and the number it holds
    peers,      \* connections made
    stolen      \* whether a number of another part was closed

sbsVars == <<bs_mode, stage, owner, alive, listen_fd, clients, bs_client_fd, thread, peers, stolen>>

Free(o) == {f \in Fds : o[f] = "none"}

Running == stage = "running"

SbsInit ==
    /\ bs_mode \in SbsModes
    /\ stage = "running"
    /\ listen_fd \in IF bs_mode = "server" THEN Fds ELSE {0}
    /\ owner = [f \in Fds |-> IF f = listen_fd THEN "sbs" ELSE "none"]
    /\ alive = {} /\ clients = <<>> /\ bs_client_fd = 0
    /\ thread = [pc |-> "loop", fd |-> 0]
    /\ peers = 0
    /\ stolen = FALSE

Listed == {clients[i] : i \in DOMAIN clients}

\* close(fds): what it does to the numbers, in order.
Closing(fds) ==
    /\ owner' = [f \in Fds |-> IF f \in fds THEN "none" ELSE owner[f]]
    /\ alive' = alive \ fds
    /\ stolen' = (stolen \/ \E f \in fds : owner[f] = "other")

Opening(f, who) ==
    /\ owner' = [owner EXCEPT ![f] = who]
    /\ alive' = alive \cup {f}
    /\ UNCHANGED stolen

\* bs_accept_thread: the loop's test, then select and accept.
AcceptLoop ==
    /\ bs_mode = "server" /\ thread.pc = "loop"
    /\ thread' = [thread EXCEPT !.pc = IF Running THEN "select" ELSE "end"]
    /\ UNCHANGED <<bs_mode, stage, owner, alive, listen_fd, clients, bs_client_fd, peers, stolen>>

AcceptNothing ==
    /\ bs_mode = "server" /\ thread.pc = "select"
    /\ thread' = [thread EXCEPT !.pc = "loop"]
    /\ UNCHANGED <<bs_mode, stage, owner, alive, listen_fd, clients, bs_client_fd, peers, stolen>>

AcceptOne ==
    /\ bs_mode = "server" /\ thread.pc = "select" /\ listen_fd # 0
    /\ peers < MaxPeers
    /\ \E f \in Free(owner) : Opening(f, "sbs") /\ thread' = [pc |-> "have", fd |-> f]
    /\ peers' = peers + 1
    /\ UNCHANGED <<bs_mode, stage, listen_fd, clients, bs_client_fd>>

\* A connection too many is left open.
AcceptAdd_LeaveOpen ==
    /\ bs_mode = "server" /\ thread.pc = "have"
    /\ thread' = [pc |-> "loop", fd |-> 0]
    /\ clients' = IF Len(clients) < MaxClients THEN Append(clients, thread.fd) ELSE clients
    /\ UNCHANGED <<bs_mode, stage, listen_fd, bs_client_fd, peers, owner, alive, stolen>>

\* Under clients_lock: listed, or closed when the list is full.
AcceptAdd ==
    /\ bs_mode = "server" /\ thread.pc = "have"
    /\ thread' = [pc |-> "loop", fd |-> 0]
    /\ IF Len(clients) < MaxClients
       THEN clients' = Append(clients, thread.fd) /\ UNCHANGED <<owner, alive, stolen>>
       ELSE Closing({thread.fd}) /\ UNCHANGED clients
    /\ UNCHANGED <<bs_mode, stage, listen_fd, bs_client_fd, peers>>

\* bs_reconnect_thread: need_connect is read under the lock, the connection is
\* made without it and installed under it; then it sleeps.
ReconnectLoop ==
    /\ bs_mode = "client" /\ thread.pc = "loop"
    /\ thread' = [thread EXCEPT !.pc = CASE ~Running -> "end"
                                         [] Running /\ bs_client_fd = 0 -> "connect"
                                         [] OTHER -> "loop"]
    /\ UNCHANGED <<bs_mode, stage, owner, alive, listen_fd, clients, bs_client_fd, peers, stolen>>

ConnectFails ==
    /\ bs_mode = "client" /\ thread.pc = "connect"
    /\ thread' = [thread EXCEPT !.pc = "loop"]
    /\ UNCHANGED <<bs_mode, stage, owner, alive, listen_fd, clients, bs_client_fd, peers, stolen>>

Connects ==
    /\ bs_mode = "client" /\ thread.pc = "connect"
    /\ peers < MaxPeers
    /\ \E f \in Free(owner) : Opening(f, "sbs") /\ thread' = [pc |-> "have", fd |-> f]
    /\ peers' = peers + 1
    /\ UNCHANGED <<bs_mode, stage, listen_fd, clients, bs_client_fd>>

Install ==
    /\ bs_mode = "client" /\ thread.pc = "have"
    /\ bs_client_fd' = thread.fd
    /\ clients' = <<thread.fd>>
    /\ thread' = [pc |-> "loop", fd |-> 0]
    /\ UNCHANGED <<bs_mode, stage, owner, alive, listen_fd, peers, stolen>>

\* The first client whose write fails ends the loop.
FirstDead == {i \in DOMAIN clients : /\ clients[i] \notin alive
                                     /\ \A j \in 1 .. i - 1 : clients[j] \in alive}

\* The lost connection is closed, but not marked for reconnection.
SendPosition_Unmarked ==
    \E i \in FirstDead :
        /\ stage \in {"running", "stopping"}
        /\ Closing({clients[i]})
        /\ IF bs_mode = "client"
           THEN clients' = <<>> /\ UNCHANGED bs_client_fd
           ELSE /\ clients' = SubSeq([clients EXCEPT ![i] = clients[Len(clients)]],
                                     1, Len(clients) - 1)
                /\ UNCHANGED bs_client_fd
        /\ UNCHANGED <<bs_mode, stage, listen_fd, thread, peers>>

\* The write loop of basestation_send_position when a write fails; a send that
\* succeeds, or would block, changes nothing here.
SendPosition ==
    \E i \in FirstDead :
        /\ stage \in {"running", "stopping"}
        /\ Closing({clients[i]})
        /\ IF bs_mode = "client"
           THEN clients' = <<>> /\ bs_client_fd' = 0
           ELSE /\ clients' = SubSeq([clients EXCEPT ![i] = clients[Len(clients)]],
                                     1, Len(clients) - 1)
                /\ UNCHANGED bs_client_fd
        /\ UNCHANGED <<bs_mode, stage, listen_fd, thread, peers>>

PeerLeaves(f) ==
    /\ f \in alive /\ owner[f] = "sbs"
    /\ alive' = alive \ {f}
    /\ UNCHANGED <<bs_mode, stage, owner, listen_fd, clients, bs_client_fd, thread, peers, stolen>>

\* The web server's threads open and close connections of their own until main
\* has joined the web server, before it calls basestation_destroy.
OtherOpens ==
    /\ stage \in {"running", "stopping"} /\ \A f \in Fds : owner[f] # "other"
    /\ \E f \in Free(owner) : Opening(f, "other")
    /\ UNCHANGED <<bs_mode, stage, listen_fd, clients, bs_client_fd, thread, peers>>

OtherCloses(f) ==
    /\ owner[f] = "other"
    /\ owner' = [owner EXCEPT ![f] = "none"]
    /\ alive' = alive \ {f}
    /\ UNCHANGED <<bs_mode, stage, listen_fd, clients, bs_client_fd, thread, peers, stolen>>

Stop ==
    /\ stage = "running"
    /\ stage' = "stopping"
    /\ UNCHANGED <<bs_mode, owner, alive, listen_fd, clients, bs_client_fd, thread, peers, stolen>>

\* basestation_destroy up to the join: the output thread has ended.
DestroyBegins ==
    /\ stage = "stopping"
    /\ stage' = "closing"
    /\ IF listen_fd # 0 THEN Closing({listen_fd}) ELSE UNCHANGED <<owner, alive, stolen>>
    /\ listen_fd' = 0
    /\ UNCHANGED <<bs_mode, clients, bs_client_fd, thread, peers>>

\* And from the join on.  In client mode the one number is closed twice.
DestroyEnds ==
    /\ stage = "closing" /\ thread.pc = "end"
    /\ stage' = "done"
    /\ Closing(Listed \cup ({bs_client_fd} \ {0}))
    /\ clients' = <<>> /\ bs_client_fd' = 0
    /\ UNCHANGED <<bs_mode, listen_fd, thread, peers>>

SbsNext ==
    \/ AcceptLoop \/ AcceptNothing \/ AcceptOne \/ AcceptAdd
    \/ ReconnectLoop \/ ConnectFails \/ Connects \/ Install
    \/ SendPosition
    \/ \E f \in Fds : PeerLeaves(f)
    \/ OtherOpens
    \/ \E f \in Fds : OtherCloses(f)
    \/ Stop \/ DestroyBegins \/ DestroyEnds

SbsSpec == SbsInit /\ [][SbsNext]_sbsVars
-----------------------------------------------------------------------------
(* Every client listed is an open connection of this part, listed once, and *)
(* none is open that is neither listed nor in the hands of the thread that  *)
(* opened it: after basestation_destroy nothing is left open.               *)
OpenClientsAreListed ==
    /\ \A i, j \in DOMAIN clients : clients[i] = clients[j] => i = j
    /\ Len(clients) <= MaxClients
    /\ {f \in Fds : owner[f] = "sbs"} = Listed \cup ({thread.fd, listen_fd} \ {0})

(* Closing never hits a number that has meanwhile been given to another     *)
(* part of the program.                                                     *)
ClosesOnlyItsOwn == ~stolen

(* A lost connection to the remote host is always one the reconnect thread  *)
(* will notice: bs_client_fd is set exactly while the host is listed.       *)
LossIsNoticed ==
    bs_mode = "client" => clients = IF bs_client_fd = 0 THEN <<>> ELSE <<bs_client_fd>>

(* The client table, the descriptors open and bs_client_fd agree, whichever *)
(* of the two threads changes them.                                         *)
ClientTableIsExact == OpenClientsAreListed /\ LossIsNoticed
=============================================================================
