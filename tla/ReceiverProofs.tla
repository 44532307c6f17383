--------------------------- MODULE ReceiverProofs ---------------------------
(***************************************************************************)
(* Safety of the threads around the queues: the SBS server, the web        *)
(* server, the VITA 49 listener and the TCP feeds.                         *)
(***************************************************************************)
EXTENDS SbsServer, WebServer, Vita49, HubFeed, FiniteSetTheorems, TLAPS

-----------------------------------------------------------------------------
(***************************************************************************)
(* The SBS server and its reconnecting client for every set of descriptor  *)
(* numbers and every limit on the clients.                                 *)
(***************************************************************************)

SbsTypes ==
  /\ owner \in [Fds -> {"none", "sbs", "other"}]
  /\ alive \subseteq Fds
  /\ listen_fd \in Fds \cup {0} /\ bs_client_fd \in Fds \cup {0}
  /\ clients \in Seq(Fds)
  /\ thread \in [pc : {"loop", "select", "connect", "have", "end"}, fd : Fds \cup {0}]

(* The three properties hold together.  That the list and the descriptors   *)
(* owned agree needs the number in the thread's hands to be another one     *)
(* than those listed, and that nothing of another part is closed needs them *)
(* to agree.  In client mode a connection is only made, without the lock,   *)
(* while none is listed, and no other thread lists one.                     *)
SbsInv ==
  /\ SbsTypes
  /\ OpenClientsAreListed /\ ClosesOnlyItsOwn /\ LossIsNoticed
  /\ thread.fd # 0 <=> thread.pc = "have"
  /\ listen_fd # 0 => listen_fd \notin Listed /\ listen_fd # thread.fd
  /\ thread.fd # 0 => thread.fd \notin Listed
  /\ bs_mode # "client" => bs_client_fd = 0
  /\ bs_mode = "client" => listen_fd = 0 /\ (thread.pc \in {"connect", "have"} => bs_client_fd = 0)

LEMMA ListedAreClients ==
  ASSUME SbsTypes
  PROVE  Listed = {clients[i] : i \in 1 .. Len(clients)} /\ Listed \subseteq Fds
BY DEF SbsTypes, Listed

LEMMA SbsInitInv == SbsInit => SbsInv
<1> SUFFICES ASSUME SbsInit PROVE SbsInv
  OBVIOUS
<1>1. SbsTypes
  BY SbsAssumption DEF SbsInit, SbsTypes
<1>2. Listed = {} /\ Len(clients) = 0
  BY DEF SbsInit, Listed
<1>3. OpenClientsAreListed
  <2>1. DOMAIN clients = {} /\ Len(clients) <= MaxClients
    BY <1>2, SbsAssumption DEF SbsInit
  <2>2. thread.fd = 0 /\ 0 \notin Fds
    BY Zenon, SbsAssumption DEF SbsInit
  <2>3. {f \in Fds : owner[f] = "sbs"} = {f \in Fds : f = listen_fd}
    BY Zenon DEF SbsInit
  <2>4. listen_fd \in Fds \cup {0}
    BY Zenon DEF SbsInit
  <2>5. {f \in Fds : owner[f] = "sbs"} = Listed \cup ({thread.fd, listen_fd} \ {0})
    BY Zenon, <1>2, <2>2, <2>3, <2>4
  <2> QED BY Zenon, <2>1, <2>5 DEF OpenClientsAreListed
<1> QED
  BY Zenon, <1>1, <1>2, <1>3, SbsAssumption DEF SbsInit, SbsInv, ClosesOnlyItsOwn, LossIsNoticed

(* A step that touches neither descriptors nor list. *)
LEMMA QuietSteps ==
  ASSUME SbsInv,
         UNCHANGED <<bs_mode, owner, listen_fd, clients, bs_client_fd, stolen>>,
         alive' \subseteq Fds,
         thread' \in [pc : {"loop", "select", "connect", "have", "end"}, fd : {thread.fd}],
         thread'.pc = "have" <=> thread.pc = "have",
         bs_mode = "client" /\ thread'.pc = "connect" => bs_client_fd = 0
  PROVE  SbsInv'
<1>1. SbsTypes'
  BY Zenon DEF SbsInv, SbsTypes
<1>2. Listed' = Listed /\ thread'.fd = thread.fd
  BY Zenon DEF Listed
<1>3. OpenClientsAreListed'
  BY Zenon, <1>2 DEF SbsInv, OpenClientsAreListed
<1> QED
  BY Zenon, <1>1, <1>2, <1>3 DEF SbsInv, ClosesOnlyItsOwn, LossIsNoticed

(* A connection is made: its number is in the thread's hands. *)
LEMMA Opens ==
  ASSUME SbsInv, NEW f \in Free(owner), Opening(f, "sbs"), thread' = [pc |-> "have", fd |-> f],
         thread.fd = 0, bs_mode = "client" => bs_client_fd = 0,
         UNCHANGED <<bs_mode, listen_fd, clients, bs_client_fd>>
  PROVE  SbsInv'
<1>0. f \in Fds /\ owner[f] = "none" /\ f # 0
  BY Zenon, SbsAssumption DEF Free
<1>1. SbsTypes'
  BY Zenon, <1>0 DEF SbsInv, SbsTypes, Opening
<1>2. Listed' = Listed /\ thread'.fd = f /\ thread'.pc = "have"
  BY Zenon DEF Listed
<1>3. f \notin Listed /\ f # listen_fd
  BY Zenon, <1>0, SbsAssumption DEF SbsInv, OpenClientsAreListed
<1>4. {x \in Fds : owner'[x] = "sbs"} = {x \in Fds : owner[x] = "sbs"} \cup {f}
  BY Zenon, <1>0 DEF SbsInv, SbsTypes, Opening
<1>5. OpenClientsAreListed'
  BY <1>0, <1>2, <1>4 DEF SbsInv, OpenClientsAreListed
<1> QED
  BY Zenon, <1>0, <1>1, <1>2, <1>3, <1>5 DEF SbsInv, ClosesOnlyItsOwn, LossIsNoticed, Opening

(* The thread closes the number it holds, which is not listed. *)
LEMMA DropsItsOwn ==
  ASSUME SbsInv, thread.pc = "have", Closing({thread.fd}), thread' = [pc |-> "loop", fd |-> 0],
         UNCHANGED <<bs_mode, listen_fd, clients, bs_client_fd>>
  PROVE  SbsInv'
<1> DEFINE f == thread.fd
<1>0. f \in Fds /\ owner[f] = "sbs" /\ f \notin Listed /\ f # listen_fd /\ f # 0
  BY Zenon, SbsAssumption DEF SbsInv, SbsTypes, OpenClientsAreListed
<1>1. SbsTypes'
  BY Zenon DEF SbsInv, SbsTypes, Closing
<1>2. Listed' = Listed /\ thread'.fd = 0 /\ thread'.pc = "loop"
  BY Zenon DEF Listed
<1>3. {x \in Fds : owner'[x] = "sbs"} = {x \in Fds : owner[x] = "sbs"} \ {f}
  BY Zenon, <1>0 DEF SbsInv, SbsTypes, Closing
<1>4. OpenClientsAreListed'
  BY <1>0, <1>2, <1>3 DEF SbsInv, OpenClientsAreListed
<1>5. ~stolen'
  BY Zenon, <1>0 DEF SbsInv, ClosesOnlyItsOwn, Closing
<1> QED
  BY Zenon, <1>0, <1>1, <1>2, <1>4, <1>5 DEF SbsInv, ClosesOnlyItsOwn, LossIsNoticed

(* The thread's number is listed. *)
LEMMA Lists ==
  ASSUME SbsInv, thread.pc = "have", thread' = [pc |-> "loop", fd |-> 0],
         clients' = Append(clients, thread.fd), Len(clients) < MaxClients,
         bs_client_fd' \in {bs_client_fd, thread.fd},
         bs_mode = "client" <=> bs_client_fd' = thread.fd,
         UNCHANGED <<bs_mode, owner, alive, listen_fd, stolen>>
  PROVE  SbsInv'
<1> DEFINE f == thread.fd
<1>0. f \in Fds /\ f \notin Listed /\ f # listen_fd /\ f # 0 /\ clients \in Seq(Fds)
  BY Zenon, SbsAssumption DEF SbsInv, SbsTypes
<1>1. SbsTypes'
  BY <1>0 DEF SbsInv, SbsTypes
<1>2. thread'.fd = 0 /\ thread'.pc = "loop"
  OBVIOUS
<1> HIDE DEF f
<1>3. /\ DOMAIN clients' = 1 .. Len(clients) + 1 /\ DOMAIN clients = 1 .. Len(clients)
      /\ \A i \in 1 .. Len(clients) : clients'[i] = clients[i]
      /\ clients'[Len(clients) + 1] = f /\ Len(clients) \in Nat
      /\ Len(clients') = Len(clients) + 1
  BY <1>0 DEF f
<1>4. Listed' = Listed \cup {f}
  BY <1>3 DEF Listed
<1>5. \A i \in 1 .. Len(clients) : clients[i] # f
  BY Zenon, <1>0, <1>3 DEF Listed
<1>6. \A i, j \in DOMAIN clients' : clients'[i] = clients'[j] => i = j
  BY <1>3, <1>5 DEF SbsInv, OpenClientsAreListed
<1>7. OpenClientsAreListed'
  BY <1>0, <1>2, <1>3, <1>4, <1>6, SbsAssumption DEF SbsInv, OpenClientsAreListed, f
<1>8. LossIsNoticed'
  <2>1. CASE bs_mode = "client"
    <3>1. bs_client_fd = 0 /\ clients = <<>>
      BY Zenon, <2>1 DEF SbsInv, LossIsNoticed
    <3> QED BY <1>0, <2>1, <3>1 DEF LossIsNoticed, f
  <2> QED BY Zenon, <2>1 DEF LossIsNoticed
<1>9. listen_fd' # 0 => listen_fd' \notin Listed' /\ listen_fd' # thread'.fd
  BY Zenon, <1>0, <1>2, <1>4 DEF SbsInv
<1> QED
  BY Zenon, <1>0, <1>1, <1>2, <1>7, <1>8, <1>9 DEF SbsInv, ClosesOnlyItsOwn, f

(* Closing what is listed, or the listening number, steals nothing. *)
LEMMA ClosesOwned ==
  ASSUME SbsInv, NEW fds, fds \subseteq Listed \cup ({listen_fd} \ {0}), Closing(fds)
  PROVE  /\ owner' \in [Fds -> {"none", "sbs", "other"}] /\ alive' \subseteq Fds /\ ~stolen'
         /\ {x \in Fds : owner'[x] = "sbs"} = {x \in Fds : owner[x] = "sbs"} \ fds
<1>1. \A x \in fds : x \in Fds /\ owner[x] = "sbs"
  BY Zenon DEF SbsInv, OpenClientsAreListed
<1> QED BY Zenon, <1>1 DEF SbsInv, SbsTypes, ClosesOnlyItsOwn, Closing

(* The last client takes the place of the one that is removed. *)
LEMMA Removal ==
  ASSUME SbsTypes, NEW i \in DOMAIN clients,
         \A j, k \in DOMAIN clients : clients[j] = clients[k] => j = k,
         clients' = SubSeq([clients EXCEPT ![i] = clients[Len(clients)]], 1, Len(clients) - 1)
  PROVE  /\ clients' \in Seq(Fds) /\ Len(clients') = Len(clients) - 1
         /\ \A j, k \in DOMAIN clients' : clients'[j] = clients'[k] => j = k
         /\ Listed' = Listed \ {clients[i]}
<1> DEFINE n == Len(clients)
           s == [clients EXCEPT ![i] = clients[n]]
<1>1. clients \in Seq(Fds) /\ n \in Nat /\ DOMAIN clients = 1 .. n /\ i \in 1 .. n
  BY DEF SbsTypes
<1>2. s \in Seq(Fds) /\ Len(s) = n
  BY <1>1
<1>3. \A j \in 1 .. n : s[j] = IF j = i THEN clients[n] ELSE clients[j]
  BY Zenon, <1>1
<1> HIDE DEF s
<1>4. clients' = SubSeq(s, 1, n - 1)
  BY Zenon DEF s
<1>5. /\ clients' \in Seq(Fds) /\ Len(clients') = n - 1 /\ DOMAIN clients' = 1 .. n - 1
      /\ \A j \in 1 .. n - 1 : clients'[j] = s[j]
  BY <1>1, <1>2, <1>4
<1> HIDE DEF n
<1>6. \A j, k \in DOMAIN clients' : clients'[j] = clients'[k] => j = k
  BY SMTT(40), <1>1, <1>3, <1>5
<1>7. Listed' \subseteq Listed \ {clients[i]}
  BY <1>1, <1>3, <1>5 DEF Listed
<1>8. ASSUME NEW j \in DOMAIN clients, j # i PROVE clients[j] \in Listed'
  <2>1. CASE j = n
    <3>1. i \in 1 .. n - 1 /\ clients'[i] = clients[n]
      BY <1>1, <1>3, <1>5, <1>8, <2>1
    <3> QED BY Zenon, <1>5, <2>1, <3>1 DEF Listed
  <2>2. CASE j # n
    <3>1. j \in 1 .. n - 1
      BY <1>1, <2>2
    <3> QED BY Zenon, <1>1, <1>3, <1>5, <1>8, <3>1 DEF Listed
  <2> QED BY Zenon, <2>1, <2>2
<1>9. Listed \ {clients[i]} \subseteq Listed'
  BY Zenon, <1>8 DEF Listed
<1> QED BY Zenon, <1>5, <1>6, <1>7, <1>9 DEF n

LEMMA SendKeeps ==
  ASSUME SbsInv, SendPosition
  PROVE  SbsInv'
<1>1. PICK i \in FirstDead :
        /\ Closing({clients[i]})
        /\ IF bs_mode = "client"
           THEN clients' = <<>> /\ bs_client_fd' = 0
           ELSE /\ clients' = SubSeq([clients EXCEPT ![i] = clients[Len(clients)]],
                                     1, Len(clients) - 1)
                /\ UNCHANGED bs_client_fd
        /\ UNCHANGED <<bs_mode, stage, listen_fd, thread, peers>>
  BY Zenon DEF SendPosition
<1>2. i \in DOMAIN clients /\ clients[i] \in Listed
  BY Zenon DEF FirstDead, Listed
<1>3. /\ owner' \in [Fds -> {"none", "sbs", "other"}] /\ alive' \subseteq Fds /\ ~stolen'
      /\ {x \in Fds : owner'[x] = "sbs"} = {x \in Fds : owner[x] = "sbs"} \ {clients[i]}
  BY Zenon, <1>1, <1>2, ClosesOwned
<1>4. /\ clients' \in Seq(Fds) /\ Len(clients') <= MaxClients
      /\ \A j, k \in DOMAIN clients' : clients'[j] = clients'[k] => j = k
      /\ Listed' = Listed \ {clients[i]}
      /\ LossIsNoticed'
  <2>1. CASE bs_mode = "client"
    <3>1. clients = <<bs_client_fd>>
      BY <1>2, <2>1 DEF SbsInv, LossIsNoticed
    <3>2. Listed = {bs_client_fd} /\ clients[i] = bs_client_fd
      BY <1>2, <3>1 DEF Listed
    <3>3. Listed' = {}
      BY <1>1, <2>1 DEF Listed
    <3> QED BY <1>1, <2>1, <3>2, <3>3, SbsAssumption DEF LossIsNoticed
  <2>2. CASE bs_mode # "client"
    <3>1. SbsTypes /\ \A j, k \in DOMAIN clients : clients[j] = clients[k] => j = k
      BY Zenon DEF SbsInv, OpenClientsAreListed
    <3>2. /\ clients' \in Seq(Fds) /\ Len(clients') = Len(clients) - 1
          /\ \A j, k \in DOMAIN clients' : clients'[j] = clients'[k] => j = k
          /\ Listed' = Listed \ {clients[i]}
      BY Zenon, <1>1, <1>2, <2>2, <3>1, Removal
    <3>3. Len(clients) \in Nat /\ Len(clients) <= MaxClients
      BY DEF SbsInv, SbsTypes, OpenClientsAreListed
    <3> QED BY <1>1, <2>2, <3>2, <3>3, SbsAssumption DEF LossIsNoticed
  <2> QED BY Zenon, <2>1, <2>2
<1>5. SbsTypes'
  BY Zenon, <1>1, <1>3, <1>4 DEF SbsInv, SbsTypes
<1>6. OpenClientsAreListed'
  <2>1. clients[i] \notin {thread.fd, listen_fd} \ {0}
    BY Zenon, <1>2 DEF SbsInv
  <2> QED BY <1>1, <1>2, <1>3, <1>4, <2>1 DEF SbsInv, OpenClientsAreListed
<1> QED
  BY Zenon, <1>1, <1>3, <1>4, <1>5, <1>6 DEF SbsInv, ClosesOnlyItsOwn

LEMMA DestroyBeginsKeeps ==
  ASSUME SbsInv, DestroyBegins
  PROVE  SbsInv'
<1> DEFINE fds == {listen_fd} \ {0}
<1>1. /\ owner' \in [Fds -> {"none", "sbs", "other"}] /\ alive' \subseteq Fds /\ ~stolen'
      /\ {x \in Fds : owner'[x] = "sbs"} = {x \in Fds : owner[x] = "sbs"} \ fds
  <2>1. CASE listen_fd # 0
    <3>1. Closing(fds)
      BY Zenon, <2>1 DEF DestroyBegins
    <3> QED BY Zenon, <3>1, ClosesOwned
  <2>2. CASE listen_fd = 0
    BY Zenon, <2>2 DEF DestroyBegins, SbsInv, SbsTypes, ClosesOnlyItsOwn
  <2> QED BY Zenon, <2>1, <2>2
<1>2. listen_fd' = 0 /\ UNCHANGED <<bs_mode, clients, bs_client_fd, thread>> /\ Listed' = Listed
  BY Zenon DEF DestroyBegins, Listed
<1>3. SbsTypes'
  BY Zenon, <1>1, <1>2 DEF SbsInv, SbsTypes
<1>4. OpenClientsAreListed'
  BY <1>1, <1>2 DEF SbsInv, OpenClientsAreListed
<1> QED
  BY Zenon, <1>1, <1>2, <1>3, <1>4 DEF SbsInv, ClosesOnlyItsOwn, LossIsNoticed

LEMMA DestroyEndsKeeps ==
  ASSUME SbsInv, DestroyEnds
  PROVE  SbsInv'
<1> DEFINE fds == Listed \cup ({bs_client_fd} \ {0})
<1>1. fds = Listed
  <2>1. CASE bs_mode = "client" /\ bs_client_fd # 0
    <3>1. clients = <<bs_client_fd>>
      BY Zenon, <2>1 DEF SbsInv, LossIsNoticed
    <3> QED BY <3>1 DEF Listed
  <2> QED BY Zenon, <2>1 DEF SbsInv
<1>2. /\ owner' \in [Fds -> {"none", "sbs", "other"}] /\ alive' \subseteq Fds /\ ~stolen'
      /\ {x \in Fds : owner'[x] = "sbs"} = {x \in Fds : owner[x] = "sbs"} \ Listed
  BY Zenon, <1>1, ClosesOwned DEF DestroyEnds
<1>3. clients' = <<>> /\ bs_client_fd' = 0 /\ UNCHANGED <<bs_mode, listen_fd, thread>>
  BY Zenon DEF DestroyEnds
<1>4. Listed' = {} /\ DOMAIN clients' = {} /\ Len(clients') = 0
  BY <1>3 DEF Listed
<1>5. SbsTypes'
  BY <1>2, <1>3 DEF SbsInv, SbsTypes
<1>6. OpenClientsAreListed'
  BY <1>2, <1>3, <1>4, SbsAssumption DEF SbsInv, OpenClientsAreListed
<1> QED
  BY Zenon, <1>2, <1>3, <1>4, <1>5, <1>6 DEF SbsInv, ClosesOnlyItsOwn, LossIsNoticed

(* The other part of the program opens and closes numbers that are free or  *)
(* its own.                                                                 *)
LEMMA OtherKeeps ==
  ASSUME SbsInv, OtherOpens \/ \E f \in Fds : OtherCloses(f)
  PROVE  SbsInv'
<1>1. PICK f \in Fds : /\ owner[f] # "sbs"
                       /\ \E who \in {"none", "other"} : owner' = [owner EXCEPT ![f] = who]
                       /\ alive' \subseteq Fds
                       /\ UNCHANGED <<bs_mode, listen_fd, clients, bs_client_fd, thread, stolen>>
  <2>1. CASE OtherOpens
    BY Zenon, <2>1 DEF OtherOpens, Opening, Free, SbsInv, SbsTypes
  <2>2. CASE \E f \in Fds : OtherCloses(f)
    BY Zenon, <2>2 DEF OtherCloses, SbsInv, SbsTypes
  <2> QED BY Zenon, <2>1, <2>2
<1>2. owner' \in [Fds -> {"none", "sbs", "other"}]
      /\ {x \in Fds : owner'[x] = "sbs"} = {x \in Fds : owner[x] = "sbs"}
  BY Zenon, <1>1 DEF SbsInv, SbsTypes
<1>3. Listed' = Listed
  BY Zenon, <1>1 DEF Listed
<1>4. SbsTypes'
  BY Zenon, <1>1, <1>2 DEF SbsInv, SbsTypes
<1>5. OpenClientsAreListed'
  BY Zenon, <1>1, <1>2, <1>3 DEF SbsInv, OpenClientsAreListed
<1> QED
  BY Zenon, <1>1, <1>3, <1>4, <1>5 DEF SbsInv, ClosesOnlyItsOwn, LossIsNoticed

LEMMA SbsNextInv == SbsInv /\ [SbsNext]_sbsVars => SbsInv'
<1> SUFFICES ASSUME SbsInv, [SbsNext]_sbsVars PROVE SbsInv'
  OBVIOUS
<1>0. thread \in [pc : {"loop", "select", "connect", "have", "end"}, fd : Fds \cup {0}]
      /\ alive \subseteq Fds
  BY Zenon DEF SbsInv, SbsTypes
<1>1. CASE AcceptLoop \/ AcceptNothing \/ ReconnectLoop \/ ConnectFails
  BY Zenon, <1>0, <1>1, QuietSteps DEF AcceptLoop, AcceptNothing, ReconnectLoop, ConnectFails
<1>2. CASE AcceptOne
  <2>1. thread.fd = 0 /\ bs_mode # "client"
    BY Zenon, <1>2 DEF AcceptOne, SbsInv
  <2> QED BY Zenon, <1>2, <2>1, Opens DEF AcceptOne
<1>3. CASE Connects
  <2>1. thread.fd = 0 /\ bs_client_fd = 0
    BY Zenon, <1>3 DEF Connects, SbsInv
  <2> QED BY Zenon, <1>3, <2>1, Opens DEF Connects
<1>4. CASE AcceptAdd
  <2>1. bs_mode # "client" /\ bs_client_fd = 0 /\ thread.fd # 0 /\ thread.pc = "have"
    BY Zenon, <1>4 DEF AcceptAdd, SbsInv
  <2>2. CASE Len(clients) < MaxClients
    BY Zenon, <1>4, <2>1, <2>2, Lists DEF AcceptAdd
  <2>3. CASE ~(Len(clients) < MaxClients)
    BY Zenon, <1>4, <2>1, <2>3, DropsItsOwn DEF AcceptAdd
  <2> QED BY Zenon, <2>2, <2>3
<1>5. CASE Install
  <2>1. bs_mode = "client" /\ thread.pc = "have" /\ bs_client_fd = 0 /\ clients = <<>>
    BY Zenon, <1>5 DEF Install, SbsInv, LossIsNoticed
  <2>2. clients' = Append(clients, thread.fd) /\ Len(clients) < MaxClients
    BY <1>5, <2>1, SbsAssumption DEF Install
  <2> QED BY Zenon, <1>5, <2>1, <2>2, Lists DEF Install
<1>6. CASE SendPosition
  BY Zenon, <1>6, SendKeeps
<1>7. CASE \E f \in Fds : PeerLeaves(f)
  BY Zenon, <1>0, <1>7, QuietSteps DEF PeerLeaves, SbsInv
<1>8. CASE OtherOpens \/ \E f \in Fds : OtherCloses(f)
  BY Zenon, <1>8, OtherKeeps
<1>9. CASE Stop \/ UNCHANGED sbsVars
  BY Zenon, <1>0, <1>9, QuietSteps DEF Stop, sbsVars, SbsInv
<1>10. CASE DestroyBegins \/ DestroyEnds
  BY Zenon, <1>10, DestroyBeginsKeeps, DestroyEndsKeeps
<1> QED
  BY Zenon, <1>1, <1>2, <1>3, <1>4, <1>5, <1>6, <1>7, <1>8, <1>9, <1>10 DEF SbsNext

LEMMA SbsInvHolds == SbsSpec => []SbsInv
BY SbsInitInv, SbsNextInv, PTL DEF SbsSpec

(* No connection is listed twice, forgotten or left open, whatever the     *)
(* limit and however clients come, go and are refused.                     *)
THEOREM NothingLeaks == SbsSpec => []OpenClientsAreListed
<1>1. SbsInv => OpenClientsAreListed
  BY Zenon DEF SbsInv
<1> QED BY <1>1, SbsInvHolds, PTL

(* The numbers this part closes are its own, although other threads open   *)
(* and close connections all the time.                                     *)
THEOREM NothingIsStolen == SbsSpec => []ClosesOnlyItsOwn
<1>1. SbsInv => ClosesOnlyItsOwn
  BY Zenon DEF SbsInv
<1> QED BY <1>1, SbsInvHolds, PTL

(* The reconnect thread sees every loss the output thread meets, although   *)
(* it connects without the lock.                                            *)
THEOREM LossesAreNoticed == SbsSpec => []LossIsNoticed
<1>1. SbsInv => LossIsNoticed
  BY Zenon DEF SbsInv
<1> QED BY <1>1, SbsInvHolds, PTL

(* Table, descriptors and bs_client_fd agree, for any number of clients.    *)
THEOREM ClientTableHolds == SbsSpec => []ClientTableIsExact
<1>1. OpenClientsAreListed /\ LossIsNoticed => ClientTableIsExact
  BY Zenon DEF ClientTableIsExact
<1> QED BY <1>1, NothingLeaks, LossesAreNoticed, PTL

-----------------------------------------------------------------------------
(***************************************************************************)
(* The web server for every set of connections and every limit.            *)
(***************************************************************************)

ConnPlaces == {"none", "read", "closed", "refuse", "stream", "build_state", "build_event",
               "read_state", "read_event"}

Reading(r) == conn[r] \in {"read_state", "read_event"}

(* SnapshotsAreWhole is not inductive: it needs that whoever reads the      *)
(* tables holds state.lock, so that the output thread does not.             *)
ReadInv ==
  /\ conn \in [Requests -> ConnPlaces]
  /\ read \in [Requests -> {0, 1}] /\ version \in {0, 1}
  /\ \A r \in Requests : Reading(r) => lock = r
  /\ SnapshotsAreWhole

LEMMA ReadNext == ReadInv /\ [WebNext]_webVars => ReadInv'
<1> SUFFICES ASSUME ReadInv, [WebNext]_webVars PROVE ReadInv'
  OBVIOUS
<1> USE WebAssumption DEF ReadInv, SnapshotsAreWhole, Reading, ConnPlaces
<1>1. ASSUME NEW r \in Requests, Accept(r) \/ AskForEvents(r) \/ Refuse(r) \/ NextEvent(r) \/ StreamEnds(r)
      PROVE  ReadInv'
  BY Zenon, <1>1 DEF Accept, AskForEvents, Refuse, NextEvent, StreamEnds
<1>2. ASSUME NEW r \in Requests, NEW path, Answer(r, path) PROVE ReadInv'
  BY Zenon, <1>2 DEF Answer
<1>3. ASSUME NEW r \in Requests, BuildBegins(r) PROVE ReadInv'
  <2>1. \A q \in Requests : ~Reading(q)
    BY Zenon, <1>3 DEF BuildBegins
  <2> QED BY Zenon, <1>3, <2>1 DEF BuildBegins
<1>4. ASSUME NEW r \in Requests, BuildEnds(r) PROVE ReadInv'
  <2>1. \A q \in Requests \ {r} : ~Reading(q)
    BY Zenon, <1>4 DEF BuildEnds
  <2> QED BY Zenon, <1>4, <2>1 DEF BuildEnds
<1>5. CASE UpdateBegins
  <2>1. \A q \in Requests : ~Reading(q)
    BY Zenon, <1>5 DEF UpdateBegins
  <2> QED BY Zenon, <1>5, <2>1 DEF UpdateBegins
<1>6. CASE UpdateEnds
  <2>1. \A q \in Requests : ~Reading(q)
    BY Zenon, <1>6 DEF UpdateEnds
  <2> QED BY <1>6, <2>1 DEF UpdateEnds
<1>7. CASE AcceptEnds \/ Shutdown \/ LockDestroyed \/ UNCHANGED webVars
  BY Zenon, <1>7 DEF AcceptEnds, Shutdown, LockDestroyed, webVars
<1> QED
  BY Zenon, <1>1, <1>2, <1>3, <1>4, <1>5, <1>6, <1>7 DEF WebNext

(* However many clients ask at the same time as the output thread updates  *)
(* the tables, what build_json sends is one state of them.                 *)
THEOREM SnapshotsHold == WebSpec => []SnapshotsAreWhole
<1>1. WebInit => ReadInv
  BY Zenon DEF WebInit, ReadInv, SnapshotsAreWhole, Reading, ConnPlaces
<1>2. ReadInv => SnapshotsAreWhole
  BY Zenon DEF ReadInv
<1> QED BY <1>1, <1>2, ReadNext, PTL DEF WebSpec
-----------------------------------------------------------------------------
Refusing == {r \in Requests : conn[r] = "refuse"}

CountInv ==
  /\ conn \in [Requests -> ConnPlaces]
  /\ sse_client_count = Cardinality(Streaming) + Cardinality(Refusing)
  /\ Cardinality(Streaming) <= MaxSse

LEMMA SetsAreFinite ==
  /\ IsFiniteSet(Streaming) /\ IsFiniteSet(Refusing)
  /\ Cardinality(Streaming) \in Nat /\ Cardinality(Refusing) \in Nat
<1>1. Streaming \subseteq Requests /\ Refusing \subseteq Requests
  BY Zenon DEF Streaming, Refusing
<1> QED BY Zenon, <1>1, WebAssumption, FS_Subset, FS_CardinalityType

LEMMA CountNext == CountInv /\ [WebNext]_webVars => CountInv'
<1> SUFFICES ASSUME CountInv, [WebNext]_webVars PROVE CountInv'
  OBVIOUS
<1> USE WebAssumption, SetsAreFinite DEF ConnPlaces
<1>0. conn \in [Requests -> ConnPlaces]
  BY Zenon DEF CountInv
<1>1. ASSUME NEW r \in Requests, AskForEvents(r) PROVE CountInv'
  <2>0. conn' \in [Requests -> ConnPlaces] /\ sse_client_count' = sse_client_count + 1
        /\ conn[r] = "read"
    BY Zenon, <1>0, <1>1 DEF AskForEvents
  <2>1. CASE sse_client_count >= MaxSse
    <3>1. Streaming' = Streaming /\ Refusing' = Refusing \cup {r} /\ r \notin Refusing
      BY Zenon, <1>0, <1>1, <2>1 DEF AskForEvents, Streaming, Refusing
    <3>2. Cardinality(Refusing') = Cardinality(Refusing) + 1
      BY Zenon, <3>1, FS_AddElement
    <3> QED BY <2>0, <3>1, <3>2 DEF CountInv
  <2>2. CASE ~(sse_client_count >= MaxSse)
    <3>1. Streaming' = Streaming \cup {r} /\ Refusing' = Refusing /\ r \notin Streaming
      BY Zenon, <1>0, <1>1, <2>2 DEF AskForEvents, Streaming, Refusing
    <3>2. Cardinality(Streaming') = Cardinality(Streaming) + 1
      BY Zenon, <3>1, FS_AddElement
    <3> QED BY <2>0, <2>2, <3>1, <3>2 DEF CountInv
  <2> QED BY Zenon, <2>1, <2>2
<1>2. ASSUME NEW r \in Requests, Refuse(r) PROVE CountInv'
  <2>1. Streaming' = Streaming /\ Refusing' = Refusing \ {r} /\ r \in Refusing
    BY Zenon, <1>0, <1>2 DEF Refuse, Streaming, Refusing
  <2>2. Cardinality(Refusing') = Cardinality(Refusing) - 1
    BY Zenon, <2>1, FS_RemoveElement
  <2>3. conn' \in [Requests -> ConnPlaces] /\ sse_client_count' = sse_client_count - 1
    BY Zenon, <1>0, <1>2 DEF Refuse
  <2> QED BY <2>1, <2>2, <2>3 DEF CountInv
<1>3. ASSUME NEW r \in Requests, StreamEnds(r) PROVE CountInv'
  <2>1. Streaming' = Streaming \ {r} /\ Refusing' = Refusing /\ r \in Streaming
    BY Zenon, <1>0, <1>3 DEF StreamEnds, Streaming, Refusing
  <2>2. Cardinality(Streaming') = Cardinality(Streaming) - 1
    BY Zenon, <2>1, FS_RemoveElement
  <2>3. conn' \in [Requests -> ConnPlaces] /\ sse_client_count' = sse_client_count - 1
    BY Zenon, <1>0, <1>3 DEF StreamEnds
  <2> QED BY <2>1, <2>2, <2>3 DEF CountInv
<1>4. ASSUME Streaming' = Streaming, Refusing' = Refusing, conn' \in [Requests -> ConnPlaces],
             sse_client_count' = sse_client_count
      PROVE  CountInv'
  BY Zenon, <1>4 DEF CountInv
<1>5. ASSUME NEW r \in Requests, Accept(r) \/ NextEvent(r) \/ BuildBegins(r) \/ BuildEnds(r)
      PROVE  CountInv'
  <2>1. Streaming' = Streaming /\ Refusing' = Refusing
    BY Zenon, <1>0, <1>5 DEF Accept, NextEvent, BuildBegins, BuildEnds, Streaming, Refusing
  <2>2. conn' \in [Requests -> ConnPlaces] /\ sse_client_count' = sse_client_count
    BY Zenon, <1>0, <1>5 DEF Accept, NextEvent, BuildBegins, BuildEnds
  <2> QED BY Zenon, <1>4, <2>1, <2>2
<1>6. ASSUME NEW r \in Requests, NEW path, Answer(r, path) PROVE CountInv'
  <2>1. Streaming' = Streaming /\ Refusing' = Refusing
    BY Zenon, <1>0, <1>6 DEF Answer, Streaming, Refusing
  <2>2. conn' \in [Requests -> ConnPlaces] /\ sse_client_count' = sse_client_count
    BY Zenon, <1>0, <1>6 DEF Answer
  <2> QED BY Zenon, <1>4, <2>1, <2>2
<1>7. CASE UpdateBegins \/ UpdateEnds \/ AcceptEnds \/ Shutdown \/ LockDestroyed \/ UNCHANGED webVars
  BY Zenon, <1>0, <1>4, <1>7
    DEF UpdateBegins, UpdateEnds, AcceptEnds, Shutdown, LockDestroyed, webVars, Streaming, Refusing
<1> QED
  BY Zenon, <1>1, <1>2, <1>3, <1>5, <1>6, <1>7 DEF WebNext

(* The event streams never exceed their limit, and no refused, finished or  *)
(* broken one keeps its place, for every number of clients.                 *)
THEOREM SseCountHolds == WebSpec => []SseCountIsExact
<1>1. WebInit => CountInv
  <2> SUFFICES ASSUME WebInit PROVE CountInv
    OBVIOUS
  <2>1. Streaming = {} /\ Refusing = {}
    BY Zenon DEF WebInit, Streaming, Refusing
  <2> QED BY <2>1, FS_EmptySet, WebAssumption DEF WebInit, CountInv, ConnPlaces
<1>2. CountInv => SseCountIsExact
  BY Zenon DEF CountInv, SseCountIsExact, Refusing
<1> QED BY <1>1, <1>2, CountNext, PTL DEF WebSpec

(* The event streams' places and the snapshots are right together, for any  *)
(* number of clients.                                                       *)
THEOREM ServiceHolds == WebSpec => []ClientsAreServed
<1>1. SseCountIsExact /\ SnapshotsAreWhole => ClientsAreServed
  BY Zenon DEF ClientsAreServed
<1> QED BY <1>1, SseCountHolds, SnapshotsHold, PTL

-----------------------------------------------------------------------------
(***************************************************************************)
(* The VITA 49 listener for every packet counter width, every context      *)
(* packet and every command line.                                          *)
(***************************************************************************)

(* What a setting is in the end, once the first context packet is applied. *)
Target(f) == IF f \in explicit \/ first[f] = Absent THEN Given ELSE first[f]

(* ConfiguredWhole is not inductive: that main reads final values needs the *)
(* listener to have passed the assignment of each (the places of its pc),  *)
(* and never to come back to one once it has told main.                    *)
ConfigInv ==
  /\ \A f \in {"rate", "freq"} : f \in explicit => vita.set[f] = Given
  /\ ~vita.logged => vita.pc = "recv" /\ ~vita.ready
  /\ vita.ready => vita.pc = "recv"
  /\ vita.logged /\ vita.pc # "rate" => vita.set["rate"] = Target("rate")
  /\ vita.logged /\ vita.pc \notin {"rate", "freq"} => vita.set["freq"] = Target("freq")
  /\ ~vita.logged \/ vita.pc = "rate" => vita.set["rate"] = Given
  /\ ~vita.logged \/ vita.pc \in {"rate", "freq"} => vita.set["freq"] = Given
  /\ starter.got => vita.ready
  /\ starter.pc \in {"rate", "built"} =>
       /\ "freq" \in explicit => starter.freq = Given
       /\ starter.got => starter.freq = Target("freq")
  /\ starter.pc = "built" =>
       /\ "rate" \in explicit => starter.rate = Given
       /\ starter.got => starter.rate = Target("rate")

(* The values a setting can have. *)
Values == {Given, Absent} \cup UNION {{c[f] : f \in Settings} : c \in Contexts}

VitaPcs == {"recv", "rate", "freq", "format", "signal", "exit"}
StarterPcs == {"wait", "freq", "rate", "built"}

VitaTypes ==
  /\ vita \in [pc : VitaPcs, logged : BOOLEAN, ready : BOOLEAN,
               set : [Settings -> Values], sent : Nat,
               have : BOOLEAN, last : Nat, gaps : Nat, runs : Nat]
  /\ starter \in [pc : StarterPcs, got : BOOLEAN, rate : Values, freq : Values]
  /\ \A f \in Settings : first[f] \in Values
  /\ missing \in Nat

LEMMA ValuesHold ==
  /\ Given \in Values /\ Absent \in Values
  /\ \A c \in Contexts, f \in Settings : c[f] \in Values
BY DEF Values

LEMMA TypesInit == VitaInit => VitaTypes
<1> SUFFICES ASSUME VitaInit PROVE VitaTypes
  OBVIOUS
<1>1. [f \in Settings |-> Given] \in [Settings -> Values]
  BY Zenon, ValuesHold
<1> QED BY Zenon, <1>1, ValuesHold DEF VitaInit, VitaTypes, VitaPcs, StarterPcs

LEMMA TypesNext == VitaTypes /\ [VitaNext]_vitaVars => VitaTypes'
<1> SUFFICES ASSUME VitaTypes, [VitaNext]_vitaVars PROVE VitaTypes'
  OBVIOUS
<1> USE VitaAssumption, ValuesHold DEF VitaTypes, VitaPcs, StarterPcs
<1>1. ASSUME NEW c \in Contexts, RecvContext(c) PROVE VitaTypes'
  BY Zenon, <1>1 DEF RecvContext
<1>2. ASSUME NEW f \in Settings, NEW next \in VitaPcs, Apply(f, next) PROVE VitaTypes'
  <2>1. first[f] \in Values
    OBVIOUS
  <2>2. vita' \in [pc : VitaPcs, logged : BOOLEAN, ready : BOOLEAN,
               set : [Settings -> Values], sent : Nat,
               have : BOOLEAN, last : Nat, gaps : Nat, runs : Nat]
    BY Zenon, <1>2, <2>1 DEF Apply
  <2> QED BY Zenon, <1>2, <2>2 DEF Apply
<1>3. CASE Signal
  BY Zenon, <1>3 DEF Signal
<1>4. CASE RecvData
  <2>1. vita.sent % Counts \in Nat
    OBVIOUS
  <2> DEFINE gaps == IF vita.have /\ vita.sent % Counts # (vita.last + 1) % Counts
                     THEN vita.gaps + 1 ELSE vita.gaps
             runs == IF vita.have /\ missing % Counts # 0 THEN vita.runs + 1 ELSE vita.runs
  <2>2. gaps \in Nat /\ runs \in Nat /\ vita.sent + 1 \in Nat
    OBVIOUS
  <2>3. vita' = [vita EXCEPT !.sent = @ + 1, !.have = TRUE, !.last = vita.sent % Counts,
                             !.gaps = gaps, !.runs = runs]
    BY Zenon, <1>4 DEF RecvData
  <2> HIDE DEF gaps, runs
  <2>4. vita' \in [pc : VitaPcs, logged : BOOLEAN, ready : BOOLEAN,
               set : [Settings -> Values], sent : Nat,
               have : BOOLEAN, last : Nat, gaps : Nat, runs : Nat]
    BY Zenon, <2>1, <2>2, <2>3
  <2> QED BY <1>4, <2>4 DEF RecvData
<1>5. CASE Missed
  BY <1>5 DEF Missed
<1>6. CASE WaitEnds
  BY Zenon, <1>6 DEF WaitEnds
<1>7. ASSUME NEW f \in {"rate", "freq"}, NEW next \in StarterPcs, Configure(f, next)
      PROVE VitaTypes'
  BY Zenon, <1>7 DEF Configure, Settings
<1>8. CASE UNCHANGED vitaVars
  BY Zenon, <1>8 DEF vitaVars
<1> QED
  BY Zenon, <1>1, <1>2, <1>3, <1>4, <1>5, <1>6, <1>7, <1>8 DEF VitaNext, IgnoreContext, Settings
LEMMA ConfigInit == VitaInit => ConfigInv
BY DEF VitaInit, ConfigInv, Settings, Target

LEMMA ConfigNext == VitaTypes /\ ConfigInv /\ [VitaNext]_vitaVars => ConfigInv'
<1> SUFFICES ASSUME VitaTypes, ConfigInv, [VitaNext]_vitaVars PROVE ConfigInv'
  OBVIOUS
<1> USE DEF VitaTypes, VitaPcs, StarterPcs, ConfigInv
<1>1. ASSUME NEW c \in Contexts, RecvContext(c) PROVE ConfigInv'
  BY Zenon, <1>1 DEF RecvContext, Settings
<1>2. CASE Apply("rate", "freq")
  <2>1. /\ vita.pc = "rate" /\ vita'.pc = "freq" /\ vita'.logged = vita.logged
        /\ vita'.ready = vita.ready
        /\ \A f \in Settings \ {"rate"} : vita'.set[f] = vita.set[f]
        /\ vita'.set["rate"] = IF first["rate"] = Absent \/ "rate" \in explicit
                            THEN vita.set["rate"] ELSE first["rate"]
    BY Zenon, <1>2 DEF Apply, Settings
  <2>2. vita.logged /\ ~vita.ready
    BY Zenon, <2>1
  <2>3. explicit' = explicit /\ first' = first /\ starter' = starter
    BY Zenon, <1>2 DEF Apply
  <2>4. \A f : Target(f)' = Target(f)
    BY Zenon, <2>3 DEF Target
  <2>5. "rate" \in Settings /\ "freq" \in Settings
    BY Zenon DEF Settings
  <2>6. vita'.set["rate"] = Target("rate") /\ (vita'.pc = "format" => vita'.set["freq"] = Target("freq"))
    BY Zenon, <2>1, <2>2, <2>5 DEF Target
  <2> QED BY <2>1, <2>2, <2>3, <2>4, <2>5, <2>6
<1>3. CASE Apply("freq", "format")
  <2>1. /\ vita.pc = "freq" /\ vita'.pc = "format" /\ vita'.logged = vita.logged
        /\ vita'.ready = vita.ready
        /\ \A f \in Settings \ {"freq"} : vita'.set[f] = vita.set[f]
        /\ vita'.set["freq"] = IF first["freq"] = Absent \/ "freq" \in explicit
                            THEN vita.set["freq"] ELSE first["freq"]
    BY Zenon, <1>3 DEF Apply, Settings
  <2>2. vita.logged /\ ~vita.ready
    BY Zenon, <2>1
  <2>3. explicit' = explicit /\ first' = first /\ starter' = starter
    BY Zenon, <1>3 DEF Apply
  <2>4. \A f : Target(f)' = Target(f)
    BY Zenon, <2>3 DEF Target
  <2>5. "rate" \in Settings /\ "freq" \in Settings
    BY Zenon DEF Settings
  <2>6. vita'.set["rate"] = Target("rate") /\ (vita'.pc = "format" => vita'.set["freq"] = Target("freq"))
    BY Zenon, <2>1, <2>2, <2>5 DEF Target
  <2> QED BY <2>1, <2>2, <2>3, <2>4, <2>5, <2>6
<1>4. CASE Apply("format", "signal")
  BY Zenon, <1>4 DEF Apply, Target, Settings
<1>5. CASE Signal
  BY Zenon, <1>5 DEF Signal, Target
<1>6. CASE RecvData
  BY Zenon, <1>6 DEF RecvData, Target
<1>7. CASE Missed
  BY <1>7 DEF Missed, Target
<1>8. CASE WaitEnds
  BY Zenon, <1>8 DEF WaitEnds, Target
<1>9. CASE Configure("freq", "rate")
  BY Zenon, <1>9 DEF Configure, Target, Settings
<1>10. CASE Configure("rate", "built")
  BY Zenon, <1>10 DEF Configure, Target, Settings
<1>11. CASE UNCHANGED vitaVars
  BY Zenon, <1>11 DEF vitaVars, Target
<1> QED
  BY Zenon, <1>1, <1>2, <1>3, <1>4, <1>5, <1>6, <1>7, <1>8, <1>9, <1>10, <1>11 DEF VitaNext, IgnoreContext

(* Whatever the context packets say, whatever the command line gives and   *)
(* however the listener and main interleave, a detector configured from a  *)
(* context packet has all of it, and the command line always wins.         *)
THEOREM ConfiguredHolds == VitaSpec => []ConfiguredWhole
<1>1. ConfigInv => ConfiguredWhole
  BY Zenon DEF ConfigInv, ConfiguredWhole, Target
<1> QED
  BY <1>1, TypesInit, TypesNext, ConfigInit, ConfigNext, PTL DEF VitaSpec
-----------------------------------------------------------------------------
LEMMA Division ==
  ASSUME NEW c \in Nat \ {0}, NEW a \in Nat
  PROVE  a = c * (a \div c) + (a % c) /\ a \div c \in Int /\ a % c \in Nat
OBVIOUS

(* Quotient and remainder are unique. *)
LEMMA RemainderIsUnique ==
  ASSUME NEW c \in Nat \ {0}, NEW q \in Int, NEW r \in 0 .. c - 1
  PROVE  (c * q + r) % c = r
<1> DEFINE a == c * q + r
           p == a \div c
           s == a % c
<1>1. a \in Int /\ p \in Int /\ s \in 0 .. c - 1 /\ a = c * p + s
  OBVIOUS
<1>2. c * (p - q) = r - s
  BY <1>1
<1> HIDE DEF p, s
<1>3. p - q >= 1 => c * (p - q) >= c
  BY <1>1
<1>4. p - q <= -1 => c * (p - q) <= -c
  BY <1>1
<1>5. p = q
  BY <1>1, <1>2, <1>3, <1>4
<1> QED BY <1>1, <1>2, <1>5 DEF s

(* A counter modulo c is where it is expected exactly if a multiple of c   *)
(* packets is missing.                                                     *)
LEMMA ExpectedCount ==
  ASSUME NEW c \in Nat \ {0}, NEW a \in Nat, NEW m \in Nat, NEW k \in Int
  PROVE  (a + m + c * k) % c = a % c <=> m % c = 0
<1> DEFINE qa == a \div c
           ra == a % c
           qm == m \div c
           rm == m % c
<1>1. qa \in Int /\ qm \in Int /\ ra \in 0 .. c - 1 /\ rm \in 0 .. c - 1
  OBVIOUS
<1>2. a = c * qa + ra /\ m = c * qm + rm
  OBVIOUS
<1> HIDE DEF qa, ra, qm, rm
<1>3. a + m + c * k = c * (qa + qm + k) + (ra + rm)
  BY <1>1, <1>2
<1>4. CASE ra + rm < c
  <2>1. qa + qm + k \in Int /\ ra + rm \in 0 .. c - 1
    BY <1>1, <1>4
  <2>2. (a + m + c * k) % c = ra + rm
    BY Zenon, <1>3, <2>1, RemainderIsUnique
  <2> QED BY <1>1, <2>2 DEF ra, rm
<1>5. CASE ra + rm >= c
  <2>1. c * (qa + qm + k) + (ra + rm) = c * (qa + qm + k + 1) + (ra + rm - c)
    BY <1>1
  <2>2. qa + qm + k + 1 \in Int /\ ra + rm - c \in 0 .. c - 1
    BY <1>1, <1>5
  <2>3. (a + m + c * k) % c = ra + rm - c
    BY Zenon, <1>3, <2>1, <2>2, RemainderIsUnique
  <2>4. ra + rm - c # ra /\ rm # 0
    BY <1>1, <1>5
  <2> QED BY Zenon, <2>3, <2>4 DEF ra, rm
<1> QED BY <1>1, <1>4, <1>5

(* GapsAreLosses is not inductive: the counter of the last packet taken     *)
(* must be the one the number sent and the number missing say.             *)
GapInv ==
  /\ vita.gaps = vita.runs
  /\ vita.have => \E k \in Int : vita.sent = (vita.last + 1) + missing + Counts * k

LEMMA GapNext == VitaTypes /\ GapInv /\ [VitaNext]_vitaVars => GapInv'
<1> SUFFICES ASSUME VitaTypes, GapInv, [VitaNext]_vitaVars PROVE GapInv'
  OBVIOUS
<1> USE VitaAssumption DEF VitaTypes
<1>1. CASE RecvData
  <2> DEFINE count == vita.sent % Counts
             gap == vita.have /\ count # (vita.last + 1) % Counts
             run == vita.have /\ missing % Counts # 0
  <2>0. vita.sent \in Nat /\ vita.last \in Nat /\ missing \in Nat /\ Counts \in Nat \ {0}
        /\ vita.last + 1 \in Nat
    OBVIOUS
  <2>1. gap <=> run
    <3>1. ASSUME vita.have PROVE count = (vita.last + 1) % Counts <=> missing % Counts = 0
      <4>1. PICK k \in Int : vita.sent = (vita.last + 1) + missing + Counts * k
        BY Zenon, <3>1 DEF GapInv
      <4> HIDE DEF VitaTypes
      <4>2. ((vita.last + 1) + missing + Counts * k) % Counts = (vita.last + 1) % Counts
              <=> missing % Counts = 0
        BY ZenonT(40), <2>0, ExpectedCount
      <4> QED BY Zenon, <4>1, <4>2
    <3> QED BY Zenon, <3>1
  <2>2. vita.sent = Counts * (vita.sent \div Counts) + count /\ vita.sent \div Counts \in Int
        /\ count \in Nat
    <3> HIDE DEF VitaTypes
    <3> QED BY Zenon, <2>0, Division
  <2>3. vita'.gaps = (IF gap THEN vita.gaps + 1 ELSE vita.gaps)
        /\ vita'.runs = (IF run THEN vita.runs + 1 ELSE vita.runs)
        /\ vita'.sent = vita.sent + 1 /\ vita'.last = count /\ missing' = 0
    BY Zenon, <1>1 DEF RecvData
  <2> HIDE DEF gap, run, count
  <2>4. vita'.gaps = vita'.runs
    BY Zenon, <2>1, <2>3 DEF GapInv
  <2>5. vita'.sent = (vita'.last + 1) + missing' + Counts * (vita.sent \div Counts)
    BY <2>2, <2>3
  <2> QED BY Zenon, <2>2, <2>4, <2>5 DEF GapInv
<1>2. CASE Missed
  <2>1. vita'.gaps = vita.gaps /\ vita'.runs = vita.runs /\ vita'.have = vita.have
        /\ vita'.last = vita.last /\ vita'.sent = vita.sent + 1 /\ missing' = missing + 1
    BY Zenon, <1>2 DEF Missed
  <2>2. ASSUME vita.have
        PROVE  \E k \in Int : vita'.sent = (vita'.last + 1) + missing' + Counts * k
    <3>1. PICK k \in Int : vita.sent = (vita.last + 1) + missing + Counts * k
      BY Zenon, <2>2 DEF GapInv
    <3>2. vita.last \in Nat /\ vita.sent \in Nat
      OBVIOUS
    <3>3. vita'.sent = (vita'.last + 1) + missing' + Counts * k
      BY <2>1, <3>1, <3>2
    <3> QED BY Zenon, <3>3
  <2> QED BY Zenon, <2>1, <2>2 DEF GapInv
<1>3. CASE ~RecvData /\ ~Missed
  <2>1. /\ vita'.gaps = vita.gaps /\ vita'.runs = vita.runs /\ vita'.have = vita.have
        /\ vita'.last = vita.last /\ vita'.sent = vita.sent /\ missing' = missing
    <3>1. CASE \E c \in Contexts : RecvContext(c) \/ IgnoreContext(c)
      BY ZenonT(40), <3>1 DEF RecvContext, IgnoreContext, vitaVars
    <3>2. ASSUME NEW f, NEW next, Apply(f, next) PROVE <2>1!:
      BY Zenon, <3>2 DEF Apply
    <3>3. CASE Signal \/ WaitEnds
      BY ZenonT(40), <3>3 DEF Signal, WaitEnds
    <3>4. ASSUME NEW f, NEW next, Configure(f, next) PROVE <2>1!:
      BY Zenon, <3>4 DEF Configure
    <3>5. CASE UNCHANGED vitaVars
      BY Zenon, <3>5 DEF vitaVars
    <3> QED BY Zenon, <1>3, <3>1, <3>2, <3>3, <3>4, <3>5 DEF VitaNext
  <2> QED BY Zenon, <2>1 DEF GapInv
<1> QED BY Zenon, <1>1, <1>2, <1>3

(* The gaps the listener reports are the runs of packets it really missed, *)
(* except those whose length is a multiple of the counter's period, for    *)
(* every period.                                                           *)
THEOREM GapsHold == VitaSpec => []GapsAreLosses
<1>1. VitaInit => GapInv
  BY DEF VitaInit, GapInv
<1>2. GapInv => GapsAreLosses
  BY Zenon DEF GapInv, GapsAreLosses
<1> QED
  BY <1>1, <1>2, TypesInit, TypesNext, GapNext, PTL DEF VitaSpec

-----------------------------------------------------------------------------
(***************************************************************************)
(* The TCP feeds.                                                          *)
(***************************************************************************)

HubSpec == HubInit /\ [][HubNext]_hubVars

(* A connection that is kept ends with a whole line.                       *)
HubInv ==
  /\ fd \in BOOLEAN
  /\ stream \in Seq({"body", "part", "newline"})
  /\ fd => stream = <<>> \/ stream[Len(stream)] = "newline"
  /\ LinesNeverMerge

(* On one connection to an aggregator two messages never run together,     *)
(* whichever of the sends fail or are cut short.                           *)
THEOREM LinesHold == HubSpec => []LinesNeverMerge
<1>1. HubInit => HubInv
  <2> SUFFICES ASSUME HubInit PROVE HubInv
    OBVIOUS
  <2>1. fd \in BOOLEAN /\ stream = <<>>
    BY Zenon DEF HubInit
  <2> QED BY <2>1 DEF HubInv, LinesNeverMerge
<1>2. HubInv /\ [HubNext]_hubVars => HubInv'
  <2> SUFFICES ASSUME HubInv, [HubNext]_hubVars PROVE HubInv'
    OBVIOUS
  <2> USE DEF HubInv, LinesNeverMerge
  <2>1. ASSUME NEW body \in {"body", "part", "none"}, NEW newline \in BOOLEAN, Emit(body, newline)
        PROVE  HubInv'
    <3> DEFINE on == IF fd THEN stream ELSE <<>>
               sent == (IF body = "none" THEN <<>> ELSE <<body>>)
                       \o (IF body # "none" /\ newline THEN <<"newline">> ELSE <<>>)
    <3>1. CASE ~(fd \/ up)
      BY Zenon, <2>1, <3>1 DEF Emit
    <3>2. CASE fd \/ up
      <4>1. fd' = (body # "none" /\ newline) /\ stream' = on \o sent
        BY Zenon, <2>1, <3>2 DEF Emit, After
      <4>2. /\ on \in Seq({"body", "part", "newline"})
            /\ on = <<>> \/ on[Len(on)] = "newline"
            /\ \A i \in 1 .. Len(on) - 1 : on[i] = "newline" \/ on[i + 1] = "newline"
        OBVIOUS
      <4> HIDE DEF on
      <4>3. CASE body = "none"
        BY <2>1, <4>1, <4>2, <4>3 DEF Emit
      <4>4. CASE body # "none" /\ newline
        <5>1. stream' = on \o (<<body>> \o <<"newline">>)
          BY Zenon, <4>1, <4>4
        <5>2. /\ stream' \in Seq({"body", "part", "newline"})
              /\ Len(stream') = Len(on) + 2
              /\ \A i \in 1 .. Len(on) : stream'[i] = on[i]
              /\ stream'[Len(on) + 2] = "newline"
          BY <4>2, <4>4, <5>1
        <5> QED BY <4>1, <4>2, <5>2
      <4>5. CASE body # "none" /\ ~newline
        <5>1. stream' = on \o (<<body>> \o <<>>)
          BY Zenon, <4>1, <4>5
        <5>2. /\ stream' \in Seq({"body", "part", "newline"})
              /\ Len(stream') = Len(on) + 1
              /\ \A i \in 1 .. Len(on) : stream'[i] = on[i]
          BY <4>2, <4>5, <5>1
        <5> QED BY <4>1, <4>2, <4>5, <5>2
      <4> QED BY Zenon, <4>3, <4>4, <4>5
    <3> QED BY Zenon, <3>1, <3>2
  <2>2. CASE PeerChanges
    BY Zenon, <2>2 DEF PeerChanges
  <2>3. CASE UNCHANGED hubVars
    BY Zenon, <2>3 DEF hubVars
  <2> QED BY Zenon, <2>1, <2>2, <2>3 DEF HubNext
<1>3. HubInv => LinesNeverMerge
  BY Zenon DEF HubInv
<1> QED BY <1>1, <1>2, <1>3, PTL DEF HubSpec
=============================================================================
