------------------------------- MODULE Vita49 -------------------------------
(***************************************************************************)
(* The VITA 49 listener of vita49.c, which takes the sample rate, the      *)
(* frequency and the format from the first context packet, and main's wait *)
(* for it before the detector is created.  The settings are globals that   *)
(* the listener writes without a lock.  The sender and the network are     *)
(* external: packets are lost, and numbered in four bits (Counts).         *)
(***************************************************************************)
EXTENDS Integers

CONSTANTS Counts,       \* the packet counter is modulo this: 16
          Contexts,     \* what a context packet may hold, by setting
          Absent,       \* a setting that it does not hold
          ExplicitSets, \* the settings given on the command line
          MaxSent

ASSUME VitaAssumption == Counts \in Nat \ {0}

Settings == {"rate", "freq", "format"}

\* The value a setting has from the command line or by default.
Given == 0

VARIABLES vita,         \* the listener, and the globals it writes
          starter,      \* main, until the detector is there
          explicit,
          first,        \* history: the context packet that was used
          missing       \* history: packets since the last that was taken

vitaVars == <<vita, starter, explicit, first, missing>>

VitaInit ==
    /\ explicit \in ExplicitSets
    /\ vita = [pc |-> "recv", logged |-> FALSE, ready |-> FALSE,
               set |-> [f \in Settings |-> Given], sent |-> 0,
               have |-> FALSE, last |-> 0, gaps |-> 0, runs |-> 0]
    /\ starter = [pc |-> "wait", got |-> FALSE, rate |-> Given, freq |-> Given]
    /\ first = [f \in Settings |-> Absent]
    /\ missing = 0

Empty(c) == \A f \in Settings : c[f] = Absent

\* Main is told before the settings are there.
RecvContext_ReadyFirst(c) ==
    /\ vita.pc = "recv" /\ ~Empty(c) /\ ~vita.logged
    /\ vita' = [vita EXCEPT !.pc = "rate", !.logged = TRUE, !.ready = TRUE]
    /\ first' = c
    /\ UNCHANGED <<starter, explicit, missing>>

\* vrt_handle_context: a packet without a setting, and every packet after the
\* first with one, changes nothing.
RecvContext(c) ==
    /\ vita.pc = "recv" /\ ~Empty(c) /\ ~vita.logged
    /\ vita' = [vita EXCEPT !.pc = "rate", !.logged = TRUE]
    /\ first' = c
    /\ UNCHANGED <<starter, explicit, missing>>

IgnoreContext(c) ==
    /\ vita.pc = "recv" /\ (Empty(c) \/ vita.logged)
    /\ UNCHANGED vitaVars

\* One setting after the other; a format other than the one asked for ends the
\* program (errx).
Apply(f, next) ==
    /\ vita.pc = f
    /\ vita' = IF f = "format" /\ f \in explicit /\ first[f] \notin {Absent, Given}
               THEN [vita EXCEPT !.pc = "exit"]
               ELSE [vita EXCEPT !.pc = next,
                                 !.set[f] = IF first[f] = Absent \/ f \in explicit THEN @ ELSE first[f]]
    /\ UNCHANGED <<starter, explicit, first, missing>>

Signal ==
    /\ vita.pc = "signal"
    /\ vita' = [vita EXCEPT !.pc = "recv", !.ready = TRUE]
    /\ UNCHANGED <<starter, explicit, first, missing>>

\* The first packet is compared with a counter that nothing has set.
RecvData_First ==
    /\ vita.pc = "recv" /\ vita.sent < MaxSent
    /\ LET count == vita.sent % Counts
           gap == count # (vita.last + 1) % Counts
       IN  vita' = [vita EXCEPT !.sent = @ + 1, !.have = TRUE, !.last = count,
                                !.gaps = IF gap THEN @ + 1 ELSE @,
                                !.runs = IF vita.have /\ missing % Counts # 0 THEN @ + 1 ELSE @]
    /\ missing' = 0
    /\ UNCHANGED <<starter, explicit, first>>

\* A data packet: the gap detection, and its samples pushed (Pipeline).
RecvData ==
    /\ vita.pc = "recv" /\ vita.sent < MaxSent
    /\ LET count == vita.sent % Counts
           gap == vita.have /\ count # (vita.last + 1) % Counts
       IN  vita' = [vita EXCEPT !.sent = @ + 1, !.have = TRUE, !.last = count,
                                !.gaps = IF gap THEN @ + 1 ELSE @,
                                !.runs = IF vita.have /\ missing % Counts # 0 THEN @ + 1 ELSE @]
    /\ missing' = 0
    /\ UNCHANGED <<starter, explicit, first>>

\* A packet lost on the way, or skipped because vrt_parse_header refuses it.
Missed ==
    /\ vita.sent < MaxSent
    /\ vita' = [vita EXCEPT !.sent = @ + 1]
    /\ missing' = missing + 1
    /\ UNCHANGED <<starter, explicit, first>>

\* Main's wait ends with a context packet or after five seconds.
WaitEnds ==
    /\ starter.pc = "wait" /\ vita.pc # "exit"
    /\ starter' = [starter EXCEPT !.pc = "freq", !.got = vita.ready]
    /\ UNCHANGED <<vita, explicit, first, missing>>

\* The detector's configuration is read from the globals.
Configure(f, next) ==
    /\ starter.pc = f /\ vita.pc # "exit"
    /\ starter' = [starter EXCEPT !.pc = next, ![f] = vita.set[f]]
    /\ UNCHANGED <<vita, explicit, first, missing>>

VitaNext ==
    \/ \E c \in Contexts : RecvContext(c) \/ IgnoreContext(c)
    \/ Apply("rate", "freq") \/ Apply("freq", "format") \/ Apply("format", "signal")
    \/ Signal
    \/ RecvData
    \/ Missed
    \/ WaitEnds
    \/ Configure("freq", "rate")
    \/ Configure("rate", "built")

VitaSpec == VitaInit /\ [][VitaNext]_vitaVars
-----------------------------------------------------------------------------
\* A detector created after "configured from context packet" has all that the
\* first context packet says and the command line does not, although the listener
\* sets one global after the other and goes on running; and never, context in
\* time or not, another value where the command line gives one.
ConfiguredWhole ==
    starter.pc = "built" =>
      \A f \in {"rate", "freq"} :
        /\ f \in explicit => starter[f] = Given
        /\ starter.got /\ f \notin explicit =>
             starter[f] = IF first[f] = Absent THEN Given ELSE first[f]

\* The gaps reported are the runs of packets missing between two that were taken,
\* but for the runs that a counter of four bits cannot see.
GapsAreLosses == vita.gaps = vita.runs
=============================================================================
