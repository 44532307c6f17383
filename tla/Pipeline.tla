------------------------------ MODULE Pipeline ------------------------------
(***************************************************************************)
(* The threads of main.c, the four blocking queues between them, and the   *)
(* start, stop and drain protocol of main() itself:                        *)
(*                                                                         *)
(*   source -> samples_queue -> detector -> burst_queue -> workers         *)
(*          -> frame_queue -> consumer -> output_queue -> output thread    *)
(*                                                                         *)
(* A queue is a bounded sequence with an open flag and each call on it is  *)
(* one step, which is what BlockingQueue is shown to implement             *)
(* (ImplementsFifo).  What the threads compute is abstracted: a buffer     *)
(* yields some number of bursts, a burst may or may not give a frame, a    *)
(* frame may or may not demodulate.  What is kept is who owns each buffer  *)
(* and each burst, and which of the code's exits it took.                  *)
(*                                                                         *)
(* mode names the input: "file" (spewer_thread), "live" (the SDR stream    *)
(* threads, joined before samples_queue is closed) and "net" (zmq_sub and  *)
(* vita49, joined after it).  Operators named Op_Fault are altered forms   *)
(* of Op.                                                                  *)
(***************************************************************************)
EXTENDS Integers, Sequences, Functions, FiniteSets

CONSTANTS
    Workers,     \* the downmix worker threads
    Modes,       \* the inputs considered, of "file", "live" and "net"
    RecvTimeout, \* the source's receive call returns without data at times
    Cap,         \* the capacity of each queue, SAMPLES_QUEUE_SIZE and so on
    MaxBuffers,  \* bound: buffers the input delivers (a file's length)
    MaxBursts,   \* bound: bursts the detector finds in all
    MaxSignals   \* bound: SIGINT or SIGTERM sent by the user

Queues == {"samples", "burst", "frame", "output"}
Threads == {"source", "detector", "consumer", "output", "stats"} \cup Workers

ASSUME PipelineAssumption ==
    /\ Modes \subseteq {"file", "live", "net"}
    /\ RecvTimeout \in BOOLEAN
    /\ Cap \in [Queues -> Nat \ {0}]
    /\ {MaxBuffers, MaxBursts, MaxSignals} \subseteq Nat
    /\ Workers \cap {"source", "detector", "consumer", "output", "stats"} = {}

VARIABLES
    mode,     \* the input the command line selects
    outputOn, \* web, position, GSMTAP or ACARS output is enabled
    running,  \* the volatile flag every loop polls
    sig,      \* a SIGINT is pending for the process
    signals,  \* how often the user has interrupted
    main,     \* where main() is: in the wait loop, or in the shutdown
    step,     \* the next operation of main's shutdown
    q,        \* the four queues: their items and whether they are open
    at,       \* where each thread is
    hand,     \* the buffer or burst a thread owns, 0 for none
    left,     \* bursts the detector has still to queue for its buffer
    buf,      \* what became of each buffer read so far
    burst     \* what became of each burst found so far

queueVars == <<q, hand, left, buf, burst>>
options == <<mode, outputOn>>
mainVars == <<sig, signals, main, step, options>>
vars == <<running, mainVars, queueVars, at>>

(***************************************************************************)
(* Fates.  "held" while a queue or a thread owns it.                       *)
(***************************************************************************)
BufferFates == {"held", "fed", "dropped", "freed", "leaked"}
BurstFates == {"held", "refused", "no_frame", "frame_drop", "no_demod",
               "printed", "output_drop", "served", "leaked"}

Items(n) == q[n].items
Full(n) == Len(Items(n)) >= Cap[n]

\* What blocking_queue_put and blocking_queue_add may answer now; put waits
\* while there is no answer.  A queue that is both full and closed may give
\* either reason.
PutAnswers(n) ==
    {r \in {"BQ_SUCCESS", "BQ_CLOSED"} :
       IF r = "BQ_SUCCESS" THEN q[n].open /\ ~Full(n) ELSE ~q[n].open}
AddAnswers(n) == PutAnswers(n) \cup (IF Full(n) THEN {"BQ_FULL"} ELSE {})
Offer(n, x, r) ==
    q' = IF r = "BQ_SUCCESS" THEN [q EXCEPT ![n].items = Append(@, x)] ELSE q

Goto(t, pc) == at' = [at EXCEPT ![t] = pc]
Holds(t, x) == hand' = [hand EXCEPT ![t] = x]
EndBuffer(i, fate) == buf' = [buf EXCEPT ![i] = fate]
EndBurst(i, fate) == burst' = [burst EXCEPT ![i] = fate]

Init ==
    /\ mode \in Modes /\ outputOn \in BOOLEAN
    /\ running = TRUE /\ sig = FALSE /\ signals = 0
    /\ main = "check" /\ step = 1
    /\ q = [n \in Queues |-> [items |-> <<>>, open |-> TRUE]]
    /\ at = [t \in Threads |->
               CASE t = "source" -> "loop"
                 [] t = "stats"  -> "sleep"
                 [] OTHER        -> "take"]
    /\ hand = [t \in Threads |-> 0]
    /\ left = 0
    /\ buf = <<>> /\ burst = <<>>

(***************************************************************************)
(* The source threads.                                                     *)
(***************************************************************************)

\* A new buffer of samples is in the source's hands.
Arrives ==
    /\ Len(buf) < MaxBuffers
    /\ buf' = Append(buf, "held")
    /\ Holds("source", Len(buf) + 1)

\* while (running): the head of every source loop.  A file is read at once;
\* the other sources go and wait for data.
SourceLoop ==
    /\ at["source"] = "loop"
    /\ \/ /\ running /\ mode = "file"
          /\ Arrives
          /\ Goto("source", "put")
       \/ /\ running /\ mode = "file" /\ Len(buf) = MaxBuffers
          /\ Goto("source", "drain")
          /\ UNCHANGED <<hand, buf>>
       \/ /\ running /\ mode # "file"
          /\ Goto("source", "recv")
          /\ UNCHANGED <<hand, buf>>
       \/ /\ ~running
          /\ Goto("source", IF mode = "file" THEN "drain" ELSE "clear")
          /\ UNCHANGED <<hand, buf>>
    /\ UNCHANGED <<running, mainVars, q, left, burst>>

\* The receive call returns data, or an error that ends the loop.
SourceReceives ==
    /\ at["source"] = "recv"
    /\ \/ Arrives /\ Goto("source", IF mode = "live" THEN "guard" ELSE "push")
       \/ Goto("source", "clear") /\ UNCHANGED <<hand, buf>>
    /\ UNCHANGED <<running, mainVars, q, left, burst>>

\* The receive call times out and the loop looks at running again.
SourceTimeout ==
    /\ at["source"] = "recv" /\ RecvTimeout
    /\ Goto("source", "loop")
    /\ UNCHANGED <<running, mainVars, queueVars>>

\* if (running) push_samples(s); else free(s);  in the SDR threads.
SourceGuard ==
    /\ at["source"] = "guard"
    /\ \/ /\ running
          /\ Goto("source", "push")
          /\ UNCHANGED <<hand, buf>>
       \/ /\ ~running
          /\ Goto("source", "loop")
          /\ EndBuffer(hand["source"], "freed")
          /\ Holds("source", 0)
    /\ UNCHANGED <<running, mainVars, q, left, burst>>

\* spewer_thread blocks in blocking_queue_put; a refusal frees the buffer
\* and leaves the loop.
SourcePut ==
    /\ at["source"] = "put"
    /\ \E r \in PutAnswers("samples") :
         /\ Offer("samples", hand["source"], r)
         /\ EndBuffer(hand["source"], IF r = "BQ_SUCCESS" THEN "held" ELSE "freed")
         /\ Goto("source", IF r = "BQ_SUCCESS" THEN "loop" ELSE "drain")
    /\ Holds("source", 0)
    /\ UNCHANGED <<running, mainVars, left, burst>>

\* push_samples: blocking_queue_add, and free on BQ_FULL only.
SourcePush ==
    /\ at["source"] = "push"
    /\ \E r \in AddAnswers("samples") :
         /\ Offer("samples", hand["source"], r)
         /\ EndBuffer(hand["source"], CASE r = "BQ_SUCCESS" -> "held"
                                        [] r = "BQ_FULL"    -> "dropped"
                                        [] r = "BQ_CLOSED"  -> "leaked")
    /\ Goto("source", "loop")
    /\ Holds("source", 0)
    /\ UNCHANGED <<running, mainVars, left, burst>>

\* while (running && samples_queue.queue_size > 0) usleep(10000);
SourceDrain ==
    /\ at["source"] = "drain"
    /\ ~running \/ Items("samples") = <<>>
    /\ Goto("source", "clear")
    /\ UNCHANGED <<running, mainVars, queueVars>>

\* running = 0;
SourceClear ==
    /\ at["source"] = "clear"
    /\ running' = FALSE
    /\ Goto("source", "kill")
    /\ UNCHANGED <<mainVars, queueVars>>

\* kill(self_pid, SIGINT); return NULL;
SourceKill ==
    /\ at["source"] = "kill"
    /\ sig' = TRUE
    /\ Goto("source", "exit")
    /\ UNCHANGED <<running, signals, main, step, options, queueVars>>

(***************************************************************************)
(* The stages.  Each loops on blocking_queue_take and exits when the queue *)
(* it reads is closed.                                                     *)
(***************************************************************************)
Take(t, n) ==
    /\ at[t] = "take"
    /\ q[n].open /\ Items(n) # <<>>
    /\ Holds(t, Head(Items(n)))
    /\ q' = [q EXCEPT ![n].items = Tail(@)]
    /\ Goto(t, "work")
    /\ UNCHANGED <<running, mainVars, left, buf, burst>>

Leave(t, n) ==
    /\ at[t] = "take"
    /\ ~q[n].open
    /\ Goto(t, "exit")
    /\ UNCHANGED <<running, mainVars, queueVars>>

\* A burst ends in a thread's hands and the thread goes back for another.
Finish(t, fate) ==
    /\ EndBurst(hand[t], fate)
    /\ Holds(t, 0)
    /\ Goto(t, "take")

\* blocking_queue_add of what thread t holds to queue n, by code that frees
\* it on BQ_FULL and does not look at BQ_CLOSED.
AddOn(t, n, dropFate) ==
    /\ at[t] = "add"
    /\ \E r \in AddAnswers(n) :
         /\ Offer(n, hand[t], r)
         /\ Finish(t, CASE r = "BQ_SUCCESS" -> "held"
                        [] r = "BQ_FULL"    -> dropFate
                        [] r = "BQ_CLOSED"  -> "leaked")
    /\ UNCHANGED <<running, mainVars, left, buf>>

\* burst_detector_feed finds some bursts and calls burst_to_queue for each.
DetectorFeed ==
    /\ at["detector"] = "work"
    /\ \E n \in 0 .. MaxBursts - Len(burst) : left' = n
    /\ Goto("detector", "put")
    /\ UNCHANGED <<running, mainVars, q, hand, buf, burst>>

\* burst_to_queue: blocking_queue_put, freeing the burst if it is refused.
DetectorPut ==
    /\ at["detector"] = "put" /\ left > 0
    /\ \E r \in PutAnswers("burst") :
         /\ Offer("burst", Len(burst) + 1, r)
         /\ burst' = Append(burst, IF r = "BQ_SUCCESS" THEN "held" ELSE "refused")
    /\ left' = left - 1
    /\ UNCHANGED <<running, mainVars, at, hand, buf>>

\* free(samples) once the buffer is fed.
DetectorFed ==
    /\ at["detector"] = "put" /\ left = 0
    /\ EndBuffer(hand["detector"], "fed")
    /\ Holds("detector", 0)
    /\ Goto("detector", "take")
    /\ UNCHANGED <<running, mainVars, q, left, burst>>

\* burst_downmix_process gives a frame or none.
WorkerProcess(w) ==
    /\ at[w] = "work"
    /\ \/ Goto(w, "add") /\ UNCHANGED <<q, hand, burst>>
       \/ Finish(w, "no_frame") /\ UNCHANGED q
    /\ UNCHANGED <<running, mainVars, left, buf>>

\* A worker that keeps no account of a frame the queue refused.
WorkerAdd_Unaccounted(w) ==
    /\ at[w] = "add"
    /\ \E r \in AddAnswers("frame") : Offer("frame", hand[w], r)
    /\ Holds(w, 0)
    /\ Goto(w, "take")
    /\ UNCHANGED <<running, mainVars, left, buf, burst>>

WorkerAdd(w) == AddOn(w, "frame", "frame_drop")

\* qpsk_demod; the line is printed, and the frame handed on when any of the
\* slow outputs is enabled.
ConsumerDemod ==
    /\ at["consumer"] = "work"
    /\ \/ Finish("consumer", "no_demod")
       \/ ~outputOn /\ Finish("consumer", "printed")
       \/ outputOn /\ Goto("consumer", "add") /\ UNCHANGED <<hand, burst>>
    /\ UNCHANGED <<running, mainVars, q, left, buf>>

ConsumerAdd == AddOn("consumer", "output", "output_drop")

\* Frame decode, web map, ACARS, GSMTAP; then the item is freed.
OutputWork ==
    /\ at["output"] = "work"
    /\ Finish("output", "served")
    /\ UNCHANGED <<running, mainVars, q, left, buf>>

\* The stats thread sleeps a second, looks at running, and then reads the
\* queues and, in diagnostic mode, the detector.
StatsCheck ==
    /\ at["stats"] = "sleep"
    /\ Goto("stats", IF running THEN "report" ELSE "exit")
    /\ UNCHANGED <<running, mainVars, queueVars>>

StatsReport ==
    /\ at["stats"] = "report"
    /\ Goto("stats", "sleep")
    /\ UNCHANGED <<running, mainVars, queueVars>>

(***************************************************************************)
(* main(): the wait loop, then the shutdown.                               *)
(***************************************************************************)

\* while (running) ...
MainCheck ==
    /\ main = "check"
    /\ main' = IF running THEN "pausing" ELSE "stopping"
    /\ UNCHANGED <<running, sig, signals, step, options, queueVars, at>>

\* pause() has put main to sleep.
MainPause ==
    /\ main = "pausing"
    /\ main' = "paused"
    /\ UNCHANGED <<running, sig, signals, step, options, queueVars, at>>

\* running = 0;  after the loop.
MainStop ==
    /\ main = "stopping"
    /\ main' = "shutdown"
    /\ running' = FALSE
    /\ UNCHANGED <<sig, signals, step, options, queueVars, at>>

\* A handler that wakes main() and leaves running set.
Deliver_FlagKept ==
    /\ sig
    /\ sig' = FALSE
    /\ main' = IF main = "paused" THEN "check" ELSE main
    /\ UNCHANGED <<running, signals, step, options, queueVars, at>>

\* sig_handler, run by the main thread: the kernel gives a signal sent to
\* the process to the main thread, which never blocks it.  Only a pause()
\* that has begun returns.
Deliver ==
    /\ sig
    /\ sig' = FALSE
    /\ running' = FALSE
    /\ main' = IF main = "paused" THEN "check" ELSE main
    /\ UNCHANGED <<signals, step, options, queueVars, at>>

\* The user presses Ctrl-C.
Interrupt ==
    /\ signals < MaxSignals
    /\ signals' = signals + 1
    /\ sig' = TRUE
    /\ UNCHANGED <<running, main, step, options, queueVars, at>>

\* A shutdown that joins the readers before it closes their queue.
Stage_JoinFirst(n, readers) ==
    <<<<"drain", n>>, <<"join", readers>>, <<"close", n>>>>

\* A shutdown that does not wait for the queue to drain.
Stage_NoDrain(n, readers) == <<<<"close", n>>, <<"join", readers>>>>

\* How main() ends one stage: drain its queue, close it, join its readers.
Stage(n, readers) == <<<<"drain", n>>, <<"close", n>>, <<"join", readers>>>>

\* An SDR is stopped and joined before samples_queue is closed, the other
\* sources after it.
InputPlan ==
    IF mode = "live" THEN <<<<"join", {"source"}>>, <<"close", "samples">>>>
                     ELSE <<<<"close", "samples">>, <<"join", {"source"}>>>>

\* The operations of main() after the wait loop, in their order.
Plan ==
    InputPlan \o <<<<"join", {"detector"}>>>>
    \o Stage("burst", Workers) \o Stage("frame", {"consumer"})
    \o Stage("output", {"output"}) \o <<<<"join", {"stats"}>>>>

Done == main = "shutdown" /\ step > Len(Plan)

\* main is at an operation of the given kind, and goes past it.
MainAt(op) ==
    /\ main = "shutdown" /\ ~Done
    /\ Plan[step][1] = op
    /\ step' = step + 1
    /\ UNCHANGED <<running, sig, signals, main, options, hand, left, buf,
                   burst, at>>

\* pthread_join.
MainJoin ==
    /\ MainAt("join")
    /\ \A t \in Plan[step][2] : at[t] = "exit"
    /\ UNCHANGED q

\* while (queue_size > 0) usleep(10000);
MainDrain ==
    /\ MainAt("drain")
    /\ Items(Plan[step][2]) = <<>>
    /\ UNCHANGED q

\* blocking_queue_close.
MainClose ==
    /\ MainAt("close")
    /\ q' = [q EXCEPT ![Plan[step][2]].open = FALSE]

SourceStep ==
    \/ SourceLoop \/ SourceTimeout \/ SourceGuard \/ SourcePut \/ SourcePush
    \/ SourceDrain \/ SourceClear \/ SourceKill
DetectorStep ==
    \/ Take("detector", "samples") \/ DetectorFeed \/ DetectorPut
    \/ DetectorFed \/ Leave("detector", "samples")
WorkerStep(w) ==
    \/ Take(w, "burst") \/ WorkerProcess(w) \/ WorkerAdd(w)
    \/ Leave(w, "burst")
ConsumerStep ==
    \/ Take("consumer", "frame") \/ ConsumerDemod \/ ConsumerAdd
    \/ Leave("consumer", "frame")
OutputStep ==
    \/ Take("output", "output") \/ OutputWork
    \/ Leave("output", "output")
StatsStep == StatsCheck \/ StatsReport
MainStep ==
    \/ MainCheck \/ MainPause \/ MainStop
    \/ MainJoin \/ MainDrain \/ MainClose

Next ==
    \/ SourceStep \/ SourceReceives
    \/ DetectorStep
    \/ \E w \in Workers : WorkerStep(w)
    \/ ConsumerStep \/ OutputStep \/ StatsStep
    \/ MainStep \/ Deliver \/ Interrupt

Spec == Init /\ [][Next]_vars

\* Every thread is scheduled and a pending signal is delivered.  Nothing is
\* assumed of the user, or of the arrival of data.
FairSpec ==
    /\ Spec
    /\ WF_vars(SourceStep) /\ WF_vars(DetectorStep)
    /\ \A w \in Workers : WF_vars(WorkerStep(w))
    /\ WF_vars(ConsumerStep) /\ WF_vars(OutputStep) /\ WF_vars(StatsStep)
    /\ WF_vars(MainStep) /\ WF_vars(Deliver)

(***************************************************************************)
(* Properties.                                                             *)
(***************************************************************************)

\* The state stays well formed; in particular no queue holds more than the
\* size main() gave it.
TypeOK ==
    /\ mode \in Modes /\ outputOn \in BOOLEAN
    /\ running \in BOOLEAN /\ sig \in BOOLEAN
    /\ signals \in 0 .. MaxSignals
    /\ main \in {"check", "pausing", "paused", "stopping", "shutdown"}
    /\ step \in 1 .. Len(Plan) + 1
    /\ \A n \in Queues :
         /\ q[n].open \in BOOLEAN
         /\ Len(Items(n)) <= Cap[n]
         /\ \A i \in DOMAIN Items(n) :
              Items(n)[i] \in 1 .. (IF n = "samples" THEN MaxBuffers
                                                     ELSE MaxBursts)
    /\ at \in [Threads -> {"loop", "recv", "guard", "put", "push", "drain",
                           "clear", "kill", "take", "work", "add", "sleep",
                           "report", "exit"}]
    /\ hand \in [Threads -> 0 .. MaxBuffers + MaxBursts]
    /\ left \in 0 .. MaxBursts
    /\ Range(buf) \subseteq BufferFates /\ Len(buf) <= MaxBuffers
    /\ Range(burst) \subseteq BurstFates /\ Len(burst) <= MaxBursts

\* The places of the given queues and the threads that hold item i.
Owners(i, queues, threads) ==
    {p \in UNION {{n} \X DOMAIN Items(n) : n \in queues} :
       Items(p[1])[p[2]] = i}
    \cup {<<t, 0>> : t \in {u \in threads : hand[u] = i}}

\* Every buffer and every burst has exactly one owner until the code frees
\* it (or loses it), and none afterwards: nothing is handed to two threads,
\* used after its free, or forgotten without one of the recorded exits.
OneOwner ==
    /\ \A i \in DOMAIN buf :
         LET owners == Owners(i, {"samples"}, {"source", "detector"})
         IN  IF buf[i] = "held" THEN \E p \in owners : owners = {p}
                                ELSE owners = {}
    /\ \A i \in DOMAIN burst :
         LET owners == Owners(i, {"burst", "frame", "output"},
                              Workers \cup {"consumer", "output"})
         IN  IF burst[i] = "held" THEN \E p \in owners : owners = {p}
                                  ELSE owners = {}

\* main() drains and joins in pipeline order so that no burst the detector
\* found is left in a queue or a thread when the program ends, and none is
\* lost to a queue that was closed while its producer still ran.
NoBurstLeftBehind ==
    /\ Done => \A i \in DOMAIN burst : burst[i] # "held"
    /\ \A i \in DOMAIN burst : burst[i] \notin {"leaked", "refused"}

\* A file that is played to its end without an interruption is analysed in
\* full: every buffer reaches the detector.
WholeFileIsFed ==
    Done /\ mode = "file" /\ signals = 0
      => Len(buf) = MaxBuffers /\ \A i \in DOMAIN buf : buf[i] = "fed"

\* An SDR thread is joined before samples_queue is closed, so push_samples
\* never meets a closed queue, whose answer it would not handle.
NoSampleLeaks ==
    mode = "live" => \A i \in DOMAIN buf : buf[i] # "leaked"

\* Once main() has left its wait loop, every thread is joined and the
\* program ends: no stage waits for a queue that nobody will fill or close.
ShutdownCompletes == (main = "stopping") ~> Done

\* An interrupt that finds main() asleep in pause() ends the program.
InterruptEndsRun == (sig /\ main = "paused") ~> Done

\* A run over a file comes to an end by itself.
FileRunEnds == <>Done

\* Nothing is freed twice, used after its free, pushed where it is lost, or
\* queued beyond the size main() gave a queue.
BuffersAreOwned == TypeOK /\ OneOwner /\ NoSampleLeaks

\* At the end of main() every burst found, and without an interruption every
\* buffer read, has gone all the way.
NothingLeftBehind == NoBurstLeftBehind /\ WholeFileIsFed
=============================================================================
