---------------------------- MODULE BurstDetector ----------------------------
(***************************************************************************)
(* burst_detect.c: the detector thread's sample ring, its per-frame state  *)
(* machine (noise history, active bursts, mask, squelch), the GPU batches, *)
(* and the extraction of a finished burst's samples.                       *)
(*                                                                         *)
(* Magnitudes are abstracted to the set of bins above the threshold, one   *)
(* of Spectra for each frame.  A sample is its absolute number, so what is *)
(* read from the ring says where it was written from.                      *)
(***************************************************************************)
EXTENDS Integers, FiniteSets, Sequences

CONSTANTS
    NBins,      \* FFT bins: fft_size as a number of frequencies
    Fft,        \* fft_size as a number of samples
    Width,      \* burst_width, in bins
    DcHalf,     \* dc_notch_half, 3
    Spectra,    \* inputs: the sets of bins above the threshold
    MaxBursts,  \* max_bursts
    Pre,        \* burst_pre_len, 2 * fft_size
    Post,       \* burst_post_len, 16 ms
    MaxLen,     \* max_burst_len, 90 ms
    History,    \* history_size, 512 frames
    RingSize,   \* ringbuf_size
    BatchSize,  \* gpu_batch_size, 16
    BufLens,    \* inputs: samples per buffer
    Modes,      \* builds: {"cpu", "gpu"}
    MaxSamples, \* bound: samples fed
    MaxFails    \* bound: GPU batches that fail

Bins == 0 .. NBins - 1
Half == Width \div 2

\* The ring holds the longest burst and a quarter more, a buffer is shorter than
\* that headroom, and the history is longer than the lead before a burst.
ASSUME DetectorAssumption ==
    /\ {NBins, Fft, Width, MaxBursts, MaxLen, History, BatchSize} \subseteq Nat \ {0}
    /\ {DcHalf, Pre, Post, RingSize, MaxSamples, MaxFails} \subseteq Nat
    /\ Spectra \subseteq SUBSET Bins
    /\ BufLens \subseteq Nat \ {0}
    /\ Modes \subseteq {"cpu", "gpu"}
    /\ Fft <= Pre /\ Pre < Post /\ Pre <= History * Fft
    /\ MaxLen + Post + Pre + Fft <= RingSize
    /\ \A n \in BufLens : MaxLen + Post + 2 * Fft + n <= RingSize + 1

VARIABLES
    mode,          \* d->gpu is set, or not
    ring,          \* d->ringbuf: the number of the sample at each place
    ringbuf_write,
    ringbuf_start,
    sample_count,
    index,
    read_idx,      \* the GPU path's read cursor
    batch,         \* gpu_batch_input: the samples of each frame copied
    hist,          \* history_index and history_primed
    bursts,
    mask,          \* the bins where burst_mask is 0
    gone,          \* gone_bursts
    squelch_count,
    pc,            \* where burst_detector_feed is
    fails,         \* GPU batches that failed so far
    failing,       \* one of them in this feed
    frame,         \* the frame this step has processed: its place, the
                   \* samples it held, the bins whose signal was looked for
    out            \* what this step has passed to the callback

ringVars == <<ring, ringbuf_write, ringbuf_start, sample_count>>
trackVars == <<hist, bursts, mask, gone, squelch_count>>
vars == <<mode, ringVars, index, read_idx, batch, trackVars, pc, fails, failing,
          frame, out>>

NoFrame == [at |-> 0, samples |-> <<>>, hot |-> {}]

Init ==
    /\ mode \in Modes
    /\ ring = [p \in 0 .. RingSize - 1 |-> -1]
    /\ ringbuf_write = 0 /\ ringbuf_start = 0
    /\ sample_count = 0 /\ index = 0 /\ read_idx = 0
    /\ batch = <<>>
    /\ hist = [index |-> 0, primed |-> FALSE]
    /\ bursts = {} /\ mask = {} /\ gone = {}
    /\ squelch_count = 0
    /\ pc = "idle" /\ fails = 0 /\ failing = FALSE
    /\ frame = NoFrame /\ out = {}

(***************************************************************************)
(* The ring.                                                               *)
(***************************************************************************)
\* n places from pos on, in two pieces when they run past the end.
Places(pos, n) ==
    IF pos + n <= RingSize
    THEN [k \in 1 .. n |-> pos + k - 1]
    ELSE LET first == RingSize - pos
         IN  [k \in 1 .. n |-> IF k <= first THEN pos + k - 1 ELSE k - first - 1]

NextWrite(pos, n) ==
    IF pos + n = RingSize THEN 0
    ELSE IF pos + n < RingSize THEN pos + n ELSE n - (RingSize - pos)

\* ringbuf_write: the oldest sample is reckoned from a sample_count that does
\* not include the n samples yet.
RingWrite(n) ==
    LET at == Places(ringbuf_write, n)
    IN  /\ ring' = [p \in DOMAIN ring |->
                      IF \E k \in 1 .. n : at[k] = p
                      THEN sample_count + (CHOOSE k \in 1 .. n : at[k] = p) - 1
                      ELSE ring[p]]
        /\ ringbuf_write' = NextWrite(ringbuf_write, n)
        /\ ringbuf_start' = IF sample_count > RingSize
                            THEN sample_count - RingSize ELSE ringbuf_start

\* The samples found in the ring for the numbers from start on.
ReadRing(start, n) ==
    LET at == Places(start % RingSize, n) IN [k \in 1 .. n |-> ring[at[k]]]

\* Places are counted from the oldest sample instead of from sample 0.
ringbuf_extract_Relative(start, stop) ==
    LET from == IF start < ringbuf_start THEN ringbuf_start ELSE start
    IN  IF stop <= from THEN <<>> ELSE ReadRing(from - ringbuf_start, stop - from)

\* Only the old end is clamped.
ringbuf_extract(start, stop) ==
    LET from == IF start < ringbuf_start THEN ringbuf_start ELSE start
    IN  IF stop <= from THEN <<>> ELSE ReadRing(from, stop - from)

(***************************************************************************)
(* One frame.                                                              *)
(***************************************************************************)
MaskOf(b) == {x \in Bins : b.bin - Half <= x /\ x <= b.bin + Half}
MaskOfAll(bs) == UNION {MaskOf(b) : b \in bs}

\* update_filters_post, when it does update.
Learn(h) ==
    IF h.index + 1 = History THEN [index |-> 0, primed |-> TRUE]
    ELSE [h EXCEPT !.index = @ + 1]

update_bursts(hot) ==
    {IF hot \cap {b.bin - 1, b.bin, b.bin + 1} # {}
     THEN [b EXCEPT !.last = index] ELSE b : b \in bursts}

extract_peaks(hot) ==
    LET dc == NBins \div 2
    IN  {p \in hot \ mask : /\ Half <= p /\ p < NBins - Half
                            /\ p < dc - DcHalf \/ p > dc + DcHalf}

Long(b) == b.last - b.start > MaxLen

Ended(b) == b.last + Post <= index \/ Long(b)

\* The silence that ends a burst is taken off, also where it was too long.
Stopped_NoTail(bs) == {[bin |-> b.bin, start |-> b.start, last |-> b.last,
                        stop |-> index - Post] : b \in bs}

Stopped(bs) == {[bin |-> b.bin, start |-> b.start, last |-> b.last,
                 stop |-> index] : b \in bs}

\* The strongest peak first, and each burst masks the weaker peaks around it:
\* whatever the magnitudes, a maximal set of peaks that do not mask each other.
Chosen(peaks) ==
    {ps \in SUBSET peaks :
       /\ \A p, q \in ps : p # q => q \notin MaskOf([bin |-> p])
       /\ \A q \in peaks \ ps : \E p \in ps : q \in MaskOf([bin |-> p])}

NewBursts(ps) ==
    {[bin |-> p, start |-> index - Pre, last |-> index - Pre] : p \in ps}

Unprimed == [index |-> 0, primed |-> FALSE]

\* Too many bursts at once end all of them and forget those of this frame;
\* repeated, that resets the noise history h.  Here the mask stays behind.
Squelch_KeepMask(all, ended, h) ==
    LET count == squelch_count + 3
    IN  /\ gone' = gone \cup Stopped(ended \cup {b \in all : b.start # index - Pre})
        /\ bursts' = {} /\ mask' = MaskOfAll(all)
        /\ squelch_count' = IF count >= 10 THEN 0 ELSE count
        /\ hist' = Learn(IF count >= 10 THEN Unprimed ELSE h)

\* The bursts under way are forgotten like the new ones.
Squelch_Forget(all, ended, h) ==
    LET count == squelch_count + 3
    IN  /\ gone' = gone \cup Stopped(ended)
        /\ bursts' = {} /\ mask' = {}
        /\ squelch_count' = IF count >= 10 THEN 0 ELSE count
        /\ hist' = Learn(IF count >= 10 THEN Unprimed ELSE h)

Squelch(all, ended, h) ==
    LET count == squelch_count + 3
    IN  /\ gone' = gone \cup Stopped(ended \cup {b \in all : b.start # index - Pre})
        /\ bursts' = {} /\ mask' = {}
        /\ squelch_count' = IF count >= 10 THEN 0 ELSE count
        /\ hist' = Learn(IF count >= 10 THEN Unprimed ELSE h)

Track(all, ended, h) ==
    /\ gone' = gone \cup Stopped(ended)
    /\ bursts' = all /\ mask' = MaskOfAll(all)
    /\ squelch_count' = IF squelch_count > 0 THEN squelch_count - 1 ELSE 0
    /\ hist' = IF all = {} THEN Learn(h) ELSE h

\* process_fft_frame and process_magnitude_frame.  A burst that was too long
\* makes the frame part of the noise history even while others are active.
ProcessFrame(samples) ==
    \/ /\ ~hist.primed
       /\ hist' = IF bursts = {} THEN Learn(hist) ELSE hist
       /\ frame' = [at |-> index, samples |-> samples, hot |-> {}]
       /\ UNCHANGED <<bursts, mask, gone, squelch_count>>
    \/ /\ hist.primed
       /\ \E hot \in Spectra :
            LET active == update_bursts(hot)
                peaks == extract_peaks(hot)
                ended == {b \in active : Ended(b)}
                kept == active \ ended
                h == IF \E b \in active : Long(b) THEN Learn(hist) ELSE hist
            IN  \E ps \in Chosen(peaks \ MaskOfAll(kept)) :
                  LET all == kept \cup NewBursts(ps)
                      squelched == Cardinality(all) > MaxBursts
                  IN  /\ IF squelched THEN Squelch(all, ended, h)
                         ELSE Track(all, ended, h)
                      /\ frame' = [at |-> index, samples |-> samples,
                                   hot |-> IF squelched THEN {} ELSE peaks \cup (hot \cap mask)]

(***************************************************************************)
(* emit_gone_bursts, burst_detector_feed and the thread's loop.            *)
(***************************************************************************)
Extracted(g) == [start |-> g.start, stop |-> g.stop + Pre,
                 samples |-> ringbuf_extract(g.start, g.stop + Pre)]

EmitGone ==
    /\ out' = {e \in {Extracted(g) : g \in gone} : e.samples # <<>>}
    /\ gone' = {}

MoreFrames(at) == at + Fft <= sample_count

Feed(n) ==
    /\ pc = "idle"
    /\ sample_count + n <= MaxSamples
    /\ RingWrite(n)
    /\ sample_count' = sample_count + n
    /\ read_idx' = index
    /\ pc' = "read"
    /\ failing' = FALSE
    /\ frame' = NoFrame /\ out' = {}
    /\ UNCHANGED <<mode, index, batch, trackVars, fails>>

CpuFrame ==
    /\ pc = "read" /\ mode = "cpu" /\ MoreFrames(index)
    /\ ProcessFrame(ReadRing(index, Fft))
    /\ index' = index + Fft
    /\ out' = {}
    /\ UNCHANGED <<mode, ringVars, read_idx, batch, pc, fails, failing>>

\* The frame is copied from where the frames already processed end.
GpuCopy_FromIndex ==
    /\ pc = "read" /\ mode = "gpu"
    /\ MoreFrames(read_idx) /\ Len(batch) < BatchSize
    /\ batch' = Append(batch, ReadRing(index, Fft))
    /\ read_idx' = read_idx + Fft
    /\ frame' = NoFrame /\ out' = {}
    /\ UNCHANGED <<mode, ringVars, index, trackVars, pc, fails, failing>>

GpuCopy ==
    /\ pc = "read" /\ mode = "gpu"
    /\ MoreFrames(read_idx) /\ Len(batch) < BatchSize
    /\ batch' = Append(batch, ReadRing(read_idx, Fft))
    /\ read_idx' = read_idx + Fft
    /\ frame' = NoFrame /\ out' = {}
    /\ UNCHANGED <<mode, ringVars, index, trackVars, pc, fails, failing>>

\* gpu_flush_batch, for a full batch or for what is left at the end.  When it
\* fails the frames are dropped and index stays where it is.
GpuFlush(ok) ==
    /\ pc = "read" /\ batch # <<>>
    /\ Len(batch) = BatchSize \/ ~MoreFrames(read_idx)
    /\ IF ok THEN /\ pc' = "batch" /\ UNCHANGED <<batch, fails, failing>>
       ELSE /\ fails < MaxFails
            /\ fails' = fails + 1 /\ failing' = TRUE /\ batch' = <<>>
            /\ pc' = "emit"
    /\ frame' = NoFrame /\ out' = {}
    /\ UNCHANGED <<mode, ringVars, index, read_idx, trackVars>>

GpuFrame ==
    /\ pc = "batch"
    /\ ProcessFrame(Head(batch))
    /\ index' = index + Fft
    /\ batch' = Tail(batch)
    /\ pc' = IF Len(batch) = 1 THEN "emit" ELSE "batch"
    /\ out' = {}
    /\ UNCHANGED <<mode, ringVars, read_idx, fails, failing>>

GpuEmit ==
    /\ pc = "emit"
    /\ EmitGone
    /\ pc' = "read"
    /\ frame' = NoFrame
    /\ UNCHANGED <<mode, ringVars, index, read_idx, batch, hist, bursts, mask,
                   squelch_count, fails, failing>>

FeedReturns ==
    /\ pc = "read" /\ batch = <<>>
    /\ ~MoreFrames(IF mode = "gpu" THEN read_idx ELSE index)
    /\ EmitGone
    /\ pc' = "idle"
    /\ frame' = NoFrame
    /\ UNCHANGED <<mode, ringVars, index, read_idx, batch, hist, bursts, mask,
                   squelch_count, fails, failing>>

Next ==
    \/ \E n \in BufLens : Feed(n)
    \/ CpuFrame \/ GpuCopy \/ (\E ok \in BOOLEAN : GpuFlush(ok))
    \/ GpuFrame \/ GpuEmit \/ FeedReturns

Spec == Init /\ [][Next]_vars

(***************************************************************************)
(* Properties.                                                             *)
(***************************************************************************)
\* The detector's state is well formed; a burst is known from its first
\* sample, which is never before sample 0.
TypeOK ==
    /\ mode \in {"cpu", "gpu"} /\ pc \in {"idle", "read", "batch", "emit"}
    /\ ring \in [0 .. RingSize - 1 -> Int] /\ ringbuf_write \in 0 .. RingSize - 1
    /\ {ringbuf_start, sample_count, index, read_idx, fails} \subseteq Nat
    /\ \A b \in bursts : b.bin \in Bins /\ b.start \in Nat

\* The mask that hides the peaks of known bursts (update_burst_mask,
\* mask_burst) covers exactly the active bursts, no two of which lie within
\* each other's band, and the noise history is filled with none active.
MaskIsExact ==
    /\ mask = MaskOfAll(bursts)
    /\ \A b, c \in bursts : b # c => c.bin \notin MaskOf(b)
    /\ ~hist.primed => bursts = {}

\* A signal above the threshold in a frame that is not squelched is inside
\* some burst, in frequency and in the samples that will be extracted: nothing
\* falls between a burst that ends and the one that follows it.
SignalIsCovered ==
    \A x \in frame.hot :
      \/ \E b \in bursts : x \in MaskOf(b) /\ b.start <= frame.at
      \/ \E g \in gone : /\ x \in MaskOf(g) /\ g.start <= frame.at
                         /\ frame.at + Fft <= g.stop + Pre

\* Every burst under way stays, or is put on the list of ended ones, and from
\* there it is handed to the callback: delete_gone_bursts, the squelch and
\* emit_gone_bursts lose none.
HandsOn ==
    /\ \A b \in bursts : \E c \in bursts' \cup gone' :
                           c.bin = b.bin /\ c.start = b.start
    /\ fails = 0 => \A g \in gone : \/ g \in gone'
                       \/ \E e \in out' : e.start = g.start /\ e.stop = g.stop + Pre

BurstsAreHandedOn == [][HandsOn]_vars

\* A burst is ended before it is longer than max_burst_len plus the time it
\* takes to notice its end, however long the signal goes on.
BoundedLife == \A b \in bursts : index - b.start < MaxLen + Post + Fft

\* While the GPU works, the samples handed on are those of the burst, from its
\* start on, as far as they have been received: the ring is large enough, the
\* clamp at the old end never applies, and both copies wrap rightly.
ExtractionIsWhole ==
    fails = 0 => \A e \in out :
      /\ Len(e.samples) = e.stop - e.start
      /\ \A k \in DOMAIN e.samples :
           e.start + k <= sample_count => e.samples[k] = e.start + k - 1

\* The frames are analysed at their true place in the stream, on the GPU path
\* too while it does not fail.
FramesInPlace ==
    fails = 0 => frame.samples = [k \in 1 .. Len(frame.samples) |-> frame.at + k - 1]

\* A feed in which no GPU batch fails leaves less than a frame unread and no
\* ended burst behind, even after feeds that failed.
CatchesUp == pc = "idle" => /\ gone = {}
                            /\ ~failing => sample_count - index < Fft

\* The list of active bursts is right: it is what the mask hides, its bursts
\* are apart, none is before sample 0, and none goes on for ever.
BurstsAreSound == TypeOK /\ MaskIsExact /\ BoundedLife

\* The read cursor follows the stream: each frame at its true place, and none
\* left unread, whichever path reads it and after any failed batch.
StreamIsFollowed == FramesInPlace /\ CatchesUp
=============================================================================
