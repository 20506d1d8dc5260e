---------------------------- MODULE RemoteVideo -----------------------------
(***************************************************************************)
(* The video path of a remote track: readers take packets in turn, whole   *)
(* samples are decoded by a worker that outlives its reader, and after a   *)
(* loss, an error or a stall the publisher is asked for a keyframe, at     *)
(* most once in an interval.  Time is kept as the time since the last      *)
(* request and since the last frame; nothing else about it matters.        *)
(*                                                                         *)
(* SampleBuilder belongs to the webrtc crate: it gives samples in the      *)
(* order of their packets and says which of them follow a loss.            *)
(***************************************************************************)
EXTENDS Naturals, SequencesExt

CONSTANTS
    Readers,     \* tasks that call next_video_frame
    Interval,    \* KEYFRAME_REQUEST_INTERVAL
    Stall,       \* VIDEO_STALL_TIMEOUT
    MaxReady,    \* VIDEO_MAX_READY_BYTES, in frames
    None,        \* Option::None
    MaxLosses,   \* bound: samples that the network loses
    MaxFaults    \* bound: calls given up and requests that fail

VARIABLES
    reader,     \* [Readers -> [at, samples]]
    readGate,   \* the holder of read_gate
    worker,     \* the samples of the decode that runs, and who waits for it
    ready,      \* decoded frames: whether each is intact
    gap,        \* samples were lost since the last one that the builder gave
    broken,     \* the decoder misses a reference of the frames to come
    asked,      \* time since last_keyframe_request, at most Interval
    waited,     \* time since stall_deadline was set, at most Stall
    keyComing,  \* the publisher has got a request: its next frame is a keyframe
    dark,       \* history: no frame was decoded since a sample gave none
    losses, faults   \* bounds

vars == <<reader, readGate, worker, ready, gap, broken, asked, waited, keyComing, dark,
          losses, faults>>

Sample == [key : BOOLEAN, dropped : BOOLEAN]
Idle == [at |-> "idle", samples |-> <<>>]
NoWork == [samples |-> <<>>, for |-> None]

TypeOK ==
    /\ \A r \in Readers : /\ reader[r].at \in {"idle", "wait", "read", "permit", "decode", "ask"}
                          /\ reader[r].samples \in Seq(Sample)
    /\ readGate \in Readers \cup {None} /\ worker.for \in Readers \cup {None}
    /\ Len(ready) <= MaxReady
    /\ asked \in 0..Interval /\ waited \in 0..Stall

\* The track can start in the middle of a stream.
Init ==
    /\ reader = [r \in Readers |-> Idle] /\ readGate = None /\ worker = NoWork
    /\ ready = <<>> /\ gap = FALSE /\ broken \in BOOLEAN
    /\ asked = Interval /\ waited = 0 /\ keyComing = FALSE /\ dark = FALSE
    /\ losses = 0 /\ faults = 0

Go(r, place) == reader' = [reader EXCEPT ![r].at = place]

Tick ==
    /\ asked < Interval \/ waited < Stall
    /\ asked' = IF asked < Interval THEN asked + 1 ELSE asked
    /\ waited' = IF waited < Stall THEN waited + 1 ELSE waited
    /\ UNCHANGED <<reader, readGate, worker, ready, gap, broken, keyComing, dark, losses, faults>>

\* A sample is lost; it can be the keyframe that was asked for.
Lose ==
    /\ losses < MaxLosses /\ losses' = losses + 1
    /\ gap' = TRUE /\ keyComing' = FALSE
    /\ UNCHANGED <<reader, readGate, worker, ready, broken, asked, waited, dark, faults>>

-----------------------------------------------------------------------------
(* next_video_frame *)

Call(r) ==
    /\ reader[r].at = "idle" /\ Go(r, "wait")
    /\ UNCHANGED <<readGate, worker, ready, gap, broken, asked, waited, keyComing, dark,
                   losses, faults>>

Enter(r) ==
    /\ reader[r].at = "wait" /\ readGate = None /\ readGate' = r
    /\ Go(r, "read")
    /\ UNCHANGED <<worker, ready, gap, broken, asked, waited, keyComing, dark, losses, faults>>

TakeFrame(r) ==
    /\ reader[r].at = "read" /\ ready # <<>>
    /\ ready' = Tail(ready)
    /\ reader' = [reader EXCEPT ![r] = Idle] /\ readGate' = None
    /\ UNCHANGED <<worker, gap, broken, asked, waited, keyComing, dark, losses, faults>>

\* Packets that complete one sample, or two at once when a gap was filled late.
ReadSamples(r) ==
    /\ reader[r].at = "read" /\ ready = <<>>
    /\ \E n \in 1..2 :
        reader' = [reader EXCEPT ![r] =
            [at |-> "permit",
             samples |-> [k \in 1..n |-> [key |-> k = 1 /\ keyComing, dropped |-> k = 1 /\ gap]]]]
    /\ gap' = FALSE /\ keyComing' = FALSE
    /\ UNCHANGED <<readGate, worker, ready, broken, asked, waited, dark, losses, faults>>

\* Mutant: a stall is not looked for.
MutStallTimedOut == FALSE

\* stall_timed_out: no frame came out for VIDEO_STALL_TIMEOUT.
StallTimedOut == waited = Stall

\* A packet that completes no sample; a stall that ends is reported once.
ReadPacket(r) ==
    /\ reader[r].at = "read" /\ ready = <<>> /\ StallTimedOut
    /\ waited' = 0 /\ Go(r, "ask")
    /\ UNCHANGED <<readGate, worker, ready, gap, broken, asked, keyComing, dark, losses, faults>>

\* The permit moves into the worker.
StartDecode(r) ==
    /\ reader[r].at = "permit" /\ worker.samples = <<>>
    /\ worker' = [samples |-> reader[r].samples, for |-> r]
    /\ reader' = [reader EXCEPT ![r] = [at |-> "decode", samples |-> <<>>]]
    /\ UNCHANGED <<readGate, ready, gap, broken, asked, waited, keyComing, dark, losses, faults>>

\* trim_ready: the oldest frames over the budget go.
Trimmed(frames) ==
    SubSeq(frames, IF Len(frames) > MaxReady THEN Len(frames) - MaxReady + 1 ELSE 1, Len(frames))

\* What libvpx makes of a sample: an intact frame when it has the references,
\* else a frame that is not intact, no frame, or an error.
Outcome(intact) == IF intact THEN {"frame"} ELSE {"frame", "none", "error"}

NeedsKeyframe(sample, outcome) == sample.dropped \/ outcome = "error"

\* decode_samples, one sample after the other; the last one ends the worker.
Decode ==
    /\ worker.samples # <<>>
    /\ LET sample == Head(worker.samples)
           intact == sample.key \/ ~(broken \/ sample.dropped)
           rest == Tail(worker.samples)
           ends == rest = <<>>
       IN  \E outcome \in Outcome(intact) :
            /\ broken' = ~intact
            /\ ready' = IF outcome = "frame" THEN Trimmed(Append(ready, intact)) ELSE ready
            /\ dark' = (outcome # "frame")
            /\ LET stalled == ends /\ StallTimedOut /\ outcome # "frame"
                   needs == NeedsKeyframe(sample, outcome) \/ stalled
               IN  /\ waited' = IF outcome = "frame" \/ stalled THEN 0 ELSE waited
                   /\ worker' = IF ends THEN NoWork ELSE [worker EXCEPT !.samples = rest]
                   /\ reader' = IF worker.for = None THEN reader
                                ELSE IF needs THEN [reader EXCEPT ![worker.for].at = "ask"]
                                ELSE IF ends /\ reader[worker.for].at = "decode"
                                THEN [reader EXCEPT ![worker.for].at = "read"] ELSE reader
    /\ UNCHANGED <<readGate, gap, asked, keyComing, losses, faults>>

\* request_keyframe_throttled; the write can fail, and still counts.
Ask(r) ==
    /\ reader[r].at = "ask" /\ worker.for # r
    /\ Go(r, "read")
    /\ IF asked < Interval THEN UNCHANGED <<asked, keyComing, faults>>
       ELSE /\ asked' = 0
            /\ \/ keyComing' = TRUE /\ UNCHANGED faults
               \/ faults < MaxFaults /\ faults' = faults + 1 /\ UNCHANGED keyComing
    /\ UNCHANGED <<readGate, worker, ready, gap, broken, waited, dark, losses>>

\* The call is dropped: its samples and the answer of its worker are lost, the
\* worker runs on.
GiveUp(r) ==
    /\ reader[r].at # "idle" /\ faults < MaxFaults /\ faults' = faults + 1
    /\ reader' = [reader EXCEPT ![r] = Idle]
    /\ readGate' = IF readGate = r THEN None ELSE readGate
    /\ worker' = IF worker.for = r THEN [worker EXCEPT !.for = None] ELSE worker
    /\ broken' = (broken \/ reader[r].samples # <<>>)
    /\ UNCHANGED <<ready, gap, asked, waited, keyComing, dark, losses>>

ReaderStep(r) ==
    \/ Call(r) \/ Enter(r) \/ TakeFrame(r) \/ ReadSamples(r) \/ ReadPacket(r)
    \/ StartDecode(r) \/ Ask(r)

Next ==
    \/ Tick \/ Lose \/ Decode
    \/ \E r \in Readers : ReaderStep(r) \/ GiveUp(r)

Spec == Init /\ [][Next]_vars

\* The publisher keeps sending, the callers keep reading, and time goes on;
\* the gate is fair.
FairSpec ==
    /\ Spec /\ WF_vars(Tick) /\ WF_vars(Decode)
    /\ \A r \in Readers : /\ WF_vars(ReaderStep(r)) /\ SF_vars(Enter(r))
                          /\ SF_vars(ReadSamples(r))

-----------------------------------------------------------------------------
(* Properties. *)

\* The stream does not stall silently: when samples decode to nothing, the
\* requests for a keyframe go on until there is a frame again.
StallEnds == dark ~> ~dark

\* A frame that is not intact is only handed out after a loss whose keyframe
\* was asked for or is still to be asked for.
\* (remote.rs:452-457: "Packet loss and joining mid-stream both leave the
\* decoder without a valid reference frame; this asks the publisher for a
\* fresh keyframe [...] whenever that happens, so the stream recovers")
LossRecovers == broken ~> ~broken
=============================================================================
