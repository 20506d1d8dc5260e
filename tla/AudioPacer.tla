----------------------------- MODULE AudioPacer -----------------------------
(***************************************************************************)
(* The PCM side of a local audio track: writers push audio through the     *)
(* resampler into a bounded queue, a pacer takes one frame of it every     *)
(* 20 ms, flush drops it (barge-in), and the tasks that forward encoded    *)
(* audio share the sender with the pacer.                                  *)
(*                                                                         *)
(* A unit of audio is the piece a writer adds with one call; FrameLen,     *)
(* Capacity and FilterDelay are counted in units.  The filter of the       *)
(* resampler always keeps the last FilterDelay units that it was given.    *)
(***************************************************************************)
EXTENDS Naturals, SequencesExt

CONSTANTS
    Writers,      \* tasks that call write_pcm
    Forwarders,   \* tasks that call write_sample or write_rtp
    FrameLen,     \* FRAME_SAMPLES_20MS
    Capacity,     \* pcm_capacity_samples, at least FrameLen
    FilterDelay,  \* what the filter of the resampler holds back
    Pace,         \* LocalAudioTrackConfig::pace
    MaxWrites,    \* bound: calls of write_pcm
    MaxFlushes,   \* bound: calls of flush
    MaxControls   \* bound: calls that hold, pause, resume, mute, bind, forward

VARIABLES
    pcm,            \* the queue: units [n, started]
    filter,         \* the units inside the resampler
    filterFlushes,  \* the count beside the filter
    flushes,        \* calls of flush
    pcmWritten, pcmPacing, pacingEnabled, held, stopped,
    paused,         \* is_output_paused
    bound,          \* some binding of the track sends
    pacer,          \* of pace_audio: off, tick, guard, take, look, short, encode, send
    started,        \* pacer_started
    written,        \* local of take_pcm
    frame,          \* scratch, and the value of flushes when it was filled
    resampler,      \* who has locked the resampler
    guard,          \* who has locked write_guard
    level,          \* audio_level: whose level is staged
    writer,         \* [Writers -> [at, flushes, out]]
    forwarder,      \* [Forwarders -> place]
    pushed,         \* history: units given to the filter
    last,           \* history: the last unit taken
    controls        \* bound

track == <<flushes, pcmPacing, pacingEnabled, held, stopped, paused, bound>>
audio == <<pcm, filter, filterFlushes, pcmWritten>>
task == <<pacer, started, written, frame, guard, level, forwarder, last>>
vars == <<track, audio, task, resampler, writer, pushed, controls>>

Nobody == "nobody"
Pacer == "pacer"

Unit == [n : 1..MaxWrites, started : 0..MaxFlushes]
Places == {"off", "tick", "guard", "take", "look", "short", "encode", "send"}

TypeOK ==
    /\ pcm \in Seq(Unit) /\ Len(pcm) <= Capacity
    /\ filter \in Seq(Unit) /\ Len(filter) <= FilterDelay
    /\ filterFlushes \in 0..MaxFlushes /\ flushes \in 0..MaxFlushes
    /\ {pcmWritten, pcmPacing, pacingEnabled, held, stopped, paused, bound, started, written}
            \subseteq BOOLEAN
    /\ pacer \in Places
    /\ frame.units \in Seq(Unit) /\ frame.at \in 0..MaxFlushes
    /\ resampler \in Writers \cup {Pacer, Nobody}
    /\ guard \in Forwarders \cup {Pacer, Nobody}
    /\ level \in Forwarders \cup {Pacer, Nobody}
    /\ forwarder \in [Forwarders -> {"idle", "guard", "send"}]

Init ==
    /\ pcm = <<>> /\ filter = <<>> /\ filterFlushes = 0 /\ flushes = 0
    /\ pcmWritten = FALSE /\ pcmPacing = TRUE /\ pacingEnabled = TRUE
    /\ held = FALSE /\ stopped = FALSE /\ paused = FALSE /\ bound \in BOOLEAN
    /\ pacer = "off" /\ started = FALSE /\ written = FALSE
    /\ frame = [units |-> <<>>, at |-> 0]
    /\ resampler = Nobody /\ guard = Nobody /\ level = Nobody
    /\ writer = [w \in Writers |-> [at |-> "idle", flushes |-> 0, out |-> <<>>]]
    /\ forwarder = [f \in Forwarders |-> "idle"]
    /\ pushed = 0 /\ last = 0 /\ controls = 0

\* ensure_pacer: the first caller spawns the task.
EnsurePacer ==
    /\ started' = TRUE
    /\ pacer' = IF started THEN pacer ELSE "tick"

Newest(s, n) == SubSeq(s, IF Len(s) > n THEN Len(s) - n + 1 ELSE 1, Len(s))
Oldest(s, n) == SubSeq(s, 1, IF Len(s) > n THEN n ELSE Len(s))

PushBounded(queue, units) == Newest(queue \o units, Capacity)

-----------------------------------------------------------------------------
(* write_pcm *)

At(w, place) == writer[w].at = place
Idle == [at |-> "idle", flushes |-> 0, out |-> <<>>]
Returns(w) == writer' = [writer EXCEPT ![w] = Idle]

\* The count of flushes is read once, before anything is locked.
WriteBegins(w) ==
    /\ At(w, "idle") /\ ~stopped /\ pushed < MaxWrites
    /\ writer' = [writer EXCEPT ![w] = [at |-> "begun", flushes |-> flushes, out |-> <<>>]]
    /\ pcmPacing' = TRUE
    /\ UNCHANGED <<flushes, pacingEnabled, held, stopped, paused, bound,
                   audio, task, resampler, pushed, controls>>

\* The filter holds audio of another count: flushed, and lost.
HeldBack(w) == IF filterFlushes # writer[w].flushes THEN <<>> ELSE filter

ResamplerFree == resampler = Nobody

\* StreamResampler::push: the newest audio stays in the filter, what was there
\* before comes out of it.
StaysInFilter(units) == Newest(units, FilterDelay)
LeavesFilter(units) == Oldest(units, Len(units) - Len(StaysInFilter(units)))

\* The resampler is locked from here to the end of WriteQueues.
WriteResamples(w) ==
    /\ At(w, "begun") /\ ResamplerFree /\ pushed < MaxWrites
    /\ LET unit == [n |-> pushed + 1, started |-> writer[w].flushes]
           all == Append(HeldBack(w), unit)
       IN  /\ filter' = StaysInFilter(all)
           /\ writer' = [writer EXCEPT ![w].at = "resampled", ![w].out = LeavesFilter(all)]
    /\ filterFlushes' = writer[w].flushes
    /\ pcmWritten' = TRUE /\ pushed' = pushed + 1 /\ resampler' = w
    /\ UNCHANGED <<pcm, track, task, controls>>

\* A frame of another rate is refused after the filter was brought up to date.
WriteRefused(w) ==
    /\ At(w, "begun") /\ resampler = Nobody
    /\ filter' = HeldBack(w) /\ filterFlushes' = writer[w].flushes
    /\ Returns(w)
    /\ UNCHANGED <<pcm, pcmWritten, track, task, resampler, pushed, controls>>

\* Mutant: the queue is not told of the flush that came during the write.
MutStillWanted(w) == TRUE

StillWanted(w) == flushes = writer[w].flushes

\* queue_pcm, and the resampler unlocked.
WriteQueues(w) ==
    /\ At(w, "resampled")
    /\ pcm' = IF StillWanted(w) THEN PushBounded(pcm, writer[w].out) ELSE pcm
    /\ writer' = [writer EXCEPT ![w] = [at |-> "queued", flushes |-> 0, out |-> <<>>]]
    /\ resampler' = Nobody
    /\ UNCHANGED <<filter, filterFlushes, pcmWritten, track, task, pushed, controls>>

\* all_binding_paused, awaited with nothing locked.
WritePaces(w) ==
    /\ At(w, "queued") /\ Returns(w)
    /\ IF Pace /\ bound THEN EnsurePacer ELSE UNCHANGED <<pacer, started>>
    /\ UNCHANGED <<track, audio, written, frame, guard, level, forwarder, last,
                   resampler, pushed, controls>>

-----------------------------------------------------------------------------
(* pace_audio *)

\* A tick of a stopped track ends the task.
PacerTicks ==
    /\ pacer = "tick" /\ (stopped \/ pcmPacing)
    /\ pacer' = IF stopped THEN "off" ELSE "guard"
    /\ UNCHANGED <<track, audio, started, written, frame, guard, level, forwarder, last,
                   resampler, writer, pushed, controls>>

\* Under write_guard: a forwarded packet, a pause or a hold leaves the queue
\* alone; the RTP clock keeps time without a packet.
PacerLocks ==
    /\ pacer = "guard" /\ guard = Nobody
    /\ IF pcmPacing /\ pacingEnabled /\ ~held
       THEN pacer' = "take" /\ guard' = Pacer
       ELSE pacer' = "tick" /\ UNCHANGED guard
    /\ UNCHANGED <<track, audio, started, written, frame, level, forwarder, last,
                   resampler, writer, pushed, controls>>

TakeBegins ==
    /\ pacer = "take" /\ pacer' = "look"
    /\ written' = pcmWritten /\ pcmWritten' = FALSE
    /\ UNCHANGED <<track, pcm, filter, filterFlushes, started, frame, guard, level, forwarder,
                   last, resampler, writer, pushed, controls>>

\* A unit at the front of the queue goes into the frame, the rest is silence.
Fills(queue) ==
    LET units == Oldest(queue, FrameLen) IN
    /\ frame' = [units |-> units, at |-> flushes]
    /\ written' = FALSE
    /\ pcm' = Newest(queue, Len(queue) - Len(units))
    /\ last' = IF units = <<>> THEN last ELSE Last(units).n
    /\ pacer' = "encode"

\* A short queue is unlocked and the resampler is tried, not waited for.
TakeLooks ==
    /\ pacer = "look"
    /\ IF Len(pcm) >= FrameLen
       THEN Fills(pcm) /\ UNCHANGED resampler
       ELSE /\ pacer' = "short"
            /\ resampler' = IF resampler = Nobody THEN Pacer ELSE resampler
            /\ UNCHANGED <<frame, pcm, last, written>>
    /\ UNCHANGED <<track, filter, filterFlushes, pcmWritten, started, guard, level,
                   forwarder, writer, pushed, controls>>

\* Mutant: the resampler is drained only behind queued audio.
MutTailPlays ==
    /\ resampler = Pacer /\ filterFlushes = flushes
    /\ ~written /\ pcm # <<>> /\ Len(pcm) < FrameLen

TailPlays ==
    /\ resampler = Pacer /\ filterFlushes = flushes
    /\ ~written /\ Len(pcm) < FrameLen

\* The queue is locked again and the conditions are looked at once more.
TakeEnds ==
    /\ pacer = "short"
    /\ IF TailPlays
       THEN Fills(PushBounded(pcm, filter)) /\ filter' = <<>>
       ELSE Fills(pcm) /\ UNCHANGED filter
    /\ resampler' = IF resampler = Pacer THEN Nobody ELSE resampler
    /\ UNCHANGED <<track, filterFlushes, pcmWritten, started, guard, level, forwarder, writer,
                   pushed, controls>>

Taken == [units |-> <<>>, at |-> 0]

\* A muted track drops the frame unencoded; otherwise the level is staged.
PacerEncodes ==
    /\ pacer = "encode"
    /\ frame' = Taken
    /\ IF paused THEN pacer' = "tick" /\ guard' = Nobody /\ UNCHANGED level
       ELSE pacer' = "send" /\ level' = Pacer /\ UNCHANGED guard
    /\ UNCHANGED <<track, audio, started, written, forwarder, last, resampler, writer,
                   pushed, controls>>

\* write_encoded: a stopped track refuses the packet and ends the task.
PacerSends ==
    /\ pacer = "send"
    /\ pacer' = IF stopped THEN "off" ELSE "tick"
    /\ guard' = Nobody
    /\ UNCHANGED <<track, audio, started, written, frame, level, forwarder, last, resampler,
                   writer, pushed, controls>>

-----------------------------------------------------------------------------
(* write_sample and write_rtp *)

Controlled == controls < MaxControls /\ controls' = controls + 1

ForwardBegins(f) ==
    /\ forwarder[f] = "idle" /\ Controlled
    /\ forwarder' = [forwarder EXCEPT ![f] = "guard"]
    /\ pcmPacing' = FALSE
    /\ UNCHANGED <<flushes, pacingEnabled, held, stopped, paused, bound, audio, pacer, started,
                   written, frame, guard, level, last, resampler, writer, pushed>>

ForwardMayStage == guard = Nobody

\* The caller's level, or none, is staged under the guard.
ForwardLocks(f) ==
    /\ forwarder[f] = "guard" /\ ForwardMayStage
    /\ forwarder' = [forwarder EXCEPT ![f] = "send"]
    /\ guard' = f /\ level' = f
    /\ UNCHANGED <<track, audio, pacer, started, written, frame, last, resampler, writer,
                   pushed, controls>>

\* The packets carry the level that is staged, unless the track was stopped.
ForwardSends(f) ==
    /\ forwarder[f] = "send"
    /\ forwarder' = [forwarder EXCEPT ![f] = "idle"]
    /\ guard' = Nobody
    /\ UNCHANGED <<track, audio, pacer, started, written, frame, level, last, resampler, writer,
                   pushed, controls>>

-----------------------------------------------------------------------------
(* The other operations *)

\* Locks the queue, not the resampler: it does not wait for a write.
Flush ==
    /\ flushes < MaxFlushes /\ flushes' = flushes + 1
    /\ pcm' = <<>>
    /\ UNCHANGED <<pcmPacing, pacingEnabled, held, stopped, paused, bound, filter, filterFlushes,
                   pcmWritten, task, resampler, writer, pushed, controls>>

StartPacing ==
    /\ Controlled /\ pacingEnabled' = TRUE /\ EnsurePacer
    /\ UNCHANGED <<flushes, pcmPacing, held, stopped, paused, bound, audio, written, frame, guard,
                   level, forwarder, last, resampler, writer, pushed>>

PausePacing ==
    /\ Controlled /\ pacingEnabled' = FALSE
    /\ UNCHANGED <<flushes, pcmPacing, held, stopped, paused, bound, audio, task, resampler,
                   writer, pushed>>

\* A new publication holds the track until the publisher first connects.
HoldPacing ==
    /\ Controlled /\ ~held /\ held' = TRUE
    /\ UNCHANGED <<flushes, pcmPacing, pacingEnabled, stopped, paused, bound, audio, task,
                   resampler, writer, pushed>>

\* start_audio_pacing at the connect; release_audio_pacing after a failed publish.
ReleasePacing ==
    /\ held /\ held' = FALSE
    /\ EnsurePacer \/ UNCHANGED <<pacer, started>>
    /\ UNCHANGED <<flushes, pcmPacing, pacingEnabled, stopped, paused, bound, audio, written,
                   frame, guard, level, forwarder, last, resampler, writer, pushed, controls>>

\* set_muted and set_quality_paused.
SetPaused ==
    /\ Controlled /\ paused' = ~paused
    /\ UNCHANGED <<flushes, pcmPacing, pacingEnabled, held, stopped, bound, audio, task,
                   resampler, writer, pushed>>

\* A negotiated peer connection can send the track.
Bind ==
    /\ Controlled /\ ~bound /\ bound' = TRUE
    /\ UNCHANGED <<flushes, pcmPacing, pacingEnabled, held, stopped, paused, audio, task,
                   resampler, writer, pushed>>

\* The task is aborted where it awaits, if its handle was already stored.
Stop ==
    /\ Controlled /\ ~stopped /\ stopped' = TRUE
    /\ \/ UNCHANGED <<pacer, guard>>
       \/ /\ pacer \in {"tick", "guard", "send"}
          /\ pacer' = "off"
          /\ guard' = IF guard = Pacer THEN Nobody ELSE guard
    /\ UNCHANGED <<flushes, pcmPacing, pacingEnabled, held, paused, bound, audio, started,
                   written, frame, level, forwarder, last, resampler, writer, pushed>>

WriterStep(w) ==
    WriteResamples(w) \/ WriteRefused(w) \/ WriteQueues(w) \/ WritePaces(w)

PacerStep ==
    \/ PacerTicks \/ PacerLocks \/ TakeBegins \/ TakeLooks \/ TakeEnds
    \/ PacerEncodes \/ PacerSends

ForwarderStep(f) == ForwardLocks(f) \/ ForwardSends(f)

Next ==
    \/ \E w \in Writers : WriteBegins(w) \/ WriterStep(w)
    \/ PacerStep
    \/ \E f \in Forwarders : ForwardBegins(f) \/ ForwarderStep(f)
    \/ Flush \/ StartPacing \/ PausePacing \/ HoldPacing \/ ReleasePacing
    \/ SetPaused \/ Bind \/ Stop

Spec == Init /\ [][Next]_vars

\* The runtime runs every task that can run; the locks are held briefly and
\* tokio's mutex is first come, first served.
Fairness ==
    /\ WF_vars(PacerStep)
    /\ \A w \in Writers : WF_vars(WriterStep(w))
    /\ \A f \in Forwarders : SF_vars(ForwardLocks(f)) /\ WF_vars(ForwardSends(f))

FairSpec == Spec /\ Fairness

-----------------------------------------------------------------------------
(* Properties. *)

\* Audio of a write that started before a flush is never taken after it: not
\* from the queue, not from a write that was under way, not from the filter.
FlushedAudioStaysSilent ==
    /\ \A u \in Range(frame.units) : u.started = frame.at
    /\ \A u \in Range(pcm) : u.started = flushes

Ascends(line) == \A i \in DOMAIN line : line[i].n > IF i = 1 THEN last ELSE line[i - 1].n

\* Whatever the pacer, the writers and the flushes do, audio is taken in the
\* order in which it was written and no piece of it twice: the queue, the audio of
\* the one write on its way there, and the filter come after what was taken, in order.
AudioInOrder ==
    /\ \A v, w \in Writers : writer[v].out # <<>> /\ writer[w].out # <<>> => v = w
    /\ \A out \in {<<>>} \cup {writer[w].out : w \in Writers} : Ascends(pcm \o out \o filter)

\* The line from the writers to the encoder stays whole, through the filter and
\* the queue, whoever flushes it meanwhile.
LineStaysWhole == FlushedAudioStaysSilent /\ AudioInOrder

Waiting == {u \in Range(pcm) \cup Range(filter) \cup UNION {Range(writer[w].out) : w \in Writers} :
                u.started = flushes}

\* More audio than the queue has room for, from a write or from the filter.
Overflows ==
    \/ \E w \in Writers : At(w, "resampled") /\ writer'[w].at = "queued"
                             /\ Len(pcm) + Len(writer[w].out) > Capacity
    \/ pacer = "short" /\ pacer' # "short" /\ Len(pcm) + Len(filter) > Capacity

\* Audio written since the last flush leaves the line only into a frame, by a
\* flush, or because the queue overflows; but a write that started before the
\* flush can clear the filter of the audio written after it.
AudioIsKept ==
    [][\/ \A u \in Waiting : u \in Waiting' \cup Range(frame'.units)
       \/ flushes' # flushes
       \/ Overflows
       \/ \E w \in Writers : At(w, "begun") /\ writer'[w].at # "begun"
                                /\ writer[w].flushes # flushes]_vars

Pacing == pacer # "off" /\ pcmPacing /\ pacingEnabled /\ ~held /\ ~stopped

\* The end of the written audio plays, also the part inside the resampler and
\* without another write: while the pacer takes audio, all of it is taken.
WrittenAudioPlays == (<>[]Pacing) => <>[](Waiting = {})
=============================================================================
