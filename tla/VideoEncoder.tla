---------------------------- MODULE VideoEncoder ----------------------------
(***************************************************************************)
(* The encodings of a local video track: frames pass the encode gate one   *)
(* at a time, a worker encodes them for every encoding that is not paused, *)
(* and the packets are written after the gate was opened again; meanwhile  *)
(* the SFU pauses encodings and sets their bitrate, size and frame rate.   *)
(* A receiver can decode a frame when it has every frame since the last    *)
(* keyframe, so a frame that was encoded but never sent breaks the stream. *)
(***************************************************************************)
EXTENDS Integers, Sequences, FiniteSets

CONSTANTS
    Tasks,       \* calls of write_i420_at that may overlap
    Encodings,   \* 1..n, the encodings in use: active_encoding_count
    KeyInterval, \* KEYFRAME_INTERVAL_MS
    SlotLen,     \* the frame interval of the maximum frame rate the SFU may set
    None,
    Steps,       \* the differences between two pts of the caller
    MaxFrames,   \* bound: frames
    MaxControls  \* bound: settings, mutes, failures

VARIABLES
    task,      \* [Tasks -> [at, pts, index, out]]
    gate,      \* the holder of the permit of encode_gate
    lastPts,   \* VideoClock
    paused,    \* [Encodings -> quality_paused]
    muted, stopped,
    force,     \* [Encodings -> force_keyframe]
    config,    \* [Encodings -> bitrate and size], a number for each pair
    capped,    \* [Encodings -> max_framerate is set]
    encoder,   \* [Encodings -> VideoEncoder or None]
    resuming,  \* the encoding whose apply_layer_setting has not stored force yet
    stream,    \* history: [Encodings -> frames given to libvpx: pts, key, fate]
    wanted,    \* history: [Encodings -> a keyframe was asked for and not encoded]
    frames, controls   \* bounds

vars == <<task, gate, lastPts, paused, muted, stopped, force, config, capped, encoder,
          resuming, stream, wanted, frames, controls>>
settings == <<paused, muted, stopped, config, capped, resuming>>

Last == Cardinality(Encodings)
Fates == {"flying", "sent", "lost"}

TypeOK ==
    /\ \A t \in Tasks : /\ task[t].at \in {"idle", "gate", "work", "write"}
                        /\ task[t].index \in 1..Last
                        /\ task[t].out \subseteq Encodings
    /\ gate \in Tasks \cup {None}
    /\ paused \in [Encodings -> BOOLEAN] /\ force \in [Encodings -> BOOLEAN]
    /\ \A e \in Encodings : \A i \in DOMAIN stream[e] : stream[e][i].fate \in Fates

Idle == [at |-> "idle", pts |-> 0, index |-> 1, out |-> {}]

Init ==
    /\ task = [t \in Tasks |-> Idle] /\ gate = None /\ lastPts = 0
    /\ paused = [e \in Encodings |-> FALSE] /\ muted = FALSE /\ stopped = FALSE
    /\ force = [e \in Encodings |-> TRUE]
    /\ config = [e \in Encodings |-> 1] /\ capped = [e \in Encodings |-> FALSE]
    /\ encoder = [e \in Encodings |-> None] /\ resuming = None
    /\ stream = [e \in Encodings |-> <<>>]
    /\ wanted = [e \in Encodings |-> FALSE]
    /\ frames = 0 /\ controls = 0

OutputPaused(e) == muted \/ paused[e]

Controlled == controls < MaxControls /\ controls' = controls + 1

-----------------------------------------------------------------------------
(* write_i420_at *)

Begin(t) ==
    /\ task[t].at = "idle" /\ ~stopped /\ frames < MaxFrames
    /\ task' = [task EXCEPT ![t].at = "gate"]
    /\ frames' = frames + 1
    /\ UNCHANGED <<gate, lastPts, settings, force, encoder, stream, wanted, controls>>

\* With every encoding paused the frame only moves the clock.
Enter(t) ==
    /\ task[t].at = "gate" /\ gate = None
    /\ \E step \in Steps :
        /\ lastPts' = lastPts + step
        /\ IF \A e \in Encodings : OutputPaused(e)
           THEN task' = [task EXCEPT ![t] = Idle] /\ UNCHANGED gate
           ELSE /\ task' = [task EXCEPT ![t].at = "work", ![t].pts = lastPts + step]
                /\ gate' = t
    /\ UNCHANGED <<settings, force, encoder, stream, wanted, frames, controls>>

\* The encoder to use: the settings may ask for a new one, and that one starts
\* with a keyframe and with an empty schedule.
Encoder(e, pts) ==
    IF encoder[e] # None /\ encoder[e].config = config[e] THEN encoder[e]
    ELSE [config |-> config[e], lastKey |-> pts - KeyInterval, slot |-> None, emitted |-> None]

Near(a, b) == (IF a > b THEN a - b ELSE b - a) < 2 * SlotLen
Scheduled(state, pts) == state.slot # None /\ Near(state.slot, pts)

\* The frame comes before its slot.
TooEarly(e, state, pts) == capped[e] /\ Scheduled(state, pts) /\ state.slot > pts

\* The slot after this frame: slots are one interval apart, so that jitter
\* drops no frames.
Slot(e, state, pts) ==
    IF ~capped[e] THEN state.slot
    ELSE IF Scheduled(state, pts) THEN state.slot + SlotLen
    ELSE pts + SlotLen \div 2

\* Mutant: the interval runs from the last frame.
MutKeyDue(e, state, pts) == force[e] \/ (state.emitted # None /\ pts - state.emitted >= KeyInterval)

KeyDue(e, state, pts) == force[e] \/ pts - state.lastKey >= KeyInterval

\* The frame of task t among the frames of an encoding.
Mine(t, s) == {i \in DOMAIN s : s[i].pts = task[t].pts /\ s[i].fate = "flying"}
Drop(t, s) == [i \in DOMAIN s |-> IF i \in Mine(t, s) THEN [s[i] EXCEPT !.fate = "lost"] ELSE s[i]]

Advance(t, out) ==
    IF task[t].index = Last
    THEN /\ task' = [task EXCEPT ![t].at = "write", ![t].index = 1, ![t].out = out]
         /\ gate' = None
    ELSE task' = [task EXCEPT ![t].index = @ + 1, ![t].out = out] /\ UNCHANGED gate

KeepsRequest(e) == force

\* encode_layer_packets: the next encoding of the frame, unless it is paused.
Encode(t) ==
    LET e == task[t].index
        pts == task[t].pts
        state == Encoder(e, pts)
        key == KeyDue(e, state, pts)
        used == [state EXCEPT !.slot = Slot(e, state, pts), !.emitted = pts,
                              !.lastKey = IF key THEN pts ELSE @]
    IN  /\ task[t].at = "work"
        /\ UNCHANGED <<lastPts, settings, frames, controls>>
        /\ IF OutputPaused(e)
           THEN Advance(t, task[t].out) /\ UNCHANGED <<force, encoder, stream, wanted>>
           ELSE IF TooEarly(e, state, pts)
           THEN /\ encoder' = [encoder EXCEPT ![e] = state]
                /\ force' = KeepsRequest(e)
                /\ Advance(t, task[t].out) /\ UNCHANGED <<stream, wanted>>
           ELSE /\ encoder' = [encoder EXCEPT ![e] = used]
                /\ force' = [force EXCEPT ![e] = FALSE]
                /\ wanted' = [wanted EXCEPT ![e] = @ /\ ~key]
                /\ stream' = [stream EXCEPT ![e] = Append(@, [pts |-> pts, key |-> key,
                                                              fate |-> "flying"])]
                /\ Advance(t, task[t].out \cup {e})

\* libvpx fails: the frame ends with an error, for the encodings that were
\* already encoded too, and a request for a keyframe is used up.
EncodeFails(t) ==
    LET e == task[t].index
        pts == task[t].pts
        state == Encoder(e, pts)
        key == KeyDue(e, state, pts)
    IN  /\ task[t].at = "work" /\ Controlled
        /\ ~OutputPaused(e) /\ ~TooEarly(e, state, pts)
        /\ encoder' = [encoder EXCEPT ![e] =
                           [state EXCEPT !.slot = Slot(e, state, pts), !.emitted = pts,
                                         !.lastKey = IF key THEN pts ELSE @]]
        /\ force' = [force EXCEPT ![e] = FALSE]
        /\ wanted' = [wanted EXCEPT ![e] = FALSE]
        /\ stream' = [f \in Encodings |->
                         IF f = e THEN Append(stream[e], [pts |-> pts, key |-> key, fate |-> "lost"])
                         ELSE Drop(t, stream[f])]
        /\ task' = [task EXCEPT ![t] = Idle] /\ gate' = None
        /\ UNCHANGED <<lastPts, settings, frames>>

\* write_packet, for one encoding after the other.
Write(t) ==
    LET e == task[t].index
        sent == e \in task[t].out /\ ~OutputPaused(e) /\ ~stopped
    IN  /\ task[t].at = "write"
        /\ stream' = [stream EXCEPT ![e] =
                         IF sent THEN [i \in DOMAIN @ |-> IF i \in Mine(t, @)
                                                          THEN [@[i] EXCEPT !.fate = "sent"]
                                                          ELSE @[i]]
                         ELSE Drop(t, @)]
        /\ task' = [task EXCEPT ![t] = IF e = Last THEN Idle ELSE [@ EXCEPT !.index = e + 1]]
        /\ UNCHANGED <<gate, lastPts, settings, force, encoder, wanted, frames, controls>>

\* The caller drops the future: a worker that runs keeps the permit to its end,
\* and what it has encoded is lost then.
Cancel(t) ==
    /\ task[t].at \in {"gate", "write"} /\ Controlled
    /\ stream' = [e \in Encodings |-> Drop(t, stream[e])]
    /\ task' = [task EXCEPT ![t] = Idle]
    /\ UNCHANGED <<gate, lastPts, settings, force, encoder, wanted, frames>>

-----------------------------------------------------------------------------
(* The settings of the SFU, and the other operations *)

\* apply_layer_setting: bitrate, size and rate, and the pause of an encoding.
\* The request for a keyframe is stored after the pause has ended.
ApplyLayerSetting(e, active) ==
    /\ resuming = None /\ Controlled
    /\ config' \in {config, [config EXCEPT ![e] = 3 - @]}
    /\ capped' \in {capped, [capped EXCEPT ![e] = TRUE]}
    /\ paused' = [paused EXCEPT ![e] = ~active]
    /\ resuming' = IF active /\ paused[e] THEN e ELSE None
    /\ UNCHANGED <<task, gate, lastPts, muted, stopped, force, encoder, stream, wanted, frames>>

ForceStored ==
    /\ resuming # None /\ resuming' = None
    /\ force' = [force EXCEPT ![resuming] = TRUE]
    /\ wanted' = [wanted EXCEPT ![resuming] = TRUE]
    /\ UNCHANGED <<task, gate, lastPts, paused, muted, stopped, config, capped, encoder, stream,
                   frames, controls>>

\* force_keyframe: a receiver asked for one.
ForceKeyframe ==
    /\ Controlled
    /\ force' = [e \in Encodings |-> TRUE] /\ wanted' = [e \in Encodings |-> TRUE]
    /\ UNCHANGED <<task, gate, lastPts, settings, encoder, stream, frames>>

SetMuted ==
    /\ Controlled /\ muted' = ~muted
    /\ UNCHANGED <<task, gate, lastPts, paused, stopped, force, config, capped, encoder, resuming,
                   stream, wanted, frames>>

Stop ==
    /\ ~stopped /\ stopped' = TRUE /\ Controlled
    /\ UNCHANGED <<task, gate, lastPts, paused, muted, force, config, capped, encoder, resuming,
                   stream, wanted, frames>>

Next ==
    \/ \E t \in Tasks : Begin(t) \/ Enter(t) \/ Encode(t) \/ EncodeFails(t) \/ Write(t) \/ Cancel(t)
    \/ \E e \in Encodings, active \in BOOLEAN : ApplyLayerSetting(e, active)
    \/ ForceStored \/ ForceKeyframe \/ SetMuted \/ Stop

Spec == Init /\ [][Next]_vars

-----------------------------------------------------------------------------
(* Properties. *)

\* Frames encoded after the keyframe of an encoding, the keyframe included.
SinceKey(e, i) ==
    LET keys == {k \in 1..i : stream[e][k].key /\ stream[e][k].fate # "lost"}
    IN  {j \in 1..i : \A k \in keys : j >= k}

\* A stream that lost a frame (muted or cancelled after the encoding, or an
\* encoder of another layer failed) is repaired: no frame goes out undecodable
\* a keyframe interval or more after the loss.
BrokenStreamRecovers ==
    \A e \in Encodings : \A i \in DOMAIN stream[e] :
        stream[e][i].fate = "sent" /\ ~stream[e][i].key =>
            LET losses == {j \in SinceKey(e, i) : stream[e][j].fate = "lost"}
            IN  losses # {} =>
                    \E l \in losses : stream[e][i].pts < stream[e][l].pts + KeyInterval

\* A request for a keyframe is kept until a frame is encoded: no frame that is
\* dropped for its rate, paused or refused uses it up.
RequestIsKept == \A e \in Encodings : wanted[e] => force[e]

\* A receiver that lost the picture gets it back: a keyframe that is asked for
\* comes, and a lost frame is repaired without anyone asking.
PictureRecovers == BrokenStreamRecovers /\ RequestIsKept
=============================================================================
