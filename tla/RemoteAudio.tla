---------------------------- MODULE RemoteAudio -----------------------------
(***************************************************************************)
(* The audio path of a remote track: RTP packets that the network loses,   *)
(* repeats and reorders become PCM frames, with a rebuilt frame for each   *)
(* lost packet of a short gap.  Readers share the track and may give up.   *)
(***************************************************************************)
EXTENDS Integers, SequencesExt, FiniteSetsExt

CONSTANTS
    SeqSpace,   \* 2^16
    MaxFilled,  \* AUDIO_MAX_FILLED_PACKETS
    FrameLen,   \* the samples of an Opus frame of the sender
    First,      \* the first sequence number, near the wrap
    Readers,    \* tasks that call next_pcm
    None,       \* Option::None
    Packets,    \* bound: packets that the sender sends
    Silences,   \* bound: pauses of the sender (DTX)
    Faults      \* bound: packets repeated, and packets that fail to decode

VARIABLES
    sent,      \* history: the timestamps of the packets sent
    network,   \* packets on the way: indices of sent, each with its copies
    silences, faults,  \* bounds
    failed,    \* history: the decoder refused a packet
    firstRead, \* first_packet has been taken
    lastSeq,   \* last_seq
    ready,     \* frames: [index, pts, rebuilt]
    readGate,  \* the holder of read_gate
    reader,    \* [Readers -> idle, wait, read, or got]
    frames     \* history: the frames handed out

vars == <<sent, network, silences, faults, failed, firstRead, lastSeq, ready, readGate, reader, frames>>
sender == <<sent, silences>>

TypeOK ==
    /\ Len(sent) <= Packets /\ network \subseteq DOMAIN sent
    /\ lastSeq \in (0..SeqSpace - 1) \cup {None}
    /\ readGate \in Readers \cup {None}
    /\ reader \in [Readers -> {"idle", "wait", "read"}]
    /\ Len(ready) <= MaxFilled + 1

Init ==
    /\ sent = <<>> /\ network = {} /\ silences = 0 /\ faults = 0 /\ failed = FALSE
    /\ lastSeq = None /\ ready = <<>> /\ readGate = None
    /\ reader = [r \in Readers |-> "idle"] /\ frames = <<>> /\ firstRead = FALSE

Seq16(i) == (First + i - 1) % SeqSpace

\* The sender: one packet a frame; DTX skips timestamps over silence but not
\* sequence numbers.
Send ==
    /\ Len(sent) < Packets
    /\ \E skip \in {0, 1} :
        /\ silences + skip <= Silences /\ silences' = silences + skip
        /\ sent' = Append(sent, (IF sent = <<>> THEN 0 ELSE Last(sent) + FrameLen) + skip)
    /\ network' = network \cup {Len(sent')}
    /\ UNCHANGED <<faults, failed, firstRead, lastSeq, ready, readGate, reader, frames>>

Lose ==
    /\ \E i \in network : network' = network \ {i}
    /\ UNCHANGED <<sender, faults, failed, firstRead, lastSeq, ready, readGate, reader, frames>>

\* next_pcm takes the gate, then a frame that is ready.
Call(r) ==
    /\ reader[r] = "idle" /\ reader' = [reader EXCEPT ![r] = "wait"]
    /\ UNCHANGED <<sender, network, faults, failed, firstRead, lastSeq, ready, readGate, frames>>

Enter(r) ==
    /\ reader[r] = "wait" /\ readGate = None /\ readGate' = r
    /\ reader' = [reader EXCEPT ![r] = "read"]
    /\ UNCHANGED <<sender, network, faults, failed, firstRead, lastSeq, ready, frames>>

\* A call that is dropped takes nothing with it.
GiveUp(r) ==
    /\ reader[r] # "idle" /\ reader' = [reader EXCEPT ![r] = "idle"]
    /\ readGate' = IF readGate = r THEN None ELSE readGate
    /\ UNCHANGED <<sender, network, faults, failed, firstRead, lastSeq, ready, frames>>

TakeFrame(r) ==
    /\ reader[r] = "read" /\ ready # <<>>
    /\ frames' = Append(frames, Head(ready)) /\ ready' = Tail(ready)
    /\ reader' = [reader EXCEPT ![r] = "idle"] /\ readGate' = None
    /\ UNCHANGED <<sender, network, faults, failed, firstRead, lastSeq>>

\* Mutant: a packet that comes late is decoded like any other.
MutAhead(i) == IF lastSeq = None THEN 1
               ELSE LET d == (Seq16(i) - lastSeq) % SeqSpace
                    IN  IF d > (SeqSpace - 1) \div 2 THEN 1 ELSE d

\* How far a packet is ahead of the last one; 0 for one that is late.
Ahead(i) ==
    IF lastSeq = None THEN 1
    ELSE LET d == (Seq16(i) - lastSeq) % SeqSpace
         IN  IF d > (SeqSpace - 1) \div 2 THEN 0 ELSE d

Missing(i) == IF Ahead(i) - 1 > MaxFilled THEN 0 ELSE Ahead(i) - 1

\* The timestamp of the frame `back` frames before packet i.
Pts(i, back) == sent[i] - back * FrameLen

Rebuilt(i) ==
    [k \in 1..Missing(i) |-> [index |-> i - (Missing(i) + 1 - k),
                              pts |-> Pts(i, Missing(i) + 1 - k), rebuilt |-> TRUE]]
Decoded(i) == [index |-> i, pts |-> sent[i], rebuilt |-> FALSE]

\* push_packet of the next packet the network delivers, after the first packet
\* that was read before the track was built.  The decoder may refuse it.
PushPacket(r) ==
    /\ reader[r] = "read" /\ ready = <<>>
    /\ \E i \in network :
        /\ ~firstRead => i = Min(network)
        /\ firstRead' = TRUE
        /\ \E copies \in {0, 1} :
            /\ faults + copies <= Faults /\ faults' = faults + copies
            /\ network' = IF copies = 1 THEN network ELSE network \ {i}
        /\ IF Ahead(i) = 0 THEN UNCHANGED <<lastSeq, ready>>
           ELSE /\ lastSeq' = Seq16(i)
                /\ ready' = Append(Rebuilt(i), Decoded(i))
    /\ UNCHANGED <<sender, failed, readGate, reader, frames>>

DecodeFails(r) ==
    /\ reader[r] = "read" /\ ready = <<>> /\ firstRead
    /\ \E i \in network :
        /\ faults < Faults /\ faults' = faults + 1 /\ failed' = TRUE
        /\ network' = network \ {i}
        /\ IF Ahead(i) = 0 THEN UNCHANGED <<lastSeq, ready>>
           ELSE lastSeq' = Seq16(i) /\ ready' = Rebuilt(i)
    /\ UNCHANGED <<sender, firstRead, readGate, reader, frames>>

Next ==
    \/ Send \/ Lose
    \/ \E r \in Readers : \/ Call(r) \/ Enter(r) \/ GiveUp(r)
                          \/ TakeFrame(r) \/ PushPacket(r) \/ DecodeFails(r)

Spec == Init /\ [][Next]_vars

-----------------------------------------------------------------------------
(* Properties. *)

\* What comes out is in the order of the sender, each frame once, whatever the
\* network reorders or repeats, across the wrap of the sequence numbers; and a
\* rebuilt frame fits where the lost one was, also when the sender was silent
\* before or in the gap: the frames never overlap.
FramesInOrder ==
    LET out == frames \o ready IN
    \A k \in 1..Len(out) - 1 : /\ out[k].index < out[k + 1].index
                               /\ out[k].pts + FrameLen <= out[k + 1].pts

\* A short gap is filled: without a decoder error, a frame for every packet
\* between two that arrived, and no rebuilt frame for one that was played.
GapsAreFilled ==
    LET out == frames \o ready IN
    ~failed =>
        \A k \in 1..Len(out) - 1 :
            \/ out[k + 1].index = out[k].index + 1
            \/ ~out[k + 1].rebuilt /\ out[k + 1].index - out[k].index > MaxFilled + 1

\* What a lossy network delivers is played in order, once, and with its short
\* gaps filled.
LossIsConcealed == FramesInOrder /\ GapsAreFilled
=============================================================================
