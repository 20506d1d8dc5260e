--------------------------- MODULE PictureStream ---------------------------
(***************************************************************************)
(* Encoded pictures on their way to the SFU: the encoder of one encoding,  *)
(* the packetizer that outlives it, and what a receiver makes of the       *)
(* descriptors.  A packet is its descriptor and the length of its          *)
(* fragment.  libvpx and the receiver are external: libvpx follows a fixed *)
(* temporal pattern that a keyframe restarts, and a receiver knows the     *)
(* layer of a picture from its id and from the structure sent with the     *)
(* last keyframe (RFC 9628).                                               *)
(***************************************************************************)
EXTENDS Integers, SequencesExt

CONSTANTS
    PidModulus, Tl0Modulus, TsModulus, \* 2^15, 2^8 and 2^32 in the code
    MaxPayload, \* PACKET_MTU
    Sizes,      \* lengths of encoded frames
    MaxSpatial, \* bound: spatial layers, three in the code
    TimeSteps,  \* ticks between two pictures
    MaxTime     \* bound: ticks

VARIABLES
    mode,       \* codec and layers of the encoder
    encoder,    \* external: the place in the temporal pattern; -1: no picture yet
    packetizer, \* VpxRtpPacketizer: [pid, tl0, gof]
    before,     \* the picture sent before the last one: [pid, tl0]
    picture,    \* the last picture: [key, sizes by layer, packets]
    learned,    \* the receiver: id and pattern of the last keyframe
    decoder,    \* VpxDecoder.last_rtp_timestamp: [last, ticks]
    time        \* ticks since the first picture

streamVars == <<mode, encoder, packetizer, before, picture, learned, decoder, time>>

Modes ==
    [codec : {"vp8", "vp9"}, spatial : {1}, temporal : {1}]
        \cup [codec : {"svc"}, spatial : 1..MaxSpatial, temporal : 1..3]

\* One entry of a pattern.
Gof(tid, up, refs) == [tid |-> tid, up |-> up, refs |-> refs]

\* The group that write_scalability_structure announces.
Announced(m) ==
    <<<<>>,
      <<Gof(0, FALSE, <<2>>), Gof(1, TRUE, <<1>>)>>,
      <<Gof(0, FALSE, <<4>>), Gof(2, TRUE, <<1>>), Gof(1, TRUE, <<2>>), Gof(2, FALSE, <<1, 2>>)>>>>[m.temporal]

\* temporal_pattern_len and temporal_up_switch
PatternLen(m) == <<1, 2, 4>>[m.temporal]
UpSwitch(m, gof) ==
    <<<<TRUE>>, <<FALSE, TRUE>>, <<FALSE, TRUE, TRUE, FALSE>>>>[m.temporal][(gof % PatternLen(m)) + 1]

\* What comes before the fragment.
DescriptorLen(m) == IF m.codec = "vp8" THEN 4 ELSE 5

\* The structure: a byte, the sizes of the layers, and the group.
StructureLen(m) ==
    IF m.codec = "svc" THEN 1 + 4 * m.spatial + <<0, 5, 10>>[m.temporal] ELSE 5

\* External: the layers of libvpx's modes 0101 and 0212.
TemporalId(m, place) == <<<<0>>, <<0, 1>>, <<0, 2, 1, 2>>>>[m.temporal][place + 1]

Smaller(a, b) == IF a < b THEN a ELSE b
Larger(a, b) == IF a < b THEN b ELSE a

\* A frame of total bytes in pieces, the first of at most head bytes.
Pieces(total, head, room) ==
    LET rest == total - Smaller(head, total)
    IN [i \in 1..(1 + (rest + room - 1) \div room) |->
            IF i = 1 THEN total - rest ELSE Smaller(room, rest - (i - 2) * room)]

\* The packets of one layer of a picture.
Fragments(m, key, sid, size, highest) ==
    LET structure == key /\ sid = 0 /\ m.codec # "vp8"
        room == Larger(1, MaxPayload - DescriptorLen(m))
        head == IF structure THEN Larger(1, MaxPayload - DescriptorLen(m) - StructureLen(m)) ELSE room
        pieces == Pieces(size, head, room)
    IN [i \in DOMAIN pieces |->
        [sid |-> sid, len |-> pieces[i], b |-> i = 1, e |-> i = Len(pieces),
         ss |-> structure /\ i = 1, last |-> i = Len(pieces) /\ sid = highest]]

Layers(sizes) == {sid \in DOMAIN sizes : sizes[sid] > 0}

AllFragments(m, key, sizes) ==
    LET highest == CHOOSE s \in Layers(sizes) : \A t \in Layers(sizes) : t <= s
    IN FlattenSeq([i \in 1..m.spatial |->
           IF i - 1 \in Layers(sizes) THEN Fragments(m, key, i - 1, sizes[i - 1], highest) ELSE <<>>])

-----------------------------------------------------------------------------

TypeOK ==
    /\ mode \in Modes /\ encoder \in -1..3
    /\ packetizer \in [pid : 0..(PidModulus - 1), tl0 : 0..(Tl0Modulus - 1), gof : 0..3]
    /\ time \in 0..MaxTime

NoPicture == [packets |-> <<>>, pid |-> 0, tl0 |-> 0]

\* The first ids are random, here close to the wrap.
Init ==
    /\ mode \in Modes /\ encoder = -1
    /\ packetizer = [pid |-> PidModulus - 2, tl0 |-> Tl0Modulus - 1, gof |-> 0]
    /\ before = [pid |-> 0, tl0 |-> 0] /\ picture = NoPicture
    /\ learned = [pid |-> 0, gof |-> <<>>]
    /\ decoder = [last |-> -1, ticks |-> 0] /\ time = 0

\* A size, a bitrate or an SVC mode that changed makes a new encoder; the
\* packetizer of the old one stays.  The codec of a track never changes.
Reinit(m) ==
    /\ encoder # -1 /\ m.codec = mode.codec
    /\ mode' = m /\ encoder' = -1
    /\ UNCHANGED <<packetizer, before, picture, learned, decoder, time>>

\* Mutant: the place in the group survives a keyframe.
MutStart(key) == packetizer.gof
\* packetize_svc_picture: a keyframe begins the group.
Start(key) == IF key THEN 0 ELSE packetizer.gof

\* 32-bit difference of two timestamps, with its sign.
Signed(d) ==
    LET u == d % TsModulus IN IF u < TsModulus \div 2 THEN u ELSE u - TsModulus

\* decode: the step from the timestamp before, whatever becomes of the picture.
Decodes ==
    decoder' = [last |-> time' % TsModulus,
                ticks |-> IF decoder.last = -1 THEN 0
                          ELSE decoder.ticks + Signed((time' % TsModulus) - decoder.last)]

\* VpxSvcEncoder::encode: a keyframe restarts the pattern.  Rate control can
\* drop upper layers, and an encode that fails sends nothing.
Place(key) == IF key THEN 0 ELSE (encoder + 1) % PatternLen(mode)
Tid(key) == IF key THEN 0 ELSE TemporalId(mode, Place(key))

\* packetize_svc_picture numbers a base picture before it is sent; packetize
\* numbers every picture, afterwards.
Svc == mode.codec = "svc"
Tl0(key) == IF Svc /\ Tid(key) = 0 THEN (packetizer.tl0 + 1) % Tl0Modulus ELSE packetizer.tl0

Numbers(key) ==
    packetizer' = [pid |-> (packetizer.pid + 1) % PidModulus,
                   tl0 |-> IF Svc THEN Tl0(key) ELSE (packetizer.tl0 + 1) % Tl0Modulus,
                   gof |-> IF Svc THEN (Start(key) + 1) % PatternLen(mode) ELSE 0]

\* encode_layer_packets: the first picture of an encoder is a keyframe.
Encodes(key, sizes, step) ==
    /\ time + step <= MaxTime /\ (encoder = -1 => key)
    /\ time' = IF picture.packets = <<>> THEN 0 ELSE time + step
    /\ sizes[0] > 0 /\ encoder' = Place(key) /\ Numbers(key)
    /\ picture' = [mode |-> mode, key |-> key, sizes |-> sizes, pid |-> packetizer.pid,
                   tl0 |-> Tl0(key), tid |-> Tid(key), up |-> Svc /\ UpSwitch(mode, Start(key)),
                   packets |-> AllFragments(mode, key, sizes)]
    /\ before' = [pid |-> picture.pid, tl0 |-> picture.tl0]
    /\ learned' = IF key THEN [pid |-> packetizer.pid, gof |-> Announced(mode)] ELSE learned
    /\ Decodes
    /\ UNCHANGED mode

Next ==
    \/ \E m \in Modes : Reinit(m)
    \/ \E key \in BOOLEAN, sizes \in [0..(mode.spatial - 1) -> {0} \cup Sizes], step \in TimeSteps :
           Encodes(key, sizes, step)

Spec == Init /\ [][Next]_streamVars

-----------------------------------------------------------------------------

\* What the receiver takes a picture for: its place in the group announced with
\* the last keyframe follows from its id.
Predicted ==
    LET n == Len(learned.gof)
    IN IF n = 0 THEN [tid |-> 0, up |-> picture.mode.codec = "svc"]
       ELSE LET g == learned.gof[((picture.pid - learned.pid) % n) + 1] IN [tid |-> g.tid, up |-> g.up]

\* A layer is whole: its bytes are all there, one packet after the other between
\* a start and an end.
Whole(sid) ==
    LET packets == picture.packets
    IN \E from, to \in DOMAIN packets :
        /\ {i \in DOMAIN packets : packets[i].sid = sid} = from..to
        /\ FoldLeft(+, 0, [k \in 1..(to - from + 1) |-> packets[from + k - 1].len]) = picture.sizes[sid]
        /\ \A i \in from..to : (packets[i].b <=> i = from) /\ (packets[i].e <=> i = to)

\* Packets end the picture and begin with the structure where they should, and
\* fit the network.
PacketsFit ==
    \A i \in DOMAIN picture.packets :
        LET p == picture.packets[i]
        IN /\ p.last <=> i = Len(picture.packets)
           /\ p.ss <=> i = 1 /\ picture.key /\ picture.mode.codec # "vp8"
           /\ p.len + (IF p.ss THEN StructureLen(picture.mode) ELSE 0)
                + DescriptorLen(picture.mode) <= MaxPayload

\* The numbers of a picture follow those of the one before, and stand for its layer.
NumbersFollow ==
    /\ time > 0 =>
        /\ picture.pid = (before.pid + 1) % PidModulus
        /\ picture.tl0 = IF picture.tid = 0 THEN (before.tl0 + 1) % Tl0Modulus ELSE before.tl0
    /\ [tid |-> picture.tid, up |-> picture.up] = Predicted

\* A receiver can read the stream across keyframes, new encoders and new layer
\* modes: the ids follow one another and the layers they stand for are those
\* announced, every layer comes whole and the picture ends once, a base picture
\* has a number of its own that the pictures above it share, and the time that
\* the decoder counts is the time of the stream.
StreamIsReadable ==
    picture.packets # <<>> =>
        /\ \A sid \in Layers(picture.sizes) : Whole(sid)
        /\ PacketsFit /\ NumbersFollow
        /\ decoder.ticks = time
=============================================================================
