---------------------------- MODULE VideoLayers ----------------------------
(***************************************************************************)
(* The layers of a local video track: what configure_for_publish plans     *)
(* and announces for a publish option, what the SFU turns on, off or down, *)
(* and what a write then encodes.  The frames written are decoded frames   *)
(* of a remote track, possibly made smaller, as a bridge does.             *)
(***************************************************************************)
EXTENDS Integers, SequencesExt

CONSTANTS
    Dims,     \* sizes <<width, height>> of options and of decoded frames
    DefaultDims, \* of an option that has none: 1280 by 720
    MaxEdge,  \* MAX_LOCAL_VIDEO_EDGE
    Bitrates, \* of options, in bits per second
    Caps,     \* bitrates of settings
    Factors,  \* scales of settings; below 1 is ignored
    Limits,   \* numbers of layers that an option or a track allows, of 1..3
    MaxSteps  \* bound: configurations and settings

VARIABLES
    track,     \* [codec, managed, cap]; cap: the local maximum of layers of a kind
    layers,    \* the encodings, low to high: [paused, kbps, scale, key]
    count,     \* active_encoding_count
    svc,       \* spatial and temporal layers, and their maxima
    planned,   \* planned_width and planned_height; <<0, 0>> before
    announced, \* the layers the SFU was told of
    encoders,  \* what each encoder was made for; <<>> before
    written,   \* outcome of the last write: [result, sizes, keys]
    asked,     \* history: the layers that the plan or the last settings turn on
    resumed,   \* history: layers turned on after a pause that sent nothing yet
    steps      \* bound

layerVars == <<track, layers, count, svc, planned, announced, encoders, written, asked, resumed, steps>>

Larger(a, b) == IF a < b THEN b ELSE a
Smaller(a, b) == IF a < b THEN a ELSE b
Even(n) == 2 * (Larger(n, 2) \div 2)

\* n / d rounded to the nearest, as f32::round and f64::round do.
Rounded(n, d) == (2 * n + d) \div (2 * d)

\* Bits to kilobits, rounded up.
Kbps(bits) == (bits + 999) \div 1000

Svc == track.codec = "vp9" /\ track.managed
LayerIds == IF track.managed /\ track.codec = "vp8" THEN 1..3 ELSE {1}

Tracks == [codec : {"vp8", "vp9"}, managed : BOOLEAN, cap : Limits]

\* An option allows as many spatial as temporal layers.
Options ==
    UNION {[type : {"camera", "screen"}, dims : Dims \cup {<<>>}, bitrate : Bitrates,
            spatial : {n}, temporal : {n}, single : BOOLEAN] : n \in {0} \cup Limits}

TypeOK ==
    /\ track \in Tracks /\ count \in 1..3 /\ steps \in 0..MaxSteps
    /\ layers \in [LayerIds -> [paused : BOOLEAN, kbps : Nat, scale : Nat, key : BOOLEAN]]
    /\ svc \in [spatial : 1..3, temporal : 1..3, maxSpatial : 1..3, maxTemporal : 1..3]

Init ==
    /\ track \in Tracks
    /\ layers = [i \in LayerIds |-> [paused |-> FALSE, kbps |-> 1200, scale |-> 1, key |-> TRUE]]
    /\ count = 1 /\ svc = [spatial |-> 1, temporal |-> 1, maxSpatial |-> 1, maxTemporal |-> 1]
    /\ planned = <<0, 0>> /\ announced = <<>> /\ encoders = [i \in LayerIds |-> <<>>]
    /\ written = [result |-> "none"]
    /\ asked = {1} /\ resumed = {} /\ steps = 0

-----------------------------------------------------------------------------
(* The plan *)

Full(option) == IF option.dims = <<>> THEN DefaultDims ELSE option.dims

\* Zero leaves the number to the client.
Allowed(n) == IF n = 0 THEN 3 ELSE n

SingleLayer(option) ==
    <<[dims |-> Full(option), bitrate |-> option.bitrate, scale |-> 1, active |-> TRUE]>>

\* Every layer has half the sides and half the bitrate of the one above it.
SimulcastLayers(option) ==
    LET n == Smaller(track.cap, Allowed(option.spatial))
    IN [i \in 1..n |->
        LET scale == 2 ^ (n - i)
            share == option.bitrate \div scale
        IN [dims |-> <<Even(Full(option)[1] \div scale), Even(Full(option)[2] \div scale)>>,
            bitrate |-> IF share > 0 THEN share
                        ELSE IF scale = 1 THEN 1250000 ELSE IF scale = 2 THEN 750000 ELSE 300000,
            scale |-> scale, active |-> ~option.single \/ i = n]]

Plan(option) == IF track.managed THEN SimulcastLayers(option) ELSE SingleLayer(option)

\* VP9 is layered for the camera, VP8 for the screen.
Supported(option) ==
    track.managed => <<track.codec, option.type>> \in {<<"vp8", "screen">>, <<"vp9", "camera">>}

\* Mutant: a layer that is turned on again goes on where it stopped.
MutTurned(layer, on) == [layer EXCEPT !.paused = ~on]
\* A layer that is turned on again begins with a keyframe.
Turned(layer, on) == [layer EXCEPT !.paused = ~on, !.key = @ \/ (on /\ layer.paused)]

Planned(layer, plan) ==
    Turned([layer EXCEPT !.kbps = IF plan.bitrate > 0 THEN Kbps(plan.bitrate) ELSE @,
                         !.scale = plan.scale], plan.active)

\* History: the layers of on are to be sent.
Asks(on) ==
    /\ asked' = on
    /\ resumed' = {i \in on : i \in resumed \/ layers[i].paused}

Configure(option) ==
    /\ steps < MaxSteps /\ steps' = steps + 1 /\ Supported(option)
    /\ LET plan == Plan(option)
           n == Len(plan)
           \* SVC sends all its layers on one encoding.
           of(i) == IF Svc THEN plan[n] ELSE plan[i]
           on == {i \in LayerIds : (Svc \/ i <= n) /\ of(i).active}
       IN /\ count' = IF Svc THEN 1 ELSE n
          /\ planned' = IF track.managed THEN plan[n].dims ELSE planned
          /\ announced' = [i \in 1..n |-> plan[i].dims]
          /\ svc' = IF Svc
                    THEN LET t == Smaller(track.cap, Allowed(option.temporal))
                         IN [spatial |-> IF option.single THEN 1 ELSE n, temporal |-> t,
                             maxSpatial |-> n, maxTemporal |-> t]
                    ELSE svc
          /\ layers' = [i \in LayerIds |->
                IF Svc \/ i <= n THEN Planned(layers[i], of(i)) ELSE Turned(layers[i], FALSE)]
          /\ Asks(on)
    /\ UNCHANGED <<track, encoders, written>>

-----------------------------------------------------------------------------
(* The settings of the SFU *)

\* What the SFU sets for the layers it turns on, here the same for each; a mode
\* that does not parse is left out.
Settings ==
    [bitrate : Caps, scale : Factors,
     mode : IF Svc THEN {<<>>, <<1, 1>>, <<3, 2>>} ELSE {<<>>}]

Set(layer, setting) ==
    Turned([layer EXCEPT !.kbps = IF setting.bitrate > 0 THEN Kbps(setting.bitrate) ELSE @,
                         !.scale = IF setting.scale >= 1 THEN setting.scale ELSE @], TRUE)

\* apply_layer_settings: a layer that is not turned on is paused.  A track with one
\* encoding is on with the first active setting.
TurnedOn(on) == IF count > 1 THEN on \cap 1..count ELSE IF on = {} THEN {} ELSE {1}

\* apply_svc_layer_settings: the layers stay within what was announced, and new
\* layers need no pause to begin with a keyframe.
Mode(setting) ==
    [svc EXCEPT !.spatial = Smaller(setting.mode[1], svc.maxSpatial),
                !.temporal = Smaller(setting.mode[2], svc.maxTemporal)]

SfuAsks(on, setting) ==
    /\ steps < MaxSteps /\ steps' = steps + 1
    /\ svc' = IF on # {} /\ setting.mode # <<>> THEN Mode(setting) ELSE svc
    /\ layers' = [i \in LayerIds |->
           IF i \in TurnedOn(on) THEN [Set(layers[i], setting) EXCEPT !.key = @ \/ svc' # svc]
           ELSE IF i <= count THEN Turned(layers[i], FALSE) ELSE layers[i]]
    /\ Asks(TurnedOn(on))
    /\ UNCHANGED <<track, count, planned, announced, encoders, written>>

-----------------------------------------------------------------------------
(* Frames *)

\* Chroma planes have half the sides, rounded up.
Chroma(d) == <<(d[1] + 1) \div 2, (d[2] + 1) \div 2>>

\* downscale
Downscaled(d, to) == <<Even(Smaller(to[1], d[1])), Even(Smaller(to[2], d[2]))>>

\* downscale_to_fit
Fitted(d, edge) ==
    LET longest == Larger(d[1], d[2])
    IN IF edge = 0 \/ longest <= edge THEN d
       ELSE Downscaled(d, <<Rounded(d[1] * edge, longest), Rounded(d[2] * edge, longest)>>)

\* What a bridge can make of a decoded frame before it writes it.
Bridged(d) ==
    {d} \cup {Downscaled(d, to) : to \in Dims} \cup {Fitted(d, edge) : edge \in UNION {{to[1], to[2]} : to \in Dims}}

\* box_downscale: the pixels of n that pixel k of m averages.
Box(k, n, m) ==
    LET first == (k * n) \div m
    IN first..(Larger(Smaller(((k + 1) * n + m - 1) \div m, n), first + 1) - 1)

\* scale_plane: the pixel of n that becomes pixel k of m.
Nearest(k, n, m) == (k * n) \div m

\* scaled_even
ScaledEven(n, scale) == Even(Rounded(n, scale))
LayerDims(i, frame) ==
    LET scale == Larger(layers[i].scale, 1)
    IN <<ScaledEven(frame[1], scale), ScaledEven(frame[2], scale)>>

Sending == {i \in 1..count : ~layers[i].paused}

\* write_i420_at, in the order of its checks; the limit of pixels is left out.
Refused(frame) ==
    \/ frame[1] % 2 = 1 \/ frame[2] % 2 = 1
    \/ track.managed /\ planned[1] > 0 /\ planned # frame
    \/ frame[1] > MaxEdge \/ frame[2] > MaxEdge

Config(i, frame) ==
    [dims |-> LayerDims(i, frame), kbps |-> layers[i].kbps,
     mode |-> IF Svc THEN <<svc.spatial, svc.temporal>> ELSE <<>>]

\* A new encoder begins with a keyframe.
Keyed(i, frame) == layers[i].key \/ encoders[i] # Config(i, frame)

Sent(i, frame) == [config |-> Config(i, frame), scale |-> layers[i].scale, key |-> Keyed(i, frame)]

Write(decoded, frame) ==
    /\ IF Sending = {} THEN /\ written' = [result |-> "paused"]
                            /\ UNCHANGED <<layers, encoders, resumed>>
       ELSE IF Refused(frame) THEN /\ written' = [result |-> "refused"]
                            /\ UNCHANGED <<layers, encoders, resumed>>
       ELSE /\ written' = [result |-> "sent", layers |-> [i \in Sending |-> Sent(i, frame)], due |-> resumed,
                           asked |-> asked, decoded |-> decoded, from |-> frame, announced |-> announced]
            /\ encoders' = [i \in LayerIds |-> IF i \in Sending THEN Config(i, frame) ELSE encoders[i]]
            /\ layers' = [i \in LayerIds |-> IF i \in Sending THEN [layers[i] EXCEPT !.key = FALSE] ELSE layers[i]]
            /\ resumed' = resumed \ Sending
    /\ UNCHANGED <<track, count, svc, planned, announced, asked, steps>>

\* The bitrate of an SVC encoder, by spatial layer: one to two to four, and the
\* highest layer takes what is left.
SpatialShares(kbps, n) ==
    LET share(i) == (kbps * 2 ^ (i - 1)) \div (2 ^ n - 1)
        rest == kbps - (IF n > 1 THEN share(1) ELSE 0) - (IF n > 2 THEN share(2) ELSE 0)
    IN [i \in 1..n |-> IF i = n THEN Larger(rest, 1) ELSE share(i)]

\* Cumulative, by temporal layer.
TemporalShares(share, n) ==
    [t \in 1..n |-> (share * <<<<100>>, <<67, 100>>, <<60, 80, 100>>>>[n][t]) \div 100]

Next ==
    \/ \E option \in Options : Configure(option)
    \/ \E on \in SUBSET DOMAIN announced, setting \in Settings : SfuAsks(on, setting)
    \/ \E decoded \in Dims : \E frame \in Bridged(decoded) : Write(decoded, frame)

Spec == Init /\ [][Next]_layerVars

-----------------------------------------------------------------------------

\* Every pixel of a row of n is averaged into a row of m, and none beside it.
Covers(n, m) ==
    /\ \A k \in 0..(m - 1) : Box(k, n, m) # {}
    /\ UNION {Box(k, n, m) : k \in 0..(m - 1)} = 0..(n - 1)

Apart(m, n) == IF m < n THEN n - m ELSE m - n

\* A frame fits the encoder and what the SFU was told, after any settings: the
\* layers that go out are those asked for, each with a keyframe first when it was
\* off; a layer has even sides, at most those of the frame, and within a pixel
\* pair of those announced at its announced scale; SVC has no more layers than
\* were announced, and they share its bitrate.
LayersFit ==
    /\ written.result = "sent" =>
        /\ DOMAIN written.layers = written.asked
        /\ \A i \in DOMAIN written.layers :
            LET sent == written.layers[i]
                n == Len(written.announced)
            IN /\ i \in written.due => sent.key
               /\ \A side \in 1..2 :
                    /\ sent.config.dims[side] \in {2 * k : k \in 1..(written.from[side] \div 2)}
                    /\ \A x \in 0..(sent.config.dims[side] - 1) :
                          Nearest(x, written.from[side], sent.config.dims[side]) < written.from[side]
                    /\ i \in DOMAIN written.announced /\ track.managed /\ ~Svc /\ sent.scale = 2 ^ (n - i)
                        => Apart(sent.config.dims[side], written.announced[i][side]) <= 2
               /\ Svc => /\ sent.config.mode[1] <= Larger(n, 1)
                         /\ LET shares == SpatialShares(sent.config.kbps, sent.config.mode[1])
                            IN /\ FoldLeft(+, 0, shares) = sent.config.kbps
                               /\ \A k \in DOMAIN shares :
                                     TemporalShares(shares[k], sent.config.mode[2])[sent.config.mode[2]] = shares[k]
        /\ written.from # written.decoded => \A side \in 1..2 :
            /\ Covers(written.decoded[side], written.from[side])
            /\ Covers(Chroma(written.decoded)[side], Chroma(written.from)[side])
=============================================================================
