----------------------------- MODULE PcmFrames -----------------------------
(***************************************************************************)
(* PCM frames in the hands of an application: a frame grows by appended    *)
(* blocks of other layouts and is converted, and in every state it can be  *)
(* cut into chunks, headed, tailed and companded.  Lengths are in frames,  *)
(* one sample for each channel.  Interpolation is exact here; the code     *)
(* does it in f64.                                                         *)
(***************************************************************************)
EXTENDS Integers, SequencesExt

CONSTANTS
    Rates, MaxChannels,
    Values,   \* samples of blocks
    MaxFrames \* bound: frames held

VARIABLES
    pcm,    \* PcmFrame: [rate, channels, samples]
    source  \* history: the frame before the last operation, and what it was

pcmVars == <<pcm, source>>

Frame(rate, channels, samples) == [rate |-> rate, channels |-> channels, samples |-> samples]
Frames(f) == Len(f.samples) \div f.channels

Blocks ==
    UNION {{Frame(r, c, s) : r \in Rates, s \in [1..(n * c) -> Values]} :
           n \in 0..2, c \in 1..MaxChannels}

TypeOK ==
    /\ pcm.rate \in Rates /\ pcm.channels \in 1..MaxChannels
    /\ \A i \in DOMAIN pcm.samples : pcm.samples[i] \in -32768..32767

Smaller(a, b) == IF a < b THEN a ELSE b
Larger(a, b) == IF a < b THEN b ELSE a

\* n / d to the nearest, halves away from zero, as f64::round does.
Rounded(n, d) ==
    IF n >= 0 THEN (2 * n + d) \div (2 * d) ELSE -((2 * (-n) + d) \div (2 * d))

-----------------------------------------------------------------------------
(* Resampler *)

\* One channel, with both ends in place.
ResamplePlane(plane, from, to) ==
    LET n == Len(plane)
        m == Rounded(n * to, from)
        \* Sample i lies at (i - 1)(n - 1) / (m - 1).
        at(i) == ((i - 1) * (n - 1)) \div (m - 1) + 1
        part(i) == ((i - 1) * (n - 1)) % (m - 1)
    IN IF from = to \/ n = 0 THEN plane
       ELSE [i \in 1..m |->
                IF m = 1 \/ n = 1 THEN plane[1]
                ELSE IF at(i) >= n THEN plane[n]
                ELSE Rounded(plane[at(i)] * (m - 1) + (plane[at(i) + 1] - plane[at(i)]) * part(i), m - 1)]

Plane(f, c) == [k \in 1..Frames(f) |-> f.samples[(k - 1) * f.channels + c]]

\* Mono goes to every channel, and many channels become one by their mean.
Interleaved(planes, channels) ==
    LET have == Len(planes)
        frame(k) == IF channels = 1 /\ have > 1
                    THEN <<Rounded(FoldLeft(LAMBDA sum, p : sum + p[k], 0, planes), have)>>
                    ELSE [c \in 1..channels |-> planes[Smaller(c, have)][k]]
    IN FlattenSeq([k \in DOMAIN planes[1] |-> frame(k)])

Resample(f, rate, channels) ==
    Frame(rate, channels,
          Interleaved([c \in 1..f.channels |-> ResamplePlane(Plane(f, c), f.rate, rate)], channels))

\* Mutant: a block of another layout is appended as it is.
MutConverted(f, other) == other
\* append: the block takes the layout of the frame.
Converted(f, other) ==
    IF other.rate = f.rate /\ other.channels = f.channels THEN other
    ELSE Resample(other, f.rate, f.channels)

Appended(f, other) ==
    IF other.samples = <<>> THEN f
    ELSE IF f.samples = <<>> THEN other
    ELSE [f EXCEPT !.samples = @ \o Converted(f, other).samples]

-----------------------------------------------------------------------------
(* Cuts *)

Slice(f, first, last) == SubSeq(f.samples, first * f.channels + 1, last * f.channels)
Zeros(n) == [i \in 1..n |-> 0]

\* chunks
Step(size, overlap) == Larger(size - overlap, 1)
Chunks(f, size, overlap, padLast) ==
    LET step == Step(size, overlap)
        chunk(k) == Slice(f, (k - 1) * step, Smaller((k - 1) * step + size, Frames(f)))
    IN [k \in 1..((Frames(f) + step - 1) \div step) |->
        IF padLast THEN chunk(k) \o Zeros(size * f.channels - Len(chunk(k))) ELSE chunk(k)]

Padded(f, samples, target, pad) ==
    LET missing == Zeros(Larger(target * f.channels - Len(samples), 0))
    IN CASE pad = "none" -> samples [] pad = "start" -> missing \o samples [] pad = "end" -> samples \o missing

Start(f, target, pad) == Padded(f, Slice(f, 0, Smaller(target, Frames(f))), target, pad)
Ending(f, target, pad) == Padded(f, Slice(f, Larger(Frames(f) - target, 0), Frames(f)), target, pad)

-----------------------------------------------------------------------------
(* Other representations; the inversion masks of G.711 are left out, a byte is
   its sign and its code *)

\* to_f32 divides by 32768 and from_f32 multiplies by 32767 and cuts off.
ThroughF32(s) == IF s >= 0 THEN (s * 32767) \div 32768 ELSE -(((-s) * 32767) \div 32768)

\* Little-endian bytes; from_bytes drops an odd one.
ToBytes(samples) == FlattenSeq([i \in DOMAIN samples |-> <<samples[i] % 256, (samples[i] % 65536) \div 256>>])
FromBytes(bytes) ==
    [i \in 1..(Len(bytes) \div 2) |->
        LET u == bytes[2 * i - 1] + 256 * bytes[2 * i] IN IF u < 32768 THEN u ELSE u - 65536]

\* mulaw_to_linear and alaw_to_linear, of a code of 0..127.
Expand(law, code) ==
    LET seg == code \div 16
        t == code % 16
    IN CASE law = "mulaw" -> (8 * t + 132) * 2 ^ seg - 132
         [] law = "alaw" -> IF seg > 0 THEN (2 * t + 33) * 2 ^ (seg + 2) ELSE (2 * t + 1) * 8

\* build_compress_table: codes change half-way between their values, in steps of
\* four.
Boundary(law, code) == (Expand(law, code) + Expand(law, code + 1) + 4) \div 8
Compress(law, s) ==
    LET index == (s + 32768) \div 4 - 8192
        j == IF index = -8192 THEN 8191 ELSE IF index < 0 THEN -index ELSE index
        above == {code \in 0..126 : j < Boundary(law, code)}
    IN [negative |-> index < 0,
        code |-> IF above = {} THEN 127 ELSE CHOOSE c \in above : \A d \in above : c <= d]
Decompress(law, byte) ==
    IF byte.negative THEN -Expand(law, byte.code) ELSE Expand(law, byte.code)

-----------------------------------------------------------------------------

Init == pcm \in Blocks /\ source = [op |-> "new", of |-> pcm, with |-> pcm]

Appends(other) ==
    /\ pcm' = Appended(pcm, other) /\ Frames(pcm') <= MaxFrames
    /\ source' = [op |-> "append", of |-> pcm, with |-> other]

Convert(rate, channels) ==
    /\ pcm.samples # <<>> /\ pcm' = Resample(pcm, rate, channels) /\ Frames(pcm') <= MaxFrames
    /\ source' = [op |-> "convert", of |-> pcm, with |-> pcm]

Next ==
    \/ \E other \in Blocks : Appends(other)
    \/ \E rate \in Rates, channels \in 1..MaxChannels : Convert(rate, channels)

Spec == Init /\ [][Next]_pcmVars

-----------------------------------------------------------------------------

\* Chunks that advance by their step hold every sample once, whatever the overlap.
NoChunkIsLost ==
    \A size \in 1..3, overlap \in 0..3 :
        LET step == Step(size, overlap)
            chunks == Chunks(pcm, size, overlap, FALSE)
            fresh(chunk) == SubSeq(chunk, 1, Smaller(step * pcm.channels, Len(chunk)))
            padded == Chunks(pcm, size, overlap, TRUE)
        IN /\ FlattenSeq([k \in DOMAIN chunks |-> fresh(chunks[k])]) = pcm.samples
           /\ \A k \in DOMAIN padded : Len(padded[k]) = size * pcm.channels

CutsMeet ==
    \A n \in 0..(Frames(pcm) + 1) :
        /\ Start(pcm, n, "none") \o Ending(pcm, Larger(Frames(pcm) - n, 0), "none") = pcm.samples
        /\ \A pad \in {"start", "end"} :
            /\ Len(Start(pcm, n, pad)) = n * pcm.channels
            /\ Len(Ending(pcm, n, pad)) = n * pcm.channels

\* The time that a frame lasts, in both rates, differs by half a frame at most.
SameTime(f, g) ==
    2 * (Frames(g) * f.rate - Frames(f) * g.rate) \in (-f.rate)..f.rate

\* A conversion adds no sample beyond those around it, and keeps both ends.
Converts(f, g) ==
    /\ SameTime(f, g)
    /\ f.channels = 1 /\ Frames(g) > 1 =>
        /\ g.samples[1] = f.samples[1] /\ Last(g.samples) = Last(f.samples)
        /\ \A i \in DOMAIN g.samples :
            /\ \E a \in DOMAIN f.samples : f.samples[a] <= g.samples[i]
            /\ \E b \in DOMAIN f.samples : g.samples[i] <= f.samples[b]

\* G.711 takes the nearest value that it has, and its values come back.
Companded(s) ==
    \A law \in {"mulaw", "alaw"} :
        LET back == Decompress(law, Compress(law, s))
            off(v) == IF v < s THEN s - v ELSE v - s
        IN /\ \A code \in 0..127 :
                off(back) <= off(Decompress(law, [negative |-> s < 0, code |-> code])) + 4
           /\ Decompress(law, Compress(law, back)) = back

\* No sample is lost, repeated or moved to another channel or time: not by
\* appending blocks of other layouts, by converting, cutting or padding, or by a
\* trip through bytes, floats or G.711 beyond their precision.
SamplesAreKept ==
    /\ source.op = "append" /\ source.of.samples # <<>> /\ source.with.samples # <<>> =>
        LET added == SubSeq(pcm.samples, Len(source.of.samples) + 1, Len(pcm.samples))
        IN /\ IsPrefix(source.of.samples, pcm.samples)
           /\ Converts(source.with, Frame(pcm.rate, pcm.channels, added))
    /\ source.op = "convert" => Converts(source.of, pcm)
    /\ NoChunkIsLost /\ CutsMeet
    /\ FromBytes(ToBytes(pcm.samples)) = pcm.samples
    /\ FromBytes(ToBytes(pcm.samples) \o <<7>>) = pcm.samples
    /\ \A i \in DOMAIN pcm.samples :
        LET s == pcm.samples[i]
        IN s - ThroughF32(s) \in -1..1 /\ (source.op = "new" => Companded(s))
=============================================================================
