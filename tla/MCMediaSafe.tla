---------------------------- MODULE MCMediaSafe -----------------------------
(***************************************************************************)
(* The safety of the media modules, each checked on its own: part says     *)
(* which of them runs, and the variables of the others stay as they began. *)
(***************************************************************************)
EXTENDS RtpTimeline, TLC

CONSTANTS
    Tasks, Encodings, KeyInterval, SlotLen, Steps, MaxFrames, MaxControls,
    MaxFilled, OpusLen, AudioSeqSpace, First, Readers, Packets, Silences, Faults,
    Writers, Forwarders, PacerFrame, Capacity, FilterDelay, Pace, MaxWrites, MaxFlushes, PacerControls,
    Interval, Stall, MaxReady, MaxLosses, MaxFaults,
    PidModulus, Tl0Modulus, TsModulus, MaxPayload, Sizes, MaxSpatial, TimeSteps, MaxTime,
    Dims, DefaultDims, MaxEdge, Bitrates, Caps, Factors, Limits, MaxSteps,
    Rates, MaxChannels, Values, MaxPcmFrames

VARIABLES
    part,
    task, gate, capturePts, paused, videoMuted, stopped, force, config, capped, encoder,
    resuming, stream, wanted, frames, controls,
    packetsSent, network, silences, faults, failed, firstRead, lastSeq, ready, readGate, reader,
    pcmFrames,
    pcm, filter, filterFlushes, flushes, pcmWritten, pcmPacing, pacingEnabled, held, audioStopped,
    outputPaused, bound, pacer, started, written, frame, resampler, guard, level, writer,
    forwarder, pushed, last, audioControls,
    videoReader, videoGate, worker, videoReady, gap, broken, asked, waited, keyComing, dark,
    losses, videoFaults,
    mode, vpx, packetizer, before, picture, learned, decoder, time,
    track, layers, count, svc, planned, announced, encoders, i420, onLayers, resumed, steps,
    block, source

encoderVars == <<task, gate, capturePts, paused, videoMuted, stopped, force, config, capped,
                 encoder, resuming, stream, wanted, frames, controls>>
audioVars == <<packetsSent, network, silences, faults, failed, firstRead, lastSeq, ready,
               readGate, reader, pcmFrames>>
pacerVars == <<pcm, filter, filterFlushes, flushes, pcmWritten, pcmPacing, pacingEnabled, held,
               audioStopped, outputPaused, bound, pacer, started, written, frame, resampler,
               guard, level, writer, forwarder, pushed, last, audioControls>>
videoVars == <<videoReader, videoGate, worker, videoReady, gap, broken, asked, waited, keyComing,
               dark, losses, videoFaults>>

pictureVars == <<mode, vpx, packetizer, before, picture, learned, decoder, time>>
layerVars == <<track, layers, count, svc, planned, announced, encoders, i420, onLayers, resumed,
               steps>>
pcmVars == <<block, source>>

Encoder == INSTANCE VideoEncoder WITH lastPts <- capturePts, muted <- videoMuted
Audio == INSTANCE RemoteAudio WITH
    SeqSpace <- AudioSeqSpace, FrameLen <- OpusLen, sent <- packetsSent, frames <- pcmFrames
Pacing == INSTANCE AudioPacer WITH
    FrameLen <- PacerFrame, stopped <- audioStopped, paused <- outputPaused,
    controls <- audioControls, MaxControls <- PacerControls
Video == INSTANCE RemoteVideo WITH
    reader <- videoReader, readGate <- videoGate, ready <- videoReady, faults <- videoFaults

Pictures == INSTANCE PictureStream WITH encoder <- vpx
Layers == INSTANCE VideoLayers WITH written <- i420, asked <- onLayers
Blocks == INSTANCE PcmFrames WITH pcm <- block, MaxFrames <- MaxPcmFrames

\* Sizes of options and of decoded frames, and samples: an ordinary one and one at
\* the edge of its range.
SomeDims == {<<14, 10>>, <<15, 1>>}
SmallDims == <<10, 6>>
SomeValues == {-32768, 4001}

SuiteInit ==
    /\ part \in {"timeline", "encoder", "audio", "pacer", "video", "pictures", "layers", "blocks"}
    /\ Init /\ (part # "timeline" => kind = "audio")
    /\ Encoder!Init /\ Audio!Init
    /\ Pacing!Init /\ (part # "pacer" => bound)
    /\ Video!Init /\ (part # "video" => ~broken)
    /\ Pictures!Init /\ (part # "pictures" => mode.codec = "vp8")
    /\ Layers!Init /\ (part # "layers" => track = CHOOSE t \in Layers!Tracks : TRUE)
    /\ Blocks!Init /\ (part # "blocks" => block = CHOOSE b \in Blocks!Blocks : TRUE)

SuiteNext ==
    /\ UNCHANGED part
    /\ \/ /\ part = "timeline" /\ Next
          /\ UNCHANGED <<encoderVars, audioVars, pacerVars, videoVars, pictureVars, layerVars, pcmVars>>
       \/ /\ part = "encoder" /\ Encoder!Next
          /\ UNCHANGED <<vars, audioVars, pacerVars, videoVars, pictureVars, layerVars, pcmVars>>
       \/ /\ part = "audio" /\ Audio!Next
          /\ UNCHANGED <<vars, encoderVars, pacerVars, videoVars, pictureVars, layerVars, pcmVars>>
       \/ /\ part = "pacer" /\ Pacing!Next
          /\ UNCHANGED <<vars, encoderVars, audioVars, videoVars, pictureVars, layerVars, pcmVars>>
       \/ /\ part = "video" /\ Video!Next
          /\ UNCHANGED <<vars, encoderVars, audioVars, pacerVars, pictureVars, layerVars, pcmVars>>
       \/ /\ part = "pictures" /\ Pictures!Next
          /\ UNCHANGED <<vars, encoderVars, audioVars, pacerVars, videoVars, layerVars, pcmVars>>
       \/ /\ part = "layers" /\ Layers!Next
          /\ UNCHANGED <<vars, encoderVars, audioVars, pacerVars, videoVars, pictureVars, pcmVars>>
       \/ /\ part = "blocks" /\ Blocks!Next
          /\ UNCHANGED <<vars, encoderVars, audioVars, pacerVars, videoVars, pictureVars, layerVars>>

Suite ==
    SuiteInit /\ [][SuiteNext]_<<part, vars, encoderVars, audioVars, pacerVars, videoVars, pictureVars,
                                 layerVars, pcmVars>>

\* The tasks that write pictures are interchangeable.
Symmetry == Permutations(Tasks)

\* Keyframes that are asked for come, and lost frames are repaired.
PictureRecovers == part = "encoder" => Encoder!TypeOK /\ Encoder!PictureRecovers

\* The frames that come out of a lossy network.
LossIsConcealed == part = "audio" => Audio!TypeOK /\ Audio!LossIsConcealed

\* What a flush drops, and what nothing else does.
LineStaysWhole ==
    [](part = "pacer" => Pacing!TypeOK /\ Pacing!LineStaysWhole) /\ Pacing!AudioIsKept

\* What a receiver makes of the descriptors.
StreamIsReadable == part = "pictures" => Pictures!TypeOK /\ Pictures!StreamIsReadable

\* The layers that go out are those that were asked for, in the sizes announced.
LayersFit == part = "layers" => Layers!TypeOK /\ Layers!LayersFit

\* Samples outlive appends, conversions and cuts.
SamplesAreKept == part = "blocks" => Blocks!TypeOK /\ Blocks!SamplesAreKept
=============================================================================
