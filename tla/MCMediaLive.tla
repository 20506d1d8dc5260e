---------------------------- MODULE MCMediaLive -----------------------------
(***************************************************************************)
(* The media modules that state liveness, each checked on its own: part    *)
(* says which of them runs, and the variables of the other stay as they    *)
(* began.                                                                  *)
(***************************************************************************)
EXTENDS AudioPacer

CONSTANTS Readers, Interval, Stall, MaxReady, None, MaxLosses, MaxFaults

VARIABLES
    part,
    reader, readGate, worker, ready, gap, broken, asked, waited, keyComing, dark, losses, faults

remoteVars == <<reader, readGate, worker, ready, gap, broken, asked, waited, keyComing, dark,
                losses, faults>>

Remote == INSTANCE RemoteVideo

SuiteInit ==
    /\ part \in {"pacer", "remote"}
    /\ Init /\ (part # "pacer" => bound)
    /\ Remote!Init /\ (part # "remote" => ~broken)

SuiteNext ==
    /\ UNCHANGED part
    /\ \/ part = "pacer" /\ Next /\ UNCHANGED remoteVars
       \/ part = "remote" /\ Remote!Next /\ UNCHANGED vars

Suite ==
    /\ SuiteInit /\ [][SuiteNext]_<<part, vars, remoteVars>>
    /\ WF_vars(part = "pacer" /\ PacerStep)
    /\ \A w \in Writers : WF_vars(part = "pacer" /\ WriterStep(w))
    /\ \A f \in Forwarders : /\ SF_vars(part = "pacer" /\ ForwardLocks(f))
                             /\ WF_vars(part = "pacer" /\ ForwardSends(f))
    /\ WF_remoteVars(part = "remote" /\ Remote!Tick)
    /\ WF_remoteVars(part = "remote" /\ Remote!Decode)
    /\ \A r \in Readers : /\ WF_remoteVars(part = "remote" /\ Remote!ReaderStep(r))
                          /\ SF_remoteVars(part = "remote" /\ Remote!Enter(r))
                          /\ SF_remoteVars(part = "remote" /\ Remote!ReadSamples(r))

\* The end of the written audio plays.
WrittenAudio == part = "pacer" => WrittenAudioPlays

\* A stream that decodes to nothing gets keyframe requests until it is seen.
StallEnds == Remote!StallEnds
=============================================================================
