---------------------------- MODULE MCConnection ----------------------------
(***************************************************************************)
(* The modules about one connection of a call, each checked on its own:    *)
(* part says which of them runs, and the variables of the others stay as   *)
(* they began.                                                             *)
(***************************************************************************)
EXTENDS Publication, CoordinatorSocket, PeerNegotiation

CONSTANTS
    Sources, MaxBuffer, Overflow, MaxRecords, MaxReportFaults,
    MaxLinks, MaxFrames, ResponseTimeout,
    Remotes, MaxReports, MaxResponses

VARIABLES
    part,
    buffer, traced, reporting, sendLock, statsStopped, life, cancelled, gone, lost, reportFaults,
    opener, waiting, wireOf, sent, reader, pinger, sender, wsHealthy, shown,
    truth, reports, wire, handling, stateLoop, responses, resumed, local, before, known, roster, misreported

tracing == <<buffer, traced, reporting, sendLock, statsStopped, life, cancelled, gone, lost, reportFaults>>
sfuLinking == <<opener, waiting, wireOf, sent, reader, pinger, sender, wsHealthy, shown>>
showing == <<truth, reports, wire, handling, stateLoop, responses, resumed, local, before, known,
             roster, misreported>>

Stats == INSTANCE StatsReporter WITH stopped <- statsStopped, MaxFaults <- MaxReportFaults
Sfu == INSTANCE SfuSocket
\* The local sessions are numbers, the remote ones are not.
State == INSTANCE CallState WITH loop <- stateLoop, Locals <- [i \in 1..(MaxResponses + 1) |-> i]

SuiteInit ==
    /\ part \in {"publication", "stats", "coordinator", "peer", "sfu", "state"}
    /\ Init /\ Stats!Init /\ SocketInit /\ PeerInit /\ Sfu!Init /\ State!Init

SuiteNext ==
    /\ UNCHANGED part
    /\ \/ part = "publication" /\ Next /\ UNCHANGED <<tracing, coordinatorVars, peerVars, sfuLinking, showing>>
       \/ part = "stats" /\ Stats!Next /\ UNCHANGED <<vars, coordinatorVars, peerVars, sfuLinking, showing>>
       \/ part = "coordinator" /\ SocketNext /\ UNCHANGED <<vars, tracing, peerVars, sfuLinking, showing>>
       \/ part = "peer" /\ PeerNext /\ UNCHANGED <<vars, tracing, coordinatorVars, sfuLinking, showing>>
       \/ part = "sfu" /\ Sfu!Next /\ UNCHANGED <<vars, tracing, coordinatorVars, peerVars, showing>>
       \/ part = "state" /\ State!Next /\ UNCHANGED <<vars, tracing, coordinatorVars, peerVars, sfuLinking>>

Suite == SuiteInit /\ [][SuiteNext]_<<part, vars, tracing, coordinatorVars, peerVars, sfuLinking, showing>>

\* Calls and tracks are interchangeable.
Symmetry == Permutations(Callers) \cup Permutations(Tracks \ Simulcast)

\* A sender that was kept is used again; with the types of the variables.
SendersAreReused == TypeOK /\ SocketTypeOK /\ PeerTypeOK /\ KeptSenderIsReused

\* Records reach the SFU in order, once, and with a mark for those that are missing,
\* but for those of one report that was dropped.
TraceIsWhole == part = "stats" => Stats!TypeOK /\ Stats!NoSilentGap /\ Stats!LostInOnePlace

\* A socket that counts as healthy is read, pinged and written to.
HealthIsTrue == part = "sfu" => Sfu!TypeOK /\ Sfu!HealthIsTrue

\* The events tell the application who is in the call.
RosterFollows == part = "state" => State!TypeOK /\ State!RosterFollows
=============================================================================
