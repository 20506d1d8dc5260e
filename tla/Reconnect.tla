----------------------------- MODULE Reconnect ------------------------------
(***************************************************************************)
(* One reconnect loop of a joined call (trigger_reconnect, run_reconnect)  *)
(* with the connections it opens, replaces and retains, and the tasks of   *)
(* each connection that notice a failure and ask for a reconnect: the SFU  *)
(* event loop, the ping loop and the peer connection callbacks.            *)
(*                                                                         *)
(* The module is about one generation: it begins when the first connection *)
(* is in the slot and ends with Left, after which every task of the        *)
(* generation stops.  Who may change the generation is RtcLifecycle's      *)
(* subject.  A step is what runs between two awaits.  Time is abstracted   *)
(* to two events: the fast deadline passes, the disconnection timeout      *)
(* passes.                                                                 *)
(***************************************************************************)
EXTENDS Naturals, FiniteSets

CONSTANTS
    Conns,          \* names of Connection values, reused once torn down
    NoConn,         \* an empty Option of a connection
    Coordinator,    \* the tasks of the coordinator connection
    Timeouts,       \* what set_disconnection_timeout was given: TRUE for a limit, FALSE for zero
    RateLimit,      \* REJOIN_RATE_LIMIT: registrations per window
    IceLimit,       \* MAX_ICE_FAILURES_WITHOUT_CONNECT
    NegotiationLimit, \* MAX_CONSECUTIVE_NEGOTIATION_FAILURES
    MaxFaults       \* bound: failures of the network and requests of the SFU

ASSUME NoConnAssumption == NoConn \notin Conns
ASSUME CoordinatorAssumption == Coordinator \notin Conns \X {"loop", "ping", "pc"}
ASSUME LimitsAssumption ==
    /\ Timeouts \in SUBSET BOOLEAN \ {{}}
    /\ RateLimit \in Nat \ {0}
    /\ IceLimit \in Nat \ {0}
    /\ NegotiationLimit \in Nat \ {0}
    /\ MaxFaults \in Nat

VARIABLES
    state,       \* Lifecycle.state
    current,     \* the connection in RtcCore.connection
    conn,        \* the state of each connection
    ask,         \* each task that may call trigger_reconnect
    run,         \* the task of run_reconnect; it holds the claim unless idle
    waiter,      \* migration_waiter holds the sender of this generation
    fired,       \* the receiver of the running migration is complete
    registered,  \* registrations in the window of the rejoin rate limiter
    iceFailures, \* FailureLimits.ice_failures_without_connect
    negotiationFailures, \* FailureLimits.consecutive_negotiation_failures
    faults       \* counted for the bound MaxFaults only

vars == <<state, current, conn, ask, run, waiter, fired, registered,
          iceFailures, negotiationFailures, faults>>

limitVars == <<registered, iceFailures, negotiationFailures>>

Strategy == {"Fast", "Rejoin", "Migrate"}

Loop(c) == <<c, "loop">>
Ping(c) == <<c, "ping">>
Pc(c) == <<c, "pc">>
Askers == Conns \X {"loop", "ping", "pc"} \cup {Coordinator}

\* socket: the signal socket.  pc: the worse of the two peer connections.
ConnRecord == [socket : {"open", "closed"}, healthy : BOOLEAN, enabled : BOOLEAN,
               pc : {"new", "connected", "failed", "closed"}]

\* An asker runs, decides on a strategy (health), is inside trigger_reconnect
\* (state, claim), has returned (ended) or was aborted (off).
AskRecord == [at : {"off", "run", "health", "state", "claim", "ended"},
              strategy : Strategy, ice : BOOLEAN, ends : BOOLEAN]

RunPlaces == {"idle", "start", "top", "fast", "resume", "restoreFast",
              "rejoin", "install", "teardown", "restore",
              "migrate", "waiter", "details", "handshake", "retain", "migrated",
              "cleanup", "done", "failed", "sleep", "refresh", "release"}

RunRecord == [at : RunPlaces, strategy : Strategy, migrating : BOOLEAN,
              attempt : 0..3, late : BOOLEAN, timed : BOOLEAN, expired : BOOLEAN, ice : BOOLEAN,
              error : {"none", "plain", "negotiation", "unrecoverable", "rejected"},
              fresh : Conns \cup {NoConn}, old : Conns \cup {NoConn}]

TypeOK ==
    /\ state \in {"Joining", "Joined", "Reconnecting", "Migrating",
                  "ReconnectingFailed", "Left"}
    /\ current \in Conns
    /\ conn \in [Conns -> ConnRecord]
    /\ ask \in [Askers -> AskRecord]
    /\ run \in RunRecord
    /\ waiter \in BOOLEAN
    /\ fired \in BOOLEAN
    /\ registered \in 0..RateLimit
    /\ iceFailures \in 0..IceLimit
    /\ negotiationFailures \in 0..NegotiationLimit
    /\ faults \in 0..MaxFaults

Closed == [socket |-> "closed", healthy |-> FALSE, enabled |-> FALSE, pc |-> "closed"]
Opened == [socket |-> "open", healthy |-> TRUE, enabled |-> TRUE, pc |-> "new"]

Asking(at, s) == [at |-> at, strategy |-> s, ice |-> FALSE, ends |-> FALSE]
Quiet == Asking("run", "Fast")
Off == Asking("off", "Fast")

Idle == [at |-> "idle", strategy |-> "Fast", migrating |-> FALSE, attempt |-> 0,
         late |-> FALSE, timed |-> FALSE, expired |-> FALSE, ice |-> FALSE, error |-> "none",
         fresh |-> NoConn, old |-> NoConn]

\* The handshake of the join is done and its connection is in the slot; the
\* join loop is about to set Joined.
Init ==
    /\ state = "Joining"
    /\ current \in Conns
    /\ conn = [c \in Conns |-> IF c = current THEN Opened ELSE Closed]
    /\ ask = [a \in Askers |-> IF a \in {Loop(c) : c \in Conns \ {current}}
                                      \cup {Ping(c) : c \in Conns \ {current}}
                               THEN Off ELSE Quiet]
    /\ run = Idle
    /\ waiter = FALSE /\ fired = FALSE
    /\ registered = 0 /\ iceFailures = 0 /\ negotiationFailures = 0
    /\ faults = 0

-----------------------------------------------------------------------------
(* Helpers. *)

Open(c) == conn[c].pc # "closed"

\* is_pc_healthy of both peer connections.
Healthy(c) == conn[c].pc \in {"new", "connected"}

\* The task is inside trigger_reconnect, which never awaits: an abort waits for it.
Inside(a) == ask[a].at \in {"state", "claim"}

\* A name that stands for no connection: also its callbacks have returned.
Unused(c) == ~Open(c) /\ ask[Pc(c)].at = "run"

Fault == faults < MaxFaults /\ faults' = faults + 1

\* leave(), whose steps RtcLifecycle has: it closes the connection in the slot
\* and ends every task of the generation, and the connections they hold.
Leave ==
    /\ state' = "Left"
    /\ conn' = [c \in Conns |-> Closed]
    /\ ask' = [a \in Askers |-> Off]
    /\ run' = Idle
    /\ waiter' = FALSE /\ fired' = FALSE
    /\ UNCHANGED <<current, limitVars, faults>>

Go(at) == run' = [run EXCEPT !.at = at]

\* The tasks of connection c are aborted and its peer connections closed.
TornDown(c) == [conn EXCEPT ![c] = Closed]
Aborted(c) == [ask EXCEPT ![Loop(c)] = Off, ![Ping(c)] = Off]
CanAbort(c) == ~Inside(Loop(c)) /\ ~Inside(Ping(c))

-----------------------------------------------------------------------------
(* The first join commits; the failures that the tasks notice. *)

JoinCommitted ==
    /\ state = "Joining"
    /\ state' = "Joined"
    /\ UNCHANGED <<current, conn, ask, run, waiter, fired, limitVars, faults>>

SocketCloses(c) ==
    /\ Open(c) /\ conn[c].socket = "open"
    /\ Fault
    /\ conn' = [conn EXCEPT ![c].socket = "closed"]
    /\ UNCHANGED <<state, current, ask, run, waiter, fired, limitVars>>

\* A failed task of connection c asks for a reconnect only while reconnect_enabled.
AsksIfEnabled(a, c, at) ==
    ask' = [ask EXCEPT ![a] = [at |-> IF conn[c].enabled THEN at ELSE "ended",
                               strategy |-> "Rejoin", ice |-> FALSE, ends |-> TRUE]]

\* event_loop: the socket was closed; the strategy depends on the peer connections.
LoopSeesClose(c) ==
    /\ ask[Loop(c)].at = "run"
    /\ conn[c].socket = "closed"
    /\ conn' = [conn EXCEPT ![c].healthy = FALSE]
    /\ AsksIfEnabled(Loop(c), c, "health")
    /\ UNCHANGED <<state, current, run, waiter, fired, limitVars, faults>>

\* event_loop: a receive error, or handle_event failed on an open socket.
LoopFails(c) ==
    /\ ask[Loop(c)].at = "run"
    /\ Fault
    /\ \E s \in {conn[c].socket, "closed"} :
           conn' = [conn EXCEPT ![c].healthy = FALSE, ![c].socket = s]
    /\ AsksIfEnabled(Loop(c), c, "state")
    /\ UNCHANGED <<state, current, run, waiter, fired, limitVars>>

\* GoAway, or an Error event with a strategy; the event loop goes on.
SfuAsks(c) ==
    /\ ask[Loop(c)].at = "run"
    /\ Fault
    /\ \E s \in Strategy : ask' = [ask EXCEPT ![Loop(c)] = Asking("state", s)]
    /\ UNCHANGED <<state, current, conn, run, waiter, fired, limitVars>>

\* ping_loop notices a closed socket at its next tick.
PingFails(c) ==
    /\ ask[Ping(c)].at = "run"
    /\ conn[c].socket = "closed"
    /\ conn' = [conn EXCEPT ![c].healthy = FALSE]
    /\ AsksIfEnabled(Ping(c), c, "state")
    /\ UNCHANGED <<state, current, run, waiter, fired, limitVars, faults>>

PcConnects(c) ==
    /\ conn[c].pc = "new"
    /\ conn' = [conn EXCEPT ![c].pc = "connected"]
    /\ iceFailures' = 0
    /\ UNCHANGED <<state, current, ask, run, waiter, fired, registered,
                   negotiationFailures, faults>>

\* A peer connection failed; one that never connected counts against the network.
PcFails(c) ==
    /\ Healthy(c) /\ ask[Pc(c)].at = "run"
    /\ Fault
    /\ conn' = [conn EXCEPT ![c].pc = "failed"]
    /\ ask' = IF conn[c].enabled
              THEN [ask EXCEPT ![Pc(c)] = [at |-> "health", strategy |-> "Fast",
                                           ice |-> conn[c].pc = "new", ends |-> FALSE]]
              ELSE ask
    /\ UNCHANGED <<state, current, run, waiter, fired, limitVars>>

\* The coordinator event stream ended or its health check failed.
CoordinatorLost ==
    /\ ask[Coordinator].at = "run"
    /\ Fault
    /\ ask' = [ask EXCEPT ![Coordinator] = [at |-> "state", strategy |-> "Rejoin",
                                            ice |-> FALSE, ends |-> TRUE]]
    /\ UNCHANGED <<state, current, conn, run, waiter, fired, limitVars>>

\* An Error event with the strategy DISCONNECT.
SfuDisconnects(c) ==
    /\ ask[Loop(c)].at = "run"
    /\ faults < MaxFaults
    /\ Leave

-----------------------------------------------------------------------------
(* trigger_reconnect. *)

\* pc_health and strategy_after_signal_close: the health of the connection
\* that is in the slot now, whichever connection the asker belongs to.
HealthRead(a) ==
    /\ ask[a].at = "health"
    /\ ask' = [ask EXCEPT ![a].at = "state",
                          ![a].strategy = IF Healthy(current) THEN "Fast" ELSE "Rejoin"]
    /\ UNCHANGED <<state, current, conn, run, waiter, fired, limitVars, faults>>

\* trigger_reconnect returns: the task ends or goes on.
Answered(a) == [ask EXCEPT ![a] = IF ask[a].ends THEN [Quiet EXCEPT !.at = "ended"] ELSE Quiet]

StateRead(a) ==
    /\ ask[a].at = "state"
    /\ ask' = IF state \in {"Joining", "Reconnecting", "Migrating", "ReconnectingFailed"}
              THEN Answered(a)
              ELSE [ask EXCEPT ![a].at = "claim"]
    /\ UNCHANGED <<state, current, conn, run, waiter, fired, limitVars, faults>>

\* claim_reconnect fails while a run holds the claim.
Claimed(a) ==
    /\ ask[a].at = "claim"
    /\ run' = IF run.at = "idle"
              THEN [Idle EXCEPT !.at = "start", !.strategy = ask[a].strategy,
                                !.migrating = ask[a].strategy = "Migrate", !.ice = ask[a].ice]
              ELSE run
    /\ ask' = Answered(a)
    /\ UNCHANGED <<state, current, conn, waiter, fired, limitVars, faults>>

-----------------------------------------------------------------------------
(* run_reconnect: the start, the top of the loop, the end of an attempt. *)

ReconnectState(migrating) == IF migrating THEN "Migrating" ELSE "Reconnecting"

\* record_ice_never_connected.
TooManyIceFailures == iceFailures + 1 >= IceLimit

\* The run starts and reads its timeout; the last connection allowed without
\* ICE ends the call.
RunStarts ==
    /\ run.at = "start"
    /\ IF run.ice /\ TooManyIceFailures
       THEN Leave
       ELSE /\ state' = ReconnectState(run.migrating)
            /\ iceFailures' = IF run.ice THEN iceFailures + 1 ELSE iceFailures
            /\ \E t \in Timeouts : run' = [run EXCEPT !.at = "top", !.timed = t]
            /\ UNCHANGED <<current, conn, ask, waiter, fired, registered,
                           negotiationFailures, faults>>

FastDeadlinePasses ==
    /\ run.at # "idle" /\ ~run.late
    /\ run' = [run EXCEPT !.late = TRUE]
    /\ UNCHANGED <<state, current, conn, ask, waiter, fired, limitVars, faults>>

TimeoutPasses ==
    /\ run.timed /\ ~run.expired
    /\ run' = [run EXCEPT !.expired = TRUE]
    /\ UNCHANGED <<state, current, conn, ask, waiter, fired, limitVars, faults>>

RateLimited(s) == s \in {"Rejoin", "Migrate"}

FirstStep == [Fast |-> "fast", Rejoin |-> "rejoin", Migrate |-> "migrate"]

\* An attempt begins, registered if it is a REJOIN or a MIGRATE.
Attempts ==
    /\ registered' = IF RateLimited(run.strategy) THEN registered + 1 ELSE registered
    /\ Go(FirstStep[run.strategy])
    /\ UNCHANGED <<state, current, conn, ask, waiter, fired, iceFailures,
                   negotiationFailures, faults>>

TimedOut ==
    /\ Go("refresh")
    /\ UNCHANGED <<state, current, conn, ask, waiter, fired, limitVars, faults>>

\* Mutant: the disconnection timeout is looked at only before a FAST.
MutLoopTopFastOnly ==
    /\ run.at = "top"
    /\ IF run.expired /\ run.strategy = "Fast" THEN TimedOut
       ELSE IF RateLimited(run.strategy) /\ registered = RateLimit THEN Leave ELSE Attempts

\* The disconnection timeout goes first; a full window ends the call.
LoopTop ==
    /\ run.at = "top"
    /\ IF run.expired THEN TimedOut
       ELSE IF RateLimited(run.strategy) /\ registered = RateLimit THEN Leave ELSE Attempts

\* refresh_call_data, then the call is given up.
GivenUp ==
    /\ run.at = "refresh"
    /\ state' = "ReconnectingFailed"
    /\ Go("release")
    /\ UNCHANGED <<current, conn, ask, waiter, fired, limitVars, faults>>

RegistrationExpires ==
    /\ registered > 0
    /\ registered' = registered - 1
    /\ UNCHANGED <<state, current, conn, ask, run, waiter, fired, iceFailures,
                   negotiationFailures, faults>>

\* The attempt succeeded.
Finished ==
    /\ run.at = "done"
    /\ state' = "Joined"
    /\ negotiationFailures' = 0
    /\ Go("release")
    /\ UNCHANGED <<current, conn, ask, waiter, fired, registered, iceFailures, faults>>

\* The drop of ReconnectClaim, after the state was set.
Released ==
    /\ run.at = "release"
    /\ run' = Idle
    /\ UNCHANGED <<state, current, conn, ask, waiter, fired, limitVars, faults>>

Errors == {"plain", "negotiation", "unrecoverable"}

FailsWith(e) == run' = [run EXCEPT !.at = "failed", !.error = e]

\* record_negotiation_failure.
TooManyNegotiations == negotiationFailures + 1 >= NegotiationLimit

FailureCounted ==
    /\ run.at = "failed"
    /\ IF run.error = "negotiation" /\ TooManyNegotiations
       THEN Leave
       ELSE /\ negotiationFailures' = IF run.error = "negotiation"
                                      THEN negotiationFailures + 1 ELSE negotiationFailures
            /\ Go(IF run.error = "unrecoverable" THEN "refresh" ELSE "sleep")
            /\ UNCHANGED <<state, current, conn, ask, waiter, fired, registered,
                           iceFailures, faults>>

ShouldRejoin ==
    run.late \/ run.migrating \/ run.attempt >= 3 \/ ~Healthy(current)

\* The error decides first, then escalate_strategy.
NextStrategy ==
    IF run.error = "rejected" \/ ShouldRejoin THEN "Rejoin" ELSE "Fast"

\* Mutant: the attempts are not counted.
MutEscalated ==
    /\ run.at = "sleep"
    /\ run' = [run EXCEPT !.at = "top", !.strategy = NextStrategy, !.migrating = FALSE,
                          !.error = "none"]
    /\ state' = "Reconnecting"
    /\ UNCHANGED <<current, conn, ask, waiter, fired, limitVars, faults>>

\* retry_interval is over: the next strategy.  It is never MIGRATE, and
\* attempts above 3 decide like 3.
Escalated ==
    /\ run.at = "sleep"
    /\ run' = [run EXCEPT !.at = "top", !.strategy = NextStrategy, !.migrating = FALSE,
                          !.attempt = IF @ < 3 THEN @ + 1 ELSE 3, !.error = "none"]
    /\ state' = "Reconnecting"
    /\ UNCHANGED <<current, conn, ask, waiter, fired, limitVars, faults>>

-----------------------------------------------------------------------------
(* reconnect_fast. *)

FastChecks ==
    /\ run.at = "fast"
    /\ Go(IF conn[current].healthy THEN "restoreFast" ELSE "resume")
    /\ UNCHANGED <<state, current, conn, ask, waiter, fired, limitVars, faults>>

FastFails ==
    /\ run.at \in {"resume", "restoreFast"}
    /\ \/ \E e \in Errors : FailsWith(e)
       \/ run.at = "resume" /\ FailsWith("rejected")
    /\ UNCHANGED <<state, current, conn, ask, waiter, fired, limitVars, faults>>

\* reopen_fast_signal: the old signal tasks end, new ones start on a new socket.
FastResumes ==
    /\ run.at = "resume"
    /\ CanAbort(current)
    /\ conn' = [conn EXCEPT ![current].socket = "open", ![current].healthy = TRUE,
                            ![current].enabled = TRUE]
    /\ ask' = [ask EXCEPT ![Loop(current)] = Quiet, ![Ping(current)] = Quiet]
    /\ Go("restoreFast")
    /\ UNCHANGED <<state, current, waiter, fired, limitVars, faults>>

\* restart_ice of the published tracks, if any, may bring the peer connection back.
FastRestores ==
    /\ run.at = "restoreFast"
    /\ \E p \in {conn[current].pc, "connected"} :
           conn' = [conn EXCEPT ![current].pc = IF @ = "failed" THEN p ELSE @]
    /\ Go("done")
    /\ UNCHANGED <<state, current, ask, waiter, fired, limitVars, faults>>

-----------------------------------------------------------------------------
(* reconnect_rejoin. *)

RejoinFails ==
    /\ run.at \in {"rejoin", "restore"}
    /\ \E e \in Errors : FailsWith(e)
    /\ UNCHANGED <<state, current, conn, ask, waiter, fired, limitVars, faults>>

\* ensure_coordinator_events, then establish: the tasks of the new connection
\* run before it is in the slot.
Established(at, next) ==
    /\ run.at = at
    /\ \E c \in Conns :
        /\ Unused(c)
        /\ conn' = [conn EXCEPT ![c] = Opened]
        /\ ask' = [ask EXCEPT ![Loop(c)] = Quiet, ![Ping(c)] = Quiet,
                              ![Coordinator] = IF @.at = "ended" THEN Quiet ELSE @]
        /\ run' = [run EXCEPT !.at = next, !.fresh = c]
    /\ UNCHANGED <<state, current, waiter, fired, limitVars, faults>>

RejoinEstablished == Established("rejoin", "install")

\* join_once replaces the connection in the slot ...
RejoinInstalled ==
    /\ run.at = "install"
    /\ current' = run.fresh
    /\ run' = [run EXCEPT !.at = "teardown", !.fresh = NoConn, !.old = current]
    /\ UNCHANGED <<state, conn, ask, waiter, fired, limitVars, faults>>

\* Mutant: the old connection of a rejoin is only disabled.
MutRejoinTearsDown ==
    /\ run.at = "teardown"
    /\ CanAbort(run.old)
    /\ conn' = [conn EXCEPT ![run.old].enabled = FALSE]
    /\ run' = [run EXCEPT !.at = "restore", !.old = NoConn]
    /\ UNCHANGED <<state, current, ask, waiter, fired, limitVars, faults>>

\* ... and tears the old one down.
RejoinTearsDown ==
    /\ run.at = "teardown"
    /\ CanAbort(run.old)
    /\ conn' = TornDown(run.old)
    /\ ask' = Aborted(run.old)
    /\ run' = [run EXCEPT !.at = "restore", !.old = NoConn]
    /\ UNCHANGED <<state, current, waiter, fired, limitVars, faults>>

Restored ==
    /\ run.at = "restore"
    /\ Go("done")
    /\ UNCHANGED <<state, current, conn, ask, waiter, fired, limitVars, faults>>

-----------------------------------------------------------------------------
(* reconnect_migrate. *)

\* The token or the coordinator failed, before anything was changed.
MigrateRefused ==
    /\ run.at = "migrate"
    /\ \E e \in Errors : FailsWith(e)
    /\ UNCHANGED <<state, current, conn, ask, waiter, fired, limitVars, faults>>

MigrateDisables ==
    /\ run.at = "migrate"
    /\ conn' = [conn EXCEPT ![current].enabled = FALSE]
    /\ Go("waiter")
    /\ UNCHANGED <<state, current, ask, waiter, fired, limitVars, faults>>

\* install_migration_waiter refuses a second waiter of the generation.
WaiterInstalled ==
    /\ run.at = "waiter"
    /\ IF waiter
       THEN /\ conn' = [conn EXCEPT ![current].enabled = TRUE]
            /\ FailsWith("plain")
            /\ UNCHANGED <<waiter, fired>>
       ELSE /\ waiter' = TRUE /\ fired' = FALSE
            /\ Go("details")
            /\ UNCHANGED conn
    /\ UNCHANGED <<state, current, ask, limitVars, faults>>

\* reconnect_details: its error returns at once, past the clean-up below.
DetailsCollected ==
    /\ run.at = "details"
    /\ \/ Go("handshake")
       \/ \E e \in Errors : FailsWith(e)
    /\ UNCHANGED <<state, current, conn, ask, waiter, fired, limitVars, faults>>

\* join_once failed: the waiter is taken, the old connection goes on.
MigrateJoinFails ==
    /\ run.at = "handshake"
    /\ waiter' = FALSE /\ fired' = FALSE
    /\ conn' = [conn EXCEPT ![current].enabled = TRUE]
    /\ \E e \in Errors : FailsWith(e)
    /\ UNCHANGED <<state, current, ask, limitVars, faults>>

MigrateEstablished == Established("handshake", "retain")

\* join_once with retain_old: the old connection stays open beside the new one.
MigrateInstalled ==
    /\ run.at = "retain"
    /\ current' = run.fresh
    /\ conn' = [conn EXCEPT ![current].enabled = FALSE]
    /\ run' = [run EXCEPT !.at = "migrated", !.fresh = NoConn, !.old = current]
    /\ UNCHANGED <<state, ask, waiter, fired, limitVars, faults>>

\* ParticipantMigrationComplete, on the old or on the new connection.
MigrationCompleted(c) ==
    /\ ask[Loop(c)].at = "run"
    /\ waiter
    /\ waiter' = FALSE
    /\ fired' = (run.at \in {"details", "handshake", "retain", "migrated"})
    /\ UNCHANGED <<state, current, conn, ask, run, limitVars, faults>>

\* The tracks are restored and the SFU said the migration is complete, or a
\* restore failed, or MIGRATION_COMPLETE_TIMEOUT passed.
MigrateRestored ==
    /\ run.at = "migrated"
    /\ \/ fired /\ run' = [run EXCEPT !.at = "cleanup", !.error = "none"]
       \/ \E e \in Errors : run' = [run EXCEPT !.at = "cleanup", !.error = e]
    /\ UNCHANGED <<state, current, conn, ask, waiter, fired, limitVars, faults>>

\* Mutant: a failed migration keeps the old connection and closes the new one.
MutMigrateCleansUp ==
    /\ run.at = "cleanup"
    /\ waiter' = FALSE /\ fired' = FALSE
    /\ LET gone == IF run.error = "none" THEN run.old ELSE current
       IN /\ CanAbort(gone)
          /\ conn' = TornDown(gone)
          /\ ask' = Aborted(gone)
    /\ run' = [run EXCEPT !.at = IF run.error = "none" THEN "done" ELSE "failed",
                          !.old = NoConn]
    /\ UNCHANGED <<state, current, limitVars, faults>>

\* Either way the waiter is taken and the old connection torn down.
MigrateCleansUp ==
    /\ run.at = "cleanup"
    /\ CanAbort(run.old)
    /\ waiter' = FALSE /\ fired' = FALSE
    /\ conn' = TornDown(run.old)
    /\ ask' = Aborted(run.old)
    /\ run' = [run EXCEPT !.at = IF run.error = "none" THEN "done" ELSE "failed",
                          !.old = NoConn]
    /\ UNCHANGED <<state, current, limitVars, faults>>

-----------------------------------------------------------------------------
(* The specification. *)

Notices(c) ==
    SocketCloses(c) \/ LoopFails(c) \/ SfuAsks(c) \/ PcConnects(c) \/ PcFails(c)
        \/ SfuDisconnects(c) \/ MigrationCompleted(c)

Asks(a) == HealthRead(a) \/ StateRead(a) \/ Claimed(a)

Fast == FastChecks \/ FastFails \/ FastResumes \/ FastRestores

Rejoin == RejoinFails \/ RejoinEstablished \/ RejoinInstalled \/ RejoinTearsDown \/ Restored

Migrate == \/ MigrateRefused \/ MigrateDisables \/ WaiterInstalled \/ DetailsCollected
           \/ MigrateJoinFails \/ MigrateEstablished \/ MigrateInstalled
           \/ MigrateRestored \/ MigrateCleansUp

RunSteps == \/ RunStarts \/ LoopTop \/ GivenUp \/ FailureCounted
            \/ Escalated \/ Fast \/ Rejoin \/ Migrate \/ Finished \/ Released

Next ==
    \/ JoinCommitted \/ CoordinatorLost
    \/ \E c \in Conns : Notices(c) \/ LoopSeesClose(c) \/ PingFails(c)
    \/ \E a \in Askers : Asks(a)
    \/ RunSteps
    \/ FastDeadlinePasses \/ TimeoutPasses \/ RegistrationExpires

Spec == Init /\ [][Next]_vars

\* Tasks are polled; every network operation ends, well or badly (each has a
\* timeout); an open task learns of a closed socket; the disconnection timeout
\* passes.  Nothing makes an attempt succeed or a registration expire.
Fairness ==
    /\ WF_vars(JoinCommitted)
    /\ WF_vars(RunSteps)
    /\ WF_vars(TimeoutPasses)
    /\ \A a \in Askers : WF_vars(Asks(a))
    /\ \A c \in Conns : /\ WF_vars(LoopSeesClose(c))
                        /\ WF_vars(PingFails(c))

FairSpec == Spec /\ Fairness

-----------------------------------------------------------------------------
(* Properties. *)

\* A connection whose tasks and peer connections are still open is in the
\* slot or in the hands of the running attempt: no error path of a rejoin or
\* a migration leaks one.
NoLeakedConnection ==
    \A c \in Conns : Open(c) => c \in {current, run.fresh, run.old}

\* The connection in the slot is never one that was torn down, and its signal
\* tasks were not aborted without being started again, also after a failed migration.
SlotIsOpen ==
    state # "Left" =>
        Open(current) /\ \A t \in {Loop(current), Ping(current)} : ask[t].at # "off"

\* While the call is live its slot never holds a closed connection; with the types
\* of the variables.
SlotStaysOpen == TypeOK /\ SlotIsOpen

\* With a disconnection timeout, every reconnect ends: Joined,
\* ReconnectingFailed or Left (run_reconnect: it can never spin).
ReconnectEnds == run.timed ~> run.at = "idle"

\* Without one it ends too, as long as the attempts fail faster than the
\* registrations leave the window: three FAST attempts, then the rejoin limit.
RejoinLimitEnds ==
    <>[][registered' >= registered]_registered => (run.at # "idle" ~> run.at = "idle")

\* A joined call whose signal socket was closed, and seen closed by the event
\* loop, reconnects (event_loop: "Socket closed. Reconnect unless we're
\* intentionally leaving.").
LostSignalReconnects ==
    state = "Joined" /\ conn[current].socket = "closed" ~>
        state # "Joined" \/ conn[current].socket = "open"

\* Within one reconnect, REJOIN is never given up for FAST again
\* (escalate_strategy: "Once we fall back to `REJOIN` we stay there.").
RejoinStays ==
    [][run.at \notin {"idle", "release"} /\ run.strategy = "Rejoin" => run'.strategy = "Rejoin"]_vars

\* The connection of a joined call is not the detached one of a migration: it
\* answers the WebRTC commands of its SFU.
JoinedIsEnabled == state = "Joined" /\ run.at = "idle" => conn[current].enabled
=============================================================================
