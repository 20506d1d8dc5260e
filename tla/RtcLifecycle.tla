---------------------------- MODULE RtcLifecycle ----------------------------
(***************************************************************************)
(* The lifecycle of one call handle (RtcCore): join, abandoned join, leave,*)
(* dropped leave, end of call, reconnect claim, and who may own the        *)
(* connection slot, the cached call state and the published tracks.        *)
(*                                                                         *)
(* A step is one critical section of the code: what runs under one lock    *)
(* between two lock operations or awaits.  Everything the code reads in    *)
(* one critical section and uses in a later one is carried in the record   *)
(* of the task.  Generations are the numbers of Lifecycle.generation;      *)
(* None (0) stands for an empty Option.  A generation is never reused      *)
(* (the 64-bit wrap is out of reach).                                      *)
(***************************************************************************)
EXTENDS Integers, FiniteSets

CONSTANTS
    Joins,          \* calls of join(), one future each
    Leaves,         \* calls of leave(), by the user, a reconnect or the end of the call
    Reconnects,     \* trigger_reconnect() callers and the run_reconnect task they may start
    Publishers,     \* calls of publish()
    Enders,         \* end_call() callers and the task they may spawn
    MaxJoinRetries, \* attempts of a join: JoinCallData.max_join_retries, at least 1,
                    \* and one more for a token that the SFU finds expired
    Free            \* holder of a lock that nobody holds

None == 0

ASSUME RetriesAssumption == MaxJoinRetries \in Nat \ {0}
ASSUME FreeAssumption == Free \notin Joins \cup Reconnects \cup Leaves \cup Publishers
ASSUME TasksAssumption == Joins \cap Reconnects = {} /\ Leaves \cap Publishers = {}

VARIABLES
    state,        \* Lifecycle.state
    generation,   \* Lifecycle.generation
    slot,         \* generation of the Connection in RtcCore.connection, or None
    slotLock,     \* the task inside a critical section of that lock
    coordinator,  \* generation stored in coordinator_connection_id, or None
    claim,        \* reconnect_generation
    callOwner,    \* generation whose participants and call state are cached, or None
    ended,        \* call_state.ended
    session,      \* generation whose join stored unified_session_id and join_data
    mediaLock,    \* holder of the media lock
    tracks,       \* generations under which the active publications were made
    task,         \* joins and reconnects: where they are, their generation, join retries
    leave,        \* leaves: the caller's future, the teardown task, their generation
    publish,      \* publishes: where they are, generation of the handles they took
    end           \* end_call callers: where they are, generation they report

lifecycleVars == <<state, generation>>
connectionVars == <<slot, slotLock>>
callVars == <<claim, callOwner, ended>>
mediaVars == <<mediaLock, tracks, publish>>
vars == <<lifecycleVars, connectionVars, coordinator, callVars, session,
          mediaVars, task, leave, end>>

Tasks == Joins \cup Reconnects

CallingState == {"Idle", "Joining", "Joined", "Reconnecting", "Migrating",
                 "ReconnectingFailed", "Left"}

\* Where a join or a reconnect is.  A join ends in joined, failed or dropped.
Place == {"new", "begun", "token", "coordCheck", "coordStore", "coordRecheck",
          "attempt", "establish", "install", "replace", "commit", "stop", "reset",
          "joined", "failed", "dropped",
          "idle", "state", "claim", "start", "restore", "finish", "giveUp",
          "leaving", "release"}

\* Places of a future that waits: it can be dropped or cancelled there.
JoinAwaits == {"token", "coordCheck", "attempt", "establish", "install", "commit"}
ReconnectAwaits == {"coordCheck", "attempt", "establish", "install", "restore"}

\* The reconnect holds the claim it took, from claim_reconnect to the drop of ReconnectClaim.
ReconnectRuns == {"start", "attempt", "coordCheck", "coordStore", "coordRecheck",
                  "establish", "install", "replace", "restore", "finish", "giveUp",
                  "leaving", "release"}

TaskRecord == [at : Place, gen : Nat, tries : 0..MaxJoinRetries]

LeaveRecord == [caller : {"new", "wait", "clear", "left", "coord", "returned",
                          "dropClear", "dropLeft", "dropped"},
                work : {"new", "take", "media", "stop", "done"},
                gen : Nat,
                owner : {"none", "user", "runtime"} \cup Reconnects]

TypeOK ==
    /\ state \in CallingState
    /\ generation \in Nat
    /\ slot \in Nat
    /\ slotLock \in Tasks \cup {Free}
    /\ coordinator \in Nat
    /\ claim \in Nat
    /\ callOwner \in Nat
    /\ ended \in BOOLEAN
    /\ session \in Nat
    /\ mediaLock \in Leaves \cup Publishers \cup {Free}
    /\ tracks \subseteq Nat
    /\ task \in [Tasks -> TaskRecord]
    /\ leave \in [Leaves -> LeaveRecord]
    /\ publish \in [Publishers -> [at : {"new", "negotiate", "done"}, gen : Nat]]
    /\ end \in [Enders -> [at : {"idle", "latch", "spawned", "go"}, gen : Nat]]

Init ==
    /\ state = "Idle"
    /\ generation = 0
    /\ slot = None /\ slotLock = Free
    /\ coordinator = None
    /\ claim = None /\ callOwner = None /\ ended = FALSE
    /\ session = None
    /\ mediaLock = Free /\ tracks = {}
    /\ task = [t \in Tasks |-> [at |-> IF t \in Joins THEN "new" ELSE "idle",
                                gen |-> None, tries |-> 0]]
    /\ leave = [l \in Leaves |-> [caller |-> "new", work |-> "new",
                                  gen |-> None, owner |-> "none"]]
    /\ publish = [p \in Publishers |-> [at |-> "new", gen |-> None]]
    /\ end = [e \in Enders |-> [at |-> "idle", gen |-> None]]

-----------------------------------------------------------------------------
(* Helpers of the lifecycle lock. *)

IsCurrent(g) == generation = g

\* Mutant: the state is set whatever the generation.
MutSetStateIfCurrent(g, s) == state' = s

SetStateIfCurrent(g, s) ==
    state' = IF generation = g THEN s ELSE state

ClearCallState ==
    /\ callOwner' = None
    /\ ended' = FALSE
    /\ claim' = None

Goto(t, p) == task' = [task EXCEPT ![t].at = p]

\* The tasks of the join of generation g run: its coordinator events and its connection.
HasTasks(g) ==
    \E j \in Joins : /\ task[j].gen = g
                     /\ task[j].at \in {"attempt", "establish", "install", "replace",
                                        "commit", "joined"}

-----------------------------------------------------------------------------
(* join(): begin_join, the stored join data, the user token. *)

JoinBegin(j) ==
    /\ task[j].at = "new"
    /\ state \in {"Idle", "Left"}
    /\ generation' = generation + 1
    /\ state' = "Joining"
    /\ ClearCallState
    /\ task' = [task EXCEPT ![j] = [at |-> "begun", gen |-> generation + 1, tries |-> 0]]
    /\ UNCHANGED <<connectionVars, coordinator, session, mediaVars, leave, end>>

JoinRefused(j) ==
    /\ task[j].at = "new"
    /\ state \notin {"Idle", "Left"}
    /\ Goto(j, "failed")
    /\ UNCHANGED <<lifecycleVars, connectionVars, coordinator, callVars, session,
                   mediaVars, leave, end>>

\* The unified session id, the join data and the token source are stored
\* without a check of the generation.
JoinStoreData(j) ==
    /\ task[j].at = "begun"
    /\ session' = task[j].gen
    /\ Goto(j, "token")
    /\ UNCHANGED <<lifecycleVars, connectionVars, coordinator, callVars,
                   mediaVars, leave, end>>

\* reload_user_token stores the token under the lifecycle lock.
JoinTokenLoaded(j) ==
    /\ task[j].at = "token"
    /\ IsCurrent(task[j].gen)
    /\ Goto(j, "coordCheck")
    /\ UNCHANGED <<lifecycleVars, connectionVars, coordinator, callVars, session,
                   mediaVars, leave, end>>

\* The token source failed, or the generation changed: no coordinator to stop.
JoinTokenFailed(j) ==
    /\ task[j].at = "token"
    /\ Goto(j, "reset")
    /\ UNCHANGED <<lifecycleVars, connectionVars, coordinator, callVars, session,
                   mediaVars, leave, end>>

-----------------------------------------------------------------------------
(* connect_coordinator_events, for a join and for a rejoin. *)

\* Where a task goes when a step of its attempt fails.
Failed(t) == IF t \in Joins THEN "stop" ELSE "attempt"

CoordinatorChecked(t) ==
    /\ task[t].at = "coordCheck"
    /\ \/ IsCurrent(task[t].gen) /\ Goto(t, "coordStore")
       \/ Goto(t, Failed(t))      \* connect error, or the generation changed
    /\ UNCHANGED <<lifecycleVars, connectionVars, coordinator, callVars, session,
                   mediaVars, leave, end>>

CoordinatorStored(t) ==
    /\ task[t].at = "coordStore"
    /\ coordinator' = task[t].gen
    /\ Goto(t, "coordRecheck")
    /\ UNCHANGED <<lifecycleVars, connectionVars, callVars, session,
                   mediaVars, leave, end>>

CoordinatorRechecked(t) ==
    /\ task[t].at = "coordRecheck"
    /\ IF IsCurrent(task[t].gen)
       THEN /\ Goto(t, IF t \in Joins THEN "attempt" ELSE "establish")
            /\ UNCHANGED coordinator
       ELSE /\ Goto(t, Failed(t))
            /\ coordinator' = IF coordinator = task[t].gen THEN None ELSE coordinator
    /\ UNCHANGED <<lifecycleVars, connectionVars, callVars, session,
                   mediaVars, leave, end>>

\* The event stream of the coordinator ended, or its health check failed: the
\* task of that generation clears its own id, then triggers a reconnect.
CoordinatorLost ==
    /\ coordinator # None
    /\ coordinator' = None
    /\ UNCHANGED <<lifecycleVars, connectionVars, callVars, session,
                   mediaVars, task, leave, end>>

-----------------------------------------------------------------------------
(* join_once and establish, for a join and for a rejoin or a migration. *)

\* The generation is current and user_request_query finds the coordinator
\* connection of that generation.
JoinAttempted(j) ==
    /\ task[j].at = "attempt"
    /\ IsCurrent(task[j].gen) /\ coordinator = generation
    /\ Goto(j, "establish")
    /\ UNCHANGED <<lifecycleVars, connectionVars, coordinator, callVars, session,
                   mediaVars, leave, end>>

\* Mutant: one attempt more than the budget.
MutJoinAttemptFailed(j) ==
    /\ task[j].at \in {"attempt", "establish"}
    /\ \E p \in {"stop", "attempt"} :
        /\ p = "attempt" => task[j].tries <= MaxJoinRetries
        /\ task' = [task EXCEPT ![j] = [at |-> p, gen |-> @.gen, tries |-> @.tries + 1]]
    /\ UNCHANGED <<lifecycleVars, connectionVars, coordinator, callVars, session,
                   mediaVars, leave, end>>

\* evaluate_join_failure: an unrecoverable error or the last attempt of the
\* budget ends the join, else there is another attempt.
JoinAttemptFailed(j) ==
    /\ task[j].at \in {"attempt", "establish"}
    /\ \E p \in {"stop", "attempt"} :
        /\ p = "attempt" => task[j].tries + 1 < MaxJoinRetries
        /\ task' = [task EXCEPT ![j] = [at |-> p, gen |-> @.gen, tries |-> @.tries + 1]]
    /\ UNCHANGED <<lifecycleVars, connectionVars, coordinator, callVars, session,
                   mediaVars, leave, end>>

\* Mutant: the call state is applied without the generation check.
MutEstablished(t) ==
    /\ task[t].at = "establish"
    /\ callOwner' = task[t].gen
    /\ ended' = FALSE
    /\ Goto(t, "install")
    /\ UNCHANGED <<lifecycleVars, connectionVars, coordinator, claim, session,
                   mediaVars, leave, end>>

\* apply_join_call_state_if_current, under the lifecycle lock, once the
\* handshake is done; a stale generation closes the new connection again.
Established(t) ==
    /\ task[t].at = "establish"
    /\ IF IsCurrent(task[t].gen)
       THEN /\ callOwner' = task[t].gen
            /\ ended' = FALSE
            /\ Goto(t, "install")
       ELSE /\ Goto(t, Failed(t))
            /\ UNCHANGED <<callOwner, ended>>
    /\ UNCHANGED <<lifecycleVars, connectionVars, coordinator, claim, session,
                   mediaVars, leave, end>>

\* Mutant: the generation is not read again under the connection lock.
MutInstallChecked(t) ==
    /\ task[t].at = "install"
    /\ slotLock = Free
    /\ slotLock' = t
    /\ Goto(t, "replace")
    /\ UNCHANGED <<lifecycleVars, slot, coordinator, callVars, session,
                   mediaVars, leave, end>>

\* join_once takes the connection lock, then reads the generation.
InstallChecked(t) ==
    /\ task[t].at = "install"
    /\ slotLock = Free
    /\ IF IsCurrent(task[t].gen)
       THEN slotLock' = t /\ Goto(t, "replace")
       ELSE Goto(t, Failed(t)) /\ UNCHANGED slotLock
    /\ UNCHANGED <<lifecycleVars, slot, coordinator, callVars, session,
                   mediaVars, leave, end>>

Installed(t) ==
    /\ task[t].at = "replace"
    /\ slot' = task[t].gen
    /\ slotLock' = Free
    /\ Goto(t, IF t \in Joins THEN "commit" ELSE "restore")
    /\ UNCHANGED <<lifecycleVars, coordinator, callVars, session,
                   mediaVars, leave, end>>

\* Mutant: Joined is set whatever the generation.
MutJoinCommitted(j) ==
    /\ task[j].at = "commit"
    /\ state' = "Joined"
    /\ Goto(j, "joined")
    /\ UNCHANGED <<generation, connectionVars, coordinator, callVars, session,
                   mediaVars, leave, end>>

\* The old connection is torn down; join_loop sets Joined.
JoinCommitted(j) ==
    /\ task[j].at = "commit"
    /\ SetStateIfCurrent(task[j].gen, "Joined")
    /\ Goto(j, IF IsCurrent(task[j].gen) THEN "joined" ELSE "stop")
    /\ UNCHANGED <<generation, connectionVars, coordinator, callVars, session,
                   mediaVars, leave, end>>

-----------------------------------------------------------------------------
(* The end of a failed, cancelled or dropped join. *)

\* stop_coordinator_events of the own generation, under the lifecycle lock.
JoinStopped(j) ==
    /\ task[j].at = "stop"
    /\ coordinator' = IF IsCurrent(task[j].gen) THEN None ELSE coordinator
    /\ Goto(j, "reset")
    /\ UNCHANGED <<lifecycleVars, connectionVars, callVars, session,
                   mediaVars, leave, end>>

\* The coordinator tasks of generation g are inside end_call or trigger_reconnect.
CoordinatorTaskRuns(g) ==
    \/ \E r \in Reconnects : task[r].at \in {"state", "claim"} /\ task[r].gen = g
    \/ \E e \in Enders : end[e].at = "latch" /\ end[e].gen = g

\* Mutant: the failed join does not give the state back.
MutJoinReset(j) ==
    /\ task[j].at = "reset"
    /\ Goto(j, "failed")
    /\ UNCHANGED <<lifecycleVars, connectionVars, coordinator, callVars, session,
                   mediaVars, leave, end>>

\* stop_coordinator_events awaits the tasks it aborted, so they are through
\* with their last event before the state is Idle again.
JoinReset(j) ==
    /\ task[j].at = "reset"
    /\ IsCurrent(task[j].gen) => ~CoordinatorTaskRuns(task[j].gen)
    /\ state' = IF IsCurrent(task[j].gen) /\ state = "Joining" THEN "Idle" ELSE state
    /\ Goto(j, "failed")
    /\ UNCHANGED <<generation, connectionVars, coordinator, callVars, session,
                   mediaVars, leave, end>>

\* while_generation drops the work of a join at its next await.
JoinCancelled(j) ==
    /\ task[j].at \in JoinAwaits
    /\ ~IsCurrent(task[j].gen)
    /\ Goto(j, IF task[j].at = "token" THEN "reset" ELSE "stop")
    /\ UNCHANGED <<lifecycleVars, connectionVars, coordinator, callVars, session,
                   mediaVars, leave, end>>

\* The caller drops the future of join(): the drop of JoinAttempt abandons a
\* join that still joins.
JoinDropped(j) ==
    /\ task[j].at \in JoinAwaits \cup {"reset"}
    /\ IF IsCurrent(task[j].gen) /\ state = "Joining"
       THEN generation' = generation + 1 /\ state' = "Idle"
       ELSE UNCHANGED lifecycleVars
    /\ Goto(j, "dropped")
    /\ UNCHANGED <<connectionVars, coordinator, callVars, session,
                   mediaVars, leave, end>>

-----------------------------------------------------------------------------
(* leave(): the caller's future and the teardown task it spawned. *)

\* cancel_generation; the LeftCall guard and the teardown task carry the new generation.
LeaveStarted(l, owner) ==
    /\ leave[l].caller = "new"
    /\ generation' = generation + 1
    /\ leave' = [leave EXCEPT ![l] = [caller |-> "wait", work |-> "take",
                                      gen |-> generation + 1, owner |-> owner]]
    /\ UNCHANGED <<state, connectionVars, coordinator, callVars, session, mediaVars>>

UserLeaves(l) == LeaveStarted(l, "user") /\ UNCHANGED <<task, end>>

\* Take the connection of an older generation out of the slot, send the leave, close it.
LeaveTakes(l) ==
    /\ leave[l].work = "take"
    /\ slotLock = Free
    /\ slot' = IF slot < leave[l].gen THEN None ELSE slot
    /\ leave' = [leave EXCEPT ![l].work = "media"]
    /\ UNCHANGED <<lifecycleVars, slotLock, coordinator, callVars, session,
                   mediaVars, task, end>>

\* Take the media lock; only a leave that is still current stops the tracks.
LeaveLocksMedia(l) ==
    /\ leave[l].work = "media"
    /\ mediaLock = Free
    /\ IF IsCurrent(leave[l].gen)
       THEN mediaLock' = l /\ leave' = [leave EXCEPT ![l].work = "stop"]
       ELSE leave' = [leave EXCEPT ![l].work = "done"] /\ UNCHANGED mediaLock
    /\ UNCHANGED <<lifecycleVars, connectionVars, coordinator, callVars, session,
                   tracks, publish, task, end>>

LeaveStopsAll(l) ==
    /\ leave[l].work = "stop"
    /\ tracks' = {}
    /\ mediaLock' = Free
    /\ leave' = [leave EXCEPT ![l].work = "done"]
    /\ UNCHANGED <<lifecycleVars, connectionVars, coordinator, callVars, session,
                   publish, task, end>>

\* Mutant: the caller does not wait for the teardown task.
MutLeaveReturns(l) ==
    /\ leave[l].caller = "wait"
    /\ leave' = [leave EXCEPT ![l].caller = "clear"]
    /\ UNCHANGED <<lifecycleVars, connectionVars, coordinator, callVars, session,
                   mediaVars, task, end>>

\* Mutant: no LeftCall guard finishes a dropped leave.
MutLeaveReturnsUnguarded(l) ==
    /\ leave[l].caller = "wait"
    /\ \/ leave[l].work = "done" /\ leave' = [leave EXCEPT ![l].caller = "clear"]
       \/ leave[l].owner = "user" /\ leave' = [leave EXCEPT ![l].caller = "dropped"]
    /\ UNCHANGED <<lifecycleVars, connectionVars, coordinator, callVars, session,
                   mediaVars, task, end>>

\* The teardown ended, or the caller dropped its future while it waited.
LeaveReturns(l) ==
    /\ leave[l].caller = "wait"
    /\ \/ leave[l].work = "done" /\ leave' = [leave EXCEPT ![l].caller = "clear"]
       \/ leave[l].owner = "user" /\ leave' = [leave EXCEPT ![l].caller = "dropClear"]
    /\ UNCHANGED <<lifecycleVars, connectionVars, coordinator, callVars, session,
                   mediaVars, task, end>>

\* finish_leave, first critical section.
LeaveClears(l) ==
    /\ leave[l].caller \in {"clear", "dropClear"}
    /\ IF IsCurrent(leave[l].gen) THEN ClearCallState ELSE UNCHANGED callVars
    /\ leave' = [leave EXCEPT ![l].caller = IF @ = "clear" THEN "left" ELSE "dropLeft"]
    /\ UNCHANGED <<lifecycleVars, connectionVars, coordinator, session,
                   mediaVars, task, end>>

\* finish_leave, second critical section.
LeaveSetsLeft(l) ==
    /\ leave[l].caller \in {"left", "dropLeft"}
    /\ SetStateIfCurrent(leave[l].gen, "Left")
    /\ leave' = [leave EXCEPT ![l].caller = IF @ = "left" THEN "coord" ELSE "dropped"]
    /\ UNCHANGED <<generation, connectionVars, coordinator, callVars, session,
                   mediaVars, task, end>>

\* stop_coordinator_events; a dropped leave does not run it.
LeaveStopsCoordinator(l) ==
    /\ leave[l].caller = "coord"
    /\ coordinator' = IF IsCurrent(leave[l].gen) THEN None ELSE coordinator
    /\ leave' = [leave EXCEPT ![l].caller = "returned"]
    /\ UNCHANGED <<lifecycleVars, connectionVars, callVars, session,
                   mediaVars, task, end>>

-----------------------------------------------------------------------------
(* end_call and the DISCONNECT strategy: a runtime task leaves the call. *)

\* An event of generation g: end_call reads the generation, then the latch;
\* a DISCONNECT needs no latch.
EndReported(e) ==
    /\ end[e].at = "idle"
    /\ HasTasks(generation)
    /\ \E p \in {"latch", "spawned"} :
           end' = [end EXCEPT ![e] = [at |-> p, gen |-> generation]]
    /\ UNCHANGED <<lifecycleVars, connectionVars, coordinator, callVars, session,
                   mediaVars, task, leave>>

EndLatched(e) ==
    /\ end[e].at = "latch"
    /\ ended' = TRUE
    /\ end' = [end EXCEPT ![e].at = IF ended THEN "idle" ELSE "spawned"]
    /\ UNCHANGED <<lifecycleVars, connectionVars, coordinator, claim, callOwner, session,
                   mediaVars, task, leave>>

EndChecked(e) ==
    /\ end[e].at = "spawned"
    /\ end' = [end EXCEPT ![e].at = IF IsCurrent(end[e].gen) THEN "go" ELSE "idle"]
    /\ UNCHANGED <<lifecycleVars, connectionVars, coordinator, callVars, session,
                   mediaVars, task, leave>>

EndLeaves(e, l) ==
    /\ end[e].at = "go"
    /\ LeaveStarted(l, "runtime")
    /\ end' = [end EXCEPT ![e].at = "idle"]
    /\ UNCHANGED task

-----------------------------------------------------------------------------
(* trigger_reconnect and run_reconnect. *)

\* An event, a ping or a peer connection of the current generation asks for a reconnect.
TriggerRaised(r) ==
    /\ task[r].at = "idle"
    /\ HasTasks(generation)
    /\ task' = [task EXCEPT ![r] = [at |-> "state", gen |-> generation, tries |-> @.tries]]
    /\ UNCHANGED <<lifecycleVars, connectionVars, coordinator, callVars, session,
                   mediaVars, leave, end>>

TriggerReadsState(r) ==
    /\ task[r].at = "state"
    /\ Goto(r, IF state \in {"Joining", "Reconnecting", "Migrating", "ReconnectingFailed"}
               THEN "idle" ELSE "claim")
    /\ UNCHANGED <<lifecycleVars, connectionVars, coordinator, callVars, session,
                   mediaVars, leave, end>>

\* Mutant: the claim of another reconnect is not looked at.
MutTriggerClaims(r) ==
    /\ task[r].at = "claim"
    /\ IF IsCurrent(task[r].gen)
       THEN claim' = task[r].gen /\ Goto(r, "start")
       ELSE Goto(r, "idle") /\ UNCHANGED claim
    /\ UNCHANGED <<lifecycleVars, connectionVars, coordinator, callOwner, ended, session,
                   mediaVars, leave, end>>

\* claim_reconnect, under the lifecycle lock.
TriggerClaims(r) ==
    /\ task[r].at = "claim"
    /\ IF IsCurrent(task[r].gen) /\ claim = None
       THEN claim' = task[r].gen /\ Goto(r, "start")
       ELSE Goto(r, "idle") /\ UNCHANGED claim
    /\ UNCHANGED <<lifecycleVars, connectionVars, coordinator, callOwner, ended, session,
                   mediaVars, leave, end>>

\* The state of the next attempt depends on the strategy.
ReconnectSetsState(r) ==
    \E s \in {"Reconnecting", "Migrating"} : SetStateIfCurrent(task[r].gen, s)

ReconnectStarts(r) ==
    /\ task[r].at = "start"
    /\ ReconnectSetsState(r)
    /\ Goto(r, "attempt")
    /\ UNCHANGED <<generation, connectionVars, coordinator, callVars, session,
                   mediaVars, leave, end>>

\* REJOIN or MIGRATE: there is a connection to replace; ensure_coordinator_events.
RejoinBegins(r) ==
    /\ task[r].at = "attempt"
    /\ IsCurrent(task[r].gen)
    /\ slotLock = Free /\ slot # None
    /\ Goto(r, IF coordinator = generation THEN "establish" ELSE "coordCheck")
    /\ UNCHANGED <<lifecycleVars, connectionVars, coordinator, callVars, session,
                   mediaVars, leave, end>>

\* restore_published_tracks and restore_subscribed_tracks on the new connection.
Restored(r) ==
    /\ task[r].at = "restore"
    /\ mediaLock = Free /\ slotLock = Free
    /\ slot = generation
    /\ Goto(r, "finish")
    /\ UNCHANGED <<lifecycleVars, connectionVars, coordinator, callVars, session,
                   mediaVars, leave, end>>

\* FAST: the connection stays; a reopened signal socket brings a new call state.
FastResumed(r) ==
    /\ task[r].at = "attempt"
    /\ IsCurrent(task[r].gen)
    /\ mediaLock = Free /\ slotLock = Free
    /\ slot = generation
    /\ \/ callOwner' = task[r].gen /\ ended' = FALSE
       \/ UNCHANGED <<callOwner, ended>>
    /\ Goto(r, "finish")
    /\ UNCHANGED <<lifecycleVars, connectionVars, coordinator, claim, session,
                   mediaVars, leave, end>>

\* An attempt failed: the next one, with another strategy.
ReconnectRetries(r) ==
    /\ task[r].at \in ReconnectAwaits
    /\ ReconnectSetsState(r)
    /\ Goto(r, "attempt")
    /\ UNCHANGED <<generation, connectionVars, coordinator, callVars, session,
                   mediaVars, leave, end>>

\* while_generation, or the check at the top of the loop.
ReconnectCancelled(r) ==
    /\ task[r].at \in ReconnectAwaits
    /\ ~IsCurrent(task[r].gen)
    /\ Goto(r, "release")
    /\ UNCHANGED <<lifecycleVars, connectionVars, coordinator, callVars, session,
                   mediaVars, leave, end>>

\* Disconnection timeout or unrecoverable error.
ReconnectFails(r) ==
    /\ task[r].at = "attempt"
    /\ SetStateIfCurrent(task[r].gen, "ReconnectingFailed")
    /\ Goto(r, "release")
    /\ UNCHANGED <<generation, connectionVars, coordinator, callVars, session,
                   mediaVars, leave, end>>

\* A failure limit or the rejoin limit was reached, under the lifecycle lock.
ReconnectGivesUp(r) ==
    /\ task[r].at = "attempt"
    /\ IsCurrent(task[r].gen)
    /\ Goto(r, "giveUp")
    /\ UNCHANGED <<lifecycleVars, connectionVars, coordinator, callVars, session,
                   mediaVars, leave, end>>

ReconnectLeaves(r, l) ==
    /\ task[r].at = "giveUp"
    /\ LeaveStarted(l, r)
    /\ Goto(r, "leaving")
    /\ UNCHANGED end

ReconnectLeft(r) ==
    /\ task[r].at = "leaving"
    /\ \A l \in Leaves : leave[l].owner = r => leave[l].caller = "returned"
    /\ Goto(r, "release")
    /\ UNCHANGED <<lifecycleVars, connectionVars, coordinator, callVars, session,
                   mediaVars, leave, end>>

ReconnectFinished(r) ==
    /\ task[r].at = "finish"
    /\ SetStateIfCurrent(task[r].gen, "Joined")
    /\ Goto(r, "release")
    /\ UNCHANGED <<generation, connectionVars, coordinator, callVars, session,
                   mediaVars, leave, end>>

\* The drop of ReconnectClaim: release_reconnect clears only its own claim.
ReconnectReleases(r) ==
    /\ task[r].at = "release"
    /\ claim' = IF claim = task[r].gen THEN None ELSE claim
    /\ Goto(r, "idle")
    /\ UNCHANGED <<lifecycleVars, connectionVars, coordinator, callOwner, ended, session,
                   mediaVars, leave, end>>

-----------------------------------------------------------------------------
(* publish(): holds the media lock from the handles to the end of the negotiation. *)

PublishBegun(p) ==
    /\ publish[p].at = "new"
    /\ mediaLock = Free /\ slotLock = Free
    /\ slot # None /\ slot = generation
    /\ mediaLock' = p
    /\ publish' = [publish EXCEPT ![p] = [at |-> "negotiate", gen |-> slot]]
    /\ UNCHANGED <<lifecycleVars, connectionVars, coordinator, callVars, session,
                   tracks, task, leave, end>>

PublishEnded(p) ==
    /\ publish[p].at = "negotiate"
    /\ tracks' \in {tracks, tracks \cup {publish[p].gen}}
    /\ mediaLock' = Free
    /\ publish' = [publish EXCEPT ![p].at = "done"]
    /\ UNCHANGED <<lifecycleVars, connectionVars, coordinator, callVars, session,
                   task, leave, end>>

-----------------------------------------------------------------------------
(* The specification. *)

Connects(t) ==
    \/ CoordinatorChecked(t) \/ CoordinatorStored(t) \/ CoordinatorRechecked(t)
    \/ Established(t) \/ InstallChecked(t) \/ Installed(t)

JoinWorks(j) ==
    \/ JoinStoreData(j) \/ JoinTokenLoaded(j) \/ JoinTokenFailed(j) \/ Connects(j)
    \/ JoinAttempted(j) \/ JoinAttemptFailed(j) \/ JoinCommitted(j)
    \/ JoinStopped(j) \/ JoinReset(j) \/ JoinCancelled(j)

ReconnectWorks(r) ==
    \/ TriggerReadsState(r) \/ TriggerClaims(r) \/ ReconnectStarts(r)
    \/ RejoinBegins(r) \/ Connects(r) \/ Restored(r) \/ FastResumed(r)
    \/ ReconnectRetries(r) \/ ReconnectCancelled(r) \/ ReconnectFails(r)
    \/ ReconnectGivesUp(r) \/ ReconnectLeft(r) \/ ReconnectFinished(r)
    \/ ReconnectReleases(r)

LeaveTears(l) == LeaveTakes(l) \/ LeaveLocksMedia(l) \/ LeaveStopsAll(l)

LeaveEnds(l) ==
    LeaveReturns(l) \/ LeaveClears(l) \/ LeaveSetsLeft(l) \/ LeaveStopsCoordinator(l)

Next ==
    \/ \E j \in Joins : JoinBegin(j) \/ JoinRefused(j) \/ JoinWorks(j) \/ JoinDropped(j)
    \/ \E r \in Reconnects : TriggerRaised(r) \/ ReconnectWorks(r)
    \/ \E l \in Leaves : UserLeaves(l) \/ LeaveTears(l) \/ LeaveEnds(l)
    \/ \E e \in Enders : EndReported(e) \/ EndLatched(e) \/ EndChecked(e)
    \/ \E l \in Leaves : \/ \E e \in Enders : EndLeaves(e, l)
                         \/ \E r \in Reconnects : ReconnectLeaves(r, l)
    \/ \E p \in Publishers : PublishBegun(p) \/ PublishEnded(p)
    \/ CoordinatorLost

Spec == Init /\ [][Next]_vars

\* Every future and task is polled, every network operation ends (each has a
\* timeout), and a Tokio mutex serves its waiters in turn.  Nobody has to call
\* join or leave, to drop a future, or to raise an event.
Fairness ==
    /\ \A j \in Joins : SF_vars(JoinWorks(j))
    /\ \A r \in Reconnects : WF_vars(TriggerReadsState(r) \/ TriggerClaims(r) \/ Installed(r))
    /\ \A l \in Leaves : SF_vars(LeaveTears(l)) /\ WF_vars(LeaveEnds(l))
    /\ \A e \in Enders : WF_vars(EndLatched(e) \/ EndChecked(e) \/ \E l \in Leaves : EndLeaves(e, l))
    /\ \A p \in Publishers : WF_vars(PublishEnded(p))

FairSpec == Spec /\ Fairness

-----------------------------------------------------------------------------
(* Properties. *)

TornDown(l) == leave[l].work \in {"media", "stop", "done"}

\* The future of the leave is still there: it has yet to set Left.
InProgress(l) == leave[l].caller \in {"wait", "clear", "left", "dropClear", "dropLeft"}

Running(r) == task[r].at \in ReconnectRuns

\* Once a leave has emptied the slot (lifecycle.rs, take_if), no join or
\* reconnect that began before it ever puts its connection there again.
SlotRespectsLeave ==
    \A l \in Leaves : TornDown(l) => slot = None \/ slot > leave[l].gen

\* A call that shows Joined or a reconnect state has the connection of its
\* generation in the slot, unless the latest leave is about to set Left.
LiveCallHasConnection ==
    state \in {"Joined", "Reconnecting", "Migrating", "ReconnectingFailed"} =>
        \/ slot = generation
        \/ \E l \in Leaves : leave[l].gen = generation /\ InProgress(l)

\* While the state is Left, a connection in the slot is one that the teardown
\* task of a dropped leave is still going to take.
LeftIsTornDown ==
    state = "Left" /\ slot # None =>
        \E l \in Leaves : leave[l].work = "take" /\ slot < leave[l].gen

\* When a join may start, the slot holds no connection of the current
\* generation: what a dropped or failed join left there is stale.
IdleHasNoCurrentConnection ==
    state \in {"Idle", "Left"} => slot = None \/ slot < generation

\* The slot holds what the state says: a live call has its connection, a call
\* that was left or never joined has none.
SlotMatchesState == LiveCallHasConnection /\ LeftIsTornDown /\ IdleHasNoCurrentConnection

\* trigger_reconnect dedups: one generation never has two reconnects at once.
OneReconnectPerGeneration ==
    \A r1, r2 \in Reconnects :
        r1 # r2 /\ Running(r1) /\ Running(r2) => task[r1].gen # task[r2].gen

\* The claim belongs to a reconnect that will release it (so a later trigger
\* is not refused for ever), and a running reconnect of the current generation
\* holds it (so no second one starts).
ClaimIsHeld ==
    /\ claim # None => \E r \in Reconnects : Running(r) /\ task[r].gen = claim
    /\ \A r \in Reconnects : Running(r) /\ IsCurrent(task[r].gen) => claim = generation

\* Each join starts with an empty call state (CHANGELOG.md), and no join or
\* reconnect that began earlier fills it again.
CallStateOfLatestJoin ==
    \A j \in Joins : callOwner = None \/ callOwner >= task[j].gen

\* A leave stops only tracks that were published before it: a join that starts
\* after a dropped leave keeps its own.
LaterTracksSurvive ==
    \A l \in Leaves : leave[l].work = "stop" => \A g \in tracks : g < leave[l].gen

\* A leave that returned and was not overtaken left no active publication.
ReturnedLeaveStoppedTracks ==
    \A l \in Leaves :
        leave[l].caller \in {"coord", "returned"} /\ IsCurrent(leave[l].gen) => tracks = {}

\* A leave that has run to its end has stopped every track published before it
\* (CHANGELOG.md: leave stops every published local track, so a later join
\* must publish new tracks).
LeaveStopsTracks ==
    \A l \in Leaves : leave[l].work = "done" => \A g \in tracks : g > leave[l].gen

\* A join that nobody cancels ends: Joining is left.
JoiningEnds == state = "Joining" ~> state # "Joining"

\* Each leave, also a dropped one, tears the call down, and its generation
\* shows Left unless a later join or leave has replaced it.
LeaveCompletes ==
    \A l \in Leaves :
        leave[l].caller = "wait" ~> /\ leave[l].work = "done"
                                    /\ state = "Left" \/ generation > leave[l].gen

\* The state events follow the diagram of CallingStates.
Diagram == INSTANCE CallingStates WITH joins <- Cardinality({j \in Joins : task[j].gen # None})
StateDiagram == Diagram!Spec
=============================================================================
