------------------------- MODULE RtcLifecycleProofs -------------------------
(***************************************************************************)
(* Theorems about RtcLifecycle for any number of joins, leaves, reconnects,*)
(* publishers and retries.  The groups of actions of Next are: the steps   *)
(* that connect (of a join or a reconnect), the other steps of a join, of  *)
(* a reconnect and of a leave, the start of a leave, and the rest.         *)
(***************************************************************************)
EXTENDS RtcLifecycle, FiniteSetTheorems, TLAPS

JoinStep(j) ==
    (JoinBegin(j) \/ JoinRefused(j) \/ JoinDropped(j) \/ JoinWorks(j)) /\ ~Connects(j)

ReconnectStep(r) == (TriggerRaised(r) \/ ReconnectWorks(r)) /\ ~Connects(r)

LeaveStep(l) == LeaveTears(l) \/ LeaveEnds(l)

StartStep(l) ==
    UserLeaves(l) \/ (\E e \in Enders : EndLeaves(e, l))
                  \/ (\E r \in Reconnects : ReconnectLeaves(r, l))

EndStep == \E e \in Enders : EndReported(e) \/ EndLatched(e) \/ EndChecked(e)

LEMMA NextSteps ==
  ASSUME [Next]_vars
  PROVE  \/ \E t \in Tasks : Connects(t)
         \/ \E j \in Joins : JoinStep(j)
         \/ \E r \in Reconnects : ReconnectStep(r)
         \/ \E l \in Leaves : LeaveStep(l) \/ StartStep(l)
         \/ EndStep
         \/ \E p \in Publishers : PublishBegun(p) \/ PublishEnded(p)
         \/ CoordinatorLost
         \/ UNCHANGED vars
  BY DEF Next, JoinStep, ReconnectStep, LeaveStep, StartStep, EndStep, JoinWorks,
     ReconnectWorks, Tasks

-----------------------------------------------------------------------------
(* What each group leaves alone. *)

LEMMA ConnectsFrame ==
  ASSUME NEW t \in Tasks, Connects(t)
  PROVE  /\ UNCHANGED <<state, generation, claim, session, mediaLock, tracks, publish, leave, end>>
         /\ UNCHANGED ended \/ ended' = FALSE
         /\ UNCHANGED callOwner \/ Established(t)
         /\ UNCHANGED <<slot, slotLock>> \/ InstallChecked(t) \/ Installed(t)
  <1> USE DEF Connects, CoordinatorChecked, CoordinatorStored, CoordinatorRechecked,
       Established, InstallChecked, Installed, lifecycleVars, connectionVars, callVars, mediaVars
  <1>1. UNCHANGED <<state, generation, claim, session, mediaLock, tracks, publish, leave, end>>
    OBVIOUS
  <1>2. UNCHANGED ended \/ ended' = FALSE
    BY Zenon
  <1>3. UNCHANGED callOwner \/ Established(t)
    OBVIOUS
  <1>4. UNCHANGED <<slot, slotLock>> \/ InstallChecked(t) \/ Installed(t)
    OBVIOUS
  <1> QED BY <1>1, <1>2, <1>3, <1>4

LEMMA JoinFrame ==
  ASSUME NEW j \in Joins, JoinStep(j)
  PROVE  /\ UNCHANGED <<slot, slotLock, mediaLock, tracks, publish, leave, end>>
         /\ UNCHANGED ended \/ ended' = FALSE
         /\ UNCHANGED <<callOwner, claim>> \/ JoinBegin(j)
         /\ UNCHANGED generation \/ JoinBegin(j) \/ generation' = generation + 1
  <1> USE DEF JoinStep, JoinRefused, JoinDropped, JoinWorks, JoinStoreData,
       JoinTokenLoaded, JoinTokenFailed, JoinAttempted, JoinAttemptFailed, JoinCommitted,
       JoinStopped, JoinReset, JoinCancelled, lifecycleVars, connectionVars, callVars, mediaVars
  <1>1. UNCHANGED <<slot, slotLock, mediaLock, tracks, publish, leave, end>>
    BY DEF JoinBegin
  <1>2. UNCHANGED ended \/ ended' = FALSE
    BY Zenon DEF JoinBegin, ClearCallState
  <1>3. UNCHANGED <<callOwner, claim>> \/ JoinBegin(j)
    OBVIOUS
  <1>4. UNCHANGED generation \/ JoinBegin(j) \/ generation' = generation + 1
    OBVIOUS
  <1> QED BY <1>1, <1>2, <1>3, <1>4

LEMMA ReconnectFrame ==
  ASSUME NEW r \in Reconnects, ReconnectStep(r)
  PROVE  /\ UNCHANGED <<generation, slot, slotLock, mediaLock, tracks, publish, leave, end>>
         /\ UNCHANGED ended \/ ended' = FALSE
         /\ UNCHANGED callOwner \/ FastResumed(r)
         /\ UNCHANGED claim \/ TriggerClaims(r) \/ ReconnectReleases(r)
  <1> USE DEF ReconnectStep, TriggerRaised, ReconnectWorks, TriggerReadsState, TriggerClaims,
       ReconnectStarts, RejoinBegins, Restored, FastResumed, ReconnectRetries, ReconnectCancelled,
       ReconnectFails, ReconnectGivesUp, ReconnectLeft, ReconnectFinished, ReconnectReleases,
       lifecycleVars, connectionVars, callVars, mediaVars
  <1>1. UNCHANGED <<generation, slot, slotLock, mediaLock, tracks, publish, leave, end>>
    OBVIOUS
  <1>2. UNCHANGED ended \/ ended' = FALSE
    BY Zenon
  <1>3. UNCHANGED callOwner \/ FastResumed(r)
    OBVIOUS
  <1>4. UNCHANGED claim \/ TriggerClaims(r) \/ ReconnectReleases(r)
    OBVIOUS
  <1> QED BY <1>1, <1>2, <1>3, <1>4

LEMMA LeaveFrame ==
  ASSUME NEW l \in Leaves, LeaveStep(l)
  PROVE  /\ UNCHANGED <<generation, slotLock, session, publish, task, end>>
         /\ UNCHANGED ended \/ ended' = FALSE
         /\ UNCHANGED <<callOwner, claim>> \/ LeaveClears(l)
         /\ UNCHANGED slot \/ LeaveTakes(l)
         /\ UNCHANGED <<mediaLock, tracks>> \/ LeaveLocksMedia(l) \/ LeaveStopsAll(l)
  <1> USE DEF LeaveStep, LeaveTears, LeaveEnds, LeaveTakes, LeaveLocksMedia, LeaveStopsAll,
       LeaveReturns, LeaveClears, LeaveSetsLeft, LeaveStopsCoordinator, ClearCallState,
       lifecycleVars, connectionVars, callVars, mediaVars
  <1>1. UNCHANGED <<generation, slotLock, session, publish, task, end>>
    OBVIOUS
  <1>2. UNCHANGED ended \/ ended' = FALSE
    BY Zenon
  <1>3. UNCHANGED <<callOwner, claim>> \/ LeaveClears(l)
    OBVIOUS
  <1>4. UNCHANGED slot \/ LeaveTakes(l)
    OBVIOUS
  <1>5. UNCHANGED <<mediaLock, tracks>> \/ LeaveLocksMedia(l) \/ LeaveStopsAll(l)
    OBVIOUS
  <1> QED BY <1>1, <1>2, <1>3, <1>4, <1>5

LEMMA StartFrame ==
  ASSUME NEW l \in Leaves, StartStep(l)
  PROVE  /\ \E o \in {"user", "runtime"} \cup Reconnects : LeaveStarted(l, o)
         /\ UNCHANGED <<state, connectionVars, coordinator, callVars, session, mediaVars>>
         /\ \/ UNCHANGED task
            \/ \E r \in Reconnects : task[r].at = "giveUp" /\ Goto(r, "leaving")
  BY DEF StartStep, UserLeaves, EndLeaves, ReconnectLeaves, LeaveStarted

LEMMA EndFrame ==
  ASSUME EndStep
  PROVE  /\ UNCHANGED <<lifecycleVars, connectionVars, coordinator, claim, callOwner, session,
                        mediaVars, task, leave>>
         /\ UNCHANGED ended \/ ended' = TRUE
  <1>1. UNCHANGED <<lifecycleVars, connectionVars, coordinator, claim, callOwner, session,
                    mediaVars, task, leave>>
    BY DEF EndStep, EndReported, EndLatched, EndChecked, callVars
  <1>2. UNCHANGED ended \/ ended' = TRUE
    BY Zenon DEF EndStep, EndReported, EndLatched, EndChecked, callVars
  <1> QED BY <1>1, <1>2

LEMMA GotoEffect ==
  ASSUME NEW t \in Tasks, NEW p \in Place, task \in [Tasks -> TaskRecord], Goto(t, p)
  PROVE  /\ task' \in [Tasks -> TaskRecord]
         /\ task'[t].at = p /\ task'[t].gen = task[t].gen /\ task'[t].tries = task[t].tries
         /\ \A u \in Tasks : u # t => task'[u] = task[u]
  BY DEF Goto, TaskRecord

-----------------------------------------------------------------------------
(* Type correctness. *)

\* Places of a join before its attempts are over.
Early == {"new", "begun", "token", "coordCheck", "coordStore", "coordRecheck",
          "attempt", "establish"}

\* TypeOK bounds the retries, which JoinAttemptFailed counts without a look at the bound.
TriesLeft == \A j \in Joins : task[j].at \in Early => task[j].tries < MaxJoinRetries

TypeInv == TypeOK /\ TriesLeft

\* A task goes to another place, and keeps its generation.
Moves(t) ==
    \E p \in Place \ {"new"} :
        /\ Goto(t, p)
        /\ task[t].at \notin {"failed", "idle"}
        /\ task[t].at = "new" => p = "failed"
        /\ t \in Joins /\ p \in Early => task[t].at \in Early

LEMMA MovesEffect ==
  ASSUME TypeInv, NEW t \in Tasks, Moves(t)
  PROVE  /\ task' \in [Tasks -> TaskRecord]
         /\ TriesLeft'
         /\ task'[t].at # "new"
         /\ task[t].at \notin {"failed", "idle"}
         /\ task[t].at = "new" => task'[t].at = "failed"
         /\ \A u \in Tasks : task'[u].gen = task[u].gen
         /\ \A u \in Tasks : u # t => task'[u] = task[u]
  <1>1. PICK p \in Place \ {"new"} :
            /\ Goto(t, p)
            /\ task[t].at \notin {"failed", "idle"}
            /\ task[t].at = "new" => p = "failed"
            /\ t \in Joins /\ p \in Early => task[t].at \in Early
    BY DEF Moves
  <1> QED
    BY <1>1, GotoEffect DEF TypeInv, TypeOK, TriesLeft, Tasks

LEMMA ConnectsMoves ==
  ASSUME TypeInv, NEW t \in Tasks, Connects(t)
  PROVE  Moves(t)
  BY DEF Connects, CoordinatorChecked, CoordinatorStored, CoordinatorRechecked,
     Established, InstallChecked, Installed, Failed, Moves, Place, Early

LEMMA JoinMoves ==
  ASSUME TypeInv, NEW j \in Joins, JoinStep(j)
  PROVE  Moves(j) \/ JoinBegin(j) \/ JoinAttemptFailed(j)
  BY DEF JoinStep, JoinRefused, JoinDropped, JoinWorks, JoinStoreData, JoinTokenLoaded,
     JoinTokenFailed, JoinAttempted, JoinCommitted, JoinStopped, JoinReset, JoinCancelled,
     JoinAwaits, Moves, Place, Early

LEMMA ReconnectMoves ==
  ASSUME TypeInv, NEW r \in Reconnects, ReconnectStep(r)
  PROVE  Moves(r) \/ TriggerRaised(r)
  BY TasksAssumption DEF ReconnectStep, ReconnectWorks, TriggerReadsState, TriggerClaims,
     ReconnectStarts, RejoinBegins, Restored, FastResumed, ReconnectRetries, ReconnectCancelled,
     ReconnectFails, ReconnectGivesUp, ReconnectLeft, ReconnectFinished, ReconnectReleases,
     ReconnectAwaits, Moves, Place

\* The tasks in the next state, and the retries left to each join.
LEMMA TaskType ==
  ASSUME TypeInv, [Next]_vars
  PROVE  task' \in [Tasks -> TaskRecord] /\ TriesLeft'
  <1> USE DEF TypeInv, TypeOK
  <1>1. CASE UNCHANGED task
    BY <1>1 DEF TriesLeft
  <1>2. ASSUME NEW t \in Tasks, Moves(t)
        PROVE  task' \in [Tasks -> TaskRecord] /\ TriesLeft'
    BY <1>2, MovesEffect
  <1>3. ASSUME NEW j \in Joins, JoinBegin(j)
        PROVE  task' \in [Tasks -> TaskRecord] /\ TriesLeft'
    BY <1>3, RetriesAssumption DEF JoinBegin, TaskRecord, Place, TriesLeft, Tasks
  <1>4. ASSUME NEW j \in Joins, JoinAttemptFailed(j)
        PROVE  task' \in [Tasks -> TaskRecord] /\ TriesLeft'
    <2> DEFINE n == task[j].tries + 1
    <2>1. PICK p \in {"stop", "attempt"} :
              /\ p = "attempt" => n < MaxJoinRetries
              /\ task' = [task EXCEPT ![j] = [at |-> p, gen |-> @.gen, tries |-> n]]
      BY <1>4 DEF JoinAttemptFailed
    <2>2. task[j].tries < MaxJoinRetries /\ j \in Tasks
      BY <1>4 DEF JoinAttemptFailed, TriesLeft, Early, Tasks
    <2>3. n \in 0..MaxJoinRetries /\ p \in Place /\ (p \in Early => n < MaxJoinRetries)
      BY <2>1, <2>2, RetriesAssumption DEF TaskRecord, Place, Early
    <2>4. task' = [task EXCEPT ![j] = [at |-> p, gen |-> task[j].gen, tries |-> n]]
      BY <2>1, <2>2 DEF TaskRecord
    <2> HIDE DEF n
    <2>5. task' \in [Tasks -> TaskRecord]
      BY <2>2, <2>3, <2>4 DEF TaskRecord
    <2>6. /\ task'[j].at = p /\ task'[j].tries = n
          /\ \A u \in Tasks : u # j => task'[u] = task[u]
      BY <2>2, <2>4
    <2>7. TriesLeft'
      BY <2>3, <2>6 DEF TriesLeft, Tasks
    <2> QED
      BY <2>5, <2>7
  <1>5. ASSUME NEW r \in Reconnects, TriggerRaised(r)
        PROVE  task' \in [Tasks -> TaskRecord] /\ TriesLeft'
    <2>1. task' = [task EXCEPT ![r] = [at |-> "state", gen |-> generation, tries |-> task[r].tries]]
      BY <1>5 DEF TriggerRaised, TaskRecord, Tasks
    <2>2. task' \in [Tasks -> TaskRecord]
      BY <2>1 DEF TaskRecord, Place, Tasks
    <2>3. \A j \in Joins : task'[j] = task[j]
      BY <2>1, TasksAssumption DEF Tasks
    <2> QED
      BY <2>2, <2>3 DEF TriesLeft
  <1>6. ASSUME NEW r \in Reconnects, Goto(r, "leaving")
        PROVE  task' \in [Tasks -> TaskRecord] /\ TriesLeft'
    BY <1>6, GotoEffect, TasksAssumption DEF TriesLeft, Tasks, Place
  <1> QED
    BY <1>1, <1>2, <1>3, <1>4, <1>5, <1>6, NextSteps, ConnectsMoves, JoinMoves, ReconnectMoves,
       LeaveFrame, StartFrame, EndFrame DEF PublishBegun, PublishEnded, CoordinatorLost, Tasks, vars

LEMMA LeaveType ==
  ASSUME TypeInv, [Next]_vars
  PROVE  leave' \in [Leaves -> LeaveRecord]
  <1> USE DEF TypeInv, TypeOK
  <1>1. ASSUME NEW l \in Leaves, NEW o \in {"user", "runtime"} \cup Reconnects, LeaveStarted(l, o)
        PROVE  leave' \in [Leaves -> LeaveRecord]
    BY <1>1 DEF LeaveStarted, LeaveRecord
  <1>2. ASSUME NEW l \in Leaves, LeaveStep(l)
        PROVE  leave' \in [Leaves -> LeaveRecord]
    BY <1>2 DEF LeaveStep, LeaveTears, LeaveEnds, LeaveTakes, LeaveLocksMedia, LeaveStopsAll,
       LeaveReturns, LeaveClears, LeaveSetsLeft, LeaveStopsCoordinator, LeaveRecord
  <1>3. CASE UNCHANGED leave
    BY <1>3
  <1> QED
    BY <1>1, <1>2, <1>3, NextSteps, ConnectsFrame, JoinFrame, ReconnectFrame, StartFrame, EndFrame
       DEF PublishBegun, PublishEnded, CoordinatorLost, vars

\* The type of the variables that a step sets to a value it computes.
ScalarsOK ==
    /\ state \in CallingState /\ generation \in Nat
    /\ slot \in Nat /\ slotLock \in Tasks \cup {Free}
    /\ coordinator \in Nat /\ claim \in Nat /\ callOwner \in Nat /\ session \in Nat
    /\ mediaLock \in Leaves \cup Publishers \cup {Free}
    /\ tracks \subseteq Nat
    /\ publish \in [Publishers -> [at : {"new", "negotiate", "done"}, gen : Nat]]
    /\ end \in [Enders -> [at : {"idle", "latch", "spawned", "go"}, gen : Nat]]

LEMMA ConnectsScalars ==
  ASSUME TypeInv, NEW t \in Tasks, Connects(t)
  PROVE  ScalarsOK'
  <1>1. task[t].gen \in Nat
    BY DEF TypeInv, TypeOK, TaskRecord
  <1> USE <1>1 DEF TypeInv, TypeOK, ScalarsOK, lifecycleVars, connectionVars, callVars, mediaVars
  <1>2. CASE CoordinatorChecked(t) \/ CoordinatorStored(t)
    BY <1>2 DEF CoordinatorChecked, CoordinatorStored
  <1>3. CASE CoordinatorRechecked(t)
    BY <1>3 DEF CoordinatorRechecked, None
  <1>4. CASE Established(t)
    BY <1>4 DEF Established
  <1>5. CASE InstallChecked(t) \/ Installed(t)
    BY <1>5 DEF InstallChecked, Installed
  <1> QED
    BY <1>2, <1>3, <1>4, <1>5 DEF Connects

LEMMA JoinScalars ==
  ASSUME TypeInv, NEW j \in Joins, JoinStep(j)
  PROVE  ScalarsOK'
  <1>1. task[j].gen \in Nat
    BY DEF TypeInv, TypeOK, TaskRecord, Tasks
  <1> QED
    BY <1>1 DEF TypeInv, TypeOK, ScalarsOK, JoinStep, JoinBegin, JoinRefused, JoinDropped,
       JoinWorks, JoinStoreData, JoinTokenLoaded, JoinTokenFailed, JoinAttempted,
       JoinAttemptFailed, JoinCommitted, JoinStopped, JoinReset, JoinCancelled,
       SetStateIfCurrent, ClearCallState, lifecycleVars, connectionVars, callVars, mediaVars,
       None, CallingState

LEMMA ReconnectScalars ==
  ASSUME TypeInv, NEW r \in Reconnects, ReconnectStep(r)
  PROVE  ScalarsOK'
  <1>1. task[r].gen \in Nat
    BY DEF TypeInv, TypeOK, TaskRecord, Tasks
  <1> QED
    BY <1>1 DEF TypeInv, TypeOK, ScalarsOK, ReconnectStep, TriggerRaised, ReconnectWorks,
       TriggerReadsState, TriggerClaims, ReconnectStarts, RejoinBegins, Restored, FastResumed,
       ReconnectRetries, ReconnectCancelled, ReconnectFails, ReconnectGivesUp, ReconnectLeft,
       ReconnectFinished, ReconnectReleases, SetStateIfCurrent, ReconnectSetsState,
       lifecycleVars, connectionVars, callVars, mediaVars, None, CallingState

LEMMA LeaveScalars ==
  ASSUME TypeInv, NEW l \in Leaves, LeaveStep(l) \/ StartStep(l)
  PROVE  ScalarsOK'
  <1> USE DEF TypeInv, TypeOK, ScalarsOK, lifecycleVars, connectionVars, callVars, mediaVars
  <1>1. CASE LeaveStep(l)
    BY <1>1 DEF LeaveStep, LeaveTears, LeaveEnds, LeaveTakes, LeaveLocksMedia, LeaveStopsAll,
       LeaveReturns, LeaveClears, LeaveSetsLeft, LeaveStopsCoordinator, SetStateIfCurrent,
       ClearCallState, None, CallingState
  <1>2. CASE StartStep(l)
    <2>1. end' \in [Enders -> [at : {"idle", "latch", "spawned", "go"}, gen : Nat]]
      <3>1. ASSUME NEW e \in Enders, EndLeaves(e, l)
            PROVE  end' \in [Enders -> [at : {"idle", "latch", "spawned", "go"}, gen : Nat]]
        <4>1. end' = [end EXCEPT ![e].at = "idle"]
          BY <3>1 DEF EndLeaves
        <4> QED
          BY <4>1
      <3> QED
        BY <1>2, <3>1 DEF StartStep, UserLeaves, ReconnectLeaves
    <2>2. generation' = generation + 1
      BY <1>2, StartFrame DEF LeaveStarted
    <2>3. UNCHANGED <<state, slot, slotLock, coordinator, claim, callOwner, session, mediaLock,
                      tracks, publish>>
      BY <1>2, StartFrame
    <2> QED
      BY <2>1, <2>2, <2>3
  <1> QED
    BY <1>1, <1>2

LEMMA OtherScalars ==
  ASSUME TypeInv,
         EndStep \/ CoordinatorLost \/ \E p \in Publishers : PublishBegun(p) \/ PublishEnded(p)
  PROVE  ScalarsOK'
  <1>1. \A p \in Publishers : publish[p].gen \in Nat
    BY DEF TypeInv, TypeOK
  <1> QED
    BY <1>1 DEF TypeInv, TypeOK, ScalarsOK, EndStep, EndReported, EndLatched, EndChecked,
       PublishBegun, PublishEnded, CoordinatorLost, lifecycleVars, connectionVars, callVars,
       mediaVars, None

LEMMA TypeInit == Init => TypeInv
  <1> SUFFICES ASSUME Init PROVE TypeInv
    OBVIOUS
  <1>1. task \in [Tasks -> TaskRecord]
    BY RetriesAssumption DEF Init, None, TaskRecord, Place
  <1>2. leave \in [Leaves -> LeaveRecord]
    BY DEF Init, None, LeaveRecord
  <1>3. TriesLeft
    BY RetriesAssumption DEF Init, TriesLeft, Tasks
  <1> QED
    BY <1>1, <1>2, <1>3 DEF Init, TypeInv, TypeOK, CallingState, None

LEMMA TypeNext == TypeInv /\ [Next]_vars => TypeInv'
  <1> SUFFICES ASSUME TypeInv, [Next]_vars PROVE TypeInv'
    OBVIOUS
  <1>1. ScalarsOK'
    <2>1. CASE UNCHANGED vars
      BY <2>1 DEF TypeInv, TypeOK, ScalarsOK, vars, lifecycleVars, connectionVars, callVars,
         mediaVars
    <2> QED
      BY <2>1, NextSteps, ConnectsScalars, JoinScalars, ReconnectScalars, LeaveScalars, OtherScalars
  <1>2. ended' \in BOOLEAN
    <2>1. UNCHANGED ended \/ ended' = FALSE \/ ended' = TRUE
      <3>1. ASSUME NEW p \in Publishers, PublishBegun(p) \/ PublishEnded(p) PROVE UNCHANGED ended
        BY <3>1, Zenon DEF PublishBegun, PublishEnded, callVars
      <3>2. ASSUME CoordinatorLost \/ UNCHANGED vars PROVE UNCHANGED ended
        BY <3>2, Zenon DEF CoordinatorLost, vars, callVars
      <3>3. ASSUME NEW l \in Leaves, StartStep(l) PROVE UNCHANGED ended
        BY <3>3, StartFrame, Zenon DEF callVars
      <3> QED
        BY <3>1, <3>2, <3>3, NextSteps, ConnectsFrame, JoinFrame, ReconnectFrame, LeaveFrame,
           EndFrame, Zenon
    <2> QED
      BY <2>1, Zenon DEF TypeInv, TypeOK
  <1> QED
    BY <1>1, <1>2, TaskType, LeaveType DEF TypeInv, TypeOK, ScalarsOK

\* Every variable has its type; a join never uses more attempts than max_join_retries.
THEOREM TypeCorrect == Spec => []TypeOK
  <1>1. TypeInv => TypeOK
    BY DEF TypeInv
  <1> QED
    BY <1>1, TypeInit, TypeNext, PTL DEF Spec

\* The same with the bound on the retries, for the proofs below.
THEOREM TypeInvariant == Spec => []TypeInv
  BY TypeInit, TypeNext, PTL DEF Spec

-----------------------------------------------------------------------------
(* Generations: the numbers that joins own, and those that only leaves own. *)

\* None and the generations of the joins.
JoinGens == {None} \cup {task[j].gen : j \in Joins}

Started(l) == leave[l].caller # "new" \/ leave[l].work # "new"

\* Every stored generation is that of a join; the generation of a leave is not.
\* Only joins and reconnects that have not begun have no generation.
GenInv ==
    /\ \A g \in JoinGens : g <= generation
    /\ \A r \in Reconnects : task[r].gen \in JoinGens
    /\ slot \in JoinGens /\ callOwner \in JoinGens /\ tracks \subseteq JoinGens
    /\ \A p \in Publishers : publish[p].gen \in JoinGens
    /\ \A j \in Joins : task[j].at = "new" => task[j].gen = None
    /\ \A l \in Leaves : leave[l].gen <= generation
    /\ \A l \in Leaves : Started(l) => leave[l].gen \notin JoinGens
    /\ \A j \in Joins : task[j].at \notin {"new", "failed"} => task[j].gen # None
    /\ \A r \in Reconnects : task[r].at # "idle" => task[r].gen # None

LEMMA GenInit == Init => GenInv
  BY TasksAssumption DEF Init, GenInv, JoinGens, Started, Tasks, None

\* A join keeps its generation; only begin_join gives it one.
LEMMA JoinsKeepGen ==
  ASSUME TypeInv, [Next]_vars
  PROVE  (\A j \in Joins : task'[j].gen = task[j].gen) \/ (\E j \in Joins : JoinBegin(j))
  <1> DEFINE Same == \A j \in Joins : task'[j].gen = task[j].gen
  <1>1. ASSUME NEW t \in Tasks, Moves(t) PROVE Same
    BY <1>1, MovesEffect DEF Tasks
  <1>2. ASSUME NEW j \in Joins, JoinAttemptFailed(j) PROVE Same
    BY <1>2 DEF JoinAttemptFailed, TypeInv, TypeOK, Tasks
  <1>3. ASSUME NEW r \in Reconnects, TriggerRaised(r) PROVE Same
    BY <1>3, TasksAssumption DEF TriggerRaised, TypeInv, TypeOK, Tasks
  <1>4. ASSUME NEW r \in Reconnects, Goto(r, "leaving") PROVE Same
    BY <1>4, GotoEffect DEF TypeInv, TypeOK, Tasks, Place
  <1>5. ASSUME UNCHANGED task PROVE Same
    BY <1>5
  <1> HIDE DEF Same
  <1>6. Same \/ \E j \in Joins : JoinBegin(j)
    BY <1>1, <1>2, <1>3, <1>4, <1>5, NextSteps, ConnectsMoves, JoinMoves, ReconnectMoves,
       LeaveFrame, StartFrame, EndFrame
       DEF CoordinatorLost, PublishBegun, PublishEnded, vars, Tasks
  <1> QED
    BY <1>6 DEF Same

\* The generation grows by one, or stays.
LEMMA GenerationSteps ==
  ASSUME [Next]_vars
  PROVE  generation' = generation \/ generation' = generation + 1
  <1>1. ASSUME NEW j \in Joins, JoinBegin(j) PROVE generation' = generation + 1
    BY <1>1 DEF JoinBegin
  <1> QED
    BY <1>1, NextSteps, ConnectsFrame, JoinFrame, ReconnectFrame, LeaveFrame, StartFrame, EndFrame
       DEF LeaveStarted, CoordinatorLost, PublishBegun, PublishEnded, vars, lifecycleVars

\* Only begin_join makes a new generation of a join, the next one.
LEMMA JoinGensGrow ==
  ASSUME TypeInv, GenInv, [Next]_vars
  PROVE  \/ JoinGens' = JoinGens /\ (generation' = generation \/ generation' = generation + 1)
         \/ /\ JoinGens' = JoinGens \cup {generation + 1}
            /\ generation' = generation + 1
            /\ \E j \in Joins : JoinBegin(j)
  <1>1. ASSUME \A j \in Joins : task'[j].gen = task[j].gen PROVE JoinGens' = JoinGens
    BY <1>1 DEF JoinGens
  <1>2. ASSUME NEW j \in Joins, JoinBegin(j)
        PROVE  JoinGens' = JoinGens \cup {generation + 1} /\ generation' = generation + 1
    <2>1. /\ task'[j].gen = generation + 1
          /\ \A i \in Joins : i # j => task'[i] = task[i]
      BY <1>2 DEF JoinBegin, TypeInv, TypeOK, Tasks
    <2>2. task[j].gen = None
      BY <1>2 DEF JoinBegin, GenInv
    <2> QED
      BY <1>2, <2>1, <2>2 DEF JoinBegin, JoinGens
  <1> QED
    BY <1>1, <1>2, JoinsKeepGen, GenerationSteps

LEMMA GenNext == TypeInv /\ GenInv /\ [Next]_vars => GenInv'
  <1> SUFFICES ASSUME TypeInv, GenInv, [Next]_vars PROVE GenInv'
    OBVIOUS
  <1>1. /\ generation \in Nat /\ JoinGens \subseteq Nat
        /\ generation' \in Nat /\ generation <= generation' /\ JoinGens \subseteq JoinGens'
        /\ \A g \in JoinGens' : g <= generation'
        /\ \A g \in JoinGens' : g \in JoinGens \/ g = generation + 1
    <2>1. generation \in Nat /\ JoinGens \subseteq Nat
      BY DEF TypeInv, TypeOK, JoinGens, TaskRecord, Tasks, None
    <2>2. \A g \in JoinGens : g <= generation
      BY DEF GenInv
    <2>3. CASE JoinGens' = JoinGens /\ (generation' = generation \/ generation' = generation + 1)
      BY <2>1, <2>2, <2>3
    <2>4. CASE JoinGens' = JoinGens \cup {generation + 1} /\ generation' = generation + 1
      BY <2>1, <2>2, <2>4
    <2> QED
      BY <2>3, <2>4, JoinGensGrow
  <1>2. \A t \in Tasks : task[t].gen \in JoinGens
    BY DEF GenInv, JoinGens, Tasks
  <1>3. \A r \in Reconnects : task'[r].gen \in JoinGens'
    <2>1. ASSUME NEW t \in Tasks, Moves(t) PROVE \A u \in Tasks : task'[u].gen \in JoinGens
      BY <1>2, <2>1, MovesEffect
    <2>2. ASSUME NEW j \in Joins, JoinBegin(j) \/ JoinAttemptFailed(j)
          PROVE  \A r \in Reconnects : task'[r].gen = task[r].gen
      BY <2>2, TasksAssumption DEF JoinBegin, JoinAttemptFailed, TypeInv, TypeOK, Tasks
    <2>3. ASSUME NEW q \in Reconnects, TriggerRaised(q)
          PROVE  \A r \in Reconnects : task'[r].gen \in JoinGens
      <3>1. generation \in JoinGens
        BY <2>3 DEF TriggerRaised, HasTasks, JoinGens
      <3> QED
        BY <1>2, <2>3, <3>1 DEF TriggerRaised, TypeInv, TypeOK, Tasks
    <2>4. ASSUME NEW r \in Reconnects, Goto(r, "leaving")
          PROVE  \A u \in Tasks : task'[u].gen = task[u].gen
      BY <2>4, GotoEffect DEF TypeInv, TypeOK, Tasks, Place
    <2>5. CASE UNCHANGED task
      BY <1>1, <1>2, <2>5 DEF Tasks
    <2> QED
      BY <1>1, <1>2, <2>1, <2>2, <2>3, <2>4, <2>5, NextSteps, ConnectsMoves, JoinMoves,
         ReconnectMoves, LeaveFrame, StartFrame, EndFrame
         DEF CoordinatorLost, PublishBegun, PublishEnded, vars, Tasks
  <1>4. slot' \in JoinGens
    <2>1. ASSUME NEW t \in Tasks, InstallChecked(t) \/ Installed(t) PROVE slot' \in JoinGens
      BY <1>2, <2>1 DEF InstallChecked, Installed, GenInv
    <2>2. ASSUME NEW l \in Leaves, LeaveTakes(l) PROVE slot' \in JoinGens
      BY <2>2 DEF LeaveTakes, GenInv, JoinGens
    <2>3. CASE UNCHANGED slot
      BY <2>3 DEF GenInv
    <2> QED
      BY <2>1, <2>2, <2>3, NextSteps, ConnectsFrame, JoinFrame, ReconnectFrame, LeaveFrame,
         StartFrame, EndFrame
         DEF CoordinatorLost, PublishBegun, PublishEnded, vars, connectionVars
  <1>5. callOwner' \in JoinGens
    <2>1. ASSUME NEW t \in Tasks, Established(t) \/ FastResumed(t) PROVE callOwner' \in JoinGens
      BY <1>2, <2>1 DEF Established, FastResumed, GenInv
    <2>2. ASSUME \/ \E j \in Joins : JoinBegin(j)
                 \/ \E l \in Leaves : LeaveClears(l)
          PROVE  callOwner' \in JoinGens
      BY <2>2 DEF JoinBegin, LeaveClears, ClearCallState, callVars, GenInv, JoinGens
    <2>3. CASE UNCHANGED callOwner
      BY <2>3 DEF GenInv
    <2> QED
      BY <2>1, <2>2, <2>3, NextSteps, ConnectsFrame, JoinFrame, ReconnectFrame, LeaveFrame,
         StartFrame, EndFrame
         DEF CoordinatorLost, PublishBegun, PublishEnded, vars, callVars, Tasks
  <1>6. tracks' \subseteq JoinGens /\ \A p \in Publishers : publish'[p].gen \in JoinGens
    <2>1. ASSUME NEW p \in Publishers, PublishBegun(p) \/ PublishEnded(p)
          PROVE  tracks' \subseteq JoinGens /\ \A q \in Publishers : publish'[q].gen \in JoinGens
      BY <2>1 DEF PublishBegun, PublishEnded, GenInv, TypeInv, TypeOK
    <2>2. ASSUME NEW l \in Leaves, LeaveLocksMedia(l) \/ LeaveStopsAll(l)
          PROVE  tracks' \subseteq JoinGens
      BY <2>2 DEF LeaveLocksMedia, LeaveStopsAll, GenInv
    <2>3. CASE UNCHANGED <<tracks, publish>>
      BY <2>3 DEF GenInv
    <2>4. ASSUME UNCHANGED publish PROVE \A q \in Publishers : publish'[q].gen \in JoinGens
      BY <2>4 DEF GenInv
    <2>5. CASE \E l \in Leaves : LeaveStep(l)
      BY <2>2, <2>3, <2>4, <2>5, LeaveFrame
    <2> QED
      BY <2>1, <2>3, <2>5, NextSteps, ConnectsFrame, JoinFrame, ReconnectFrame,
         StartFrame, EndFrame
         DEF CoordinatorLost, vars, mediaVars
  <1>7. \A j \in Joins : task'[j].at = "new" => task'[j].gen = None
    <2>1. ASSUME NEW t \in Tasks, Moves(t)
          PROVE \A j \in Joins : task'[j].at = "new" => task'[j].gen = None
      BY <2>1, MovesEffect DEF GenInv, Tasks
    <2>2. ASSUME NEW j \in Joins, JoinBegin(j) \/ JoinAttemptFailed(j)
          PROVE  \A i \in Joins : task'[i].at = "new" => task'[i].gen = None
      BY <2>2 DEF JoinBegin, JoinAttemptFailed, TypeInv, TypeOK, GenInv, Tasks
    <2>3. ASSUME NEW q \in Reconnects, TriggerRaised(q) \/ Goto(q, "leaving")
          PROVE  \A j \in Joins : task'[j] = task[j]
      BY <2>3, TasksAssumption DEF TriggerRaised, Goto, TypeInv, TypeOK, Tasks
    <2>4. CASE UNCHANGED task
      BY <2>4 DEF GenInv
    <2> QED
      BY <2>1, <2>2, <2>3, <2>4, NextSteps, ConnectsMoves, JoinMoves,
         ReconnectMoves, LeaveFrame, StartFrame, EndFrame
         DEF CoordinatorLost, PublishBegun, PublishEnded, vars, Tasks, GenInv
  <1>8. /\ \A l \in Leaves : leave'[l].gen <= generation'
        /\ \A l \in Leaves : Started(l)' => leave'[l].gen \notin JoinGens'
    <2>1. ASSUME NEW l \in Leaves, StartStep(l)
          PROVE  /\ \A k \in Leaves : leave'[k].gen <= generation'
                 /\ \A k \in Leaves : Started(k)' => leave'[k].gen \notin JoinGens'
      <3>1. PICK o : LeaveStarted(l, o)
        BY <2>1, StartFrame
      <3>2. /\ leave'[l].gen = generation + 1 /\ generation' = generation + 1
            /\ \A k \in Leaves : k # l => leave'[k] = leave[k]
        BY <3>1 DEF LeaveStarted, TypeInv, TypeOK
      <3>3. JoinGens' = JoinGens
        <4>1. \A j \in Joins : task'[j].gen = task[j].gen
          BY <2>1, StartFrame, GotoEffect DEF TypeInv, TypeOK, Tasks, Place
        <4> QED
          BY <4>1 DEF JoinGens
      <3>4. \A k \in Leaves : leave[k].gen \in Nat
        BY DEF TypeInv, TypeOK, LeaveRecord
      <3> QED
        BY <1>1, <3>2, <3>3, <3>4 DEF GenInv, Started
    <2>2. ASSUME NEW l \in Leaves, LeaveStep(l)
          PROVE  \A k \in Leaves : leave'[k].gen = leave[k].gen /\ (Started(k)' => Started(k))
      <3>1. Started(l) /\ \A k \in Leaves : k # l => leave'[k] = leave[k]
        BY <2>2 DEF LeaveStep, LeaveTears, LeaveEnds, LeaveTakes, LeaveLocksMedia, LeaveStopsAll,
           LeaveReturns, LeaveClears, LeaveSetsLeft, LeaveStopsCoordinator, TypeInv, TypeOK, Started
      <3>2. leave'[l].gen = leave[l].gen
        BY <2>2 DEF LeaveStep, LeaveTears, LeaveEnds, LeaveTakes, LeaveLocksMedia, LeaveStopsAll,
           LeaveReturns, LeaveClears, LeaveSetsLeft, LeaveStopsCoordinator, TypeInv, TypeOK,
           LeaveRecord
      <3> QED
        BY <3>1, <3>2 DEF Started
    <2>3. ASSUME \A k \in Leaves : leave'[k].gen = leave[k].gen /\ (Started(k)' => Started(k))
          PROVE  /\ \A k \in Leaves : leave'[k].gen <= generation'
                 /\ \A k \in Leaves : Started(k)' => leave'[k].gen \notin JoinGens'
      <3>1. \A k \in Leaves : leave[k].gen \in Nat /\ leave[k].gen <= generation
        BY DEF TypeInv, TypeOK, LeaveRecord, GenInv
      <3> QED
        BY <1>1, <2>3, <3>1 DEF GenInv
    <2> QED
      BY <2>1, <2>2, <2>3, NextSteps, ConnectsFrame, JoinFrame, ReconnectFrame, EndFrame
         DEF CoordinatorLost, PublishBegun, PublishEnded, vars, Started
  <1>9. /\ \A j \in Joins : task'[j].at \notin {"new", "failed"} => task'[j].gen # None
        /\ \A r \in Reconnects : task'[r].at # "idle" => task'[r].gen # None
    <2> DEFINE Begun == /\ \A j \in Joins : task[j].at \notin {"new", "failed"} => task[j].gen # None
                        /\ \A r \in Reconnects : task[r].at # "idle" => task[r].gen # None
    <2>1. Begun
      BY DEF GenInv
    <2>2. ASSUME NEW t \in Tasks, Moves(t) PROVE Begun'
      BY <2>1, <2>2, MovesEffect, TasksAssumption DEF Tasks
    <2>3. ASSUME NEW j \in Joins, JoinBegin(j) PROVE Begun'
      <3>1. /\ task'[j].gen = generation + 1 /\ generation + 1 # None
            /\ \A t \in Tasks : t # j => task'[t] = task[t]
        BY <1>1, <2>3 DEF JoinBegin, TypeInv, TypeOK, Tasks, None
      <3> QED
        BY <2>1, <3>1, TasksAssumption DEF Tasks
    <2>4. ASSUME NEW j \in Joins, JoinAttemptFailed(j) PROVE Begun'
      BY <2>1, <2>4 DEF JoinAttemptFailed, TypeInv, TypeOK, Tasks
    <2>5. ASSUME NEW q \in Reconnects, TriggerRaised(q) PROVE Begun'
      <3>1. generation # None
        BY <2>1, <2>5 DEF TriggerRaised, HasTasks
      <3>2. task'[q].gen = generation /\ \A t \in Tasks : t # q => task'[t] = task[t]
        BY <2>5 DEF TriggerRaised, TypeInv, TypeOK, Tasks
      <3> QED
        BY <2>1, <3>1, <3>2, TasksAssumption DEF Tasks
    <2>6. ASSUME NEW r \in Reconnects, task[r].at = "giveUp", Goto(r, "leaving") PROVE Begun'
      BY <2>1, <2>6, GotoEffect, TasksAssumption DEF TypeInv, TypeOK, Tasks, Place
    <2>7. ASSUME UNCHANGED task PROVE Begun'
      BY <2>1, <2>7
    <2> HIDE DEF Begun
    <2>8. Begun'
      BY <2>2, <2>3, <2>4, <2>5, <2>6, <2>7, NextSteps, ConnectsMoves, JoinMoves,
         ReconnectMoves, LeaveFrame, StartFrame, EndFrame
         DEF CoordinatorLost, PublishBegun, PublishEnded, vars, Tasks
    <2> QED
      BY <2>8 DEF Begun
  <1> QED
    BY <1>1, <1>3, <1>4, <1>5, <1>6, <1>7, <1>8, <1>9 DEF GenInv

-----------------------------------------------------------------------------
(* The connection slot. *)

\* The task at "replace" is the holder of the connection lock, and its
\* generation is later than that of every leave that has emptied the slot.
SlotInv ==
    /\ \A t \in Tasks : task[t].at = "replace" <=> slotLock = t
    /\ \A t \in Tasks, l \in Leaves :
           task[t].at = "replace" /\ TornDown(l) => leave[l].gen < task[t].gen
    /\ SlotRespectsLeave

LEMMA SlotInit == Init => SlotInv
  BY FreeAssumption DEF Init, SlotInv, SlotRespectsLeave, TornDown, Tasks

\* Only InstallChecked and Installed take a task to and from "replace".
LEMMA ReplaceFrame ==
  ASSUME TypeInv, [Next]_vars, ~ \E t \in Tasks : InstallChecked(t) \/ Installed(t)
  PROVE  /\ UNCHANGED slotLock
         /\ \A u \in Tasks : /\ task'[u].at = "replace" <=> task[u].at = "replace"
                             /\ task[u].at = "replace" => task'[u].gen = task[u].gen
  <1> DEFINE Same == \A u \in Tasks : /\ task'[u].at = "replace" <=> task[u].at = "replace"
                                      /\ task[u].at = "replace" => task'[u].gen = task[u].gen
  <1>1. ASSUME NEW t \in Tasks, NEW p \in Place \ {"replace"}, Goto(t, p), task[t].at # "replace"
        PROVE  Same
    BY <1>1, GotoEffect DEF TypeInv, TypeOK
  <1>2. ASSUME NEW t \in Tasks, Connects(t) PROVE Same /\ UNCHANGED slotLock
    <2>1. \E p \in Place \ {"replace"} : Goto(t, p) /\ task[t].at # "replace"
      BY <1>2 DEF Connects, CoordinatorChecked, CoordinatorStored, CoordinatorRechecked,
         Established, Failed, Place
    <2> QED
      BY <1>1, <1>2, <2>1, ConnectsFrame
  <1>3. ASSUME NEW j \in Joins, JoinStep(j) PROVE Same /\ UNCHANGED slotLock
    <2>1. CASE JoinBegin(j)
      BY <2>1 DEF JoinBegin, TypeInv, TypeOK, Tasks, connectionVars
    <2>2. CASE JoinAttemptFailed(j)
      BY <2>2 DEF JoinAttemptFailed, TypeInv, TypeOK, Tasks, connectionVars
    <2>3. ASSUME ~JoinBegin(j), ~JoinAttemptFailed(j)
          PROVE  \E p \in Place \ {"replace"} : Goto(j, p) /\ task[j].at # "replace"
      BY <1>3, <2>3 DEF JoinStep, JoinRefused, JoinDropped, JoinWorks, JoinStoreData,
         JoinTokenLoaded, JoinTokenFailed, JoinAttempted, JoinCommitted, JoinStopped, JoinReset,
         JoinCancelled, JoinAwaits, Place
    <2> QED
      BY <1>1, <1>3, <2>1, <2>2, <2>3, JoinFrame DEF Tasks
  <1>4. ASSUME NEW r \in Reconnects, ReconnectStep(r) PROVE Same /\ UNCHANGED slotLock
    <2>1. CASE TriggerRaised(r)
      BY <2>1 DEF TriggerRaised, TypeInv, TypeOK, Tasks, connectionVars
    <2>2. ASSUME ~TriggerRaised(r)
          PROVE  \E p \in Place \ {"replace"} : Goto(r, p) /\ task[r].at # "replace"
      BY <1>4, <2>2 DEF ReconnectStep, ReconnectWorks, TriggerReadsState, TriggerClaims,
         ReconnectStarts, RejoinBegins, Restored, FastResumed, ReconnectRetries,
         ReconnectCancelled, ReconnectFails, ReconnectGivesUp, ReconnectLeft, ReconnectFinished,
         ReconnectReleases, ReconnectAwaits, Place
    <2> QED
      BY <1>1, <1>4, <2>1, <2>2, ReconnectFrame DEF Tasks
  <1>5. ASSUME NEW l \in Leaves, LeaveStep(l) \/ StartStep(l) PROVE Same /\ UNCHANGED slotLock
    <2>1. ASSUME NEW r \in Reconnects, task[r].at = "giveUp", Goto(r, "leaving") PROVE Same
      BY <1>1, <2>1 DEF Tasks, Place
    <2> QED
      BY <1>5, <2>1, LeaveFrame, StartFrame DEF connectionVars
  <1>6. ASSUME \/ EndStep \/ CoordinatorLost \/ UNCHANGED vars
               \/ \E p \in Publishers : PublishBegun(p) \/ PublishEnded(p)
        PROVE  Same /\ UNCHANGED slotLock
    BY <1>6, EndFrame DEF CoordinatorLost, PublishBegun, PublishEnded, vars, connectionVars
  <1> HIDE DEF Same
  <1>7. Same /\ UNCHANGED slotLock
    BY <1>2, <1>3, <1>4, <1>5, <1>6, NextSteps
  <1> QED
    BY <1>7 DEF Same

\* Leaves other than one that takes the connection tear nothing more down.
LEMMA TornDownFrame ==
  ASSUME TypeInv, [Next]_vars, ~ \E l \in Leaves : LeaveTakes(l)
  PROVE  \A l \in Leaves : TornDown(l)' => TornDown(l) /\ leave'[l].gen = leave[l].gen
  <1>1. ASSUME NEW l \in Leaves, LeaveStep(l)
        PROVE  \A k \in Leaves : TornDown(k)' => TornDown(k) /\ leave'[k].gen = leave[k].gen
    <2> USE DEF TypeInv, TypeOK, LeaveRecord, TornDown
    <2>1. CASE LeaveLocksMedia(l) \/ LeaveStopsAll(l)
      BY <2>1 DEF LeaveLocksMedia, LeaveStopsAll
    <2>2. CASE LeaveEnds(l)
      <3>1. PICK c : leave' = [leave EXCEPT ![l].caller = c]
        BY <2>2 DEF LeaveEnds, LeaveReturns, LeaveClears, LeaveSetsLeft, LeaveStopsCoordinator
      <3> QED
        BY <3>1
    <2> QED
      BY <1>1, <2>1, <2>2 DEF LeaveStep, LeaveTears
  <1>2. ASSUME NEW l \in Leaves, StartStep(l)
        PROVE  \A k \in Leaves : TornDown(k)' => TornDown(k) /\ leave'[k].gen = leave[k].gen
    BY <1>2, StartFrame DEF LeaveStarted, TypeInv, TypeOK, TornDown
  <1>3. CASE UNCHANGED leave
    BY <1>3 DEF TornDown
  <1> QED
    BY <1>1, <1>2, <1>3, NextSteps, ConnectsFrame, JoinFrame, ReconnectFrame, EndFrame
       DEF CoordinatorLost, PublishBegun, PublishEnded, vars

LEMMA SlotNext == TypeInv /\ GenInv /\ SlotInv /\ [Next]_vars => SlotInv'
  <1> SUFFICES ASSUME TypeInv, GenInv, SlotInv, [Next]_vars PROVE SlotInv'
    OBVIOUS
  <1>1. /\ \A t \in Tasks : task[t].gen \in JoinGens /\ task[t].gen \in Nat
        /\ \A l \in Leaves : leave[l].gen \in Nat
        /\ slot \in Nat /\ generation \in Nat
    BY DEF GenInv, JoinGens, Tasks, TypeInv, TypeOK, TaskRecord, LeaveRecord
  <1>2. \A l \in Leaves : TornDown(l) => leave[l].gen <= generation /\ leave[l].gen \notin JoinGens
    BY DEF TornDown, GenInv, Started
  <1>3. \A t \in Tasks : t # Free
    BY FreeAssumption DEF Tasks
  <1>4. CASE \E t \in Tasks : InstallChecked(t)
    <2>1. PICK t \in Tasks : InstallChecked(t)
      BY <1>4
    <2>2. UNCHANGED <<slot, leave>>
      BY <2>1 DEF InstallChecked
    <2>3. CASE IsCurrent(task[t].gen)
      <3>1. /\ slotLock = Free /\ slotLock' = t
            /\ task'[t].at = "replace" /\ task'[t].gen = generation
            /\ \A u \in Tasks : u # t => task'[u] = task[u]
        BY <2>1, <2>3, GotoEffect DEF InstallChecked, IsCurrent, TypeInv, TypeOK, Place
      <3> QED
        BY <1>1, <1>2, <1>3, <2>2, <2>3, <3>1 DEF SlotInv, SlotRespectsLeave, TornDown, IsCurrent
    <2>4. CASE ~IsCurrent(task[t].gen)
      <3>1. /\ UNCHANGED slotLock /\ task[t].at = "install"
            /\ task'[t].at # "replace"
            /\ \A u \in Tasks : u # t => task'[u] = task[u]
        BY <2>1, <2>4, GotoEffect DEF InstallChecked, IsCurrent, Failed, TypeInv, TypeOK, Place
      <3> QED
        BY <2>2, <3>1 DEF SlotInv, SlotRespectsLeave, TornDown
    <2> QED
      BY <2>3, <2>4
  <1>5. CASE \E t \in Tasks : Installed(t)
    <2>1. PICK t \in Tasks : Installed(t)
      BY <1>5
    <2>2. /\ task[t].at = "replace" /\ slot' = task[t].gen /\ slotLock' = Free /\ UNCHANGED leave
          /\ task'[t].at # "replace"
          /\ \A u \in Tasks : u # t => task'[u] = task[u]
      BY <2>1, GotoEffect DEF Installed, TypeInv, TypeOK, Place
    <2> QED
      BY <1>1, <1>3, <2>2 DEF SlotInv, SlotRespectsLeave, TornDown
  <1>6. CASE \E l \in Leaves : LeaveTakes(l)
    <2>1. PICK l \in Leaves : LeaveTakes(l)
      BY <1>6
    <2>2. /\ slotLock = Free /\ UNCHANGED <<slotLock, task>>
          /\ slot' = IF slot < leave[l].gen THEN None ELSE slot
          /\ leave'[l].gen = leave[l].gen
          /\ \A k \in Leaves : k # l => leave'[k] = leave[k]
          /\ leave[l].work # "new"
      BY <2>1 DEF LeaveTakes, TypeInv, TypeOK, LeaveRecord
    <2>3. slot # leave[l].gen
      BY <2>2 DEF GenInv, Started
    <2> QED
      BY <1>1, <1>3, <2>2, <2>3 DEF SlotInv, SlotRespectsLeave, TornDown, None
  <1>7. CASE ~ \E t \in Tasks : InstallChecked(t) \/ Installed(t)
    <2>1. CASE ~ \E l \in Leaves : LeaveTakes(l)
      <3>1. UNCHANGED slot
        BY <1>7, <2>1, NextSteps, ConnectsFrame, JoinFrame, ReconnectFrame, LeaveFrame,
           StartFrame, EndFrame
           DEF CoordinatorLost, PublishBegun, PublishEnded, vars, connectionVars
      <3> QED
        BY <1>7, <2>1, <3>1, ReplaceFrame, TornDownFrame DEF SlotInv, SlotRespectsLeave
    <2> QED
      BY <1>6, <2>1
  <1> QED
    BY <1>4, <1>5, <1>7

\* Once a leave has emptied the slot, no connection of an earlier join is there.
THEOREM LeaveEmptiesSlot == Spec => []SlotRespectsLeave
  <1>1. SlotInv => SlotRespectsLeave
    BY DEF SlotInv
  <1> QED
    BY <1>1, TypeInit, TypeNext, GenInit, GenNext, SlotInit, SlotNext, PTL DEF Spec

-----------------------------------------------------------------------------
(* The call state: the cache of the participants and of the call. *)

\* No join or reconnect that began before the latest join fills the call state.
THEOREM CallStateIsOfLatestJoin == Spec => []CallStateOfLatestJoin
  <1>1. Init => CallStateOfLatestJoin
    BY DEF Init, CallStateOfLatestJoin
  <1>2. TypeInv /\ GenInv /\ CallStateOfLatestJoin /\ [Next]_vars => CallStateOfLatestJoin'
    <2> SUFFICES ASSUME TypeInv, GenInv, CallStateOfLatestJoin, [Next]_vars
                 PROVE  CallStateOfLatestJoin'
      OBVIOUS
    <2>1. /\ generation \in Nat /\ callOwner \in Nat
          /\ \A g \in JoinGens : g \in Nat /\ g <= generation
          /\ \A j \in Joins : task[j].gen \in JoinGens
      BY DEF TypeInv, TypeOK, GenInv, JoinGens, TaskRecord, Tasks, None
    <2>2. CASE callOwner' = None
      BY <2>2 DEF CallStateOfLatestJoin
    <2>3. ASSUME \A j \in Joins : task'[j].gen \in JoinGens,
                 callOwner' = generation
          PROVE  CallStateOfLatestJoin'
      BY <2>1, <2>3 DEF CallStateOfLatestJoin
    <2>4. ASSUME NEW t \in Tasks, Established(t) \/ FastResumed(t), callOwner' # callOwner
          PROVE  CallStateOfLatestJoin'
      <3>1. callOwner' = generation
        BY <2>4 DEF Established, FastResumed, IsCurrent
      <3>2. \A j \in Joins : task'[j].gen = task[j].gen
        BY <2>4, GotoEffect DEF Established, FastResumed, Failed, Place, TypeInv, TypeOK, Tasks
      <3> QED
        BY <2>1, <2>3, <3>1, <3>2
    <2>5. ASSUME UNCHANGED callOwner, ~ \E j \in Joins : JoinBegin(j)
          PROVE  CallStateOfLatestJoin'
      <3>1. \A j \in Joins : task'[j].gen = task[j].gen
        BY <2>5, JoinsKeepGen
      <3> QED
        BY <2>5, <3>1 DEF CallStateOfLatestJoin
    <2>6. ASSUME NEW j \in Joins, JoinBegin(j) PROVE callOwner' = None
      BY <2>6 DEF JoinBegin, ClearCallState
    <2>7. ASSUME NEW l \in Leaves, LeaveClears(l), ~UNCHANGED callOwner PROVE callOwner' = None
      BY <2>7 DEF LeaveClears, ClearCallState, callVars
    <2>8. UNCHANGED callOwner \/ callOwner' = None
          \/ \E t \in Tasks : Established(t) \/ FastResumed(t)
      BY <2>6, <2>7, NextSteps, ConnectsFrame, JoinFrame, ReconnectFrame, LeaveFrame, StartFrame,
         EndFrame DEF CoordinatorLost, PublishBegun, PublishEnded, vars, callVars, Tasks
    <2> QED
      BY <2>2, <2>4, <2>5, <2>6, <2>8
  <1> QED
    BY <1>1, <1>2, TypeInit, TypeNext, GenInit, GenNext, PTL DEF Spec

-----------------------------------------------------------------------------
(* The reconnect claim. *)

ClaimInv == ClaimIsHeld /\ OneReconnectPerGeneration

LEMMA ClaimInit == Init => ClaimInv
  BY TasksAssumption
     DEF Init, ClaimInv, ClaimIsHeld, OneReconnectPerGeneration, Running, ReconnectRuns, Tasks

\* The same reconnects run as before, for the same generations.
SameRunning ==
    \A r \in Reconnects : /\ Running(r)' <=> Running(r)
                          /\ Running(r) => task'[r].gen = task[r].gen

LEMMA RunningFrame ==
  ASSUME TypeInv, [Next]_vars,
         ~ \E r \in Reconnects : TriggerClaims(r) \/ ReconnectReleases(r)
  PROVE  SameRunning
  <1>1. ASSUME NEW t \in Tasks, NEW p \in Place, Goto(t, p),
               t \in Reconnects => (p \in ReconnectRuns <=> task[t].at \in ReconnectRuns)
        PROVE  SameRunning
    BY <1>1, GotoEffect DEF SameRunning, Running, TypeInv, TypeOK, Tasks
  <1>2. ASSUME NEW t \in Tasks, Connects(t) PROVE SameRunning
    <2>1. \E p \in Place : /\ Goto(t, p)
                           /\ t \in Reconnects =>
                                  (p \in ReconnectRuns <=> task[t].at \in ReconnectRuns)
      BY <1>2, TasksAssumption DEF Connects, CoordinatorChecked, CoordinatorStored,
         CoordinatorRechecked, Established, InstallChecked, Installed, Failed, Place, ReconnectRuns
    <2> QED
      BY <1>1, <2>1
  <1>3. ASSUME NEW j \in Joins, JoinStep(j) PROVE SameRunning
    <2>1. ASSUME Moves(j) PROVE SameRunning
      BY <2>1, <1>1, TasksAssumption DEF Moves, Tasks
    <2>2. ASSUME JoinBegin(j) \/ JoinAttemptFailed(j)
          PROVE  \A r \in Reconnects : task'[r] = task[r]
      BY <2>2, TasksAssumption DEF JoinBegin, JoinAttemptFailed, TypeInv, TypeOK, Tasks
    <2> QED
      BY <1>3, <2>1, <2>2, JoinMoves DEF SameRunning, Running
  <1>4. ASSUME NEW r \in Reconnects, ReconnectStep(r) PROVE SameRunning
    <2>1. CASE TriggerRaised(r)
      BY <2>1 DEF TriggerRaised, SameRunning, Running, ReconnectRuns, TypeInv, TypeOK, Tasks
    <2>2. ASSUME ~TriggerRaised(r)
          PROVE  \E p \in Place : Goto(r, p) /\ (p \in ReconnectRuns <=> task[r].at \in ReconnectRuns)
      BY <1>4, <2>2 DEF ReconnectStep, ReconnectWorks, TriggerReadsState, ReconnectStarts,
         RejoinBegins, Restored, FastResumed, ReconnectRetries, ReconnectCancelled, ReconnectFails,
         ReconnectGivesUp, ReconnectLeft, ReconnectFinished, ReconnectAwaits, Place, ReconnectRuns
    <2> QED
      BY <1>1, <2>1, <2>2 DEF Tasks
  <1>5. ASSUME NEW l \in Leaves, LeaveStep(l) \/ StartStep(l) PROVE SameRunning
    <2>1. CASE UNCHANGED task
      BY <2>1 DEF SameRunning, Running
    <2>2. ASSUME NEW r \in Reconnects, task[r].at = "giveUp", Goto(r, "leaving") PROVE SameRunning
      BY <1>1, <2>2 DEF Tasks, Place, ReconnectRuns
    <2> QED
      BY <1>5, <2>1, <2>2, LeaveFrame, StartFrame
  <1>6. ASSUME \/ EndStep \/ CoordinatorLost \/ UNCHANGED vars
               \/ \E p \in Publishers : PublishBegun(p) \/ PublishEnded(p)
        PROVE  SameRunning
    BY <1>6, EndFrame DEF CoordinatorLost, PublishBegun, PublishEnded, vars, SameRunning, Running
  <1> QED
    BY <1>2, <1>3, <1>4, <1>5, <1>6, NextSteps

LEMMA ClaimNext == TypeInv /\ GenInv /\ ClaimInv /\ [Next]_vars => ClaimInv'
  <1> SUFFICES ASSUME TypeInv, GenInv, ClaimInv, [Next]_vars PROVE ClaimInv'
    OBVIOUS
  <1> USE DEF ClaimInv, ClaimIsHeld, OneReconnectPerGeneration, IsCurrent
  <1>1. /\ generation \in Nat /\ generation' \in Nat
        /\ \A r \in Reconnects : /\ task[r].gen \in Nat /\ task[r].gen <= generation
                                 /\ task[r].gen \in JoinGens
                                 /\ Running(r) => task[r].gen # None
        /\ generation' = generation \/ generation' = generation + 1
    BY JoinGensGrow DEF TypeInv, TypeOK, GenInv, TaskRecord, Tasks, Running, ReconnectRuns
  <1>2. ASSUME NEW r \in Reconnects, TriggerClaims(r) PROVE ClaimInv'
    <2>1. ~Running(r) /\ UNCHANGED generation /\ \A q \in Reconnects : q # r => task'[q] = task[q]
      BY <1>2 DEF TriggerClaims, Goto, Running, ReconnectRuns, TypeInv, TypeOK, Tasks, lifecycleVars
    <2>2. CASE generation = task[r].gen /\ claim = None
      <3>1. claim' = generation /\ task'[r].at = "start" /\ task'[r].gen = generation
        BY <1>2, <2>2, GotoEffect DEF TriggerClaims, TypeInv, TypeOK, Tasks, Place
      <3>2. Running(r)' /\ \A q \in Reconnects : q # r => (Running(q)' <=> Running(q))
        BY <2>1, <3>1 DEF Running, ReconnectRuns
      <3>3. \A q \in Reconnects : Running(q) => task[q].gen # generation
        BY <1>1, <2>2
      <3> QED
        BY <2>1, <3>1, <3>2, <3>3
    <2>3. CASE ~(generation = task[r].gen /\ claim = None)
      <3>1. UNCHANGED claim /\ task'[r].at = "idle"
        BY <1>2, <2>3, GotoEffect DEF TriggerClaims, TypeInv, TypeOK, Tasks, Place
      <3>2. \A q \in Reconnects : /\ Running(q)' <=> Running(q)
                                  /\ Running(q) => task'[q].gen = task[q].gen
        BY <2>1, <3>1 DEF Running, ReconnectRuns
      <3> QED
        BY <2>1, <3>1, <3>2
    <2> QED
      BY <2>2, <2>3
  <1>3. ASSUME NEW r \in Reconnects, ReconnectReleases(r) PROVE ClaimInv'
    <2>1. /\ Running(r) /\ task'[r].at = "idle" /\ UNCHANGED generation
          /\ claim' = IF claim = task[r].gen THEN None ELSE claim
          /\ \A q \in Reconnects : q # r => task'[q] = task[q]
      BY <1>3, GotoEffect
         DEF ReconnectReleases, Running, ReconnectRuns, TypeInv, TypeOK, Tasks, Place, lifecycleVars
    <2>2. ~Running(r)' /\ \A q \in Reconnects : q # r => (Running(q)' <=> Running(q))
      BY <2>1 DEF Running, ReconnectRuns
    <2> QED
      BY <2>1, <2>2
  <1>4. ASSUME SameRunning, UNCHANGED claim PROVE ClaimInv'
    BY <1>1, <1>4 DEF SameRunning
  <1>5. ASSUME NEW j \in Joins, JoinBegin(j), SameRunning PROVE ClaimInv'
    <2>1. claim' = None /\ generation' = generation + 1
      BY <1>5 DEF JoinBegin, ClearCallState
    <2> QED
      BY <1>1, <1>5, <2>1 DEF SameRunning
  <1>6. ASSUME NEW l \in Leaves, LeaveClears(l), SameRunning, ~UNCHANGED claim PROVE ClaimInv'
    <2>1. claim' = None /\ leave[l].gen = generation /\ generation' = generation
      BY <1>6 DEF LeaveClears, ClearCallState, callVars, lifecycleVars
    <2>2. generation \notin JoinGens
      BY <1>6, <2>1 DEF LeaveClears, GenInv, Started
    <2> QED
      BY <1>1, <1>6, <2>1, <2>2 DEF SameRunning
  <1> QED
    BY <1>2, <1>3, <1>4, <1>5, <1>6, RunningFrame, NextSteps, ConnectsFrame, JoinFrame,
       ReconnectFrame, LeaveFrame, StartFrame, EndFrame
       DEF CoordinatorLost, PublishBegun, PublishEnded, vars, callVars

\* The reconnect claim belongs to a reconnect that runs and will release it,
\* and one generation never has two reconnects at once.
THEOREM ReconnectIsExclusive == Spec => []ClaimIsHeld /\ []OneReconnectPerGeneration
  <1>1. ClaimInv => ClaimIsHeld /\ OneReconnectPerGeneration
    BY DEF ClaimInv
  <1> QED
    BY <1>1, ClaimInit, ClaimNext, TypeInit, TypeNext, GenInit, GenNext, PTL DEF Spec

-----------------------------------------------------------------------------
(* The published tracks. *)

\* The media lock is held by the leave that stops the tracks or the publish
\* that negotiates.
MediaLocked ==
    /\ \A l \in Leaves : leave[l].work = "stop" <=> mediaLock = l
    /\ \A p \in Publishers : publish[p].at = "negotiate" <=> mediaLock = p

\* The caller of a leave goes on when its teardown task is done.
CallerWaits ==
    \A l \in Leaves :
        /\ leave[l].caller = "new" => leave[l].work = "new"
        /\ leave[l].caller \in {"clear", "left", "coord", "returned"} => leave[l].work = "done"

\* Once a leave that is still current is done, nothing is published.
QuietWhenDone ==
    \A l \in Leaves :
        leave[l].work = "done" /\ IsCurrent(leave[l].gen) =>
            tracks = {} /\ \A p \in Publishers : publish[p].at # "negotiate"

MediaInv == MediaLocked /\ CallerWaits /\ QuietWhenDone /\ LaterTracksSurvive

LEMMA MediaInit == Init => MediaInv
  BY FreeAssumption
     DEF Init, MediaInv, MediaLocked, CallerWaits, QuietWhenDone, LaterTracksSurvive

LEMMA MediaNext == TypeInv /\ GenInv /\ MediaInv /\ [Next]_vars => MediaInv'
  <1> SUFFICES ASSUME TypeInv, GenInv, MediaInv, [Next]_vars PROVE MediaInv'
    OBVIOUS
  <1> USE DEF MediaInv
  <1>1. /\ generation \in Nat /\ generation' \in Nat
        /\ generation' = generation \/ generation' = generation + 1
        /\ \A g \in JoinGens : g \in Nat /\ g <= generation
        /\ tracks \subseteq JoinGens
        /\ \A l \in Leaves : /\ leave[l].gen \in Nat /\ leave[l].gen <= generation
                             /\ leave[l].work # "new" => leave[l].gen \notin JoinGens
    BY JoinGensGrow
       DEF TypeInv, TypeOK, GenInv, Started, JoinGens, TaskRecord, LeaveRecord, Tasks, None
  <1>2. /\ \A l \in Leaves : l # Free /\ l \notin Publishers
        /\ \A p \in Publishers : p # Free /\ p \notin Leaves
    BY FreeAssumption, TasksAssumption
  <1>3. ASSUME UNCHANGED <<mediaLock, tracks, publish, leave>> PROVE MediaInv'
    BY <1>1, <1>3 DEF MediaLocked, CallerWaits, QuietWhenDone, LaterTracksSurvive, IsCurrent
  <1>4. ASSUME NEW l \in Leaves, LeaveTakes(l) PROVE MediaInv'
    <2>1. UNCHANGED <<mediaLock, tracks, publish, generation>>
      BY <1>4 DEF LeaveTakes, mediaVars, lifecycleVars
    <2>2. /\ leave[l].work = "take" /\ leave'[l].work = "media"
          /\ leave'[l].gen = leave[l].gen /\ leave'[l].caller = leave[l].caller
          /\ \A k \in Leaves : k # l => leave'[k] = leave[k]
      BY <1>4 DEF LeaveTakes, TypeInv, TypeOK, LeaveRecord
    <2> QED
      BY <2>1, <2>2 DEF MediaLocked, CallerWaits, QuietWhenDone, LaterTracksSurvive, IsCurrent
  <1>5. ASSUME NEW l \in Leaves, LeaveLocksMedia(l) PROVE MediaInv'
    <2>1. /\ mediaLock = Free /\ leave[l].work = "media" /\ UNCHANGED <<tracks, publish, generation>>
          /\ leave'[l].gen = leave[l].gen /\ leave'[l].caller = leave[l].caller
          /\ \A k \in Leaves : k # l => leave'[k] = leave[k]
      BY <1>5 DEF LeaveLocksMedia, TypeInv, TypeOK, LeaveRecord, lifecycleVars
    <2>2. CASE generation = leave[l].gen
      <3>1. mediaLock' = l /\ leave'[l].work = "stop"
        BY <1>5, <2>2 DEF LeaveLocksMedia, IsCurrent, TypeInv, TypeOK, LeaveRecord
      <3>2. \A g \in tracks : g < leave[l].gen
        BY <1>1, <2>1, <2>2
      <3>3. MediaLocked'
        BY <1>2, <2>1, <3>1 DEF MediaLocked
      <3>4. CallerWaits' /\ QuietWhenDone' /\ LaterTracksSurvive'
        BY <2>1, <3>1, <3>2 DEF CallerWaits, QuietWhenDone, LaterTracksSurvive, IsCurrent
      <3> QED
        BY <3>3, <3>4
    <2>3. CASE generation # leave[l].gen
      <3>1. UNCHANGED mediaLock /\ leave'[l].work = "done"
        BY <1>5, <2>3 DEF LeaveLocksMedia, IsCurrent, TypeInv, TypeOK, LeaveRecord
      <3>2. MediaLocked'
        BY <1>2, <2>1, <3>1 DEF MediaLocked
      <3>3. CallerWaits' /\ QuietWhenDone' /\ LaterTracksSurvive'
        BY <2>1, <2>3, <3>1 DEF CallerWaits, QuietWhenDone, LaterTracksSurvive, IsCurrent
      <3> QED
        BY <3>2, <3>3
    <2> QED
      BY <2>2, <2>3
  <1>6. ASSUME NEW l \in Leaves, LeaveStopsAll(l) PROVE MediaInv'
    <2>1. /\ leave[l].work = "stop" /\ tracks' = {} /\ mediaLock' = Free
          /\ UNCHANGED <<publish, generation>>
          /\ leave'[l].work = "done"
          /\ leave'[l].gen = leave[l].gen /\ leave'[l].caller = leave[l].caller
          /\ \A k \in Leaves : k # l => leave'[k] = leave[k]
      BY <1>6 DEF LeaveStopsAll, TypeInv, TypeOK, LeaveRecord, lifecycleVars
    <2>2. mediaLock = l
      BY <2>1 DEF MediaLocked
    <2>3. MediaLocked'
      BY <1>2, <2>1, <2>2 DEF MediaLocked
    <2>4. \A p \in Publishers : publish[p].at # "negotiate"
      BY <1>2, <2>2 DEF MediaLocked
    <2>5. CallerWaits' /\ QuietWhenDone' /\ LaterTracksSurvive'
      BY <2>1, <2>4 DEF CallerWaits, QuietWhenDone, LaterTracksSurvive, IsCurrent
    <2> QED
      BY <2>3, <2>5
  <1>7. ASSUME NEW l \in Leaves, LeaveEnds(l) PROVE MediaInv'
    <2> DEFINE Goes == {"clear", "left", "coord", "returned"}
    <2>1. UNCHANGED <<mediaLock, tracks, publish, generation>>
      BY <1>7 DEF LeaveEnds, LeaveReturns, LeaveClears, LeaveSetsLeft, LeaveStopsCoordinator,
         mediaVars, lifecycleVars
    <2>2. /\ leave'[l].work = leave[l].work /\ leave'[l].gen = leave[l].gen
          /\ leave'[l].caller # "new"
          /\ leave'[l].caller \in Goes => leave[l].work = "done" \/ leave[l].caller \in Goes
          /\ \A k \in Leaves : k # l => leave'[k] = leave[k]
      <3> USE DEF TypeInv, TypeOK, LeaveRecord
      <3>1. CASE LeaveReturns(l)
        BY <3>1 DEF LeaveReturns
      <3>2. CASE LeaveClears(l)
        BY <3>2 DEF LeaveClears
      <3>3. CASE LeaveSetsLeft(l)
        BY <3>3 DEF LeaveSetsLeft
      <3>4. CASE LeaveStopsCoordinator(l)
        BY <3>4 DEF LeaveStopsCoordinator
      <3> QED
        BY <1>7, <3>1, <3>2, <3>3, <3>4 DEF LeaveEnds
    <2> QED
      BY <2>1, <2>2 DEF MediaLocked, CallerWaits, QuietWhenDone, LaterTracksSurvive, IsCurrent
  <1>8. ASSUME NEW l \in Leaves, StartStep(l) PROVE MediaInv'
    <2>1. /\ UNCHANGED <<mediaLock, tracks, publish>>
          /\ leave[l].caller = "new" /\ generation' = generation + 1
          /\ leave'[l].work = "take" /\ leave'[l].caller = "wait"
          /\ \A k \in Leaves : k # l => leave'[k] = leave[k]
      BY <1>8, StartFrame DEF LeaveStarted, TypeInv, TypeOK, mediaVars
    <2>2. leave[l].work = "new"
      BY <2>1 DEF CallerWaits
    <2> QED
      BY <1>1, <2>1, <2>2 DEF MediaLocked, CallerWaits, QuietWhenDone, LaterTracksSurvive, IsCurrent
  <1>9. ASSUME NEW p \in Publishers, PublishBegun(p) PROVE MediaInv'
    <2>1. /\ mediaLock = Free /\ mediaLock' = p /\ slot = generation
          /\ UNCHANGED <<tracks, leave, generation>>
          /\ publish'[p].at = "negotiate"
          /\ \A q \in Publishers : q # p => publish'[q] = publish[q]
      BY <1>9 DEF PublishBegun, TypeInv, TypeOK, lifecycleVars
    <2>2. generation \in JoinGens
      BY <2>1 DEF GenInv
    <2>3. \A l \in Leaves : leave[l].work = "done" => leave[l].gen # generation
      BY <1>1, <2>2
    <2>4. MediaLocked'
      BY <1>2, <2>1 DEF MediaLocked
    <2>5. CallerWaits' /\ QuietWhenDone' /\ LaterTracksSurvive'
      BY <2>1, <2>3 DEF CallerWaits, QuietWhenDone, LaterTracksSurvive, IsCurrent
    <2> QED
      BY <2>4, <2>5
  <1>10. ASSUME NEW p \in Publishers, PublishEnded(p) PROVE MediaInv'
    <2>1. /\ publish[p].at = "negotiate" /\ mediaLock' = Free
          /\ UNCHANGED <<leave, generation>>
          /\ publish'[p].at = "done"
          /\ \A q \in Publishers : q # p => publish'[q] = publish[q]
      BY <1>10 DEF PublishEnded, TypeInv, TypeOK, lifecycleVars
    <2>2. mediaLock = p
      BY <2>1 DEF MediaLocked
    <2>3. MediaLocked'
      BY <1>2, <2>1, <2>2 DEF MediaLocked
    <2>4. \A l \in Leaves : leave[l].work # "stop"
      BY <1>2, <2>2 DEF MediaLocked
    <2>5. CallerWaits' /\ QuietWhenDone' /\ LaterTracksSurvive'
      BY <2>1, <2>4 DEF CallerWaits, QuietWhenDone, LaterTracksSurvive, IsCurrent
    <2> QED
      BY <2>3, <2>5
  <1> QED
    BY <1>3, <1>4, <1>5, <1>6, <1>7, <1>8, <1>9, <1>10, NextSteps, ConnectsFrame, JoinFrame,
       ReconnectFrame, EndFrame
       DEF LeaveStep, LeaveTears, CoordinatorLost, vars, mediaVars

\* A leave that was dropped and overtaken by a later join keeps the tracks of
\* that join; a leave that returned and was not overtaken left none.
THEOREM LeaveStopsItsTracks == Spec => []LaterTracksSurvive /\ []ReturnedLeaveStoppedTracks
  <1>1. MediaInv => LaterTracksSurvive /\ ReturnedLeaveStoppedTracks
    BY DEF MediaInv, CallerWaits, QuietWhenDone, ReturnedLeaveStoppedTracks
  <1> QED
    BY <1>1, TypeInit, TypeNext, GenInit, GenNext, MediaInit, MediaNext, PTL DEF Spec

-----------------------------------------------------------------------------
(* What the connection slot holds in each calling state, and that the      *)
(* calling states follow their diagram: both join the place of every task  *)
(* of the current generation to the state and the slot.                    *)

Live == {"Joined", "Reconnecting", "Migrating", "ReconnectingFailed"}

\* A join before its connection is in the slot, or on its way out after an error.
Opens == {"begun", "token", "coordCheck", "coordStore", "coordRecheck", "attempt",
          "establish", "install", "replace", "stop", "reset"}

\* The join of the current generation: it is Joining until it commits, with its
\* connection in the slot just before; afterwards the call is live.
JoinFits(j) ==
    task[j].gen = generation =>
        /\ task[j].at \in Opens => state = "Joining" /\ slot # generation
        /\ task[j].at = "commit" => state = "Joining" /\ slot = generation
        /\ task[j].at = "joined" => state \in Live

\* A reconnect of the current generation has found the call live, with its
\* connection; the event that raised it found a join under way or done.
ReconnectFits(r) ==
    task[r].gen = generation =>
        /\ task[r].at = "state" => state \in Live \cup {"Joining"}
        /\ task[r].at \in ReconnectRuns \cup {"claim"} => state \in Live /\ slot = generation

TasksFit == (\A j \in Joins : JoinFits(j)) /\ (\A r \in Reconnects : ReconnectFits(r))

\* A generation is taken by one join.
JoinsDiffer ==
    \A i, j \in Joins : task[i].gen = task[j].gen /\ task[i].gen # None => i = j

\* Who is about to store a connection replaces none of a later join.
StoresForward == \A t \in Tasks : task[t].at = "replace" => slot <= task[t].gen

\* A leave that began has its teardown task.
LeaveWorks == \A l \in Leaves : leave[l].caller # "new" <=> leave[l].work # "new"

\* Left is the state of the latest leave.
LeftByLeave ==
    state = "Left" => \E l \in Leaves : leave[l].work # "new" /\ leave[l].gen = generation

IdleIsEmpty == state = "Idle" => slot = None \/ slot < generation

\* The inductive invariant, beside TypeInv, GenInv and SlotInv.
PlaceInv ==
    /\ TasksFit /\ JoinsDiffer /\ StoresForward /\ LeaveWorks /\ LeftByLeave /\ IdleIsEmpty
    /\ LiveCallHasConnection

-----------------------------------------------------------------------------

LEMMA PlaceInit == Init => PlaceInv
  BY TasksAssumption
     DEF Init, PlaceInv, TasksFit, JoinFits, ReconnectFits, JoinsDiffer, StoresForward, LeaveWorks,
         LeftByLeave, IdleIsEmpty, LiveCallHasConnection, Opens, ReconnectRuns, Live, Tasks, None

\* The order of the generations that are stored; those of leaves are not shared.
LEMMA Numbers ==
  ASSUME TypeInv, GenInv
  PROVE  /\ generation \in Nat /\ slot \in Nat /\ slot <= generation
         /\ \A t \in Tasks : task[t].gen \in Nat /\ task[t].gen <= generation
         /\ \A l \in Leaves : leave[l].gen \in Nat /\ leave[l].gen <= generation
         /\ \A l \in Leaves : leave[l].work # "new" =>
                /\ slot # leave[l].gen
                /\ \A t \in Tasks : task[t].gen # leave[l].gen
  <1>1. /\ generation \in Nat /\ slot \in Nat
        /\ \A t \in Tasks : task[t].gen \in Nat
        /\ \A l \in Leaves : leave[l].gen \in Nat
    BY DEF TypeInv, TypeOK, TaskRecord, LeaveRecord
  <1>2. slot \in JoinGens /\ \A t \in Tasks : task[t].gen \in JoinGens
    BY DEF GenInv, JoinGens, Tasks
  <1>3. \A g \in JoinGens : g <= generation
    BY DEF GenInv
  <1>4. \A l \in Leaves : /\ leave[l].gen <= generation
                          /\ leave[l].work # "new" => leave[l].gen \notin JoinGens
    BY DEF GenInv, Started
  <1> QED
    BY <1>1, <1>2, <1>3, <1>4

-----------------------------------------------------------------------------
(* Steps that change the place of one task only. *)

\* What such a step has to show of its task.
LEMMA QuietStep ==
  ASSUME PlaceInv, NEW t \in Tasks, UNCHANGED <<state, generation, slot, leave>>,
         \A u \in Tasks : task'[u].gen = task[u].gen,
         \A u \in Tasks : u # t => task'[u] = task[u],
         t \in Joins => JoinFits(t)', t \in Reconnects => ReconnectFits(t)',
         task'[t].at = "replace" => slot <= task[t].gen
  PROVE  PlaceInv'
  <1>1. TasksFit'
    BY DEF PlaceInv, TasksFit, JoinFits, ReconnectFits, Tasks
  <1>2. JoinsDiffer'
    BY DEF PlaceInv, JoinsDiffer, Tasks
  <1>3. StoresForward'
    BY DEF PlaceInv, StoresForward
  <1>4. LeaveWorks' /\ LeftByLeave' /\ IdleIsEmpty' /\ LiveCallHasConnection'
    BY DEF PlaceInv, LeaveWorks, LeftByLeave, IdleIsEmpty, LiveCallHasConnection, InProgress
  <1> QED
    BY <1>1, <1>2, <1>3, <1>4 DEF PlaceInv

LEMMA NothingMoves ==
  ASSUME PlaceInv, UNCHANGED <<state, generation, slot, leave, task>>
  PROVE  PlaceInv'
  BY DEF PlaceInv, TasksFit, JoinFits, ReconnectFits, JoinsDiffer, StoresForward, LeaveWorks,
         LeftByLeave, IdleIsEmpty, LiveCallHasConnection, InProgress

LEMMA ConnectsPlaces ==
  ASSUME TypeInv, NEW t \in Tasks, Connects(t), ~Installed(t)
  PROVE  /\ t \in Joins => task[t].at \in Opens /\ task'[t].at \in Opens
         /\ t \in Reconnects => task[t].at \in ReconnectRuns /\ task'[t].at \in ReconnectRuns
         /\ task'[t].at = "replace" => task[t].gen = generation
  <1>1. PICK p \in Place :
            /\ Goto(t, p)
            /\ task[t].at \in {"coordCheck", "coordStore", "coordRecheck", "establish", "install"}
            /\ t \in Joins => p \in Opens
            /\ t \in Reconnects => p \in ReconnectRuns
            /\ p = "replace" => task[t].gen = generation
    BY TasksAssumption
       DEF Connects, CoordinatorChecked, CoordinatorStored, CoordinatorRechecked, Established,
           InstallChecked, Failed, IsCurrent, Place, Opens, ReconnectRuns
  <1>2. task'[t].at = p
    BY <1>1, GotoEffect DEF TypeInv, TypeOK
  <1> QED
    BY <1>1, <1>2 DEF Opens, ReconnectRuns

LEMMA ConnectsKeepsPlaces ==
  ASSUME TypeInv, GenInv, PlaceInv, NEW t \in Tasks, Connects(t), ~Installed(t)
  PROVE  PlaceInv'
  <1>1. UNCHANGED <<state, generation, slot, leave>>
    BY ConnectsFrame DEF InstallChecked
  <1>2. /\ \A u \in Tasks : task'[u].gen = task[u].gen
        /\ \A u \in Tasks : u # t => task'[u] = task[u]
    BY ConnectsMoves, MovesEffect
  <1>3. t \in Joins => JoinFits(t)'
    BY <1>1, <1>2, ConnectsPlaces DEF PlaceInv, TasksFit, JoinFits, Opens
  <1>4. t \in Reconnects => ReconnectFits(t)'
    BY <1>1, <1>2, ConnectsPlaces DEF PlaceInv, TasksFit, ReconnectFits, ReconnectRuns
  <1>5. task'[t].at = "replace" => slot <= task[t].gen
    BY ConnectsPlaces, Numbers
  <1> QED
    BY <1>1, <1>2, <1>3, <1>4, <1>5, QuietStep

\* The store: no task of the current generation but the one that stores can
\* see the slot change under it.
LEMMA InstalledKeepsPlaces ==
  ASSUME TypeInv, GenInv, SlotInv, PlaceInv, NEW t \in Tasks, Installed(t)
  PROVE  PlaceInv'
  <1>1. /\ task[t].at = "replace" /\ slot' = task[t].gen
        /\ UNCHANGED <<state, generation, leave>>
        /\ task'[t].at = IF t \in Joins THEN "commit" ELSE "restore"
        /\ task'[t].gen = task[t].gen
        /\ \A u \in Tasks : u # t => task'[u] = task[u]
    BY GotoEffect DEF Installed, lifecycleVars, TypeInv, TypeOK, Place
  <1>2. \A u \in Tasks : task'[u].gen = task[u].gen
    BY <1>1
  <1>3. slot <= slot' /\ slot' <= generation /\ slot' \in Nat /\ slot \in Nat /\ generation \in Nat
    BY <1>1, Numbers DEF PlaceInv, StoresForward
  <1>4. \A u \in Tasks : task'[u].at # "replace"
    BY <1>1 DEF SlotInv
  <1>5. slot = generation => slot' = generation
    BY <1>3
  <1>6. task[t].gen # None
    BY <1>1 DEF GenInv, Tasks
  <1>7. ASSUME NEW j \in Joins PROVE JoinFits(j)'
    <2>1. CASE j = t
      BY <1>1, <2>1 DEF PlaceInv, TasksFit, JoinFits, Opens
    <2>2. CASE j # t /\ slot' = generation /\ task[j].gen = generation
      <3>1. t \in Reconnects
        BY <1>1, <1>6, <2>2 DEF PlaceInv, JoinsDiffer, Tasks
      <3>2. state \in Live /\ slot = generation
        BY <1>1, <2>2, <3>1 DEF PlaceInv, TasksFit, ReconnectFits, ReconnectRuns
      <3>3. task'[j] = task[j] /\ UNCHANGED <<state, generation, slot>>
        BY <1>1, <2>2, <3>2 DEF Tasks
      <3> QED
        BY <3>3 DEF PlaceInv, TasksFit, JoinFits
    <2>3. CASE j # t /\ (slot' # generation \/ task[j].gen # generation)
      <3>1. task'[j] = task[j] /\ UNCHANGED <<state, generation>>
        BY <1>1, <2>3 DEF Tasks
      <3> QED
        BY <1>5, <2>3, <3>1 DEF PlaceInv, TasksFit, JoinFits
    <2> QED
      BY <2>1, <2>2, <2>3
  <1>8. ASSUME NEW r \in Reconnects PROVE ReconnectFits(r)'
    <2>1. CASE r = t
      <3>1. r \notin Joins
        BY TasksAssumption
      <3>2. task'[r].at = "restore"
        BY <1>1, <2>1, <3>1
      <3> QED
        BY <1>1, <1>5, <2>1, <3>2 DEF PlaceInv, TasksFit, ReconnectFits, ReconnectRuns
    <2>2. CASE r # t
      <3>1. task'[r] = task[r]
        BY <1>1, <2>2 DEF Tasks
      <3> QED
        BY <1>1, <1>5, <3>1 DEF PlaceInv, TasksFit, ReconnectFits
    <2> QED
      BY <2>1, <2>2
  <1>9. TasksFit' /\ JoinsDiffer' /\ StoresForward' /\ LeaveWorks' /\ LeftByLeave'
    BY <1>1, <1>2, <1>4, <1>7, <1>8
       DEF PlaceInv, TasksFit, JoinsDiffer, StoresForward, LeaveWorks, LeftByLeave, Tasks
  <1>10. LiveCallHasConnection'
    BY <1>1, <1>5 DEF PlaceInv, LiveCallHasConnection, InProgress
  <1>11. IdleIsEmpty'
    <2>1. ASSUME state = "Idle" PROVE slot' # generation
      <3>1. CASE t \in Joins
        BY <1>1, <2>1, <3>1 DEF PlaceInv, TasksFit, JoinFits, Opens
      <3>2. CASE t \in Reconnects
        BY <1>1, <2>1, <3>2 DEF PlaceInv, TasksFit, ReconnectFits, ReconnectRuns, Live
      <3> QED
        BY <3>1, <3>2 DEF Tasks
    <2> QED
      BY <1>1, <1>3, <2>1 DEF IdleIsEmpty
  <1> QED
    BY <1>9, <1>10, <1>11 DEF PlaceInv

-----------------------------------------------------------------------------
(* The other steps of a join. *)

\* No task is of a generation that was just taken.
LEMMA StaleTasks ==
  ASSUME TypeInv, GenInv, generation' = generation + 1,
         \A t \in Tasks : task'[t].gen = task[t].gen
  PROVE  TasksFit'
  <1>1. \A t \in Tasks : task'[t].gen # generation'
    BY Numbers
  <1> QED
    BY <1>1 DEF TasksFit, JoinFits, ReconnectFits, Tasks

\* The steps of a join that leave the state alone, and the places they go to.
LEMMA JoinQuiet ==
  ASSUME TypeInv, NEW j \in Joins, JoinStep(j),
         ~JoinBegin(j), ~JoinDropped(j), ~JoinCommitted(j), ~JoinReset(j)
  PROVE  /\ UNCHANGED <<state, generation, slot, leave>>
         /\ task'[j].gen = task[j].gen
         /\ \A u \in Tasks : u # j => task'[u] = task[u]
         /\ task'[j].at \in (Opens \ {"replace"}) \cup {"failed"}
         /\ task'[j].at = "failed" \/ task[j].at \in Opens \/ task[j].gen # generation
  <1>1. UNCHANGED <<state, generation, slot, leave>>
    BY DEF JoinStep, JoinRefused, JoinWorks, JoinStoreData, JoinTokenLoaded, JoinTokenFailed,
       JoinAttempted, JoinAttemptFailed, JoinStopped, JoinCancelled, lifecycleVars, connectionVars
  <1>2. CASE JoinAttemptFailed(j)
    BY <1>1, <1>2 DEF JoinAttemptFailed, Opens, TypeInv, TypeOK, TaskRecord, Tasks
  <1>3. CASE ~JoinAttemptFailed(j)
    <2>1. PICK p \in Place :
              /\ Goto(j, p)
              /\ p \in (Opens \ {"replace"}) \cup {"failed"}
              /\ p = "failed" \/ task[j].at \in Opens \/ task[j].gen # generation
      BY <1>3 DEF JoinStep, JoinRefused, JoinWorks, JoinStoreData, JoinTokenLoaded,
         JoinTokenFailed, JoinAttempted, JoinStopped, JoinCancelled, IsCurrent, Place, Opens
    <2> QED
      BY <1>1, <2>1, GotoEffect DEF TypeInv, TypeOK, Tasks
  <1> QED
    BY <1>2, <1>3

\* A join goes, without another change, to an end or a place where nothing is asked of it.
LEMMA JoinStops ==
  ASSUME TypeInv, PlaceInv, NEW j \in Joins, NEW p \in {"failed", "dropped", "stop"}, Goto(j, p),
         UNCHANGED <<state, generation, slot, leave>>, p = "stop" => task[j].gen # generation
  PROVE  PlaceInv'
  <1>1. /\ task'[j].at = p /\ \A u \in Tasks : task'[u].gen = task[u].gen
        /\ \A u \in Tasks : u # j => task'[u] = task[u]
    BY GotoEffect DEF TypeInv, TypeOK, Tasks, Place
  <1>2. JoinFits(j)'
    BY <1>1 DEF JoinFits, Opens, Tasks
  <1>3. j \in Tasks /\ j \notin Reconnects /\ p # "replace"
    BY TasksAssumption DEF Tasks
  <1> QED
    BY <1>1, <1>2, <1>3, QuietStep

LEMMA JoinKeepsPlaces ==
  ASSUME TypeInv, GenInv, PlaceInv, NEW j \in Joins, JoinStep(j)
  PROVE  PlaceInv'
  <1>1. /\ generation \in Nat /\ slot \in Nat /\ slot <= generation
        /\ \A t \in Tasks : task[t].gen \in Nat /\ task[t].gen <= generation
    BY Numbers
  <1>2. j \in Tasks /\ j \notin Reconnects
    BY TasksAssumption DEF Tasks
  <1>3. ASSUME NEW i \in Joins, i # j, task[i].gen = generation, task[j].gen = generation,
               task[j].at # "new", task[j].at # "failed"
        PROVE  FALSE
    BY <1>3 DEF PlaceInv, JoinsDiffer, GenInv
  <1>4. CASE JoinBegin(j)
    <2>1. /\ generation' = generation + 1 /\ state' = "Joining" /\ UNCHANGED <<slot, leave>>
          /\ task'[j].at = "begun" /\ task'[j].gen = generation'
          /\ \A u \in Tasks : u # j => task'[u] = task[u]
      BY <1>4 DEF JoinBegin, TypeInv, TypeOK, Tasks, connectionVars
    <2>2. \A u \in Tasks : u # j => task'[u].gen # generation'
      BY <1>1, <2>1
    <2>3. slot' # generation'
      BY <1>1, <2>1
    <2>4. ASSUME NEW i \in Joins PROVE JoinFits(i)'
      <3>1. CASE i = j
        BY <2>1, <2>3, <3>1 DEF JoinFits
      <3>2. CASE i # j
        BY <2>2, <3>2 DEF JoinFits, Tasks
      <3> QED
        BY <3>1, <3>2
    <2>5. \A r \in Reconnects : ReconnectFits(r)'
      BY <1>2, <2>2 DEF ReconnectFits, Tasks
    <2>6. JoinsDiffer'
      BY <2>1, <2>2 DEF PlaceInv, JoinsDiffer, Tasks
    <2>7. StoresForward' /\ LeaveWorks'
      BY <2>1 DEF PlaceInv, StoresForward, LeaveWorks
    <2>8. LeftByLeave' /\ IdleIsEmpty' /\ LiveCallHasConnection'
      BY <2>1 DEF LeftByLeave, IdleIsEmpty, LiveCallHasConnection
    <2> QED
      BY <2>4, <2>5, <2>6, <2>7, <2>8 DEF PlaceInv, TasksFit
  <1>5. CASE JoinDropped(j)
    <2>1. UNCHANGED <<slot, leave>> /\ Goto(j, "dropped")
      BY <1>5 DEF JoinDropped, connectionVars
    <2>2. CASE task[j].gen = generation /\ state = "Joining"
      <3>1. generation' = generation + 1 /\ state' = "Idle"
        BY <1>5, <2>2 DEF JoinDropped, IsCurrent
      <3>2. /\ \A u \in Tasks : task'[u].gen = task[u].gen
            /\ \A u \in Tasks : u # j => task'[u] = task[u]
            /\ task'[j].at = "dropped"
        BY <1>2, <2>1, GotoEffect DEF TypeInv, TypeOK, Place
      <3>3. TasksFit'
        BY <3>1, <3>2, StaleTasks
      <3>4. JoinsDiffer' /\ StoresForward' /\ LeaveWorks'
        BY <2>1, <3>2 DEF PlaceInv, JoinsDiffer, StoresForward, LeaveWorks, Tasks
      <3>5. slot' < generation'
        BY <1>1, <2>1, <3>1
      <3>6. LeftByLeave' /\ IdleIsEmpty' /\ LiveCallHasConnection'
        BY <3>1, <3>5 DEF LeftByLeave, IdleIsEmpty, LiveCallHasConnection
      <3> QED
        BY <3>3, <3>4, <3>6 DEF PlaceInv
    <2>3. CASE ~(task[j].gen = generation /\ state = "Joining")
      <3>1. UNCHANGED <<state, generation>>
        BY <1>5, <2>3 DEF JoinDropped, IsCurrent, lifecycleVars
      <3> QED
        BY <2>1, <3>1, JoinStops
    <2> QED
      BY <2>2, <2>3
  <1>6. CASE JoinCommitted(j)
    <2>1. UNCHANGED <<slot, generation, leave>> /\ task[j].at = "commit"
      BY <1>6 DEF JoinCommitted, connectionVars
    <2>2. CASE task[j].gen = generation
      <3>1. state' = "Joined" /\ Goto(j, "joined")
        BY <1>6, <2>2 DEF JoinCommitted, SetStateIfCurrent, IsCurrent
      <3>2. /\ \A u \in Tasks : task'[u].gen = task[u].gen
            /\ \A u \in Tasks : u # j => task'[u] = task[u]
            /\ task'[j].at = "joined"
        BY <1>2, <3>1, GotoEffect DEF TypeInv, TypeOK, Place
      <3>3. slot' = generation'
        BY <2>1, <2>2 DEF PlaceInv, TasksFit, JoinFits
      <3>4. \A i \in Joins : JoinFits(i)'
        BY <1>3, <2>1, <2>2, <3>1, <3>2 DEF JoinFits, Opens, Live, Tasks
      <3>5. \A r \in Reconnects : ReconnectFits(r)'
        BY <3>1, <3>3 DEF ReconnectFits, Live
      <3>6. JoinsDiffer' /\ StoresForward' /\ LeaveWorks'
        BY <2>1, <3>2 DEF PlaceInv, JoinsDiffer, StoresForward, LeaveWorks, Tasks
      <3>7. LeftByLeave' /\ IdleIsEmpty' /\ LiveCallHasConnection'
        BY <3>1, <3>3 DEF LeftByLeave, IdleIsEmpty, LiveCallHasConnection
      <3> QED
        BY <3>4, <3>5, <3>6, <3>7 DEF PlaceInv, TasksFit
    <2>3. CASE task[j].gen # generation
      <3>1. UNCHANGED state /\ Goto(j, "stop")
        BY <1>6, <2>3 DEF JoinCommitted, SetStateIfCurrent, IsCurrent
      <3> QED
        BY <2>1, <2>3, <3>1, JoinStops
    <2> QED
      BY <2>2, <2>3
  <1>7. CASE JoinReset(j)
    <2>1. UNCHANGED <<slot, generation, leave>> /\ task[j].at = "reset" /\ Goto(j, "failed")
      BY <1>7 DEF JoinReset, connectionVars
    <2>2. CASE task[j].gen = generation /\ state = "Joining"
      <3>1. state' = "Idle" /\ ~CoordinatorTaskRuns(generation)
        BY <1>7, <2>2 DEF JoinReset, IsCurrent
      <3>2. /\ \A u \in Tasks : task'[u].gen = task[u].gen
            /\ \A u \in Tasks : u # j => task'[u] = task[u]
            /\ task'[j].at = "failed"
        BY <1>2, <2>1, GotoEffect DEF TypeInv, TypeOK, Place
      <3>3. slot' < generation'
        BY <1>1, <2>1, <2>2 DEF PlaceInv, TasksFit, JoinFits, Opens
      <3>4. \A i \in Joins : JoinFits(i)'
        BY <1>3, <2>1, <2>2, <3>2 DEF JoinFits, Opens, Tasks
      <3>5. ASSUME NEW r \in Reconnects PROVE ReconnectFits(r)'
        <4>1. CASE task[r].gen # generation
          BY <2>1, <3>2, <4>1 DEF ReconnectFits, Tasks
        <4>2. CASE task[r].gen = generation
          <5>1. task[r].at \notin {"state", "claim"}
            BY <3>1, <4>2 DEF CoordinatorTaskRuns
          <5>2. task[r].at \notin ReconnectRuns
            BY <2>2, <4>2 DEF PlaceInv, TasksFit, ReconnectFits, Live
          <5>3. task'[r] = task[r]
            BY <1>2, <3>2 DEF Tasks
          <5> QED
            BY <5>1, <5>2, <5>3 DEF ReconnectFits
        <4> QED
          BY <4>1, <4>2
      <3>6. JoinsDiffer' /\ StoresForward' /\ LeaveWorks'
        BY <2>1, <3>2 DEF PlaceInv, JoinsDiffer, StoresForward, LeaveWorks, Tasks
      <3>7. LeftByLeave' /\ IdleIsEmpty' /\ LiveCallHasConnection'
        BY <3>1, <3>3 DEF LeftByLeave, IdleIsEmpty, LiveCallHasConnection
      <3> QED
        BY <3>4, <3>5, <3>6, <3>7 DEF PlaceInv, TasksFit
    <2>3. CASE ~(task[j].gen = generation /\ state = "Joining")
      <3>1. UNCHANGED state
        BY <1>7, <2>3 DEF JoinReset, IsCurrent
      <3> QED
        BY <2>1, <3>1, JoinStops
    <2> QED
      BY <2>2, <2>3
  <1>8. CASE ~JoinBegin(j) /\ ~JoinDropped(j) /\ ~JoinCommitted(j) /\ ~JoinReset(j)
    <2>1. /\ UNCHANGED <<state, generation, slot, leave>>
          /\ task'[j].gen = task[j].gen
          /\ \A u \in Tasks : u # j => task'[u] = task[u]
          /\ task'[j].at \in (Opens \ {"replace"}) \cup {"failed"}
          /\ task'[j].at = "failed" \/ task[j].at \in Opens \/ task[j].gen # generation
      BY <1>8, JoinQuiet
    <2>2. JoinFits(j)'
      BY <2>1 DEF PlaceInv, TasksFit, JoinFits, Opens
    <2>3. task'[j].at # "replace" /\ \A u \in Tasks : task'[u].gen = task[u].gen
      BY <2>1
    <2> QED
      BY <1>2, <2>1, <2>2, <2>3, QuietStep
  <1> QED
    BY <1>4, <1>5, <1>6, <1>7, <1>8

-----------------------------------------------------------------------------
(* The other steps of a reconnect. *)

\* A reconnect sets the state only while it runs in the current generation.
LEMMA ReconnectPlaces ==
  ASSUME TypeInv, NEW r \in Reconnects, ReconnectStep(r), ~TriggerRaised(r)
  PROVE  /\ task'[r].gen = task[r].gen
         /\ \A u \in Tasks : u # r => task'[u] = task[u]
         /\ task'[r].at \in (ReconnectRuns \ {"replace"}) \cup {"idle", "claim"}
         /\ task'[r].at \in ReconnectRuns => task[r].at \in ReconnectRuns \cup {"claim"}
         /\ task'[r].at = "claim" =>
                task[r].at = "state" /\ state \notin (Live \ {"Joined"}) \cup {"Joining"}
         /\ \/ state' = state
            \/ state' \in Live /\ task[r].gen = generation /\ task[r].at \in ReconnectRuns
  <1>1. PICK p \in Place :
            /\ Goto(r, p)
            /\ p \in (ReconnectRuns \ {"replace"}) \cup {"idle", "claim"}
            /\ p \in ReconnectRuns => task[r].at \in ReconnectRuns \cup {"claim"}
            /\ p = "claim" =>
                   task[r].at = "state" /\ state \notin (Live \ {"Joined"}) \cup {"Joining"}
    BY DEF ReconnectStep, ReconnectWorks, TriggerReadsState, TriggerClaims, ReconnectStarts,
       RejoinBegins, Restored, FastResumed, ReconnectRetries, ReconnectCancelled, ReconnectFails,
       ReconnectGivesUp, ReconnectLeft, ReconnectFinished, ReconnectReleases, ReconnectAwaits,
       Place, ReconnectRuns, Live
  <1>2. \/ state' = state
        \/ state' \in Live /\ task[r].gen = generation /\ task[r].at \in ReconnectRuns
    BY DEF ReconnectStep, ReconnectWorks, TriggerReadsState, TriggerClaims, ReconnectStarts,
       RejoinBegins, Restored, FastResumed, ReconnectRetries, ReconnectCancelled, ReconnectFails,
       ReconnectGivesUp, ReconnectLeft, ReconnectFinished, ReconnectReleases, ReconnectAwaits,
       ReconnectSetsState, SetStateIfCurrent, lifecycleVars, ReconnectRuns, Live
  <1> QED
    BY <1>1, <1>2, GotoEffect DEF TypeInv, TypeOK, Tasks

\* The leave that is about to set Left is of no task's generation.
LEMMA JoinedHasConnection ==
  ASSUME TypeInv, GenInv, PlaceInv, state \in Live,
         NEW t \in Tasks, task[t].gen = generation
  PROVE  slot = generation
  <1>1. ASSUME NEW l \in Leaves, leave[l].gen = generation, InProgress(l) PROVE FALSE
    <2>1. leave[l].work # "new"
      BY <1>1 DEF InProgress, PlaceInv, LeaveWorks
    <2> QED
      BY <1>1, <2>1, Numbers
  <1> QED
    BY <1>1 DEF PlaceInv, LiveCallHasConnection, Live

LEMMA ReconnectKeepsPlaces ==
  ASSUME TypeInv, GenInv, PlaceInv, NEW r \in Reconnects, ReconnectStep(r)
  PROVE  PlaceInv'
  <1>1. UNCHANGED <<generation, slot, leave>>
    BY ReconnectFrame
  <1>2. r \in Tasks /\ r \notin Joins
    BY TasksAssumption DEF Tasks
  <1>3. CASE TriggerRaised(r)
    <2>1. /\ task'[r].at = "state" /\ task'[r].gen = generation /\ UNCHANGED state
          /\ \A u \in Tasks : u # r => task'[u] = task[u]
      BY <1>2, <1>3 DEF TriggerRaised, TypeInv, TypeOK, lifecycleVars
    <2>2. PICK j \in Joins : /\ task[j].gen = generation
                             /\ task[j].at \in {"attempt", "establish", "install", "replace",
                                                "commit", "joined"}
      BY <1>3 DEF TriggerRaised, HasTasks
    <2>3. state \in Live \cup {"Joining"}
      BY <2>2 DEF PlaceInv, TasksFit, JoinFits, Opens
    <2>4. \A i \in Joins : JoinFits(i)'
      BY <1>1, <1>2, <2>1 DEF PlaceInv, TasksFit, JoinFits, Tasks
    <2>5. \A q \in Reconnects : ReconnectFits(q)'
      BY <1>1, <2>1, <2>3 DEF PlaceInv, TasksFit, ReconnectFits, ReconnectRuns, Tasks
    <2>6. JoinsDiffer' /\ StoresForward'
      BY <1>1, <1>2, <2>1 DEF PlaceInv, JoinsDiffer, StoresForward, Tasks
    <2>7. LeaveWorks' /\ LeftByLeave' /\ IdleIsEmpty' /\ LiveCallHasConnection'
      BY <1>1, <2>1
         DEF PlaceInv, LeaveWorks, LeftByLeave, IdleIsEmpty, LiveCallHasConnection, InProgress
    <2> QED
      BY <2>4, <2>5, <2>6, <2>7 DEF PlaceInv, TasksFit
  <1>4. CASE ~TriggerRaised(r)
    <2>1. /\ task'[r].gen = task[r].gen
          /\ \A u \in Tasks : u # r => task'[u] = task[u]
          /\ task'[r].at \in (ReconnectRuns \ {"replace"}) \cup {"idle", "claim"}
          /\ task'[r].at \in ReconnectRuns => task[r].at \in ReconnectRuns \cup {"claim"}
          /\ task'[r].at = "claim" =>
                 task[r].at = "state" /\ state \notin (Live \ {"Joined"}) \cup {"Joining"}
          /\ \/ state' = state
             \/ state' \in Live /\ task[r].gen = generation /\ task[r].at \in ReconnectRuns
      BY <1>4, ReconnectPlaces
    <2>2. /\ \A u \in Tasks : task'[u].gen = task[u].gen
          /\ task'[r].at # "replace" /\ task'[r].at # "state"
      BY <2>1 DEF ReconnectRuns
    <2>3. CASE state' = state
      <3>1. ASSUME task[r].gen = generation, task'[r].at = "claim"
            PROVE  state \in Live /\ slot = generation
        <4>1. state \in Live
          BY <2>1, <3>1 DEF PlaceInv, TasksFit, ReconnectFits
        <4> QED
          BY <1>2, <3>1, <4>1, JoinedHasConnection
      <3>2. ReconnectFits(r)'
        BY <1>1, <2>1, <2>2, <2>3, <3>1 DEF PlaceInv, TasksFit, ReconnectFits
      <3> QED
        BY <1>1, <1>2, <2>1, <2>2, <2>3, <3>2, QuietStep
    <2>4. CASE /\ state' # state
               /\ state' \in Live /\ task[r].gen = generation /\ task[r].at \in ReconnectRuns
      <3>1. state \in Live /\ slot = generation
        BY <2>4 DEF PlaceInv, TasksFit, ReconnectFits
      <3>2. \A j \in Joins : JoinFits(j)'
        BY <1>1, <1>2, <2>1, <2>4, <3>1 DEF PlaceInv, TasksFit, JoinFits, Live, Tasks
      <3>3. \A q \in Reconnects : ReconnectFits(q)'
        BY <1>1, <2>4, <3>1 DEF ReconnectFits
      <3>4. JoinsDiffer' /\ StoresForward' /\ LeaveWorks'
        BY <1>1, <2>1, <2>2 DEF PlaceInv, JoinsDiffer, StoresForward, LeaveWorks, Tasks
      <3>5. LeftByLeave' /\ IdleIsEmpty' /\ LiveCallHasConnection'
        BY <1>1, <2>4, <3>1 DEF LeftByLeave, IdleIsEmpty, LiveCallHasConnection, Live
      <3> QED
        BY <3>2, <3>3, <3>4, <3>5 DEF PlaceInv, TasksFit
    <2> QED
      BY <2>1, <2>3, <2>4
  <1> QED
    BY <1>3, <1>4

-----------------------------------------------------------------------------
(* Leaves. *)

LEMMA TakesKeepsPlaces ==
  ASSUME TypeInv, GenInv, SlotInv, PlaceInv, NEW l \in Leaves, LeaveTakes(l)
  PROVE  PlaceInv'
  <1>1. /\ UNCHANGED <<state, generation, task>>
        /\ leave[l].work = "take" /\ leave'[l].work = "media" /\ slotLock = Free
        /\ slot' = IF slot < leave[l].gen THEN None ELSE slot
        /\ \A k \in Leaves : leave'[k].gen = leave[k].gen /\ leave'[k].caller = leave[k].caller
        /\ \A k \in Leaves : k # l => leave'[k] = leave[k]
    BY DEF LeaveTakes, lifecycleVars, TypeInv, TypeOK, LeaveRecord
  <1>2. slot' = generation <=> slot = generation
    BY <1>1, Numbers DEF None
  <1>3. slot' = None \/ slot' = slot
    BY <1>1
  <1>4. \A t \in Tasks : task[t].at # "replace"
    BY <1>1, FreeAssumption DEF SlotInv, Tasks
  <1>5. TasksFit'
    BY <1>1, <1>2 DEF PlaceInv, TasksFit, JoinFits, ReconnectFits
  <1>6. JoinsDiffer' /\ StoresForward' /\ LeaveWorks'
    BY <1>1, <1>4 DEF PlaceInv, JoinsDiffer, StoresForward, LeaveWorks
  <1>7. LeftByLeave'
    BY <1>1 DEF PlaceInv, LeftByLeave
  <1>8. IdleIsEmpty' /\ LiveCallHasConnection'
    BY <1>1, <1>2, <1>3 DEF PlaceInv, IdleIsEmpty, LiveCallHasConnection, InProgress
  <1> QED
    BY <1>5, <1>6, <1>7, <1>8 DEF PlaceInv

LEMMA LeftKeepsPlaces ==
  ASSUME TypeInv, GenInv, PlaceInv, NEW l \in Leaves, LeaveSetsLeft(l)
  PROVE  PlaceInv'
  <1>1. /\ UNCHANGED <<generation, slot, task>>
        /\ leave[l].caller # "new" /\ leave'[l].caller \in {"coord", "dropped"}
        /\ \A k \in Leaves : leave'[k].gen = leave[k].gen /\ leave'[k].work = leave[k].work
        /\ \A k \in Leaves : k # l => leave'[k] = leave[k]
    BY DEF LeaveSetsLeft, connectionVars, TypeInv, TypeOK, LeaveRecord
  <1>2. leave[l].work # "new"
    BY <1>1 DEF PlaceInv, LeaveWorks
  <1>3. JoinsDiffer' /\ StoresForward' /\ LeaveWorks'
    BY <1>1 DEF PlaceInv, JoinsDiffer, StoresForward, LeaveWorks
  <1>4. CASE leave[l].gen = generation
    <2>1. state' = "Left"
      BY <1>4 DEF LeaveSetsLeft, SetStateIfCurrent
    <2>2. \A t \in Tasks : task'[t].gen # generation'
      BY <1>1, <1>2, <1>4, Numbers
    <2>3. TasksFit'
      BY <2>2 DEF TasksFit, JoinFits, ReconnectFits, Tasks
    <2>4. LeftByLeave'
      BY <1>1, <1>2, <1>4 DEF LeftByLeave
    <2>5. IdleIsEmpty' /\ LiveCallHasConnection'
      BY <2>1 DEF IdleIsEmpty, LiveCallHasConnection
    <2> QED
      BY <1>3, <2>3, <2>4, <2>5 DEF PlaceInv
  <1>5. CASE leave[l].gen # generation
    <2>1. UNCHANGED state
      BY <1>5 DEF LeaveSetsLeft, SetStateIfCurrent
    <2>2. TasksFit'
      BY <1>1, <2>1 DEF PlaceInv, TasksFit, JoinFits, ReconnectFits
    <2>3. LeftByLeave' /\ IdleIsEmpty'
      BY <1>1, <2>1 DEF PlaceInv, LeftByLeave, IdleIsEmpty
    <2>4. LiveCallHasConnection'
      BY <1>1, <1>5, <2>1 DEF PlaceInv, LiveCallHasConnection, InProgress
    <2> QED
      BY <1>3, <2>2, <2>3, <2>4 DEF PlaceInv
  <1> QED
    BY <1>4, <1>5

LEMMA LeaveKeepsPlaces ==
  ASSUME TypeInv, GenInv, SlotInv, PlaceInv, NEW l \in Leaves, LeaveStep(l)
  PROVE  PlaceInv'
  <1>1. CASE ~LeaveTakes(l) /\ ~LeaveSetsLeft(l)
    <2>1. UNCHANGED <<state, generation, slot, task>>
      BY <1>1 DEF LeaveStep, LeaveTears, LeaveEnds, LeaveLocksMedia, LeaveStopsAll, LeaveReturns,
         LeaveClears, LeaveStopsCoordinator, lifecycleVars, connectionVars
    <2>2. /\ \A k \in Leaves : k # l => leave'[k] = leave[k]
          /\ leave'[l].gen = leave[l].gen
          /\ leave'[l].work = "new" <=> leave[l].work = "new"
          /\ leave'[l].caller = "new" <=> leave[l].caller = "new"
          /\ InProgress(l) => InProgress(l)'
      <3> USE DEF TypeInv, TypeOK, LeaveRecord, InProgress
      <3>1. CASE LeaveLocksMedia(l) \/ LeaveStopsAll(l)
        BY <3>1 DEF LeaveLocksMedia, LeaveStopsAll
      <3>2. CASE LeaveReturns(l)
        BY <3>2 DEF LeaveReturns
      <3>3. CASE LeaveClears(l)
        BY <3>3 DEF LeaveClears
      <3>4. CASE LeaveStopsCoordinator(l)
        BY <3>4 DEF LeaveStopsCoordinator
      <3> QED
        BY <1>1, <3>1, <3>2, <3>3, <3>4 DEF LeaveStep, LeaveTears, LeaveEnds
    <2>3. TasksFit' /\ JoinsDiffer' /\ StoresForward' /\ IdleIsEmpty'
      BY <2>1 DEF PlaceInv, TasksFit, JoinFits, ReconnectFits, JoinsDiffer, StoresForward,
         IdleIsEmpty
    <2>4. LeaveWorks' /\ LeftByLeave'
      BY <2>1, <2>2 DEF PlaceInv, LeaveWorks, LeftByLeave
    <2>5. LiveCallHasConnection'
      BY <2>1, <2>2 DEF PlaceInv, LiveCallHasConnection, InProgress
    <2> QED
      BY <2>3, <2>4, <2>5 DEF PlaceInv
  <1> QED
    BY <1>1, TakesKeepsPlaces, LeftKeepsPlaces

LEMMA StartKeepsPlaces ==
  ASSUME TypeInv, GenInv, PlaceInv, NEW l \in Leaves, StartStep(l)
  PROVE  PlaceInv'
  <1>1. /\ generation' = generation + 1 /\ UNCHANGED <<state, slot>>
        /\ leave'[l].caller = "wait" /\ leave'[l].work = "take" /\ leave'[l].gen = generation'
        /\ \A k \in Leaves : k # l => leave'[k] = leave[k]
    BY StartFrame DEF LeaveStarted, connectionVars, TypeInv, TypeOK
  <1>2. \A t \in Tasks : /\ task'[t].gen = task[t].gen
                         /\ task'[t].at = "replace" => task[t].at = "replace"
    <2>1. ASSUME NEW r \in Reconnects, Goto(r, "leaving")
          PROVE  \A t \in Tasks : /\ task'[t].gen = task[t].gen
                                  /\ task'[t].at = "replace" => task[t].at = "replace"
      BY <2>1, GotoEffect DEF TypeInv, TypeOK, Tasks, Place
    <2> QED
      BY <2>1, StartFrame
  <1>3. TasksFit'
    BY <1>1, <1>2, StaleTasks
  <1>4. JoinsDiffer' /\ StoresForward' /\ LeaveWorks'
    BY <1>1, <1>2 DEF PlaceInv, JoinsDiffer, StoresForward, LeaveWorks, Tasks
  <1>5. LeftByLeave'
    BY <1>1 DEF LeftByLeave
  <1>6. IdleIsEmpty'
    <2>1. slot' < generation'
      BY <1>1, Numbers
    <2> QED
      BY <2>1 DEF IdleIsEmpty
  <1>7. LiveCallHasConnection'
    BY <1>1 DEF LiveCallHasConnection, InProgress
  <1> QED
    BY <1>3, <1>4, <1>5, <1>6, <1>7 DEF PlaceInv

-----------------------------------------------------------------------------
(* The theorem. *)

LEMMA PlaceNext == TypeInv /\ GenInv /\ SlotInv /\ PlaceInv /\ [Next]_vars => PlaceInv'
  <1> SUFFICES ASSUME TypeInv, GenInv, SlotInv, PlaceInv, [Next]_vars PROVE PlaceInv'
    OBVIOUS
  <1>1. ASSUME \/ EndStep \/ CoordinatorLost \/ UNCHANGED vars
               \/ \E p \in Publishers : PublishBegun(p) \/ PublishEnded(p)
        PROVE  UNCHANGED <<state, generation, slot, leave, task>>
    BY <1>1, EndFrame
       DEF CoordinatorLost, PublishBegun, PublishEnded, vars, lifecycleVars, connectionVars
  <1> QED
    BY <1>1, NextSteps, NothingMoves, ConnectsKeepsPlaces, InstalledKeepsPlaces, JoinKeepsPlaces,
       ReconnectKeepsPlaces, LeaveKeepsPlaces, StartKeepsPlaces

LEMMA PlacesMatch == TypeInv /\ GenInv /\ SlotInv /\ PlaceInv => SlotMatchesState
  <1> SUFFICES ASSUME TypeInv, GenInv, SlotInv, PlaceInv PROVE SlotMatchesState
    OBVIOUS
  <1>1. ASSUME state = "Left"
        PROVE  /\ slot # generation
               /\ slot # None => \E l \in Leaves : leave[l].work = "take" /\ slot < leave[l].gen
    <2>1. PICK l \in Leaves : leave[l].work # "new" /\ leave[l].gen = generation
      BY <1>1 DEF PlaceInv, LeftByLeave
    <2>2. slot # generation /\ slot < leave[l].gen
      BY <2>1, Numbers
    <2>3. ASSUME slot # None PROVE leave[l].work = "take"
      <3>1. ~TornDown(l)
        BY <2>2, <2>3, Numbers DEF SlotInv, SlotRespectsLeave
      <3>2. leave[l].work \in {"new", "take", "media", "stop", "done"}
        BY DEF TypeInv, TypeOK, LeaveRecord
      <3> QED
        BY <2>1, <3>1, <3>2 DEF TornDown
    <2> QED
      BY <2>2, <2>3
  <1>2. LeftIsTornDown
    BY <1>1 DEF LeftIsTornDown
  <1>3. IdleHasNoCurrentConnection
    BY <1>1, Numbers DEF PlaceInv, IdleIsEmpty, IdleHasNoCurrentConnection
  <1> QED
    BY <1>2, <1>3 DEF PlaceInv, SlotMatchesState

\* A call that shows Joined or a reconnect state has the connection of its own
\* generation in the slot, unless the latest leave is about to set Left; a call
\* that shows Left or Idle has none of the current generation, and what a Left
\* call still has is taken by the teardown task of its leave.
THEOREM SlotHoldsWhatStateSays == Spec => []SlotMatchesState
  BY TypeInit, TypeNext, GenInit, GenNext, SlotInit, SlotNext, PlaceInit, PlaceNext, PlacesMatch,
     PTL DEF Spec

-----------------------------------------------------------------------------
(* The diagram of the calling states. *)

\* A reconnect that has set the state of its attempt, and has yet to set another.
Working == ReconnectRuns \ {"start", "release"}

\* While a reconnect of the current generation works, the state says so.
WorkShows ==
    \A r \in Reconnects :
        task[r].gen = generation /\ task[r].at \in Working => state \in {"Reconnecting", "Migrating"}

\* The join() calls that were accepted.
Begun == {j \in Joins : task[j].gen # None}

DiagramInv == WorkShows /\ IsFiniteSet(Begun)

LEMMA DiagramInit == Init => DiagramInv
  <1> SUFFICES ASSUME Init PROVE DiagramInv
    OBVIOUS
  <1>1. WorkShows
    BY TasksAssumption DEF Init, WorkShows, Working, ReconnectRuns, Tasks
  <1>2. Begun = {}
    BY DEF Init, Begun, Tasks
  <1> QED
    BY <1>1, <1>2, FS_EmptySet DEF DiagramInv

\* Only begin_join gives a join its generation.
LEMMA BegunGrows ==
  ASSUME TypeInv, GenInv, [Next]_vars
  PROVE  \/ Begun' = Begun
         \/ \E j \in Joins : JoinBegin(j) /\ j \notin Begun /\ Begun' = Begun \cup {j}
  <1>1. ASSUME NEW j \in Joins, JoinBegin(j)
        PROVE  j \notin Begun /\ Begun' = Begun \cup {j}
    <2>1. /\ task[j].gen = None /\ task'[j].gen = generation + 1
          /\ \A i \in Joins : i # j => task'[i] = task[i]
      BY <1>1 DEF JoinBegin, GenInv, TypeInv, TypeOK, Tasks
    <2>2. generation + 1 # None
      BY DEF TypeInv, TypeOK, None
    <2> QED
      BY <2>1, <2>2 DEF Begun
  <1>2. ASSUME \A j \in Joins : task'[j].gen = task[j].gen PROVE Begun' = Begun
    BY <1>2 DEF Begun
  <1> QED
    BY <1>1, <1>2, JoinsKeepGen

\* A step of a join moves no reconnect; while it keeps the generation it changes
\* the state only from Joining.
LEMMA JoinSteps ==
  ASSUME TypeInv, PlaceInv, NEW j \in Joins, JoinStep(j)
  PROVE  /\ \A r \in Reconnects : task'[r] = task[r]
         /\ \/ generation' = generation + 1 /\ JoinBegin(j)
            \/ generation' = generation + 1 /\ state = "Joining" /\ state' = "Idle"
            \/ generation' = generation /\ state' = state
            \/ generation' = generation /\ state = "Joining" /\ state' \in {"Idle", "Joined"}
  <1>1. \A r \in Reconnects : task'[r] = task[r]
    <2>1. ASSUME Moves(j) PROVE \A r \in Reconnects : task'[r] = task[r]
      BY <2>1, MovesEffect, TasksAssumption DEF Tasks
    <2>2. ASSUME JoinBegin(j) \/ JoinAttemptFailed(j)
          PROVE  \A r \in Reconnects : task'[r] = task[r]
      BY <2>2, TasksAssumption DEF JoinBegin, JoinAttemptFailed, TypeInv, TypeOK, Tasks
    <2> QED
      BY <2>1, <2>2, JoinMoves
  <1>2. CASE JoinBegin(j)
    BY <1>1, <1>2 DEF JoinBegin
  <1>3. CASE JoinDropped(j)
    BY <1>1, <1>3 DEF JoinDropped, lifecycleVars
  <1>4. CASE JoinCommitted(j)
    BY <1>1, <1>4 DEF JoinCommitted, SetStateIfCurrent, PlaceInv, TasksFit, JoinFits
  <1>5. CASE JoinReset(j)
    BY <1>1, <1>5 DEF JoinReset
  <1>6. CASE ~JoinBegin(j) /\ ~JoinDropped(j) /\ ~JoinCommitted(j) /\ ~JoinReset(j)
    BY <1>1, <1>6, JoinQuiet
  <1> QED
    BY <1>2, <1>3, <1>4, <1>5, <1>6

\* A reconnect that works after its step was at work with the state it has now, or
\* has set the state; and only one of the current generation sets it.
LEMMA ReconnectSteps ==
  ASSUME TypeInv, NEW r \in Reconnects, ReconnectStep(r)
  PROVE  /\ \A q \in Reconnects : q # r => task'[q] = task[q]
         /\ task'[r].at \in Working /\ task[r].gen = generation =>
                \/ task'[r].gen = task[r].gen /\ task[r].at \in Working /\ state' = state
                \/ state' \in {"Reconnecting", "Migrating"}
         /\ task'[r].at \in Working => task'[r].gen = task[r].gen
         /\ state' # state => task[r].gen = generation /\ Running(r)
         /\ \/ state' = state
            \/ state' \in {"Reconnecting", "Migrating"}
            \/ state' \in {"Joined", "ReconnectingFailed"} /\ task[r].at \in Working
  <1>1. CASE TriggerRaised(r)
    <2>1. UNCHANGED state
      BY <1>1 DEF TriggerRaised, lifecycleVars
    <2>2. task'[r].at = "state" /\ \A q \in Reconnects : q # r => task'[q] = task[q]
      BY <1>1 DEF TriggerRaised, TypeInv, TypeOK, Tasks
    <2>3. task'[r].at \notin Working
      BY <2>2 DEF Working, ReconnectRuns
    <2> QED
      BY <2>1, <2>2, <2>3
  <1>2. CASE ~TriggerRaised(r)
    <2>1. PICK p \in Place :
              /\ Goto(r, p)
              /\ p \in Working /\ task[r].gen = generation =>
                     \/ task[r].at \in Working /\ state' = state
                     \/ state' \in {"Reconnecting", "Migrating"}
      BY <1>2
         DEF ReconnectStep, ReconnectWorks, TriggerReadsState, TriggerClaims, ReconnectStarts,
         RejoinBegins, Restored, FastResumed, ReconnectRetries, ReconnectCancelled, ReconnectFails,
         ReconnectGivesUp, ReconnectLeft, ReconnectFinished, ReconnectReleases, ReconnectAwaits,
         ReconnectSetsState, SetStateIfCurrent, lifecycleVars, Place, Working, ReconnectRuns
    <2>2. /\ state' # state => task[r].gen = generation /\ Running(r)
          /\ \/ state' = state
             \/ state' \in {"Reconnecting", "Migrating"}
             \/ state' \in {"Joined", "ReconnectingFailed"} /\ task[r].at \in Working
      <3>1. CASE ReconnectStarts(r) \/ ReconnectRetries(r)
        BY <3>1 DEF ReconnectStarts, ReconnectRetries, ReconnectSetsState, SetStateIfCurrent,
           Running, ReconnectRuns, ReconnectAwaits
      <3>2. CASE ReconnectFails(r) \/ ReconnectFinished(r)
        BY <3>2 DEF ReconnectFails, ReconnectFinished, SetStateIfCurrent, Running, Working,
           ReconnectRuns
      <3>3. CASE ~(ReconnectStarts(r) \/ ReconnectRetries(r) \/ ReconnectFails(r)
                       \/ ReconnectFinished(r))
        <4>1. UNCHANGED state
          BY <1>2, <3>3
             DEF ReconnectStep, ReconnectWorks, TriggerReadsState, TriggerClaims, RejoinBegins,
             Restored, FastResumed, ReconnectCancelled, ReconnectGivesUp, ReconnectLeft,
             ReconnectReleases, lifecycleVars
        <4> QED
          BY <4>1
      <3> QED
        BY <3>1, <3>2, <3>3
    <2>3. task'[r].at = p /\ task'[r].gen = task[r].gen
          /\ \A u \in Tasks : u # r => task'[u] = task[u]
      BY <2>1, GotoEffect DEF TypeInv, TypeOK, Tasks
    <2> QED
      BY <2>1, <2>2, <2>3 DEF Tasks
  <1> QED
    BY <1>1, <1>2

LEMMA WorkShowsNext ==
  TypeInv /\ GenInv /\ PlaceInv /\ ClaimInv /\ WorkShows /\ [Next]_vars => WorkShows'
  <1> SUFFICES ASSUME TypeInv, GenInv, PlaceInv, ClaimInv, WorkShows, [Next]_vars
               PROVE  WorkShows'
    OBVIOUS
  <1>1. ASSUME NEW t \in Tasks, Connects(t) PROVE WorkShows'
    <2>1. UNCHANGED <<state, generation>>
      BY <1>1, ConnectsFrame
    <2>2. /\ \A u \in Tasks : task'[u].gen = task[u].gen
          /\ \A u \in Tasks : u # t => task'[u] = task[u]
      BY <1>1, ConnectsMoves, MovesEffect
    <2>3. t \in Reconnects => task[t].at \in Working
      BY <1>1 DEF Connects, CoordinatorChecked, CoordinatorStored, CoordinatorRechecked,
         Established, InstallChecked, Installed, Working, ReconnectRuns
    <2> QED
      BY <2>1, <2>2, <2>3 DEF WorkShows, Tasks
  <1>2. ASSUME NEW j \in Joins, JoinStep(j) PROVE WorkShows'
    <2>1. \A r \in Reconnects : task'[r] = task[r] /\ task[r].gen # generation + 1
      BY <1>2, JoinSteps, Numbers DEF Tasks
    <2>2. \/ generation' = generation + 1
          \/ generation' = generation /\ (state' = state \/ state = "Joining")
      BY <1>2, JoinSteps
    <2> QED
      BY <2>1, <2>2 DEF WorkShows
  <1>3. ASSUME NEW r \in Reconnects, ReconnectStep(r) PROVE WorkShows'
    <2>1. generation' = generation
      BY <1>3, ReconnectFrame
    <2>2. ASSUME NEW q \in Reconnects, q # r, task'[q].gen = generation, task'[q].at \in Working
          PROVE  state' \in {"Reconnecting", "Migrating"}
      <3>1. task'[q] = task[q]
        BY <1>3, <2>2, ReconnectSteps
      <3>2. Running(q)
        BY <2>2, <3>1 DEF Running, Working
      <3>3. ~(task[r].gen = generation /\ Running(r))
        BY <2>2, <3>1, <3>2 DEF ClaimInv, OneReconnectPerGeneration
      <3>4. state' = state
        BY <1>3, <3>3, ReconnectSteps
      <3> QED
        BY <2>2, <3>1, <3>4 DEF WorkShows
    <2>3. ASSUME task'[r].gen = generation, task'[r].at \in Working
          PROVE  state' \in {"Reconnecting", "Migrating"}
      BY <1>3, <2>3, ReconnectSteps DEF WorkShows
    <2> QED
      BY <2>1, <2>2, <2>3 DEF WorkShows
  <1>4. ASSUME NEW l \in Leaves, LeaveStep(l) PROVE WorkShows'
    <2>1. UNCHANGED <<generation, task>>
      BY <1>4, LeaveFrame
    <2>2. CASE state' = state
      BY <2>1, <2>2 DEF WorkShows
    <2>3. CASE state' # state
      <3>1. leave[l].gen = generation /\ leave[l].caller # "new"
        BY <1>4, <2>3 DEF LeaveStep, LeaveTears, LeaveEnds, LeaveTakes, LeaveLocksMedia,
           LeaveStopsAll, LeaveReturns, LeaveClears, LeaveSetsLeft, LeaveStopsCoordinator,
           SetStateIfCurrent, lifecycleVars
      <3>2. \A r \in Reconnects : task[r].gen # generation
        BY <3>1, Numbers DEF PlaceInv, LeaveWorks, Tasks
      <3> QED
        BY <2>1, <3>2 DEF WorkShows
    <2> QED
      BY <2>2, <2>3
  <1>5. ASSUME NEW l \in Leaves, StartStep(l) PROVE WorkShows'
    <2>1. generation' = generation + 1
      BY <1>5, StartFrame DEF LeaveStarted
    <2>2. \A r \in Reconnects : task'[r].gen = task[r].gen
      BY <1>5, StartFrame, GotoEffect DEF TypeInv, TypeOK, Tasks, Place
    <2> QED
      BY <2>1, <2>2, Numbers DEF WorkShows, Tasks
  <1>6. ASSUME UNCHANGED <<state, generation, task>> PROVE WorkShows'
    BY <1>6 DEF WorkShows
  <1> QED
    BY <1>1, <1>2, <1>3, <1>4, <1>5, <1>6, NextSteps, EndFrame
       DEF CoordinatorLost, PublishBegun, PublishEnded, vars, lifecycleVars

LEMMA DiagramNext ==
  TypeInv /\ GenInv /\ PlaceInv /\ ClaimInv /\ DiagramInv /\ [Next]_vars => DiagramInv'
  <1> SUFFICES ASSUME TypeInv, GenInv, PlaceInv, ClaimInv, DiagramInv, [Next]_vars
               PROVE  DiagramInv'
    OBVIOUS
  <1>1. IsFiniteSet(Begun')
    BY BegunGrows, FS_AddElement DEF DiagramInv
  <1> QED
    BY <1>1, WorkShowsNext DEF DiagramInv

\* How the state changes, and with it the joins that began.
LEMMA StateSteps ==
  ASSUME TypeInv, GenInv, PlaceInv, ClaimInv, DiagramInv, [Next]_vars
  PROVE  \/ state' = state /\ Begun' = Begun
         \/ /\ state \in {"Idle", "Left"} /\ state' = "Joining"
            /\ \E j \in Joins \ Begun : Begun' = Begun \cup {j}
         \/ state = "Joining" /\ state' \in {"Idle", "Joined"} /\ Begun' = Begun
         \/ state \in Live /\ state' \in {"Reconnecting", "Migrating"} /\ Begun' = Begun
         \/ /\ state \in {"Reconnecting", "Migrating"}
            /\ state' \in {"Joined", "ReconnectingFailed"} /\ Begun' = Begun
         \/ state' = "Left" /\ Begun' = Begun
  <1>1. ASSUME NEW j \in Joins, JoinBegin(j)
        PROVE  /\ state \in {"Idle", "Left"} /\ state' = "Joining"
               /\ \E i \in Joins \ Begun : Begun' = Begun \cup {i}
    <2>1. ~(Begun' = Begun)
      <3>1. task[j].gen = None /\ task'[j].gen = generation + 1
        BY <1>1 DEF JoinBegin, GenInv, TypeInv, TypeOK, Tasks
      <3>2. generation + 1 # None
        BY DEF TypeInv, TypeOK, None
      <3> QED
        BY <3>1, <3>2 DEF Begun
    <2> QED
      BY <1>1, <2>1, BegunGrows DEF JoinBegin
  <1>2. CASE ~ \E j \in Joins : JoinBegin(j)
    <2>1. Begun' = Begun
      BY <1>2, BegunGrows
    <2>2. ASSUME NEW j \in Joins, JoinStep(j)
          PROVE  state' = state \/ (state = "Joining" /\ state' \in {"Idle", "Joined"})
      <3>1. ~JoinBegin(j)
        BY <1>2
      <3> QED
        BY <2>2, <3>1, JoinSteps
    <2>3. ASSUME NEW r \in Reconnects, ReconnectStep(r), state' # state
          PROVE  \/ state \in Live /\ state' \in {"Reconnecting", "Migrating"}
                 \/ /\ state \in {"Reconnecting", "Migrating"}
                    /\ state' \in {"Joined", "ReconnectingFailed"}
      <3>1. task[r].gen = generation /\ Running(r)
        BY <2>3, ReconnectSteps
      <3>2. state \in Live
        BY <3>1 DEF Running, PlaceInv, TasksFit, ReconnectFits
      <3>3. task[r].at \in Working => state \in {"Reconnecting", "Migrating"}
        BY <3>1 DEF DiagramInv, WorkShows
      <3> QED
        BY <2>3, <3>2, <3>3, ReconnectSteps
    <2>4. ASSUME NEW l \in Leaves, LeaveStep(l) PROVE state' = state \/ state' = "Left"
      BY <2>4 DEF LeaveStep, LeaveTears, LeaveEnds, LeaveTakes, LeaveLocksMedia, LeaveStopsAll,
         LeaveReturns, LeaveClears, LeaveSetsLeft, LeaveStopsCoordinator, SetStateIfCurrent,
         lifecycleVars
    <2> QED
      BY <2>1, <2>2, <2>3, <2>4, NextSteps, ConnectsFrame, StartFrame, EndFrame
         DEF CoordinatorLost, PublishBegun, PublishEnded, vars, lifecycleVars
  <1> QED
    BY <1>1, <1>2

\* The events of a call handle follow the diagram of its calling states: every
\* step of any number of joins, leaves and reconnects is one of the diagram's, or
\* changes no state.
THEOREM StatesFollowDiagram == Spec => StateDiagram
  <1> DEFINE count == Cardinality({j \in Joins : task[j].gen # None})
  <1>1. Init => Diagram!Init
    <2> SUFFICES ASSUME Init PROVE Diagram!Init
      OBVIOUS
    <2>1. {j \in Joins : task[j].gen # None} = {}
      BY DEF Init, Tasks
    <2>2. count = 0
      BY <2>1, FS_EmptySet
    <2> QED
      BY <2>2 DEF Init, Diagram!Init
  <1>2. TypeInv /\ GenInv /\ PlaceInv /\ ClaimInv /\ DiagramInv /\ [Next]_vars
            => [Diagram!Next]_<<state, count>>
    <2> SUFFICES ASSUME TypeInv, GenInv, PlaceInv, ClaimInv, DiagramInv, [Next]_vars
                 PROVE  [Diagram!Next]_<<state, count>>
      OBVIOUS
    <2>1. count = Cardinality(Begun) /\ count' = Cardinality(Begun')
      BY DEF Begun
    <2>2. ASSUME NEW j \in Joins \ Begun, Begun' = Begun \cup {j} PROVE count' = count + 1
      BY <2>1, <2>2, FS_AddElement DEF DiagramInv
    <2>3. Begun' = Begun => count' = count
      BY <2>1
    <2> HIDE DEF count
    <2>4. \/ state' = state /\ count' = count
          \/ state \in {"Idle", "Left"} /\ state' = "Joining" /\ count' = count + 1
          \/ state = "Joining" /\ state' \in {"Idle", "Joined"} /\ count' = count
          \/ state \in Live /\ state' \in {"Reconnecting", "Migrating"} /\ count' = count
          \/ /\ state \in {"Reconnecting", "Migrating"}
             /\ state' \in {"Joined", "ReconnectingFailed"} /\ count' = count
          \/ state' = "Left" /\ count' = count
      BY <2>2, <2>3, StateSteps
    <2> QED
      BY <2>4 DEF count, Diagram!Next, Diagram!Begin, Diagram!JoinEnds, Diagram!Loses,
         Diagram!Recovers, Diagram!Departs, Live
  <1>3. Init => ClaimInv
    BY ClaimInit
  <1> QED
    BY <1>1, <1>2, <1>3, TypeInit, TypeNext, GenInit, GenNext, SlotInit, SlotNext, PlaceInit,
       PlaceNext, ClaimNext, DiagramInit, DiagramNext, PTL DEF Spec, StateDiagram, Diagram!Spec
=============================================================================
