-------------------------- MODULE ReconnectProofs ---------------------------
(***************************************************************************)
(* The connections of a reconnect, for every set of connections, every     *)
(* limit and every number of failures: none is leaked, and the one in the  *)
(* slot of a live call is open with both of its signal tasks.              *)
(***************************************************************************)
EXTENDS Reconnect, TLAPS

\* Where the run holds a connection that is not in the slot yet, and one that
\* is no longer there.
FreshPlaces == {"install", "retain"}
OldPlaces == {"teardown", "migrated", "cleanup"}

\* The run's hands are full exactly there, and never with the one in the slot.
HandsInv ==
    /\ run.fresh # NoConn <=> run.at \in FreshPlaces
    /\ run.old # NoConn <=> run.at \in OldPlaces
    /\ current \notin {run.fresh, run.old}

\* An open connection with its signal tasks.
Alive(c) == Open(c) /\ ask[Loop(c)].at # "off" /\ ask[Ping(c)].at # "off"

\* The new connection is alive before it is put in the slot: that is why the
\* slot is never empty in between.
SlotInv == state # "Left" => Alive(current) /\ (run.fresh # NoConn => Alive(run.fresh))

\* Nothing of the generation is left when the call was left.
LeftInv ==
    state = "Left" =>
        /\ \A c \in Conns : conn[c] = Closed
        /\ \A a \in Askers : ask[a] = Off
        /\ run = Idle

ConnectionsInv == TypeOK /\ HandsInv /\ SlotInv /\ LeftInv /\ NoLeakedConnection

-----------------------------------------------------------------------------
(* The types. *)

LEMMA AskersOf ==
  /\ Coordinator \in Askers
  /\ \A c \in Conns : Loop(c) \in Askers /\ Ping(c) \in Askers /\ Pc(c) \in Askers
  BY DEF Askers, Loop, Ping, Pc

\* The tasks of two connections are not the same.
LEMMA AskersDiffer ==
  ASSUME NEW c \in Conns, NEW d \in Conns, c # d
  PROVE  /\ Loop(c) # Loop(d) /\ Ping(c) # Ping(d)
         /\ Loop(c) # Ping(d) /\ Ping(c) # Loop(d)
  BY DEF Loop, Ping

LEMMA RecordsTyped ==
  /\ Closed \in ConnRecord /\ Opened \in ConnRecord
  /\ Quiet \in AskRecord /\ Off \in AskRecord
  /\ Idle \in RunRecord
  BY DEF Closed, Opened, ConnRecord, Quiet, Off, Asking, AskRecord, Strategy,
         Idle, RunRecord, RunPlaces

\* What leave() makes of the variables.
LEMMA LeaveTyped == TypeOK /\ Leave => TypeOK'
  BY RecordsTyped DEF TypeOK, Leave, limitVars

LEMMA TypeInit == Init => TypeOK
  <1> SUFFICES ASSUME Init PROVE TypeOK
    OBVIOUS
  <1>1. conn \in [Conns -> ConnRecord] /\ ask \in [Askers -> AskRecord]
    BY RecordsTyped DEF Init
  <1>2. 0 \in 0..RateLimit /\ 0 \in 0..IceLimit /\ 0 \in 0..NegotiationLimit /\ 0 \in 0..MaxFaults
    BY LimitsAssumption
  <1> QED
    BY <1>1, <1>2, RecordsTyped DEF Init, TypeOK

\* The two ways most steps change the run: it goes on, or the attempt fails.
LEMMA GoTyped ==
  ASSUME TypeOK, NEW at \in RunPlaces, Go(at)
  PROVE  run' \in RunRecord
  BY DEF TypeOK, Go, RunRecord

LEMMA FailsTyped ==
  ASSUME TypeOK, NEW e \in Errors \cup {"rejected"}, FailsWith(e)
  PROVE  run' \in RunRecord
  <1>1. e \in {"none", "plain", "negotiation", "unrecoverable", "rejected"}
    BY DEF Errors
  <1>2. "failed" \in RunPlaces
    BY DEF RunPlaces
  <1> QED
    BY <1>1, <1>2 DEF TypeOK, FailsWith, RunRecord

LEMMA FaultTyped == TypeOK /\ Fault => faults' \in 0..MaxFaults
  BY LimitsAssumption DEF TypeOK, Fault

LEMMA TypeNotices ==
  ASSUME TypeOK, NEW c \in Conns, Notices(c) \/ LoopSeesClose(c) \/ PingFails(c)
  PROVE  TypeOK'
  <1> USE AskersOf DEF TypeOK, limitVars
  <1>1. CASE SocketCloses(c)
    BY <1>1, LimitsAssumption DEF SocketCloses, Fault, ConnRecord
  <1>2. CASE LoopFails(c)
    <2>1. conn' \in [Conns -> ConnRecord]
      <3>1. PICK s \in {conn[c].socket, "closed"} :
              conn' = [conn EXCEPT ![c].healthy = FALSE, ![c].socket = s]
        BY <1>2 DEF LoopFails
      <3>2. s \in {"open", "closed"}
        BY DEF ConnRecord
      <3> QED
        BY <3>1, <3>2 DEF ConnRecord
    <2>2. ask' \in [Askers -> AskRecord]
      BY <1>2 DEF LoopFails, AsksIfEnabled, AskRecord, Strategy
    <2> QED
      BY <1>2, <2>1, <2>2, FaultTyped DEF LoopFails
  <1>3. CASE SfuAsks(c)
    BY <1>3, LimitsAssumption DEF SfuAsks, Fault, Asking, AskRecord
  <1>4. CASE PcConnects(c)
    BY <1>4, LimitsAssumption DEF PcConnects, ConnRecord
  <1>5. CASE PcFails(c)
    <2>1. conn' \in [Conns -> ConnRecord]
      BY <1>5 DEF PcFails, ConnRecord
    <2>2. ask' \in [Askers -> AskRecord]
      BY <1>5 DEF PcFails, AskRecord, Strategy
    <2> QED
      BY <1>5, <2>1, <2>2, FaultTyped DEF PcFails
  <1>6. CASE SfuDisconnects(c)
    BY <1>6, LeaveTyped DEF SfuDisconnects
  <1>7. CASE MigrationCompleted(c)
    <2>1. waiter' \in BOOLEAN /\ fired' \in BOOLEAN
      <3> DEFINE waits == run.at \in {"details", "handshake", "retain", "migrated"}
      <3>1. waiter' = FALSE /\ fired' = waits
        BY <1>7 DEF MigrationCompleted
      <3>2. waits = TRUE \/ waits = FALSE
        OBVIOUS
      <3> HIDE DEF waits
      <3> QED
        BY <3>1, <3>2
    <2>2. UNCHANGED <<state, current, conn, ask, run, limitVars, faults>>
      BY <1>7 DEF MigrationCompleted
    <2> QED
      BY <2>1, <2>2
  <1>8. CASE LoopSeesClose(c)
    <2>1. conn' \in [Conns -> ConnRecord]
      <3>1. conn' = [conn EXCEPT ![c].healthy = FALSE]
        BY <1>8 DEF LoopSeesClose
      <3> QED
        BY <3>1 DEF ConnRecord
    <2>2. ask' \in [Askers -> AskRecord]
      BY <1>8 DEF LoopSeesClose, AsksIfEnabled, AskRecord, Strategy
    <2> QED
      BY <1>8, <2>1, <2>2 DEF LoopSeesClose
  <1>9. CASE PingFails(c)
    <2>1. conn' \in [Conns -> ConnRecord]
      <3>1. conn' = [conn EXCEPT ![c].healthy = FALSE]
        BY <1>9 DEF PingFails
      <3> QED
        BY <3>1 DEF ConnRecord
    <2>2. ask' \in [Askers -> AskRecord]
      BY <1>9 DEF PingFails, AsksIfEnabled, AskRecord, Strategy
    <2> QED
      BY <1>9, <2>1, <2>2 DEF PingFails
  <1> QED
    BY <1>1, <1>2, <1>3, <1>4, <1>5, <1>6, <1>7, <1>8, <1>9 DEF Notices

LEMMA TypeAsks ==
  ASSUME TypeOK, NEW a \in Askers, Asks(a)
  PROVE  TypeOK'
  <1> USE DEF TypeOK, limitVars
  <1>0. Answered(a) \in [Askers -> AskRecord]
    BY RecordsTyped DEF Answered, Quiet, Asking, AskRecord, Strategy
  <1>1. CASE HealthRead(a)
    BY <1>1 DEF HealthRead, AskRecord, Strategy
  <1>2. CASE StateRead(a)
    BY <1>0, <1>2 DEF StateRead, AskRecord
  <1>3. CASE Claimed(a)
    <2>1. run' \in RunRecord
      <3>1. CASE run.at = "idle"
        <4> DEFINE s == ask[a].strategy
                   i == ask[a].ice
        <4>1. s \in Strategy /\ i \in BOOLEAN
          BY DEF AskRecord
        <4>2. run' = [Idle EXCEPT !.at = "start", !.strategy = s,
                                  !.migrating = s = "Migrate", !.ice = i]
          BY <1>3, <3>1 DEF Claimed
        <4>3. "start" \in RunPlaces /\ (s = "Migrate") \in BOOLEAN
          BY DEF RunPlaces
        <4> HIDE DEF s, i
        <4> QED
          BY <4>1, <4>2, <4>3, RecordsTyped DEF RunRecord
      <3>2. CASE run.at # "idle"
        BY <1>3, <3>2 DEF Claimed
      <3> QED
        BY <3>1, <3>2
    <2> QED
      BY <1>0, <1>3, <2>1 DEF Claimed
  <1> QED
    BY <1>1, <1>2, <1>3 DEF Asks

\* The loop around the attempts.
LEMMA TypeLoop ==
  ASSUME TypeOK, RunStarts \/ LoopTop \/ GivenUp \/ FailureCounted \/ Escalated
                     \/ Finished \/ Released
  PROVE  TypeOK'
  <1> USE LimitsAssumption DEF TypeOK, limitVars, Go
  <1>1. CASE RunStarts
    <2>1. CASE run.ice /\ TooManyIceFailures
      BY <1>1, <2>1, LeaveTyped DEF RunStarts
    <2>2. CASE ~(run.ice /\ TooManyIceFailures)
      <3>1. iceFailures' \in 0..IceLimit
        <4>1. iceFailures' = IF run.ice THEN iceFailures + 1 ELSE iceFailures
          BY <1>1, <2>2 DEF RunStarts
        <4>2. CASE run.ice
          BY <2>2, <4>1, <4>2 DEF TooManyIceFailures
        <4>3. CASE ~run.ice
          BY <4>1, <4>3
        <4> QED
          BY <4>2, <4>3
      <3>2. run' \in RunRecord
        <4>1. PICK t \in Timeouts : run' = [run EXCEPT !.at = "top", !.timed = t]
          BY <1>1, <2>2 DEF RunStarts
        <4>2. t \in BOOLEAN /\ "top" \in RunPlaces
          BY DEF RunPlaces
        <4> QED
          BY <4>1, <4>2 DEF RunRecord
      <3> QED
        BY <1>1, <2>2, <3>1, <3>2 DEF RunStarts, ReconnectState
    <2> QED
      BY <2>1, <2>2
  <1>2. CASE LoopTop
    <2>1. CASE run.expired
      BY <1>2, <2>1 DEF LoopTop, TimedOut, RunRecord, RunPlaces
    <2>2. CASE ~run.expired /\ RateLimited(run.strategy) /\ registered = RateLimit
      BY <1>2, <2>2, LeaveTyped DEF LoopTop
    <2>3. CASE ~run.expired /\ ~(RateLimited(run.strategy) /\ registered = RateLimit)
      <3>1. Attempts
        BY <1>2, <2>3 DEF LoopTop
      <3>2. registered' \in 0..RateLimit
        BY <2>3, <3>1 DEF Attempts
      <3>3. FirstStep[run.strategy] \in RunPlaces
        BY DEF FirstStep, RunRecord, Strategy, RunPlaces
      <3>4. run' \in RunRecord
        BY <3>1, <3>3 DEF Attempts, RunRecord
      <3> QED
        BY <3>1, <3>2, <3>4 DEF Attempts
    <2> QED
      BY <2>1, <2>2, <2>3
  <1>3. CASE GivenUp
    BY <1>3 DEF GivenUp, RunRecord, RunPlaces
  <1>4. CASE FailureCounted
    <2>1. CASE run.error = "negotiation" /\ TooManyNegotiations
      BY <1>4, <2>1, LeaveTyped DEF FailureCounted
    <2>2. CASE ~(run.error = "negotiation" /\ TooManyNegotiations)
      <3>1. negotiationFailures' \in 0..NegotiationLimit
        BY <1>4, <2>2 DEF FailureCounted, TooManyNegotiations
      <3>2. run' \in RunRecord
        BY <1>4, <2>2 DEF FailureCounted, RunRecord, RunPlaces
      <3> QED
        BY <1>4, <2>2, <3>1, <3>2 DEF FailureCounted
    <2> QED
      BY <2>1, <2>2
  <1>5. CASE Escalated
    <2>1. run' \in RunRecord
      <3>1. PICK s \in Strategy, n \in 0..3 :
              run' = [run EXCEPT !.at = "top", !.strategy = s, !.migrating = FALSE,
                                 !.attempt = n, !.error = "none"]
        <4>1. NextStrategy \in Strategy
          BY DEF NextStrategy, Strategy
        <4>2. run.attempt \in 0..3
          BY DEF RunRecord
        <4>3. (IF run.attempt < 3 THEN run.attempt + 1 ELSE 3) \in 0..3
          BY <4>2
        <4> QED
          BY <1>5, <4>1, <4>3 DEF Escalated, RunRecord
      <3>2. "top" \in RunPlaces
        BY DEF RunPlaces
      <3> QED
        BY <3>1, <3>2 DEF RunRecord
    <2> QED
      BY <1>5, <2>1 DEF Escalated
  <1>6. CASE Finished
    BY <1>6 DEF Finished, RunRecord, RunPlaces
  <1>7. CASE Released
    BY <1>7, RecordsTyped DEF Released
  <1> QED
    BY <1>1, <1>2, <1>3, <1>4, <1>5, <1>6, <1>7

LEMMA TypeFast ==
  ASSUME TypeOK, Fast
  PROVE  TypeOK'
  <1> USE DEF TypeOK, limitVars, Go
  <1>1. CASE FastChecks
    BY <1>1 DEF FastChecks, RunRecord, RunPlaces
  <1>2. CASE FastFails
    <2>1. run' \in RunRecord
      BY <1>2, FailsTyped DEF FastFails
    <2> QED
      BY <1>2, <2>1 DEF FastFails
  <1>3. CASE FastResumes
    <2>1. run' \in RunRecord
      BY <1>3 DEF FastResumes, RunRecord, RunPlaces
    <2> QED
      BY <1>3, <2>1, AskersOf, RecordsTyped DEF FastResumes, ConnRecord
  <1>4. CASE FastRestores
    <2>1. run' \in RunRecord
      BY <1>4 DEF FastRestores, RunRecord, RunPlaces
    <2> QED
      BY <1>4, <2>1 DEF FastRestores, ConnRecord
  <1> QED
    BY <1>1, <1>2, <1>3, <1>4 DEF Fast

LEMMA TypeEstablished ==
  ASSUME TypeOK, NEW at, NEW next \in RunPlaces, Established(at, next)
  PROVE  TypeOK'
  <1>1. PICK c \in Conns :
          /\ conn' = [conn EXCEPT ![c] = Opened]
          /\ ask' = [ask EXCEPT ![Loop(c)] = Quiet, ![Ping(c)] = Quiet,
                                ![Coordinator] = IF @.at = "ended" THEN Quiet ELSE @]
          /\ run' = [run EXCEPT !.at = next, !.fresh = c]
    BY DEF Established
  <1>2. run' \in RunRecord
    BY <1>1 DEF TypeOK, RunRecord
  <1>3. ask' \in [Askers -> AskRecord]
    BY <1>1, AskersOf, RecordsTyped DEF TypeOK
  <1> QED
    BY <1>1, <1>2, <1>3, RecordsTyped DEF TypeOK, Established, limitVars

LEMMA AbortedTyped ==
  ASSUME TypeOK, NEW c
  PROVE  /\ TornDown(c) \in [Conns -> ConnRecord]
         /\ Aborted(c) \in [Askers -> AskRecord]
  BY RecordsTyped DEF TypeOK, TornDown, Aborted

LEMMA TypeRejoin ==
  ASSUME TypeOK, HandsInv, Rejoin
  PROVE  TypeOK'
  <1> USE DEF TypeOK, limitVars, Go
  <1>1. CASE RejoinFails
    <2>1. run' \in RunRecord
      BY <1>1, FailsTyped DEF RejoinFails
    <2> QED
      BY <1>1, <2>1 DEF RejoinFails
  <1>2. CASE RejoinEstablished
    BY <1>2, TypeEstablished DEF RejoinEstablished, RunPlaces
  <1>3. CASE RejoinInstalled
    <2>1. run.fresh \in Conns
      BY <1>3 DEF RejoinInstalled, HandsInv, FreshPlaces, RunRecord
    <2>2. run' \in RunRecord
      BY <1>3 DEF RejoinInstalled, RunRecord, RunPlaces
    <2> QED
      BY <1>3, <2>1, <2>2 DEF RejoinInstalled
  <1>4. CASE RejoinTearsDown
    <2>1. run' \in RunRecord
      BY <1>4 DEF RejoinTearsDown, RunRecord, RunPlaces
    <2> QED
      BY <1>4, <2>1, AbortedTyped DEF RejoinTearsDown
  <1>5. CASE Restored
    BY <1>5 DEF Restored, RunRecord, RunPlaces
  <1> QED
    BY <1>1, <1>2, <1>3, <1>4, <1>5 DEF Rejoin

LEMMA TypeMigrate ==
  ASSUME TypeOK, HandsInv, Migrate
  PROVE  TypeOK'
  <1> USE DEF TypeOK, limitVars, Go
  <1>1. CASE MigrateRefused
    <2>1. run' \in RunRecord
      BY <1>1, FailsTyped DEF MigrateRefused
    <2> QED
      BY <1>1, <2>1 DEF MigrateRefused
  <1>2. CASE MigrateDisables
    <2>1. run' \in RunRecord
      BY <1>2 DEF MigrateDisables, RunRecord, RunPlaces
    <2> QED
      BY <1>2, <2>1 DEF MigrateDisables, ConnRecord
  <1>3. CASE WaiterInstalled
    <2>1. run' \in RunRecord
      <3>1. "plain" \in Errors /\ "details" \in RunPlaces
        BY DEF Errors, RunPlaces
      <3>2. FailsWith("plain") \/ Go("details")
        BY <1>3 DEF WaiterInstalled, Go
      <3> HIDE DEF Go
      <3> QED
        BY <3>1, <3>2, FailsTyped, GoTyped
    <2>2. conn' \in [Conns -> ConnRecord]
      BY <1>3 DEF WaiterInstalled, ConnRecord
    <2> QED
      BY <1>3, <2>1, <2>2 DEF WaiterInstalled
  <1>4. CASE DetailsCollected
    <2>1. "handshake" \in RunPlaces
      BY DEF RunPlaces
    <2>2. Go("handshake") \/ \E e \in Errors : FailsWith(e)
      BY <1>4 DEF DetailsCollected
    <2> HIDE DEF Go
    <2>3. run' \in RunRecord
      BY <2>1, <2>2, FailsTyped, GoTyped
    <2> QED
      BY <1>4, <2>3 DEF DetailsCollected
  <1>5. CASE MigrateJoinFails
    <2>1. run' \in RunRecord
      BY <1>5, FailsTyped DEF MigrateJoinFails
    <2> QED
      BY <1>5, <2>1 DEF MigrateJoinFails, ConnRecord
  <1>6. CASE MigrateEstablished
    BY <1>6, TypeEstablished DEF MigrateEstablished, RunPlaces
  <1>7. CASE MigrateInstalled
    <2>1. run.fresh \in Conns
      BY <1>7 DEF MigrateInstalled, HandsInv, FreshPlaces, RunRecord
    <2>2. run' \in RunRecord
      BY <1>7 DEF MigrateInstalled, RunRecord, RunPlaces
    <2> QED
      BY <1>7, <2>1, <2>2 DEF MigrateInstalled, ConnRecord
  <1>8. CASE MigrateRestored
    <2>1. PICK e \in Errors \cup {"none"} : run' = [run EXCEPT !.at = "cleanup", !.error = e]
      BY <1>8 DEF MigrateRestored
    <2>2. "cleanup" \in RunPlaces
      BY DEF RunPlaces
    <2>3. run' \in RunRecord
      BY <2>1, <2>2 DEF RunRecord, Errors
    <2> QED
      BY <1>8, <2>3 DEF MigrateRestored
  <1>9. CASE MigrateCleansUp
    <2>1. run' \in RunRecord
      BY <1>9 DEF MigrateCleansUp, RunRecord, RunPlaces
    <2> QED
      BY <1>9, <2>1, AbortedTyped DEF MigrateCleansUp
  <1> QED
    BY <1>1, <1>2, <1>3, <1>4, <1>5, <1>6, <1>7, <1>8, <1>9 DEF Migrate

LEMMA TypeNext == TypeOK /\ HandsInv /\ [Next]_vars => TypeOK'
  <1> SUFFICES ASSUME TypeOK, HandsInv, [Next]_vars PROVE TypeOK'
    OBVIOUS
  <1> USE DEF TypeOK, limitVars
  <1>1. CASE JoinCommitted
    BY <1>1 DEF JoinCommitted
  <1>2. CASE CoordinatorLost
    BY <1>2, AskersOf, LimitsAssumption DEF CoordinatorLost, Fault, AskRecord, Strategy
  <1>3. CASE \E c \in Conns : Notices(c) \/ LoopSeesClose(c) \/ PingFails(c)
    BY <1>3, TypeNotices
  <1>4. CASE \E a \in Askers : Asks(a)
    BY <1>4, TypeAsks
  <1>5. CASE RunSteps
    BY <1>5, TypeLoop, TypeFast, TypeRejoin, TypeMigrate DEF RunSteps
  <1>6. CASE FastDeadlinePasses \/ TimeoutPasses
    <2>1. run' \in RunRecord
      BY <1>6 DEF FastDeadlinePasses, TimeoutPasses, RunRecord
    <2> QED
      BY <1>6, <2>1 DEF FastDeadlinePasses, TimeoutPasses
  <1>7. CASE RegistrationExpires
    BY <1>7, LimitsAssumption DEF RegistrationExpires
  <1>8. CASE UNCHANGED vars
    BY <1>8 DEF vars
  <1> QED
    BY <1>1, <1>2, <1>3, <1>4, <1>5, <1>6, <1>7, <1>8 DEF Next

-----------------------------------------------------------------------------
(* The connections. *)

\* Most steps leave alone which connections are open and where they are held,
\* and abort no task.
Calm ==
    /\ current' = current
    /\ \A c \in Conns : Open(c)' <=> Open(c)
    /\ \A a \in Askers : ask[a].at # "off" => ask'[a].at # "off"
    /\ state' # "Left"
    /\ run'.fresh = run.fresh /\ run'.old = run.old
    /\ run'.at \in FreshPlaces <=> run.at \in FreshPlaces
    /\ run'.at \in OldPlaces <=> run.at \in OldPlaces

LEMMA CalmKeeps ==
  ASSUME ConnectionsInv, TypeOK', state # "Left", Calm
  PROVE  ConnectionsInv'
  <1> USE DEF ConnectionsInv, Calm
  <1>1. HandsInv'
    BY DEF HandsInv
  <1>2. \A c \in Conns : Alive(c) => Alive(c)'
    BY AskersOf DEF Alive, Loop, Ping
  <1>3. run.fresh # NoConn => run.fresh \in Conns
    BY DEF TypeOK, RunRecord
  <1>4. SlotInv'
    BY <1>2, <1>3 DEF SlotInv, TypeOK, Alive, Loop, Ping
  <1>5. LeftInv'
    BY DEF LeftInv
  <1>6. NoLeakedConnection'
    BY DEF NoLeakedConnection
  <1> QED
    BY <1>1, <1>4, <1>5, <1>6

LEMMA LeaveCloses ==
  ASSUME TypeOK, TypeOK', Leave
  PROVE  ConnectionsInv'
  <1>1. HandsInv'
    BY NoConnAssumption DEF Leave, HandsInv, Idle, FreshPlaces, OldPlaces, TypeOK
  <1>2. SlotInv'
    BY DEF Leave, SlotInv
  <1>3. LeftInv'
    BY DEF Leave, LeftInv
  <1>4. NoLeakedConnection'
    BY DEF Leave, NoLeakedConnection, Open, Closed
  <1> QED
    BY <1>1, <1>2, <1>3, <1>4 DEF ConnectionsInv

\* A connection that was not open is opened, and held by the run.
LEMMA EstablishedKeeps ==
  ASSUME ConnectionsInv, TypeOK', state # "Left",
         NEW at \in {"rejoin", "handshake"}, NEW next \in FreshPlaces, Established(at, next)
  PROVE  ConnectionsInv'
  <1> USE DEF ConnectionsInv
  <1>1. PICK c \in Conns :
          /\ Unused(c)
          /\ conn' = [conn EXCEPT ![c] = Opened]
          /\ ask' = [ask EXCEPT ![Loop(c)] = Quiet, ![Ping(c)] = Quiet,
                                ![Coordinator] = IF @.at = "ended" THEN Quiet ELSE @]
          /\ run' = [run EXCEPT !.at = next, !.fresh = c]
    BY DEF Established
  <1>2. run.at = at /\ UNCHANGED <<state, current>>
    BY DEF Established
  <1>3. run.fresh = NoConn /\ run.old = NoConn
    BY <1>2 DEF HandsInv, FreshPlaces, OldPlaces
  <1>4. current \in Conns /\ c # current /\ c # NoConn /\ current # NoConn
    BY <1>1, NoConnAssumption DEF TypeOK, SlotInv, Alive, Unused
  <1>5. run'.at = next /\ run'.fresh = c /\ run'.old = NoConn
    BY <1>1, <1>3 DEF TypeOK, RunRecord
  <1>6. HandsInv'
    <2>1. next \notin OldPlaces
      BY DEF FreshPlaces, OldPlaces
    <2> QED
      BY <1>2, <1>4, <1>5, <2>1 DEF HandsInv
  <1>7. \A d \in Conns : Open(d)' <=> (d = c \/ Open(d))
    BY <1>1 DEF Open, Opened, TypeOK
  <1>8. \A a \in Askers : ask'[a].at = "off" => ask[a].at = "off"
    BY <1>1 DEF TypeOK, Quiet, Asking
  <1>9. ask'[Loop(c)].at # "off" /\ ask'[Ping(c)].at # "off"
    <2>1. Loop(c) # Coordinator /\ Ping(c) # Coordinator /\ Loop(c) # Ping(c)
      BY CoordinatorAssumption DEF Loop, Ping
    <2> QED
      BY <1>1, <2>1, AskersOf DEF TypeOK, Quiet, Asking
  <1>10. SlotInv'
    BY <1>2, <1>4, <1>5, <1>7, <1>8, <1>9, AskersOf DEF SlotInv, Alive, Loop, Ping
  <1>11. LeftInv'
    BY <1>2 DEF LeftInv
  <1>12. NoLeakedConnection'
    BY <1>2, <1>3, <1>4, <1>5, <1>7, NoConnAssumption DEF NoLeakedConnection
  <1> QED
    BY <1>6, <1>10, <1>11, <1>12

\* The connection of the run and the one in the slot change places.
LEMMA InstalledKeeps ==
  ASSUME ConnectionsInv, TypeOK', state # "Left", RejoinInstalled \/ MigrateInstalled
  PROVE  ConnectionsInv'
  <1> USE DEF ConnectionsInv
  <1>1. /\ run.at \in FreshPlaces
        /\ current' = run.fresh
        /\ run'.at \in OldPlaces /\ run'.fresh = NoConn /\ run'.old = current
        /\ UNCHANGED <<state, ask>>
    BY DEF RejoinInstalled, MigrateInstalled, FreshPlaces, OldPlaces, TypeOK, RunRecord
  <1>2. \A c \in Conns : Open(c)' <=> Open(c)
    BY DEF RejoinInstalled, MigrateInstalled, Open, TypeOK, ConnRecord
  <1>3. run.fresh \in Conns /\ current \in Conns /\ run.fresh # current
    BY <1>1 DEF HandsInv, TypeOK, RunRecord
  <1>4. run.old = NoConn
    BY <1>1 DEF HandsInv, FreshPlaces, OldPlaces
  <1>5. HandsInv'
    <2>1. run'.at \notin FreshPlaces
      BY <1>1 DEF FreshPlaces, OldPlaces
    <2> QED
      BY <1>1, <1>3, <2>1, NoConnAssumption DEF HandsInv
  <1>6. SlotInv'
    BY <1>1, <1>2, <1>3, NoConnAssumption DEF SlotInv, Alive, Loop, Ping
  <1>7. LeftInv'
    BY <1>1 DEF LeftInv
  <1>8. NoLeakedConnection'
    BY <1>1, <1>2, <1>4, NoConnAssumption DEF NoLeakedConnection
  <1> QED
    BY <1>5, <1>6, <1>7, <1>8

\* The connection that is no longer in the slot is torn down.
LEMMA TornDownKeeps ==
  ASSUME ConnectionsInv, TypeOK', state # "Left", RejoinTearsDown \/ MigrateCleansUp
  PROVE  ConnectionsInv'
  <1> USE DEF ConnectionsInv
  <1>1. /\ run.at \in OldPlaces
        /\ conn' = TornDown(run.old) /\ ask' = Aborted(run.old)
        /\ run'.at \notin FreshPlaces \cup OldPlaces
        /\ run'.fresh = run.fresh /\ run'.old = NoConn
        /\ UNCHANGED <<state, current>>
    BY DEF RejoinTearsDown, MigrateCleansUp, FreshPlaces, OldPlaces, TypeOK, RunRecord
  <1>2. run.old \in Conns /\ current \in Conns /\ run.old # current
    BY <1>1 DEF HandsInv, TypeOK, RunRecord
  <1>3. run.fresh = NoConn
    BY <1>1 DEF HandsInv, FreshPlaces, OldPlaces
  <1>4. HandsInv'
    BY <1>1, <1>2, <1>3, NoConnAssumption DEF HandsInv
  <1>5. \A c \in Conns : Open(c)' <=> (Open(c) /\ c # run.old)
    BY <1>1, <1>2 DEF Open, TornDown, Closed, TypeOK
  <1>6. \A c \in Conns : c # run.old => (Alive(c) => Alive(c)')
    <2> SUFFICES ASSUME NEW c \in Conns, c # run.old, Alive(c)
                 PROVE  Alive(c)'
      OBVIOUS
    <2>1. ask'[Loop(c)] = ask[Loop(c)] /\ ask'[Ping(c)] = ask[Ping(c)]
      BY <1>1, <1>2, AskersDiffer, AskersOf DEF Aborted, TypeOK
    <2> QED
      BY <1>5, <2>1 DEF Alive, Loop, Ping
  <1>7. SlotInv'
    BY <1>1, <1>2, <1>3, <1>6 DEF SlotInv, Alive, Loop, Ping
  <1>8. LeftInv'
    BY <1>1 DEF LeftInv
  <1>9. NoLeakedConnection'
    BY <1>1, <1>3, <1>5 DEF NoLeakedConnection
  <1> QED
    BY <1>4, <1>7, <1>8, <1>9

-----------------------------------------------------------------------------
(* Every step is one of these, and none is taken after the call was left. *)

LEMMA NoticesCalm ==
  ASSUME ConnectionsInv, state # "Left",
         NEW c \in Conns, Notices(c) \/ LoopSeesClose(c) \/ PingFails(c)
  PROVE  Calm \/ Leave
  <1> USE AskersOf DEF ConnectionsInv, TypeOK, Calm, Open
  <1>1. CASE SocketCloses(c)
    BY <1>1 DEF SocketCloses, ConnRecord
  <1>2. CASE LoopFails(c)
    BY <1>2 DEF LoopFails, AsksIfEnabled, ConnRecord, AskRecord
  <1>3. CASE SfuAsks(c)
    BY <1>3 DEF SfuAsks, Asking, AskRecord
  <1>4. CASE PcConnects(c)
    BY <1>4 DEF PcConnects, ConnRecord
  <1>5. CASE PcFails(c)
    BY <1>5 DEF PcFails, Healthy, ConnRecord, AskRecord
  <1>6. CASE SfuDisconnects(c)
    BY <1>6 DEF SfuDisconnects
  <1>7. CASE MigrationCompleted(c)
    BY <1>7 DEF MigrationCompleted
  <1>8. CASE LoopSeesClose(c)
    BY <1>8 DEF LoopSeesClose, AsksIfEnabled, ConnRecord, AskRecord
  <1>9. CASE PingFails(c)
    BY <1>9 DEF PingFails, AsksIfEnabled, ConnRecord, AskRecord
  <1> QED
    BY <1>1, <1>2, <1>3, <1>4, <1>5, <1>6, <1>7, <1>8, <1>9 DEF Notices

LEMMA AsksCalm ==
  ASSUME ConnectionsInv, state # "Left", NEW a \in Askers, Asks(a)
  PROVE  Calm
  <1> USE DEF ConnectionsInv, TypeOK, Calm, Open
  <1>0. \A b \in Askers : ask[b].at # "off" => Answered(a)[b].at # "off"
    BY DEF Answered, Quiet, Asking, AskRecord
  <1>1. CASE HealthRead(a)
    BY <1>1 DEF HealthRead, AskRecord
  <1>2. CASE StateRead(a)
    BY <1>0, <1>2 DEF StateRead, AskRecord
  <1>3. CASE Claimed(a)
    <2>1. CASE run.at = "idle"
      <3>1. run.fresh = NoConn /\ run.old = NoConn
        BY <2>1 DEF HandsInv, FreshPlaces, OldPlaces
      <3>2. run'.at = "start" /\ run'.fresh = NoConn /\ run'.old = NoConn
        BY <1>3, <2>1 DEF Claimed, Idle
      <3>3. {"idle", "start"} \cap (FreshPlaces \cup OldPlaces) = {}
        BY DEF FreshPlaces, OldPlaces
      <3> QED
        BY <1>0, <1>3, <2>1, <3>1, <3>2, <3>3 DEF Claimed
    <2>2. CASE run.at # "idle"
      BY <1>0, <1>3, <2>2 DEF Claimed
    <2> QED
      BY <2>1, <2>2
  <1> QED
    BY <1>1, <1>2, <1>3 DEF Asks

\* A step that moves the run between places where its hands are empty.
LEMMA GoCalm ==
  ASSUME ConnectionsInv, state' # "Left", UNCHANGED <<current, ask>>,
         \A c \in Conns : Open(c)' <=> Open(c),
         run.at \notin FreshPlaces \cup OldPlaces,
         run'.at \notin FreshPlaces \cup OldPlaces,
         run'.fresh = run.fresh /\ run'.old = run.old
  PROVE  Calm
  BY DEF Calm

LEMMA LoopCalm ==
  ASSUME ConnectionsInv, state # "Left",
         RunStarts \/ LoopTop \/ GivenUp \/ FailureCounted \/ Escalated \/ Finished \/ Released
  PROVE  Calm \/ Leave
  <1> SUFFICES ASSUME ~Leave PROVE Calm
    OBVIOUS
  <1> USE DEF ConnectionsInv, TypeOK, Go, limitVars
  <1>1. /\ state' # "Left"
        /\ UNCHANGED <<current, conn, ask>>
        /\ run.at \in {"start", "top", "refresh", "failed", "sleep", "done", "release"}
    BY DEF RunStarts, LoopTop, TimedOut, Attempts, GivenUp, FailureCounted, Escalated,
           Finished, Released, ReconnectState
  <1>2. run.fresh = NoConn /\ run.old = NoConn
    BY <1>1 DEF HandsInv, FreshPlaces, OldPlaces
  <1>3. /\ run'.at \in {"top", "refresh", "fast", "rejoin", "migrate", "release", "sleep", "idle"}
        /\ run'.fresh = NoConn /\ run'.old = NoConn
    <2>1. CASE RunStarts
      BY <1>2, <2>1 DEF RunStarts, RunRecord
    <2>2. CASE LoopTop
      <3>1. FirstStep[run.strategy] \in {"fast", "rejoin", "migrate"}
        BY DEF FirstStep, RunRecord, Strategy
      <3> QED
        BY <1>2, <2>2, <3>1 DEF LoopTop, TimedOut, Attempts, RunRecord
    <2>3. CASE GivenUp \/ FailureCounted \/ Finished
      BY <1>2, <2>3 DEF GivenUp, FailureCounted, Finished, RunRecord
    <2>4. CASE Escalated
      BY <1>2, <2>4 DEF Escalated, RunRecord
    <2>5. CASE Released
      BY <2>5 DEF Released, Idle
    <2> QED
      BY <2>1, <2>2, <2>3, <2>4, <2>5
  <1> QED
    BY <1>1, <1>2, <1>3, GoCalm DEF FreshPlaces, OldPlaces, Open

\* An attempt that fails has nothing in its hands.
LEMMA FailsEmptyHanded ==
  ASSUME ConnectionsInv, NEW e, FailsWith(e)
  PROVE  run'.at = "failed" /\ run'.fresh = run.fresh /\ run'.old = run.old
  BY DEF ConnectionsInv, TypeOK, FailsWith, RunRecord

LEMMA FastCalm ==
  ASSUME ConnectionsInv, state # "Left", Fast
  PROVE  Calm
  <1> USE DEF ConnectionsInv, TypeOK, Go
  <1>0. {"fast", "resume", "restoreFast", "done", "failed"} \cap (FreshPlaces \cup OldPlaces) = {}
    BY DEF FreshPlaces, OldPlaces
  <1>1. CASE FastChecks
    BY <1>0, <1>1, GoCalm DEF FastChecks, RunRecord, Open
  <1>2. CASE FastFails
    <2>1. run'.at = "failed" /\ run'.fresh = run.fresh /\ run'.old = run.old
      BY <1>2, FailsEmptyHanded DEF FastFails
    <2> QED
      BY <1>0, <1>2, <2>1, GoCalm DEF FastFails, Open
  <1>3. CASE FastResumes
    <2>1. /\ run.at = "resume" /\ run'.at = "restoreFast"
          /\ run'.fresh = run.fresh /\ run'.old = run.old
          /\ UNCHANGED <<state, current>>
      BY <1>3 DEF FastResumes, RunRecord
    <2>2. \A c \in Conns : Open(c)' <=> Open(c)
      BY <1>3 DEF FastResumes, Open, ConnRecord
    <2>3. \A a \in Askers : ask[a].at # "off" => ask'[a].at # "off"
      BY <1>3, AskersOf DEF FastResumes, Quiet, Asking
    <2> QED
      BY <1>0, <2>1, <2>2, <2>3 DEF Calm
  <1>4. CASE FastRestores
    <2>1. /\ run.at = "restoreFast" /\ run'.at = "done"
          /\ run'.fresh = run.fresh /\ run'.old = run.old
          /\ UNCHANGED <<state, current, ask>>
      BY <1>4 DEF FastRestores, RunRecord
    <2>2. \A c \in Conns : Open(c)' <=> Open(c)
      BY <1>4 DEF FastRestores, Open, ConnRecord
    <2> QED
      BY <1>0, <2>1, <2>2, GoCalm
  <1> QED
    BY <1>1, <1>2, <1>3, <1>4 DEF Fast

LEMMA RejoinKeeps ==
  ASSUME ConnectionsInv, TypeOK', state # "Left", Rejoin
  PROVE  ConnectionsInv'
  <1> USE DEF Go
  <1>1. CASE RejoinFails \/ Restored
    <2>1. /\ run.at \in {"rejoin", "restore"} /\ run'.at \in {"failed", "done"}
          /\ run'.fresh = run.fresh /\ run'.old = run.old
          /\ UNCHANGED <<state, current, conn, ask>>
      BY <1>1, FailsEmptyHanded DEF RejoinFails, Restored, ConnectionsInv, TypeOK, RunRecord
    <2> QED
      BY <2>1, GoCalm, CalmKeeps DEF FreshPlaces, OldPlaces, Open
  <1>2. CASE RejoinEstablished
    BY <1>2, EstablishedKeeps DEF RejoinEstablished, FreshPlaces
  <1>3. CASE RejoinInstalled
    BY <1>3, InstalledKeeps
  <1>4. CASE RejoinTearsDown
    BY <1>4, TornDownKeeps
  <1> QED
    BY <1>1, <1>2, <1>3, <1>4 DEF Rejoin

LEMMA MigrateKeeps ==
  ASSUME ConnectionsInv, TypeOK', state # "Left", Migrate
  PROVE  ConnectionsInv'
  <1> USE DEF Go
  <1>1. CASE MigrateRefused \/ DetailsCollected
    <2>1. /\ run.at \in {"migrate", "details"} /\ run'.at \in {"failed", "handshake"}
          /\ run'.fresh = run.fresh /\ run'.old = run.old
          /\ UNCHANGED <<state, current, conn, ask>>
      BY <1>1, FailsEmptyHanded DEF MigrateRefused, DetailsCollected, ConnectionsInv, TypeOK, RunRecord
    <2> QED
      BY <2>1, GoCalm, CalmKeeps DEF FreshPlaces, OldPlaces, Open
  <1>2. CASE MigrateDisables \/ WaiterInstalled \/ MigrateJoinFails
    <2>1. /\ run.at \in {"migrate", "waiter", "handshake"}
          /\ run'.at \in {"waiter", "details", "failed"}
          /\ run'.fresh = run.fresh /\ run'.old = run.old
          /\ UNCHANGED <<state, current, ask>>
      BY <1>2, FailsEmptyHanded
         DEF MigrateDisables, WaiterInstalled, MigrateJoinFails, ConnectionsInv, TypeOK, RunRecord
    <2>2. \A c \in Conns : Open(c)' <=> Open(c)
      BY <1>2 DEF MigrateDisables, WaiterInstalled, MigrateJoinFails, Open, ConnectionsInv,
                  TypeOK, ConnRecord
    <2> QED
      BY <2>1, <2>2, GoCalm, CalmKeeps DEF FreshPlaces, OldPlaces
  <1>3. CASE MigrateEstablished
    BY <1>3, EstablishedKeeps DEF MigrateEstablished, FreshPlaces
  <1>4. CASE MigrateInstalled
    BY <1>4, InstalledKeeps
  <1>5. CASE MigrateRestored
    <2>1. /\ run.at = "migrated" /\ run'.at = "cleanup"
          /\ run'.fresh = run.fresh /\ run'.old = run.old
          /\ UNCHANGED <<state, current, conn, ask>>
      BY <1>5 DEF MigrateRestored, ConnectionsInv, TypeOK, RunRecord
    <2> QED
      BY <2>1, CalmKeeps DEF Calm, FreshPlaces, OldPlaces, Open
  <1>6. CASE MigrateCleansUp
    BY <1>6, TornDownKeeps
  <1> QED
    BY <1>1, <1>2, <1>3, <1>4, <1>5, <1>6 DEF Migrate

\* After leave() only registrations expire.
LEMMA LeftStops ==
  ASSUME ConnectionsInv, state = "Left", Next
  PROVE  UNCHANGED <<state, current, conn, ask, run>>
  <1>1. /\ \A c \in Conns : conn[c] = Closed
        /\ \A a \in Askers : ask[a].at = "off"
        /\ run = Idle
    BY DEF ConnectionsInv, LeftInv, Off, Asking
  <1>2. run.at = "idle" /\ ~run.timed
    BY <1>1 DEF Idle
  <1>3. ~RunSteps
    BY <1>2 DEF RunSteps, RunStarts, LoopTop, GivenUp, FailureCounted, Escalated, Finished,
                Released, Fast, FastChecks, FastFails, FastResumes, FastRestores,
                Rejoin, RejoinFails, RejoinEstablished, RejoinInstalled, RejoinTearsDown,
                Restored, Established, Migrate, MigrateRefused, MigrateDisables,
                WaiterInstalled, DetailsCollected, MigrateJoinFails, MigrateEstablished,
                MigrateInstalled, MigrateRestored, MigrateCleansUp
  <1>4. ~\E a \in Askers : Asks(a)
    BY <1>1 DEF Asks, HealthRead, StateRead, Claimed
  <1>5. ~\E c \in Conns : Notices(c) \/ LoopSeesClose(c) \/ PingFails(c)
    <2> SUFFICES ASSUME NEW c \in Conns
                 PROVE  ~(Notices(c) \/ LoopSeesClose(c) \/ PingFails(c))
      OBVIOUS
    <2>1. conn[c].pc = "closed"
      BY <1>1 DEF Closed
    <2>2. ask[Loop(c)].at = "off" /\ ask[Ping(c)].at = "off"
      BY <1>1, AskersOf
    <2>3. ~SocketCloses(c) /\ ~PcConnects(c) /\ ~PcFails(c)
      BY <2>1 DEF SocketCloses, PcConnects, PcFails, Open, Healthy
    <2>4. ~LoopFails(c) /\ ~SfuAsks(c) /\ ~SfuDisconnects(c) /\ ~MigrationCompleted(c)
          /\ ~LoopSeesClose(c) /\ ~PingFails(c)
      BY <2>2 DEF LoopFails, SfuAsks, SfuDisconnects, MigrationCompleted, LoopSeesClose, PingFails
    <2> QED
      BY <2>3, <2>4 DEF Notices
  <1>6. ~JoinCommitted /\ ~CoordinatorLost /\ ~FastDeadlinePasses /\ ~TimeoutPasses
    BY <1>1, <1>2, AskersOf DEF JoinCommitted, CoordinatorLost, FastDeadlinePasses, TimeoutPasses
  <1>7. RegistrationExpires
    BY <1>3, <1>4, <1>5, <1>6 DEF Next
  <1> QED
    BY <1>7 DEF RegistrationExpires

-----------------------------------------------------------------------------

LEMMA ConnectionsInit == Init => ConnectionsInv
  <1> SUFFICES ASSUME Init PROVE ConnectionsInv
    OBVIOUS
  <1>1. TypeOK
    BY TypeInit
  <1>2. HandsInv
    BY NoConnAssumption DEF Init, HandsInv, Idle, FreshPlaces, OldPlaces
  <1>3. Open(current)
    BY DEF Init, Open, Opened
  <1>4. ask[Loop(current)].at # "off" /\ ask[Ping(current)].at # "off"
    <2>1. \A c \in Conns \ {current}, d \in Conns \ {current} :
            /\ Loop(current) # Loop(c) /\ Loop(current) # Ping(d)
            /\ Ping(current) # Loop(c) /\ Ping(current) # Ping(d)
      BY AskersDiffer DEF Init
    <2> QED
      BY <2>1, AskersOf DEF Init, Quiet, Asking
  <1>5. SlotInv
    BY <1>3, <1>4 DEF Init, SlotInv, Alive, Idle
  <1>6. LeftInv
    BY DEF Init, LeftInv
  <1>7. NoLeakedConnection
    BY DEF Init, NoLeakedConnection, Open, Closed
  <1> QED
    BY <1>1, <1>2, <1>5, <1>6, <1>7 DEF ConnectionsInv

LEMMA ConnectionsNext == ConnectionsInv /\ [Next]_vars => ConnectionsInv'
  <1> SUFFICES ASSUME ConnectionsInv, [Next]_vars PROVE ConnectionsInv'
    OBVIOUS
  <1>0. TypeOK'
    BY TypeNext DEF ConnectionsInv
  <1>1. CASE UNCHANGED <<state, current, conn, ask, run>>
    <2>1. /\ HandsInv' /\ SlotInv' /\ LeftInv' /\ NoLeakedConnection'
      BY <1>1 DEF ConnectionsInv, HandsInv, SlotInv, LeftInv, NoLeakedConnection, Alive, Open
    <2> QED
      BY <1>0, <2>1 DEF ConnectionsInv
  <1>2. CASE state = "Left" /\ Next
    BY <1>1, <1>2, LeftStops
  <1>3. CASE state # "Left" /\ Next
    <2>1. CASE JoinCommitted
      <3>1. Calm
        BY <2>1 DEF JoinCommitted, Calm, Open
      <3> QED
        BY <1>0, <1>3, <3>1, CalmKeeps
    <2>2. CASE CoordinatorLost
      <3>1. Calm
        BY <1>3, <2>2 DEF CoordinatorLost, Calm, Open, ConnectionsInv, TypeOK
      <3> QED
        BY <1>0, <1>3, <3>1, CalmKeeps
    <2>3. CASE \E c \in Conns : Notices(c) \/ LoopSeesClose(c) \/ PingFails(c)
      BY <1>0, <1>3, <2>3, NoticesCalm, CalmKeeps, LeaveCloses DEF ConnectionsInv
    <2>4. CASE \E a \in Askers : Asks(a)
      BY <1>0, <1>3, <2>4, AsksCalm, CalmKeeps
    <2>5. CASE RunSteps
      <3>1. CASE RunStarts \/ LoopTop \/ GivenUp \/ FailureCounted \/ Escalated \/ Finished \/ Released
        BY <1>0, <1>3, <3>1, LoopCalm, CalmKeeps, LeaveCloses DEF ConnectionsInv
      <3>2. CASE Fast
        BY <1>0, <1>3, <3>2, FastCalm, CalmKeeps
      <3>3. CASE Rejoin
        BY <1>0, <1>3, <3>3, RejoinKeeps
      <3>4. CASE Migrate
        BY <1>0, <1>3, <3>4, MigrateKeeps
      <3> QED
        BY <2>5, <3>1, <3>2, <3>3, <3>4 DEF RunSteps
    <2>6. CASE FastDeadlinePasses \/ TimeoutPasses
      <3>1. Calm
        BY <1>3, <2>6 DEF FastDeadlinePasses, TimeoutPasses, Calm, Open, ConnectionsInv,
                          TypeOK, RunRecord
      <3> QED
        BY <1>0, <1>3, <3>1, CalmKeeps
    <2>7. CASE RegistrationExpires
      BY <1>1, <2>7 DEF RegistrationExpires
    <2> QED
      BY <1>3, <2>1, <2>2, <2>3, <2>4, <2>5, <2>6, <2>7 DEF Next
  <1> QED
    BY <1>1, <1>2, <1>3 DEF vars

LEMMA ConnectionsHold == Spec => []ConnectionsInv
  <1> QED
    BY ConnectionsInit, ConnectionsNext, PTL DEF Spec

\* No error path of a rejoin or a migration leaks a connection: one whose tasks
\* and peer connections are still open is in the slot or in the hands of the
\* running attempt.
THEOREM NothingIsLeaked == Spec => []NoLeakedConnection
  <1>1. ConnectionsInv => NoLeakedConnection
    BY DEF ConnectionsInv
  <1> QED
    BY <1>1, ConnectionsHold, PTL

\* The slot of a live call never holds a connection that was torn down, or one
\* whose event loop or ping loop was aborted and not started again, whatever
\* attempt failed and however far it had come; with the types of the variables.
THEOREM SlotHoldsAnOpenConnection == Spec => []SlotStaysOpen
  <1>1. ConnectionsInv => SlotStaysOpen
    BY DEF ConnectionsInv, SlotStaysOpen, SlotIsOpen, SlotInv, Alive
  <1> QED
    BY <1>1, ConnectionsHold, PTL
=============================================================================
