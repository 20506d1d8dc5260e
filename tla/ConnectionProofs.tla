-------------------------- MODULE ConnectionProofs --------------------------
(***************************************************************************)
(* The theorems about the connections of a call, one section for each      *)
(* module: the coordinator socket and the peer connections.                *)
(***************************************************************************)
EXTENDS MCConnection, TLAPS

-----------------------------------------------------------------------------
(* Whose connection id the requests of a user carry, for any number of     *)
(* sockets and joins, and any interleaving of their openers, their tasks   *)
(* and the leaves.                                                         *)

SocketPlaces == Opening \cup {"none", "open", "failed"}
SocketStates == [gen : Nat, at : SocketPlaces, listens : BOOLEAN, pings : BOOLEAN]

SocketTyped ==
    /\ epoch \in Nat /\ joined \in BOOLEAN /\ overwritten \in BOOLEAN
    /\ connectionId \in [gen : Nat, socket : Nat] /\ connectionId.gen <= epoch
    /\ kept \subseteq Sockets
    /\ socket \in [Sockets -> SocketStates]
    /\ \A s \in Sockets : socket[s].gen <= epoch

\* A generation has one socket that is being opened or has a task.
Busy(s) == socket[s].listens \/ socket[s].pings
Lives(s) == IsCurrent(s) /\ (socket[s].at \in Opening \/ Busy(s))
OneLive == \A r, s \in Sockets : Lives(r) /\ Lives(s) => r = s

\* The tasks of an open socket can be aborted by whoever stops or replaces it.
TasksAreKept ==
    \A s \in Sockets : Busy(s) => /\ socket[s].at \in {"spawned", "open"}
                                  /\ IsCurrent(s) /\ socket[s].at = "open" => s \in kept

\* A generation without its join has no socket left.
NoneLeft == ~joined => \A s \in Sockets : IsCurrent(s) => socket[s].at \in {"none", "failed"}

IdIsHeard ==
    HasId => LET s == connectionId.socket IN
             s \in Sockets /\ IsCurrent(s) /\ (socket[s].listens \/ socket[s].at = "stored")

HeardFrom(s) ==
    /\ IsCurrent(s)
    /\ socket[s].at = "stored" \/ (socket[s].at \in {"spawned", "open"} /\ socket[s].listens /\ socket[s].pings)
HealthyHasId == ~overwritten => \A s \in Sockets : HeardFrom(s) => HasId /\ connectionId.socket = s

\* The inductive invariant.
SocketInv == SocketTyped /\ OneLive /\ TasksAreKept /\ NoneLeft /\ IdIsHeard /\ HealthyHasId

-----------------------------------------------------------------------------

LEMMA SocketsArePositive == ASSUME NEW s \in Sockets, MaxSockets \in Nat PROVE s \in Nat /\ s # 0
  BY DEF Sockets

LEMMA OpenedIsState == ASSUME NEW n \in Nat PROVE Opened(n) \in SocketStates
  BY DEF Opened, SocketStates, SocketPlaces, Opening

LEMMA SpawnedIsState ==
  ASSUME NEW n \in Nat, NEW place \in SocketPlaces, NEW runs \in BOOLEAN
  PROVE  [gen |-> n, at |-> place, listens |-> runs, pings |-> runs] \in SocketStates
  BY DEF SocketStates

LEMMA SocketInvInit == ASSUME SocketInit PROVE SocketInv
  <1>1. \A s \in Sockets : socket[s] = Unopened
    BY DEF SocketInit
  <1>a. socket \in [Sockets -> SocketStates]
    BY DEF SocketInit, SocketPlaces, Unopened, SocketStates
  <1>b. connectionId \in [gen : Nat, socket : Nat] /\ connectionId.gen = 0
    BY DEF SocketInit, NoId
  <1>c. epoch = 0 /\ joined = FALSE /\ overwritten = FALSE /\ kept = {} /\ \A s \in Sockets : socket[s].gen = 0
    BY <1>1 DEF SocketInit, Unopened
  <1>2. SocketTyped
    <2>1. connectionId.gen <= epoch /\ \A s \in Sockets : socket[s].gen <= epoch
      BY <1>b, <1>c
    <2> QED
      BY <1>a, <1>b, <1>c, <2>1 DEF SocketTyped
  <1>3. \A s \in Sockets : ~Busy(s) /\ socket[s].at = "none"
    BY <1>1 DEF Busy, Unopened
  <1>4. ~HasId
    BY DEF SocketInit, NoId, HasId
  <1> QED
    BY <1>2, <1>3, <1>4 DEF SocketInv, OneLive, TasksAreKept, NoneLeft, IdIsHeard, HealthyHasId, Lives, HeardFrom, Opening

\* A new generation: nothing of an older one counts.
LEMMA JoinOpensKeepsInv ==
  ASSUME SocketInv, NEW s \in Sockets, JoinOpens(s)
  PROVE  SocketInv'
  <1>1. socket'[s] = Opened(epoch') /\ epoch' = epoch + 1 /\ joined'
    BY DEF JoinOpens, SocketInv, SocketTyped
  <1>c. epoch' \in Nat /\ epoch < epoch' 
    BY <1>1 DEF SocketInv, SocketTyped
  <1>a. socket'[s] \in SocketStates
    BY <1>1, <1>c, OpenedIsState
  <1>2. socket' \in [Sockets -> SocketStates]
    BY <1>a, <1>1 DEF JoinOpens, SocketInv, SocketTyped
  <1>3. \A r \in Sockets \ {s} : socket'[r] = socket[r] /\ socket'[r].gen < epoch'
    BY <1>1 DEF JoinOpens, SocketInv, SocketTyped, SocketStates
  <1>4. UNCHANGED <<connectionId, kept, overwritten>>
    BY DEF JoinOpens
  <1>5. socket'[s].gen = epoch' /\ socket'[s].at = "connect" /\ ~socket'[s].listens /\ ~socket'[s].pings
    BY <1>1 DEF Opened
  <1>b. \A r \in Sockets : socket'[r].gen <= epoch'
    <2>1. ASSUME NEW r \in Sockets PROVE socket'[r].gen \in Nat
      BY <1>2 DEF SocketStates
    <2> QED
      BY <1>c, <1>3, <1>5, <2>1
  <1>6. SocketTyped'
    BY <1>1, <1>2, <1>4, <1>b, <1>c DEF SocketInv, SocketTyped
  <1>7. ~HasId' /\ \A r \in Sockets : IsCurrent(r)' => r = s
    BY <1>1, <1>2, <1>3, <1>4 DEF SocketInv, SocketTyped, HasId, IsCurrent, SocketStates
  <1>8. OneLive' /\ NoneLeft' /\ IdIsHeard'
    BY <1>1, <1>7 DEF OneLive, Lives, NoneLeft, IdIsHeard
  <1>9. TasksAreKept'
    BY <1>3, <1>5, <1>7 DEF SocketInv, TasksAreKept, Busy
  <1>10. HealthyHasId'
    BY <1>5, <1>7 DEF HealthyHasId, HeardFrom
  <1> QED
    BY <1>6, <1>8, <1>9, <1>10 DEF SocketInv

\* A rejoin: what the generation had before is opened by now, and aborted.
LEMMA RejoinOpensKeepsInv ==
  ASSUME SocketInv, NEW s \in Sockets, RejoinOpens(s)
  PROVE  SocketInv'
  <1>1. socket'[s] = Opened(epoch)
    BY DEF RejoinOpens, SocketInv, SocketTyped, Aborted
  <1>2. socket'[s].gen = epoch /\ socket'[s].at = "connect" /\ ~socket'[s].listens /\ ~socket'[s].pings
    BY <1>1 DEF Opened
  <1>3. ASSUME NEW r \in Sockets \ {s}
        PROVE  /\ socket'[r] \in SocketStates /\ socket'[r].gen = socket[r].gen /\ socket'[r].at = socket[r].at
               /\ r \in kept => ~socket'[r].listens /\ ~socket'[r].pings
               /\ r \notin kept => socket'[r] = socket[r]
    <2>1. socket'[r] = IF r \in kept THEN [socket[r] EXCEPT !.listens = FALSE, !.pings = FALSE] ELSE socket[r]
      BY <1>3 DEF RejoinOpens, Aborted
    <2> QED
      BY <2>1 DEF SocketInv, SocketTyped, SocketStates
  <1>4. UNCHANGED <<epoch, joined, connectionId, overwritten>> /\ kept' = {} /\ joined /\ ~HasId
    BY DEF RejoinOpens
  <1>5. socket' \in [Sockets -> SocketStates]
    <2>a. epoch \in Nat
      BY DEF SocketInv, SocketTyped
    <2>1. socket'[s] \in SocketStates
      BY <1>1, <2>a, OpenedIsState
    <2>2. DOMAIN socket' = Sockets /\ socket' = [r \in Sockets |-> socket'[r]]
      BY DEF RejoinOpens, Aborted
    <2> QED
      BY <1>3, <2>1, <2>2
  <1>6. SocketTyped'
    BY <1>2, <1>3, <1>4, <1>5 DEF SocketInv, SocketTyped
  <1>7. ASSUME NEW r \in Sockets \ {s}, IsCurrent(r)' PROVE socket'[r].at \notin Opening /\ ~Busy(r)'
    <2>1. IsCurrent(r) /\ socket'[r].at = socket[r].at /\ socket[r].at \notin Opening
      BY <1>3, <1>4, <1>7 DEF IsCurrent, RejoinOpens
    <2>2. Busy(r) => r \in kept
      BY <2>1 DEF SocketInv, TasksAreKept, Opening
    <2> QED
      BY <1>3, <2>1, <2>2 DEF Busy
  <1>8. OneLive' /\ NoneLeft'
    BY <1>4, <1>7 DEF OneLive, Lives, NoneLeft
  <1>9. ~HasId'
    BY <1>4 DEF HasId
  <1>10. TasksAreKept'
    BY <1>2, <1>3, <1>7 DEF SocketInv, TasksAreKept, Busy
  <1>11. HealthyHasId'
    BY <1>2, <1>7 DEF HealthyHasId, HeardFrom, Opening, Busy
  <1> QED
    BY <1>6, <1>8, <1>9, <1>10, <1>11 DEF SocketInv, IdIsHeard

\* The steps of an opener before it has an id.
LEMMA OpenerKeepsInv ==
  ASSUME SocketInv, NEW s \in Sockets, NEW place \in {"shake", "checked", "failed"}, Goes(s, place),
         socket[s].at \in {"connect", "shake"}, UNCHANGED <<epoch, joined, connectionId, kept, overwritten>>
  PROVE  SocketInv'
  <1>1. socket'[s] = [socket[s] EXCEPT !.at = place] /\ \A r \in Sockets \ {s} : socket'[r] = socket[r]
    BY DEF Goes, SocketInv, SocketTyped
  <1>2. socket'[s] \in SocketStates /\ socket'[s].gen = socket[s].gen /\ socket'[s].at = place
    BY <1>1 DEF SocketInv, SocketTyped, SocketStates, SocketPlaces, Opening
  <1>3. ~Busy(s) /\ ~Busy(s)'
    BY <1>1 DEF SocketInv, SocketTyped, SocketStates, TasksAreKept, Busy
  <1>4. \A r \in Sockets : (IsCurrent(r)' <=> IsCurrent(r)) /\ (Busy(r)' <=> Busy(r))
    BY <1>1, <1>2, <1>3 DEF IsCurrent, Busy
  <1>5. SocketTyped'
    BY <1>1, <1>2 DEF Goes, SocketInv, SocketTyped
  <1>6. OneLive'
    BY <1>1, <1>4 DEF SocketInv, OneLive, Lives, Opening
  <1>7. TasksAreKept'
    BY <1>1, <1>3, <1>4 DEF SocketInv, TasksAreKept
  <1>8. NoneLeft'
    BY <1>1, <1>2, <1>4 DEF SocketInv, NoneLeft
  <1>9. HasId' <=> HasId
    BY DEF HasId
  <1>10. IdIsHeard'
    BY <1>1, <1>3, <1>4, <1>9 DEF SocketInv, IdIsHeard, Busy
  <1>11. HealthyHasId'
    BY <1>1, <1>2, <1>4, <1>9 DEF SocketInv, HealthyHasId, HeardFrom
  <1> QED
    BY <1>5, <1>6, <1>7, <1>8, <1>10, <1>11 DEF SocketInv

\* The id is stored, by an opener whose generation may have ended.
LEMMA StoresKeepsInv ==
  ASSUME MaxSockets \in Nat, SocketInv, NEW s \in Sockets, Stores(s)
  PROVE  SocketInv'
  <1>1. socket'[s] = [socket[s] EXCEPT !.at = "stored"] /\ \A r \in Sockets \ {s} : socket'[r] = socket[r]
    BY DEF Stores, Goes, SocketInv, SocketTyped
  <1>2. /\ socket'[s] \in SocketStates /\ socket'[s].gen = socket[s].gen /\ socket'[s].at = "stored"
        /\ socket[s].gen \in Nat
    BY <1>1 DEF SocketInv, SocketTyped, SocketStates, SocketPlaces, Opening
  <1>3. socket[s].at = "checked" /\ UNCHANGED <<epoch, joined, kept>>
    BY DEF Stores
  <1>4. ~Busy(s) /\ ~Busy(s)'
    BY <1>1, <1>3 DEF SocketInv, SocketTyped, SocketStates, TasksAreKept, Busy
  <1>5. \A r \in Sockets : (IsCurrent(r)' <=> IsCurrent(r)) /\ (Busy(r)' <=> Busy(r)) /\ (Lives(r)' <=> Lives(r))
    BY <1>1, <1>2, <1>3, <1>4 DEF IsCurrent, Busy, Lives, Opening
  <1>6. connectionId' = [gen |-> socket[s].gen, socket |-> s] /\ s \in Nat /\ s # 0
    BY SocketsArePositive DEF Stores
  <1>7. SocketTyped'
    <2>1. connectionId' \in [gen : Nat, socket : Nat] /\ connectionId'.gen = socket[s].gen
      BY <1>2, <1>6
    <2>2. socket' \in [Sockets -> SocketStates] /\ \A r \in Sockets : socket'[r].gen <= epoch
      BY <1>1, <1>2 DEF Stores, Goes, SocketInv, SocketTyped
    <2>3. overwritten' \in BOOLEAN /\ connectionId'.gen <= epoch
      BY <2>1 DEF Stores, SocketInv, SocketTyped
    <2> QED
      BY <1>3, <2>1, <2>2, <2>3 DEF SocketInv, SocketTyped
  <1>8. OneLive'
    BY <1>5 DEF SocketInv, OneLive
  <1>9. TasksAreKept'
    BY <1>1, <1>3, <1>4, <1>5 DEF SocketInv, TasksAreKept
  <1>10. NoneLeft'
    BY <1>1, <1>2, <1>3, <1>5 DEF SocketInv, NoneLeft
  <1>11. HasId' <=> IsCurrent(s)
    BY <1>3, <1>6 DEF HasId, IsCurrent
  <1>12. IdIsHeard'
    BY <1>2, <1>5, <1>6, <1>11 DEF IdIsHeard
  <1>13. HealthyHasId'
    <2>1. SUFFICES ASSUME ~overwritten', NEW r \in Sockets, HeardFrom(r)'
                   PROVE  HasId' /\ connectionId'.socket = r
      BY DEF HealthyHasId
    <2>2. IsCurrent(s)
      BY <2>1 DEF Stores
    <2>3. Lives(s) /\ Lives(r)
      BY <1>3, <1>5, <2>1, <2>2 DEF Lives, HeardFrom, Opening, Busy
    <2> QED
      BY <1>6, <1>11, <2>2, <2>3 DEF SocketInv, OneLive
  <1> QED
    BY <1>7, <1>8, <1>9, <1>10, <1>12, <1>13 DEF SocketInv

\* The tasks of a socket are spawned, and end at once if its generation has.
LEMMA SpawnsKeepsInv ==
  ASSUME SocketInv, NEW s \in Sockets, Spawns(s)
  PROVE  SocketInv'
  <1>1. \A r \in Sockets \ {s} : socket'[r] = socket[r]
    BY DEF Spawns, SocketInv, SocketTyped
  <1>2. /\ socket'[s].gen = socket[s].gen /\ socket'[s].at = "spawned"
        /\ (socket'[s].listens <=> IsCurrent(s)) /\ (socket'[s].pings <=> IsCurrent(s))
    BY DEF Spawns, SocketInv, SocketTyped, SocketStates
  <1>3. socket' \in [Sockets -> SocketStates]
    <2>1. socket[s].gen \in Nat /\ "spawned" \in SocketPlaces
      BY DEF SocketInv, SocketTyped, SocketStates, SocketPlaces, Opening
    <2>2. IsCurrent(s) \in BOOLEAN
      BY DEF IsCurrent
    <2>3. [gen |-> socket[s].gen, at |-> "spawned", listens |-> IsCurrent(s), pings |-> IsCurrent(s)] \in SocketStates
      BY <2>1, <2>2, SpawnedIsState
    <2> QED
      BY <2>3 DEF Spawns, SocketInv, SocketTyped
  <1>4. socket[s].at = "stored" /\ UNCHANGED <<epoch, joined, connectionId, kept, overwritten>>
    BY DEF Spawns
  <1>5. \A r \in Sockets : (IsCurrent(r)' <=> IsCurrent(r)) /\ (Lives(r)' <=> Lives(r))
    BY <1>1, <1>2, <1>4 DEF IsCurrent, Lives, Opening, Busy
  <1>6. HasId' <=> HasId
    BY <1>4 DEF HasId
  <1>7. SocketTyped'
    BY <1>1, <1>2, <1>3, <1>4 DEF SocketInv, SocketTyped
  <1>8. OneLive'
    BY <1>5 DEF SocketInv, OneLive
  <1>9. TasksAreKept'
    BY <1>1, <1>2, <1>4, <1>5 DEF SocketInv, TasksAreKept, Busy
  <1>10. NoneLeft'
    BY <1>1, <1>4, <1>5 DEF SocketInv, NoneLeft
  <1>11. IdIsHeard'
    BY <1>1, <1>2, <1>4, <1>5, <1>6 DEF SocketInv, IdIsHeard
  <1>12. HealthyHasId'
    BY <1>1, <1>2, <1>4, <1>5, <1>6 DEF SocketInv, HealthyHasId, HeardFrom
  <1> QED
    BY <1>7, <1>8, <1>9, <1>10, <1>11, <1>12 DEF SocketInv

\* Clearing the id of one generation leaves that of another.
LEMMA ClearsOneGeneration ==
  ASSUME SocketInv, NEW gen, Clears(gen), epoch' = epoch
  PROVE  /\ connectionId' \in [gen : Nat, socket : Nat] /\ connectionId'.gen <= epoch
         /\ HasId' => HasId /\ connectionId' = connectionId /\ gen # epoch
         /\ gen # epoch /\ HasId => HasId' /\ connectionId' = connectionId
  BY DEF Clears, NoId, HasId, SocketInv, SocketTyped

LEMMA AbortedSockets ==
  ASSUME SocketInv, NEW tasks, socket' = Aborted(socket, tasks)
  PROVE  /\ socket' \in [Sockets -> SocketStates]
         /\ \A r \in Sockets : /\ socket'[r].gen = socket[r].gen /\ socket'[r].at = socket[r].at
                               /\ r \in tasks => ~Busy(r)'
                               /\ r \notin tasks => socket'[r] = socket[r]
                               /\ socket'[r].listens => socket[r].listens
                               /\ socket'[r].pings => socket[r].pings
  <1>1. \A r \in Sockets : socket'[r] = IF r \in tasks THEN [socket[r] EXCEPT !.listens = FALSE, !.pings = FALSE]
                                        ELSE socket[r]
    BY DEF Aborted
  <1>2. \A r \in Sockets : socket[r] \in SocketStates
    BY DEF SocketInv, SocketTyped
  <1>3. ASSUME NEW r \in Sockets PROVE socket'[r] \in SocketStates
    BY <1>1, <1>2 DEF SocketStates
  <1>4. socket' = [r \in Sockets |-> socket'[r]]
    BY DEF Aborted
  <1>5. socket' \in [Sockets -> SocketStates]
    BY <1>3, <1>4
  <1> QED
    BY <1>1, <1>2, <1>5 DEF Busy, SocketStates

\* Sockets only lose tasks: the id survives with the socket that it is of.
LEMMA LosingTasksKeepsInv ==
  ASSUME SocketInv, socket' \in [Sockets -> SocketStates], kept' \in SUBSET Sockets, joined' \in BOOLEAN,
         \A r \in Sockets : /\ socket'[r].gen = socket[r].gen /\ socket'[r].at = socket[r].at
                            /\ socket'[r].listens => socket[r].listens
                            /\ socket'[r].pings => socket[r].pings,
         UNCHANGED <<epoch, overwritten>>, TasksAreKept', NoneLeft',
         connectionId' \in [gen : Nat, socket : Nat], connectionId'.gen <= epoch,
         HasId' => /\ HasId /\ connectionId' = connectionId
                   /\ socket[connectionId.socket].listens => socket'[connectionId.socket].listens,
         \A r \in Sockets : HeardFrom(r)' /\ HasId /\ connectionId.socket = r => HasId'
  PROVE  SocketInv'
  <1>1. \A r \in Sockets : (IsCurrent(r)' <=> IsCurrent(r)) /\ (Lives(r)' => Lives(r)) /\ (HeardFrom(r)' => HeardFrom(r))
    BY DEF IsCurrent, Lives, HeardFrom, Busy
  <1>2. SocketTyped'
    BY DEF SocketInv, SocketTyped
  <1>3. OneLive'
    BY <1>1 DEF SocketInv, OneLive
  <1>4. IdIsHeard'
    BY <1>1 DEF SocketInv, IdIsHeard
  <1>5. HealthyHasId'
    BY <1>1 DEF SocketInv, HealthyHasId
  <1> QED
    BY <1>2, <1>3, <1>4, <1>5 DEF SocketInv

\* A task ends, and clears the id of its generation.
LEMMA TaskStopsKeepsInv ==
  ASSUME SocketInv, NEW s \in Sockets,
         \/ socket[s].listens /\ socket' = [socket EXCEPT ![s].listens = FALSE]
         \/ socket[s].pings /\ socket' = [socket EXCEPT ![s].pings = FALSE],
         Clears(socket[s].gen), UNCHANGED <<epoch, joined, kept, overwritten>>
  PROVE  SocketInv'
  <1>1. socket' \in [Sockets -> SocketStates]
    BY DEF SocketInv, SocketTyped, SocketStates
  <1>2. \A r \in Sockets : /\ socket'[r].gen = socket[r].gen /\ socket'[r].at = socket[r].at
                           /\ socket'[r].listens => socket[r].listens
                           /\ socket'[r].pings => socket[r].pings
    BY DEF SocketInv, SocketTyped, SocketStates
  <1>3. \A r \in Sockets \ {s} : socket'[r] = socket[r]
    BY DEF SocketInv, SocketTyped
  <1>4. Busy(s) /\ ~(socket'[s].listens /\ socket'[s].pings)
    BY DEF SocketInv, SocketTyped, SocketStates, Busy
  <1>5. TasksAreKept'
    BY <1>2 DEF SocketInv, TasksAreKept, Busy, IsCurrent
  <1>6. NoneLeft'
    BY <1>2 DEF SocketInv, NoneLeft, IsCurrent
  <1>7. HasId' => /\ HasId /\ connectionId' = connectionId
                  /\ socket[connectionId.socket].listens => socket'[connectionId.socket].listens
    BY <1>3, ClearsOneGeneration DEF SocketInv, IdIsHeard, IsCurrent
  <1>8. ASSUME NEW r \in Sockets, HeardFrom(r)', HasId, connectionId.socket = r
        PROVE  HasId'
    <2>1. CASE IsCurrent(s)
      <3>1. Lives(s) /\ Lives(r)
        BY <1>2, <1>4, <1>8, <2>1 DEF Lives, HeardFrom, Busy, IsCurrent, Opening
      <3>2. r = s /\ socket[s].at # "stored"
        BY <1>4, <3>1 DEF SocketInv, OneLive, TasksAreKept
      <3> QED
        BY <1>2, <1>4, <1>8, <3>2 DEF HeardFrom
    <2>2. CASE ~IsCurrent(s)
      BY <1>8, <2>2, ClearsOneGeneration DEF IsCurrent
    <2> QED
      BY <2>1, <2>2
  <1>9. connectionId' \in [gen : Nat, socket : Nat] /\ connectionId'.gen <= epoch
    BY ClearsOneGeneration
  <1> QED
    BY <1>1, <1>2, <1>5, <1>6, <1>7, <1>8, <1>9, LosingTasksKeepsInv DEF SocketInv, SocketTyped

LEMMA TaskEndsKeepsInv ==
  ASSUME SocketInv, NEW s \in Sockets, TaskEnds(s)
  PROVE  SocketInv'
  <1>1. ~IsCurrent(s) /\ socket' = Aborted(socket, {s}) /\ UNCHANGED <<epoch, joined, connectionId, kept, overwritten>>
    BY DEF TaskEnds
  <1>2. /\ socket' \in [Sockets -> SocketStates]
        /\ \A r \in Sockets : /\ socket'[r].gen = socket[r].gen /\ socket'[r].at = socket[r].at
                              /\ r \notin {s} => socket'[r] = socket[r]
                              /\ socket'[r].listens => socket[r].listens
                              /\ socket'[r].pings => socket[r].pings
    <2> DEFINE ended == {s}
    <2>1. socket' = Aborted(socket, ended)
      BY <1>1
    <2> HIDE DEF ended
    <2>2. /\ socket' \in [Sockets -> SocketStates]
          /\ \A r \in Sockets : /\ socket'[r].gen = socket[r].gen /\ socket'[r].at = socket[r].at
                                /\ r \notin ended => socket'[r] = socket[r]
                                /\ socket'[r].listens => socket[r].listens
                                /\ socket'[r].pings => socket[r].pings
      BY <2>1, AbortedSockets
    <2> QED
      BY <2>2 DEF ended
  <1>3. TasksAreKept'
    BY <1>1, <1>2 DEF SocketInv, TasksAreKept, Busy, IsCurrent
  <1>4. NoneLeft'
    BY <1>1, <1>2 DEF SocketInv, NoneLeft, IsCurrent
  <1>5. HasId' <=> HasId
    BY <1>1 DEF HasId
  <1>6. HasId => socket'[connectionId.socket] = socket[connectionId.socket]
    BY <1>1, <1>2 DEF SocketInv, IdIsHeard
  <1> QED
    BY <1>1, <1>2, <1>3, <1>4, <1>5, <1>6, LosingTasksKeepsInv DEF SocketInv, SocketTyped

\* A join or a leave stops every task that is kept.
LEMMA StopKeepsInv ==
  ASSUME SocketInv, socket' = Aborted(socket, kept), kept' = {}, connectionId' = NoId, joined' = FALSE,
         UNCHANGED <<epoch, overwritten>>, \A r \in Sockets : IsCurrent(r) => socket[r].at \in {"none", "failed"}
  PROVE  SocketInv'
  <1>1. /\ socket' \in [Sockets -> SocketStates]
        /\ \A r \in Sockets : /\ socket'[r].gen = socket[r].gen /\ socket'[r].at = socket[r].at
                              /\ socket'[r].listens => socket[r].listens
                              /\ socket'[r].pings => socket[r].pings
    BY AbortedSockets
  <1>2. NoneLeft'
    BY <1>1 DEF NoneLeft, IsCurrent
  <1>3. TasksAreKept'
    BY <1>1 DEF SocketInv, TasksAreKept, Busy, IsCurrent
  <1>4. connectionId' \in [gen : Nat, socket : Nat] /\ connectionId'.gen = 0 /\ ~HasId'
    BY DEF NoId, HasId
  <1>5. \A r \in Sockets : ~HeardFrom(r)'
    BY <1>1 DEF HeardFrom, IsCurrent
  <1>6. connectionId'.gen <= epoch /\ kept' \in SUBSET Sockets
    BY <1>4 DEF SocketInv, SocketTyped
  <1>7. joined' \in BOOLEAN
    OBVIOUS
  <1>8. UNCHANGED <<epoch, overwritten>>
    OBVIOUS
  <1> QED
    BY <1>1, <1>2, <1>3, <1>4, <1>5, <1>6, <1>7, <1>8, LosingTasksKeepsInv

LEMMA LeavesKeepsInv ==
  ASSUME SocketInv, Leaves
  PROVE  SocketInv'
  <1>1. epoch' = epoch + 1 /\ joined' = FALSE /\ UNCHANGED <<connectionId, kept, socket, overwritten>>
    BY DEF Leaves
  <1>2. \A r \in Sockets : socket[r].gen \in Nat
    BY DEF SocketInv, SocketTyped, SocketStates
  <1>3. ~HasId' /\ \A r \in Sockets : ~IsCurrent(r)'
    BY <1>1, <1>2 DEF SocketInv, SocketTyped, HasId, IsCurrent
  <1>4. SocketTyped'
    <2>1. epoch' \in Nat /\ connectionId'.gen <= epoch' /\ \A r \in Sockets : socket'[r].gen <= epoch'
      BY <1>1, <1>2 DEF SocketInv, SocketTyped
    <2>2. joined' \in BOOLEAN
      BY <1>1
    <2> QED
      BY <1>1, <2>1, <2>2 DEF SocketInv, SocketTyped
  <1>5. TasksAreKept'
    BY <1>1, <1>3 DEF SocketInv, TasksAreKept, Busy
  <1> QED
    BY <1>3, <1>4, <1>5 DEF SocketInv, OneLive, Lives, NoneLeft, IdIsHeard, HealthyHasId, HeardFrom

\* The tasks are handed over, unless their generation has ended meanwhile.
LEMMA KeepsKeepsInv ==
  ASSUME SocketInv, NEW s \in Sockets, Keeps(s)
  PROVE  SocketInv'
  <1>1. socket[s].at = "spawned" /\ UNCHANGED <<epoch, joined, overwritten>>
    BY DEF Keeps
  <1>2. CASE IsCurrent(s)
    <2>1. kept' = kept \cup {s} /\ socket' = [socket EXCEPT ![s].at = "open"] /\ UNCHANGED connectionId
      BY <1>2 DEF Keeps, Goes
    <2>2. socket' \in [Sockets -> SocketStates]
      BY <2>1 DEF SocketInv, SocketTyped, SocketStates, SocketPlaces
    <2>3. /\ \A r \in Sockets \ {s} : socket'[r] = socket[r]
          /\ socket'[s].gen = socket[s].gen /\ socket'[s].at = "open"
          /\ (socket'[s].listens <=> socket[s].listens) /\ (socket'[s].pings <=> socket[s].pings)
      BY <2>1 DEF SocketInv, SocketTyped, SocketStates
    <2>4. \A r \in Sockets : (IsCurrent(r)' <=> IsCurrent(r)) /\ (Busy(r)' <=> Busy(r))
      BY <1>1, <2>3 DEF IsCurrent, Busy
    <2>5. HasId' <=> HasId
      BY <1>1, <2>1 DEF HasId
    <2>6. SocketTyped'
      BY <1>1, <2>1, <2>2, <2>3 DEF SocketInv, SocketTyped
    <2>7. OneLive'
      BY <1>1, <2>3, <2>4 DEF SocketInv, OneLive, Lives, Opening
    <2>8. TasksAreKept'
      BY <2>1, <2>3, <2>4 DEF SocketInv, TasksAreKept
    <2>9. NoneLeft'
      BY <1>1, <1>2, <2>3, <2>4 DEF SocketInv, NoneLeft
    <2>10. IdIsHeard'
      BY <1>1, <2>1, <2>3, <2>4, <2>5 DEF SocketInv, IdIsHeard
    <2>11. HealthyHasId'
      BY <1>1, <2>1, <2>3, <2>4, <2>5 DEF SocketInv, HealthyHasId, HeardFrom
    <2> QED
      BY <2>6, <2>7, <2>8, <2>9, <2>10, <2>11 DEF SocketInv
  <1>3. CASE ~IsCurrent(s)
    <2>1. socket' = [Aborted(socket, {s}) EXCEPT ![s].at = "failed"] /\ Clears(socket[s].gen) /\ kept' = kept
      BY <1>3 DEF Keeps
    <2>2. \A r \in Sockets \ {s} : socket'[r] = socket[r]
      BY <2>1 DEF Aborted, SocketInv, SocketTyped
    <2>3. socket'[s] = [gen |-> socket[s].gen, at |-> "failed", listens |-> FALSE, pings |-> FALSE]
      BY <2>1 DEF Aborted, SocketInv, SocketTyped, SocketStates
    <2>4. socket'[s].gen = socket[s].gen /\ ~socket'[s].listens /\ ~socket'[s].pings /\ socket'[s].at = "failed"
      BY <2>3
    <2>5. socket' \in [Sockets -> SocketStates]
      <3>1. "failed" \in SocketPlaces /\ socket[s].gen \in Nat
        BY DEF SocketPlaces, SocketInv, SocketTyped, SocketStates
      <3>2. socket'[s] \in SocketStates
        BY <2>3, <3>1, SpawnedIsState
      <3>3. socket' = [r \in Sockets |-> socket'[r]]
        BY <2>1 DEF Aborted
      <3> QED
        BY <2>2, <3>2, <3>3 DEF SocketInv, SocketTyped
    <2>6. \A r \in Sockets : /\ IsCurrent(r)' <=> IsCurrent(r)
                             /\ IsCurrent(r) => r # s /\ socket'[r] = socket[r]
      BY <1>1, <1>3, <2>2, <2>4 DEF IsCurrent
    <2>7. connectionId' \in [gen : Nat, socket : Nat] /\ connectionId'.gen <= epoch /\ socket[s].gen # epoch
      BY <1>1, <1>3, <2>1, ClearsOneGeneration DEF IsCurrent
    <2>8. (HasId' <=> HasId) /\ (HasId => connectionId' = connectionId)
      BY <1>1, <2>1, <2>7, ClearsOneGeneration
    <2>9. SocketTyped'
      BY <1>1, <2>1, <2>2, <2>4, <2>5, <2>7 DEF SocketInv, SocketTyped
    <2>10. OneLive'
      BY <2>6 DEF SocketInv, OneLive, Lives, Busy
    <2>11. TasksAreKept'
      BY <2>1, <2>2, <2>4, <2>6 DEF SocketInv, TasksAreKept, Busy
    <2>12. NoneLeft'
      BY <1>1, <2>6 DEF SocketInv, NoneLeft
    <2>13. IdIsHeard'
      BY <2>6, <2>8 DEF SocketInv, IdIsHeard
    <2>14. HealthyHasId'
      BY <1>1, <2>6, <2>8 DEF SocketInv, HealthyHasId, HeardFrom
    <2> QED
      BY <2>9, <2>10, <2>11, <2>12, <2>13, <2>14 DEF SocketInv
  <1> QED
    BY <1>2, <1>3

LEMMA SocketInvStep ==
  ASSUME MaxSockets \in Nat, SocketInv, [SocketNext]_coordinatorVars
  PROVE  SocketInv'
  <1>1. ASSUME NEW s \in Sockets, JoinOpens(s) \/ RejoinOpens(s)
        PROVE  SocketInv'
    BY <1>1, JoinOpensKeepsInv, RejoinOpensKeepsInv
  <1>2. ASSUME NEW s \in Sockets, Connects(s) \/ ShakeEnds(s) \/ \E f \in Frames : Shakes(s, f)
        PROVE  SocketInv'
    <2>1. \E place \in {"shake", "checked", "failed"} : Goes(s, place)
      BY <1>2 DEF Connects, ShakeEnds, Shakes
    <2>2. socket[s].at \in {"connect", "shake"} /\ UNCHANGED <<epoch, joined, connectionId, kept, overwritten>>
      BY <1>2 DEF Connects, ShakeEnds, Shakes
    <2> QED
      BY <2>1, <2>2, OpenerKeepsInv
  <1>3. ASSUME NEW s \in Sockets, Stores(s) \/ Spawns(s) \/ Keeps(s)
        PROVE  SocketInv'
    BY <1>3, StoresKeepsInv, SpawnsKeepsInv, KeepsKeepsInv
  <1>4. ASSUME NEW s \in Sockets, SocketCloses(s) \/ PingFails(s)
        PROVE  SocketInv'
    BY <1>4, TaskStopsKeepsInv DEF SocketCloses, PingFails
  <1>5. ASSUME NEW s \in Sockets, TaskEnds(s)
        PROVE  SocketInv'
    BY <1>5, TaskEndsKeepsInv
  <1>6. ASSUME NEW s \in Sockets, JoinFails(s)
        PROVE  SocketInv'
    BY <1>6, StopKeepsInv DEF JoinFails
  <1>7. CASE Leaves
    BY <1>7, LeavesKeepsInv
  <1>8. CASE LeaveStops
    <2>1. ~joined /\ joined' = FALSE
      BY <1>8 DEF LeaveStops, SocketInv, SocketTyped
    <2>2. \A r \in Sockets : IsCurrent(r) => socket[r].at \in {"none", "failed"}
      BY <2>1 DEF SocketInv, NoneLeft
    <2> QED
      BY <1>8, <2>1, <2>2, StopKeepsInv DEF LeaveStops
  <1>9. CASE UNCHANGED coordinatorVars
    <2>1. UNCHANGED <<epoch, joined, connectionId, kept, socket, overwritten>>
      BY <1>9 DEF coordinatorVars
    <2> QED
      BY <2>1 DEF SocketInv, SocketTyped, OneLive, TasksAreKept, NoneLeft, IdIsHeard, HealthyHasId,
                  Lives, Busy, HeardFrom, HasId, IsCurrent
  <1> QED
    BY <1>1, <1>2, <1>3, <1>4, <1>5, <1>6, <1>7, <1>8, <1>9 DEF SocketNext

LEMMA SocketInvIsEnough == ASSUME SocketInv PROVE IdIsOfOpenSocket
  <1>1. HasId => LET s == connectionId.socket IN IsCurrent(s) /\ (socket[s].listens \/ socket[s].at = "stored")
    BY DEF SocketInv, IdIsHeard
  <1>2. \A s \in Sockets : IsCurrent(s) /\ socket[s].at = "open" /\ socket[s].listens /\ socket[s].pings /\ ~overwritten
                               => HasId /\ connectionId.socket = s
    BY DEF SocketInv, HealthyHasId, HeardFrom
  <1> QED
    BY <1>1, <1>2 DEF IdIsOfOpenSocket

\* The requests of a user carry the id of a socket of the running generation to
\* which someone listens, and while a healthy one is open they have its id, unless
\* an overtaken opener stored its own (lifecycle.rs, connect_coordinator_events).
THEOREM IdIsOfLiveSocket == ASSUME MaxSockets \in Nat PROVE SocketSpec => []IdIsOfOpenSocket
  <1>1. SocketInit => SocketInv
    BY SocketInvInit
  <1>2. SocketInv /\ [SocketNext]_coordinatorVars => SocketInv'
    BY SocketInvStep
  <1>3. SocketInv => IdIsOfOpenSocket
    BY SocketInvIsEnough
  <1> QED
    BY <1>1, <1>2, <1>3, PTL DEF SocketSpec

-----------------------------------------------------------------------------
(* Where the candidates of the SFU go, for any number of connections, of   *)
(* offers of either side and of candidates, in any order.                  *)

Queues == [ready : BOOLEAN, pending : SUBSET Nat]
Fates == [taken : SUBSET Nat, added : SUBSET Nat, refused : SUBSET Nat, lost : SUBSET Nat]
InboxFrames == [kind : {"offer", "options", "restart", "ice"}, peer : Peers, n : Nat]
LoopPlaces == {"idle", "flush", "give", "answer", "add", "negotiate", "off"}
Loops == [at : LoopPlaces, peer : Peers, held : SUBSET Nat]
Negotiations == [at : {"free", "offer", "sent", "flush", "give"}, conn : Conns \cup {0},
                 by : Conns \cup {0}, held : SUBSET Nat]

PeerTyped ==
    /\ active \in Conns /\ trickled \in Nat
    /\ remoteSet \in [Conns -> [Peers -> BOOLEAN]]
    /\ queue \in [Conns -> [Peers -> Queues]]
    /\ inbox \in [Conns -> Seq(InboxFrames)]
    /\ loop \in [Conns -> Loops]
    /\ negotiating \in Negotiations
    /\ fate \in [Conns -> [Peers -> Fates]]

\* The loop has candidates in its hands only between an await and the next, and
\* for a peer connection with a description, or a queue opened with none.
LoopHolds ==
    \A c \in Conns :
        /\ loop[c].at \notin {"add", "give"} => loop[c].held = {}
        /\ loop[c].at # "add" => loop[c].peer = "subscriber"
        /\ loop[c].at \in {"flush", "give"} => remoteSet[c]["subscriber"]
        /\ loop[c].at = "add" => remoteSet[c][loop[c].peer] \/ (loop[c].peer = "publisher" /\ c \in early)

\* So does the holder of the media lock; a loop that holds it does nothing else.
TaskHolds ==
    /\ negotiating.at # "free" => negotiating.conn \in Conns /\ negotiating.conn <= active
    /\ negotiating.at # "give" => negotiating.held = {}
    /\ negotiating.at = "give" => remoteSet[negotiating.conn]["publisher"] \/ negotiating.conn \in early
    /\ negotiating.by # 0 => negotiating.at # "free" /\ loop[negotiating.by].at = "negotiate"

\* A queue that was opened keeps nothing, and has its description or was early.
OpenedIsEmpty ==
    \A c \in Conns, p \in Peers :
        QueueIsReady(c, p) => /\ queue[c][p].pending = {}
                              /\ remoteSet[c][p] \/ (p = "publisher" /\ c \in early)

RefusedIsEarly == \A c \in Conns, p \in Peers : fate[c][p].refused # {} => p = "publisher" /\ c \in early

\* A description that is set has been followed by a flush, or will be, or the
\* flush was dropped; the connections to come have none.
FlushIsNext(c, p) ==
    \/ p = "publisher" /\ negotiating.at = "flush" /\ negotiating.conn = c
    \/ p = "subscriber" /\ loop[c].at = "flush"
SetIsFlushed ==
    \A p \in Peers : remoteSet[active][p] /\ <<active, p>> \notin undone
                     => QueueIsReady(active, p) \/ FlushIsNext(active, p)
NextIsFresh == \A c \in Conns, p \in Peers : c > active => ~remoteSet[c][p]

\* Every candidate that a queue took is in one place.
InLoop(c, p) == {n \in loop[c].held : loop[c].peer = p}
InTask(c, p) == {n \in negotiating.held : negotiating.conn = c /\ p = "publisher"}
IsAccounted(c, p) ==
    fate[c][p].taken = fate[c][p].added \cup fate[c][p].refused \cup fate[c][p].lost
                       \cup queue[c][p].pending \cup InLoop(c, p) \cup InTask(c, p)
Accounted == \A c \in Conns, p \in Peers : IsAccounted(c, p)

\* The inductive invariant.
CandidatesInv ==
    /\ PeerTyped /\ LoopHolds /\ TaskHolds /\ OpenedIsEmpty /\ RefusedIsEarly
    /\ SetIsFlushed /\ NextIsFresh /\ Accounted

-----------------------------------------------------------------------------

LEMMA LoopEnds ==
  /\ Reading \in Loops /\ Reading.at = "idle" /\ Reading.peer = "subscriber" /\ Reading.held = {}
  /\ Off \in Loops /\ Off.at = "off" /\ Off.peer = "subscriber" /\ Off.held = {}
  BY DEF Reading, Off, Loops, LoopPlaces, Peers

LEMMA LockIsFree ==
  /\ NoLock \in Negotiations /\ NoLock.at = "free" /\ NoLock.conn = 0 /\ NoLock.by = 0 /\ NoLock.held = {}
  BY DEF NoLock, Negotiations

LEMMA ConnsArePositive == ASSUME MaxConns \in Nat \ {0} PROVE \A c \in Conns : c \in Nat /\ c # 0
  BY DEF Conns

LEMMA CandidatesInit == ASSUME MaxConns \in Nat \ {0}, PeerInit PROVE CandidatesInv
  <1>1. active \in Conns /\ trickled \in Nat
    BY DEF PeerInit, Conns
  <1>2. remoteSet \in [Conns -> [Peers -> BOOLEAN]] /\ \A c \in Conns, p \in Peers : ~remoteSet[c][p]
    BY DEF PeerInit
  <1>3. /\ queue \in [Conns -> [Peers -> Queues]]
        /\ \A c \in Conns, p \in Peers : ~QueueIsReady(c, p) /\ queue[c][p].pending = {}
    BY DEF PeerInit, Queues, QueueIsReady
  <1>4. inbox \in [Conns -> Seq(InboxFrames)]
    BY DEF PeerInit
  <1>5. /\ loop \in [Conns -> Loops]
        /\ \A c \in Conns : loop[c].at = "idle" /\ loop[c].peer = "subscriber" /\ loop[c].held = {}
    <2>1. loop = [c \in Conns |-> Reading]
      BY DEF PeerInit
    <2> QED
      BY <2>1, LoopEnds
  <1>6. negotiating = NoLock
    BY DEF PeerInit
  <1>7. /\ fate \in [Conns -> [Peers -> Fates]]
        /\ \A c \in Conns, p \in Peers : /\ fate[c][p].taken = {} /\ fate[c][p].added = {}
                                         /\ fate[c][p].refused = {} /\ fate[c][p].lost = {}
    BY DEF PeerInit, Fates
  <1>8. PeerTyped
    BY <1>1, <1>2, <1>3, <1>4, <1>5, <1>6, <1>7, LockIsFree DEF PeerTyped
  <1>9. LoopHolds /\ TaskHolds
    BY <1>5, <1>6, LockIsFree DEF LoopHolds, TaskHolds
  <1>10. OpenedIsEmpty /\ RefusedIsEarly /\ SetIsFlushed /\ NextIsFresh
    BY <1>1, <1>2, <1>3, <1>7 DEF OpenedIsEmpty, RefusedIsEarly, SetIsFlushed, NextIsFresh
  <1>11. Accounted
    BY <1>3, <1>5, <1>6, <1>7, LockIsFree DEF Accounted, IsAccounted, InLoop, InTask
  <1> QED
    BY <1>8, <1>9, <1>10, <1>11 DEF CandidatesInv

-----------------------------------------------------------------------------

\* What changes when a loop moves to another place.
LEMMA LoopMoves ==
  ASSUME PeerTyped, NEW c \in Conns, NEW next \in Loops, loop' = [loop EXCEPT ![c] = next]
  PROVE  /\ loop' \in [Conns -> Loops] /\ loop'[c] = next
         /\ \A d \in Conns \ {c} : loop'[d] = loop[d]
  BY DEF PeerTyped

LEMMA TypesOfLoop ==
  ASSUME PeerTyped, NEW c \in Conns
  PROVE  loop[c].at \in LoopPlaces /\ loop[c].peer \in Peers /\ loop[c].held \in SUBSET Nat
  BY DEF PeerTyped, Loops

\* A queue is opened: it is empty, and early if there is no description.
LEMMA MarkReadyOpens ==
  ASSUME PeerTyped, NEW c \in Conns, NEW p \in Peers, MarkReady(c, p)
  PROVE  /\ queue' \in [Conns -> [Peers -> Queues]]
         /\ QueueIsReady(c, p)' /\ queue'[c][p].pending = {}
         /\ \A d \in Conns, q \in Peers :
                d # c \/ q # p => /\ QueueIsReady(d, q)' <=> QueueIsReady(d, q)
                                  /\ queue'[d][q].pending = queue[d][q].pending
         /\ early \subseteq early' /\ (remoteSet[c][p] \/ c \in early')
         /\ \A d \in Conns, q \in Peers : d # c \/ q # p => (<<d, q>> \in undone' <=> <<d, q>> \in undone)
  <1> DEFINE open == [ready |-> TRUE, pending |-> {}]
  <1>1. open \in Queues /\ open.ready /\ open.pending = {}
    BY DEF Queues
  <1>2. queue' = [queue EXCEPT ![c][p] = open]
    BY DEF MarkReady
  <1> HIDE DEF open
  <1>3. queue[c] \in [Peers -> Queues] /\ queue'[c] = [queue[c] EXCEPT ![p] = open]
    BY <1>2 DEF PeerTyped
  <1>4. queue' \in [Conns -> [Peers -> Queues]]
    BY <1>1, <1>2 DEF PeerTyped
  <1>5. queue'[c][p] = open
    BY <1>3
  <1>6. \A d \in Conns, q \in Peers : d # c \/ q # p => queue'[d][q] = queue[d][q]
    BY <1>2 DEF PeerTyped
  <1>7. early \subseteq early' /\ (remoteSet[c][p] \/ c \in early')
    BY DEF MarkReady
  <1>8. \A d \in Conns, q \in Peers : d # c \/ q # p => (<<d, q>> \in undone' <=> <<d, q>> \in undone)
    <2>1. undone' = undone \ {<<c, p>>}
      BY DEF MarkReady
    <2> QED
      BY <2>1
  <1> QED
    BY <1>1, <1>4, <1>5, <1>6, <1>7, <1>8 DEF QueueIsReady

\* Candidates that are handed to a peer connection are added or refused.
LEMMA GivenIsAdded ==
  ASSUME PeerTyped, NEW c \in Conns, NEW p \in Peers, NEW hand \in SUBSET Nat, Given(c, p, hand)
  PROVE  /\ fate' \in [Conns -> [Peers -> Fates]]
         /\ fate'[c][p].taken = fate[c][p].taken /\ fate'[c][p].lost = fate[c][p].lost
         /\ fate'[c][p].added \cup fate'[c][p].refused = fate[c][p].added \cup fate[c][p].refused \cup hand
         /\ remoteSet[c][p] => fate'[c][p].refused = fate[c][p].refused
         /\ \A d \in Conns, q \in Peers : d # c \/ q # p => fate'[d][q] = fate[d][q]
  <1> DEFINE f == fate[c][p]
             next == IF remoteSet[c][p] THEN [f EXCEPT !.added = @ \cup hand]
                     ELSE [f EXCEPT !.refused = @ \cup hand]
  <1>1. f \in Fates /\ fate[c] \in [Peers -> Fates]
    BY DEF PeerTyped
  <1>2. /\ next \in Fates /\ next.taken = f.taken /\ next.lost = f.lost
        /\ next.added \cup next.refused = f.added \cup f.refused \cup hand
        /\ remoteSet[c][p] => next.refused = f.refused
    <2>1. CASE remoteSet[c][p]
      BY <1>1, <2>1 DEF Fates
    <2>2. CASE ~remoteSet[c][p]
      BY <1>1, <2>2 DEF Fates
    <2> QED
      BY <2>1, <2>2
  <1>3. fate' = [fate EXCEPT ![c] = [fate[c] EXCEPT ![p] = next]]
    BY DEF Given, PeerTyped
  <1> HIDE DEF next
  <1>4. fate'[c] = [fate[c] EXCEPT ![p] = next] /\ fate'[c] \in [Peers -> Fates]
    BY <1>1, <1>2, <1>3 DEF PeerTyped
  <1>5. fate' \in [Conns -> [Peers -> Fates]]
    BY <1>3, <1>4 DEF PeerTyped
  <1>6. fate'[c][p] = next
    BY <1>1, <1>4
  <1>7. \A d \in Conns, q \in Peers : d # c \/ q # p => fate'[d][q] = fate[d][q]
    BY <1>1, <1>3 DEF PeerTyped
  <1> QED
    BY <1>2, <1>5, <1>6, <1>7

\* Candidates in the hands of a dropped future are lost.
LEMMA DroppedIsLost ==
  ASSUME PeerTyped, NEW c \in Conns, NEW p \in Peers, NEW at, NEW hand \in SUBSET Nat, Drops(c, p, at, hand)
  PROVE  /\ fate' \in [Conns -> [Peers -> Fates]]
         /\ fate'[c][p].taken = fate[c][p].taken /\ fate'[c][p].added = fate[c][p].added
         /\ fate'[c][p].refused = fate[c][p].refused /\ fate'[c][p].lost = fate[c][p].lost \cup hand
         /\ \A d \in Conns, q \in Peers : d # c \/ q # p => fate'[d][q] = fate[d][q]
         /\ undone \subseteq undone' /\ (at = "flush" => <<c, p>> \in undone')
  <1> DEFINE next == [fate[c][p] EXCEPT !.lost = @ \cup hand]
  <1>1. fate[c][p] \in Fates /\ fate[c] \in [Peers -> Fates]
    BY DEF PeerTyped
  <1>2. /\ next \in Fates /\ next.taken = fate[c][p].taken /\ next.added = fate[c][p].added
        /\ next.refused = fate[c][p].refused /\ next.lost = fate[c][p].lost \cup hand
    BY <1>1 DEF Fates
  <1>3. fate' = [fate EXCEPT ![c] = [fate[c] EXCEPT ![p] = next]]
    BY DEF Drops, PeerTyped
  <1> HIDE DEF next
  <1>4. fate'[c] = [fate[c] EXCEPT ![p] = next] /\ fate'[c] \in [Peers -> Fates]
    BY <1>1, <1>2, <1>3 DEF PeerTyped
  <1>5. fate' \in [Conns -> [Peers -> Fates]]
    BY <1>3, <1>4 DEF PeerTyped
  <1>6. fate'[c][p] = next
    BY <1>1, <1>4
  <1>7. \A d \in Conns, q \in Peers : d # c \/ q # p => fate'[d][q] = fate[d][q]
    BY <1>1, <1>3 DEF PeerTyped
  <1>8. undone \subseteq undone' /\ (at = "flush" => <<c, p>> \in undone')
    BY DEF Drops
  <1> QED
    BY <1>2, <1>5, <1>6, <1>7, <1>8

-----------------------------------------------------------------------------

\* The SFU only fills the inbox.
LEMMA SfuKeepsInv ==
  ASSUME CandidatesInv, NEW c \in Conns,
         (\E kind \in {"offer", "options", "restart"} : SfuAsks(c, kind)) \/ \E p \in Peers : SfuTrickles(c, p)
  PROVE  CandidatesInv'
  <1>1. UNCHANGED <<active, remoteSet, queue, loop, negotiating, fate, early, undone>>
    BY DEF SfuAsks, SfuTrickles
  <1>2. trickled' \in Nat
    <2>1. trickled \in Nat /\ trickled' \in {trickled, trickled + 1}
      BY DEF SfuAsks, SfuTrickles, CandidatesInv, PeerTyped
    <2> QED
      BY <2>1
  <1>3. inbox' \in [Conns -> Seq(InboxFrames)]
    <2>1. ASSUME NEW kind \in {"offer", "options", "restart"}, SfuAsks(c, kind)
          PROVE  inbox' \in [Conns -> Seq(InboxFrames)]
      <3>1. [kind |-> kind, peer |-> "subscriber", n |-> 0] \in InboxFrames
        BY DEF InboxFrames, Peers
      <3> QED
        BY <2>1, <3>1 DEF SfuAsks, Arrives, CandidatesInv, PeerTyped
    <2>2. ASSUME NEW p \in Peers, SfuTrickles(c, p)
          PROVE  inbox' \in [Conns -> Seq(InboxFrames)]
      <3>1. [kind |-> "ice", peer |-> p, n |-> trickled'] \in InboxFrames
        BY <1>2 DEF InboxFrames
      <3> QED
        BY <2>2, <3>1 DEF SfuTrickles, Arrives, CandidatesInv, PeerTyped
    <2> QED
      BY <2>1, <2>2
  <1> QED
    BY <1>1, <1>2, <1>3
    DEF CandidatesInv, PeerTyped, LoopHolds, TaskHolds, OpenedIsEmpty, RefusedIsEarly, SetIsFlushed, FlushIsNext,
        NextIsFresh, Accounted, IsAccounted, InLoop, InTask, QueueIsReady

\* A loop that negotiates is at no other place.
LEMMA LoopIsFree ==
  ASSUME CandidatesInv, NEW c \in Conns, MaxConns \in Nat \ {0}, loop[c].at # "negotiate"
  PROVE  negotiating.by # c
  BY ConnsArePositive DEF CandidatesInv, TaskHolds

LEMMA ReadsFrame ==
  ASSUME CandidatesInv, NEW c \in Conns, NEW kind, Reads(c, kind)
  PROVE  /\ Live(c) /\ c = active /\ loop[c].at = "idle" /\ loop[c].held = {} /\ loop[c].peer = "subscriber"
         /\ inbox' \in [Conns -> Seq(InboxFrames)]
         /\ Head(inbox[c]).peer \in Peers /\ Head(inbox[c]).n \in Nat
  <1>1. inbox[c] \in Seq(InboxFrames) /\ inbox[c] # <<>>
    BY DEF Reads, CandidatesInv, PeerTyped
  <1>2. Head(inbox[c]) \in InboxFrames
    BY <1>1
  <1>3. inbox' \in [Conns -> Seq(InboxFrames)]
    BY <1>1 DEF Reads, CandidatesInv, PeerTyped
  <1>4. loop[c].at = "idle" /\ Live(c) /\ c = active
    BY DEF Reads, Live
  <1> QED
    BY <1>2, <1>3, <1>4 DEF InboxFrames, CandidatesInv, LoopHolds

\* A candidate is in the hands of the loop, or waits in its queue.
LEMMA LoopTakesCandidateKeepsInv ==
  ASSUME MaxConns \in Nat \ {0}, CandidatesInv, NEW c \in Conns, LoopTakesCandidate(c)
  PROVE  CandidatesInv'
  <1> DEFINE p == Head(inbox[c]).peer
             n == Head(inbox[c]).n
  <1>1. p \in Peers /\ n \in Nat /\ c = active /\ loop[c].at = "idle" /\ loop[c].held = {}
        /\ inbox' \in [Conns -> Seq(InboxFrames)]
    BY ReadsFrame DEF LoopTakesCandidate
  <1>2. UNCHANGED <<active, remoteSet, negotiating, trickled, early, undone>>
    BY DEF LoopTakesCandidate
  <1>3. /\ fate' = [fate EXCEPT ![c][p].taken = @ \cup {n}]
        /\ \/ QueueIsReady(c, p) /\ loop' = [loop EXCEPT ![c] = [at |-> "add", peer |-> p, held |-> {n}]]
              /\ queue' = queue
           \/ ~QueueIsReady(c, p) /\ queue' = [queue EXCEPT ![c][p].pending = @ \cup {n}] /\ loop' = loop
    BY DEF LoopTakesCandidate
  <1> HIDE DEF p, n
  <1>4. /\ fate' \in [Conns -> [Peers -> Fates]]
        /\ fate'[c][p].taken = fate[c][p].taken \cup {n} /\ fate'[c][p].added = fate[c][p].added
        /\ fate'[c][p].lost = fate[c][p].lost
        /\ \A d \in Conns, q \in Peers : fate'[d][q].refused = fate[d][q].refused
        /\ \A d \in Conns, q \in Peers : d # c \/ q # p => fate'[d][q] = fate[d][q]
    <2> DEFINE next == [fate[c][p] EXCEPT !.taken = @ \cup {n}]
    <2>1. fate[c][p] \in Fates /\ fate[c] \in [Peers -> Fates]
      BY <1>1 DEF CandidatesInv, PeerTyped
    <2>2. /\ next \in Fates /\ next.taken = fate[c][p].taken \cup {n} /\ next.added = fate[c][p].added
          /\ next.refused = fate[c][p].refused /\ next.lost = fate[c][p].lost
      BY <1>1, <2>1 DEF Fates
    <2>3. fate' = [fate EXCEPT ![c] = [fate[c] EXCEPT ![p] = next]]
      BY <1>1, <1>3 DEF CandidatesInv, PeerTyped
    <2> HIDE DEF next
    <2>4. fate'[c] = [fate[c] EXCEPT ![p] = next] /\ fate'[c] \in [Peers -> Fates]
      BY <2>1, <2>2, <2>3 DEF CandidatesInv, PeerTyped
    <2>5. fate' \in [Conns -> [Peers -> Fates]]
      BY <2>3, <2>4 DEF CandidatesInv, PeerTyped
    <2>6. fate'[c][p] = next
      BY <1>1, <2>1, <2>4
    <2>7. \A d \in Conns, q \in Peers : d # c \/ q # p => fate'[d][q] = fate[d][q]
      BY <2>1, <2>3 DEF CandidatesInv, PeerTyped
    <2> QED
      BY <2>2, <2>5, <2>6, <2>7
  <1>5. RefusedIsEarly' /\ NextIsFresh'
    BY <1>2, <1>4 DEF CandidatesInv, RefusedIsEarly, NextIsFresh
  <1>6. CASE QueueIsReady(c, p) /\ loop' = [loop EXCEPT ![c] = [at |-> "add", peer |-> p, held |-> {n}]]
              /\ queue' = queue
    <2> DEFINE next == [at |-> "add", peer |-> p, held |-> {n}]
    <2>1. next \in Loops /\ next.at = "add" /\ next.peer = p /\ next.held = {n}
      BY <1>1 DEF Loops, LoopPlaces
    <2>2. loop' \in [Conns -> Loops] /\ loop'[c] = next /\ \A d \in Conns \ {c} : loop'[d] = loop[d]
      BY <1>6, <2>1, LoopMoves DEF CandidatesInv
    <2> HIDE DEF next
    <2>3. PeerTyped'
      BY <1>1, <1>2, <1>4, <1>6, <2>2 DEF CandidatesInv, PeerTyped
    <2>4. LoopHolds'
      BY <1>1, <1>2, <1>6, <2>1, <2>2 DEF CandidatesInv, LoopHolds, OpenedIsEmpty
    <2>5. TaskHolds'
      <3>1. negotiating.by # c
        BY <1>1, LoopIsFree
      <3>2. negotiating.by \in Conns \cup {0}
        BY DEF CandidatesInv, PeerTyped, Negotiations
      <3> QED
        BY <1>2, <2>2, <3>1, <3>2 DEF CandidatesInv, TaskHolds
    <2>6. OpenedIsEmpty' /\ SetIsFlushed'
      BY <1>1, <1>2, <1>6, <2>2 DEF CandidatesInv, OpenedIsEmpty, SetIsFlushed, FlushIsNext, QueueIsReady
    <2>7. ASSUME NEW d \in Conns, NEW q \in Peers PROVE IsAccounted(d, q)'
      <3>1. IsAccounted(d, q)
        BY DEF CandidatesInv, Accounted
      <3>2. InTask(d, q)' = InTask(d, q) /\ queue'[d][q].pending = queue[d][q].pending
        BY <1>2, <1>6 DEF InTask
      <3>3. CASE d = c /\ q = p
        <4>1. InLoop(d, q)' = {n} /\ InLoop(d, q) = {}
          BY <1>1, <2>1, <2>2, <3>3 DEF InLoop
        <4> QED
          BY <1>4, <3>1, <3>2, <3>3, <4>1 DEF IsAccounted
      <3>4. CASE d # c \/ q # p
        <4>1. InLoop(d, q)' = InLoop(d, q)
          BY <1>1, <2>1, <2>2, <3>4 DEF InLoop
        <4> QED
          BY <1>4, <3>1, <3>2, <3>4, <4>1 DEF IsAccounted
      <3> QED
        BY <3>3, <3>4
    <2> QED
      BY <1>5, <2>3, <2>4, <2>5, <2>6, <2>7 DEF CandidatesInv, Accounted
  <1>7. CASE ~QueueIsReady(c, p) /\ queue' = [queue EXCEPT ![c][p].pending = @ \cup {n}] /\ loop' = loop
    <2> DEFINE longer == [queue[c][p] EXCEPT !.pending = @ \cup {n}]
    <2>1. queue[c][p] \in Queues /\ queue[c] \in [Peers -> Queues]
      BY <1>1 DEF CandidatesInv, PeerTyped
    <2>2. longer \in Queues /\ longer.pending = queue[c][p].pending \cup {n} /\ longer.ready = queue[c][p].ready
      BY <1>1, <2>1 DEF Queues
    <2>3. queue' = [queue EXCEPT ![c] = [queue[c] EXCEPT ![p] = longer]]
      BY <1>1, <1>7 DEF CandidatesInv, PeerTyped
    <2> HIDE DEF longer
    <2>4. queue'[c] = [queue[c] EXCEPT ![p] = longer] /\ queue'[c] \in [Peers -> Queues]
      BY <2>1, <2>2, <2>3 DEF CandidatesInv, PeerTyped
    <2>5. queue' \in [Conns -> [Peers -> Queues]]
      BY <2>3, <2>4 DEF CandidatesInv, PeerTyped
    <2>6. queue'[c][p] = longer
      BY <1>1, <2>1, <2>4
    <2>7. \A d \in Conns, q \in Peers : d # c \/ q # p => queue'[d][q] = queue[d][q]
      BY <2>1, <2>3 DEF CandidatesInv, PeerTyped
    <2>8. \A d \in Conns, q \in Peers : QueueIsReady(d, q)' <=> QueueIsReady(d, q)
      BY <2>2, <2>6, <2>7 DEF QueueIsReady
    <2>9. PeerTyped'
      BY <1>1, <1>2, <1>4, <1>7, <2>5 DEF CandidatesInv, PeerTyped
    <2>10. LoopHolds' /\ TaskHolds' /\ SetIsFlushed'
      BY <1>1, <1>2, <1>7, <2>8 DEF CandidatesInv, PeerTyped, LoopHolds, TaskHolds, SetIsFlushed, FlushIsNext
    <2>11. OpenedIsEmpty'
      BY <1>2, <1>7, <2>7, <2>8 DEF CandidatesInv, OpenedIsEmpty
    <2>12. ASSUME NEW d \in Conns, NEW q \in Peers PROVE IsAccounted(d, q)'
      <3>1. IsAccounted(d, q)
        BY DEF CandidatesInv, Accounted
      <3>2. InTask(d, q)' = InTask(d, q) /\ InLoop(d, q)' = InLoop(d, q)
        BY <1>2, <1>7 DEF InTask, InLoop
      <3>3. CASE d = c /\ q = p
        <4>1. queue'[c][p].pending = queue[c][p].pending \cup {n}
          BY <2>2, <2>6
        <4> QED
          BY <1>4, <3>1, <3>3, <3>2, <4>1 DEF IsAccounted
      <3>4. CASE d # c \/ q # p
        BY <1>4, <2>7, <3>1, <3>4, <3>2 DEF IsAccounted
      <3> QED
        BY <3>3, <3>4
    <2> QED
      BY <1>5, <2>9, <2>10, <2>11, <2>12 DEF CandidatesInv, Accounted
  <1> QED
    BY <1>3, <1>6, <1>7

-----------------------------------------------------------------------------

\* A loop that comes to rest has nothing in its hands; the others keep theirs.
LEMMA LoopRests ==
  ASSUME CandidatesInv, NEW c \in Conns, NEW next \in Loops, loop' = [loop EXCEPT ![c] = next],
         next.held = {}, next.peer = "subscriber", next.at \notin {"add", "give", "flush"},
         UNCHANGED remoteSet, early \subseteq early'
  PROVE  /\ loop' \in [Conns -> Loops] /\ loop'[c] = next /\ \A d \in Conns \ {c} : loop'[d] = loop[d]
         /\ LoopHolds'
         /\ \A q \in Peers : InLoop(c, q)' = {} /\ \A d \in Conns \ {c} : InLoop(d, q)' = InLoop(d, q)
  <1>1. loop' \in [Conns -> Loops] /\ loop'[c] = next /\ \A d \in Conns \ {c} : loop'[d] = loop[d]
    BY LoopMoves DEF CandidatesInv
  <1>2. LoopHolds'
    BY <1>1 DEF LoopHolds, CandidatesInv
  <1> QED
    BY <1>1, <1>2 DEF InLoop

\* The holder of the media lock is not disturbed by a loop that is not the holder.
LEMMA TaskKeeps ==
  ASSUME MaxConns \in Nat \ {0}, CandidatesInv, NEW c \in Conns, loop[c].at # "negotiate",
         \A d \in Conns \ {c} : loop'[d] = loop[d], UNCHANGED <<active, negotiating>>,
         \A d \in Conns, q \in Peers : remoteSet[d][q] => remoteSet'[d][q], early \subseteq early'
  PROVE  TaskHolds' /\ \A d \in Conns, q \in Peers : InTask(d, q)' = InTask(d, q)
  <1>1. negotiating.by # c /\ negotiating.by \in Conns \cup {0}
    BY LoopIsFree DEF CandidatesInv, PeerTyped, Negotiations
  <1>2. negotiating.at = "give" => negotiating.conn \in Conns
    BY DEF CandidatesInv, TaskHolds
  <1>3. negotiating.at = "give" => remoteSet'[negotiating.conn]["publisher"] \/ negotiating.conn \in early'
    BY <1>2 DEF CandidatesInv, TaskHolds, Peers
  <1>4. negotiating.by # 0 => loop'[negotiating.by].at = "negotiate"
    BY <1>1 DEF CandidatesInv, TaskHolds
  <1>5. TaskHolds'
    BY <1>3, <1>4 DEF CandidatesInv, TaskHolds
  <1> QED
    BY <1>5 DEF InTask

LEMMA LoopAddsKeepsInv ==
  ASSUME MaxConns \in Nat \ {0}, CandidatesInv, NEW c \in Conns, LoopAdds(c)
  PROVE  CandidatesInv'
  <1> DEFINE p == loop[c].peer
  <1>1. /\ loop[c].at = "add" /\ Given(c, p, loop[c].held)
        /\ UNCHANGED <<active, remoteSet, queue, inbox, negotiating, trickled, early, undone>>
    BY DEF LoopAdds
  <1>2. PICK next \in {Reading, Off} : loop' = [loop EXCEPT ![c] = next]
    BY DEF LoopAdds
  <1>3. next \in Loops /\ next.held = {} /\ next.peer = "subscriber" /\ next.at \in {"idle", "off"}
    BY LoopEnds
  <1>4. p \in Peers /\ loop[c].held \in SUBSET Nat
    BY TypesOfLoop DEF CandidatesInv
  <1>5. /\ loop' \in [Conns -> Loops] /\ loop'[c] = next /\ \A d \in Conns \ {c} : loop'[d] = loop[d]
        /\ LoopHolds'
        /\ \A q \in Peers : InLoop(c, q)' = {} /\ \A d \in Conns \ {c} : InLoop(d, q)' = InLoop(d, q)
    BY <1>1, <1>2, <1>3, LoopRests
  <1>6. TaskHolds' /\ \A d \in Conns, q \in Peers : InTask(d, q)' = InTask(d, q)
    BY <1>1, <1>5, TaskKeeps
  <1>7. /\ fate' \in [Conns -> [Peers -> Fates]]
        /\ fate'[c][p].taken = fate[c][p].taken /\ fate'[c][p].lost = fate[c][p].lost
        /\ fate'[c][p].added \cup fate'[c][p].refused = fate[c][p].added \cup fate[c][p].refused \cup loop[c].held
        /\ remoteSet[c][p] => fate'[c][p].refused = fate[c][p].refused
        /\ \A d \in Conns, q \in Peers : d # c \/ q # p => fate'[d][q] = fate[d][q]
    BY <1>1, <1>4, GivenIsAdded DEF CandidatesInv
  <1>8. PeerTyped'
    BY <1>1, <1>5, <1>7 DEF CandidatesInv, PeerTyped
  <1>9. RefusedIsEarly'
    <2>1. remoteSet[c][p] \/ (p = "publisher" /\ c \in early)
      BY <1>1 DEF CandidatesInv, LoopHolds
    <2> QED
      BY <1>1, <1>7, <2>1 DEF CandidatesInv, RefusedIsEarly
  <1>10. OpenedIsEmpty' /\ NextIsFresh' /\ SetIsFlushed'
    BY <1>1, <1>5 DEF CandidatesInv, PeerTyped, OpenedIsEmpty, NextIsFresh, SetIsFlushed, FlushIsNext, QueueIsReady
  <1>11. ASSUME NEW d \in Conns, NEW q \in Peers PROVE IsAccounted(d, q)'
    <2>1. IsAccounted(d, q) /\ InTask(d, q)' = InTask(d, q) /\ queue' = queue
      BY <1>1, <1>6 DEF CandidatesInv, Accounted
    <2>2. CASE d = c /\ q = p
      <3>1. InLoop(d, q) = loop[c].held /\ InLoop(d, q)' = {}
        BY <1>5, <2>2 DEF InLoop
      <3> QED
        BY <1>7, <2>1, <2>2, <3>1 DEF IsAccounted
    <2>3. CASE d # c \/ q # p
      <3>1. InLoop(d, q)' = InLoop(d, q)
        BY <1>5, <2>3 DEF InLoop
      <3> QED
        BY <1>7, <2>1, <2>3, <3>1 DEF IsAccounted
    <2> QED
      BY <2>2, <2>3
  <1> QED
    BY <1>5, <1>6, <1>8, <1>9, <1>10, <1>11 DEF CandidatesInv, Accounted

\* The description of the subscriber is set, and its flush is next.
LEMMA LoopTakesOfferKeepsInv ==
  ASSUME MaxConns \in Nat \ {0}, CandidatesInv, NEW c \in Conns, LoopTakesOffer(c)
  PROVE  CandidatesInv'
  <1>1. /\ loop[c].at = "idle" /\ loop[c].held = {} /\ loop[c].peer = "subscriber" /\ c = active
        /\ inbox' \in [Conns -> Seq(InboxFrames)]
        /\ UNCHANGED <<active, queue, negotiating, trickled, fate, early, undone>>
    BY ReadsFrame DEF LoopTakesOffer
  <1>2. CASE remoteSet' = [remoteSet EXCEPT ![c]["subscriber"] = TRUE] /\ loop' = [loop EXCEPT ![c].at = "flush"]
    <2>1. /\ loop' \in [Conns -> Loops] /\ \A d \in Conns \ {c} : loop'[d] = loop[d]
          /\ loop'[c].at = "flush" /\ loop'[c].held = {} /\ loop'[c].peer = "subscriber"
      <3> DEFINE next == [loop[c] EXCEPT !.at = "flush"]
      <3>1. next \in Loops /\ next.at = "flush" /\ next.held = {} /\ next.peer = "subscriber"
        BY <1>1 DEF CandidatesInv, PeerTyped, Loops, LoopPlaces
      <3>2. loop' = [loop EXCEPT ![c] = next]
        BY <1>2
      <3> HIDE DEF next
      <3> QED
        BY <3>1, <3>2, LoopMoves DEF CandidatesInv
    <2>2. /\ remoteSet' \in [Conns -> [Peers -> BOOLEAN]] /\ remoteSet'[c]["subscriber"]
          /\ \A d \in Conns, p \in Peers : d # c \/ p # "subscriber" => remoteSet'[d][p] = remoteSet[d][p]
      BY <1>2 DEF CandidatesInv, PeerTyped, Peers
    <2>3. \A d \in Conns, p \in Peers : remoteSet[d][p] => remoteSet'[d][p]
      BY <2>2
    <2>4. PeerTyped'
      BY <1>1, <2>1, <2>2 DEF CandidatesInv, PeerTyped
    <2>5. TaskHolds' /\ \A d \in Conns, q \in Peers : InTask(d, q)' = InTask(d, q)
      BY <1>1, <2>1, <2>3, TaskKeeps
    <2>6. LoopHolds'
      <3>1. \A d \in Conns : loop[d].peer \in Peers
        BY TypesOfLoop DEF CandidatesInv
      <3> QED
        BY <1>1, <2>1, <2>2, <2>3, <3>1 DEF CandidatesInv, LoopHolds, Peers
    <2>7. \A d \in Conns, p \in Peers : QueueIsReady(d, p)' <=> QueueIsReady(d, p)
      BY <1>1 DEF QueueIsReady
    <2>8. OpenedIsEmpty' /\ RefusedIsEarly'
      BY <1>1, <2>3, <2>7 DEF CandidatesInv, OpenedIsEmpty, RefusedIsEarly
    <2>9. NextIsFresh'
      <3>1. ~(active > active)
        BY ConnsArePositive DEF CandidatesInv, PeerTyped
      <3> QED
        BY <1>1, <2>2, <3>1 DEF CandidatesInv, NextIsFresh
    <2>10. SetIsFlushed'
      BY <1>1, <2>1, <2>2, <2>7 DEF CandidatesInv, SetIsFlushed, FlushIsNext, Peers
    <2>11. ASSUME NEW d \in Conns, NEW q \in Peers PROVE IsAccounted(d, q)'
      <3>1. InLoop(d, q)' = InLoop(d, q)
        BY <1>1, <2>1 DEF InLoop
      <3> QED
        BY <1>1, <2>5, <3>1 DEF CandidatesInv, Accounted, IsAccounted
    <2> QED
      BY <2>4, <2>5, <2>6, <2>8, <2>9, <2>10, <2>11 DEF CandidatesInv, Accounted
  <1>3. CASE remoteSet' = remoteSet /\ loop' = [loop EXCEPT ![c] = Off]
    <2>1. /\ loop' \in [Conns -> Loops] /\ loop'[c] = Off /\ \A d \in Conns \ {c} : loop'[d] = loop[d]
          /\ LoopHolds'
          /\ \A q \in Peers : InLoop(c, q)' = {} /\ \A d \in Conns \ {c} : InLoop(d, q)' = InLoop(d, q)
      BY <1>1, <1>3, LoopRests, LoopEnds
    <2>2. TaskHolds' /\ \A d \in Conns, q \in Peers : InTask(d, q)' = InTask(d, q)
      BY <1>1, <1>3, <2>1, TaskKeeps
    <2>3. PeerTyped'
      BY <1>1, <1>3, <2>1 DEF CandidatesInv, PeerTyped
    <2>4. OpenedIsEmpty' /\ RefusedIsEarly' /\ NextIsFresh' /\ SetIsFlushed'
      BY <1>1, <1>3, <2>1 DEF CandidatesInv, PeerTyped, OpenedIsEmpty, RefusedIsEarly, NextIsFresh, SetIsFlushed, FlushIsNext,
                              QueueIsReady
    <2>5. ASSUME NEW d \in Conns, NEW q \in Peers PROVE IsAccounted(d, q)'
      <3>1. InLoop(d, q)' = InLoop(d, q)
        BY <1>1, <2>1 DEF InLoop
      <3> QED
        BY <1>1, <2>2, <3>1 DEF CandidatesInv, Accounted, IsAccounted
    <2> QED
      BY <2>1, <2>2, <2>3, <2>4, <2>5 DEF CandidatesInv, Accounted
  <1> QED
    BY <1>2, <1>3 DEF LoopTakesOffer

\* The queue of the subscriber is emptied into the hands of the loop.
LEMMA LoopFlushesKeepsInv ==
  ASSUME MaxConns \in Nat \ {0}, CandidatesInv, NEW c \in Conns, LoopFlushes(c)
  PROVE  CandidatesInv'
  <1> DEFINE pending == queue[c]["subscriber"].pending
             next == [loop[c] EXCEPT !.at = "give", !.held = pending]
  <1>1. /\ loop[c].at = "flush" /\ MarkReady(c, "subscriber") /\ "subscriber" \in Peers
        /\ UNCHANGED <<active, remoteSet, inbox, negotiating, trickled, fate>>
    BY DEF LoopFlushes, Peers
  <1>2. loop[c].peer = "subscriber" /\ loop[c].held = {} /\ remoteSet[c]["subscriber"]
    BY <1>1 DEF CandidatesInv, LoopHolds
  <1>3. pending \in SUBSET Nat
    BY <1>1 DEF CandidatesInv, PeerTyped, Queues
  <1>4. next \in Loops /\ next.at = "give" /\ next.held = pending /\ next.peer = "subscriber"
    BY <1>2, <1>3 DEF CandidatesInv, PeerTyped, Loops, LoopPlaces
  <1>5. loop' = [loop EXCEPT ![c] = next]
    BY DEF LoopFlushes, CandidatesInv, PeerTyped
  <1> HIDE DEF pending, next
  <1>6. /\ queue' \in [Conns -> [Peers -> Queues]]
        /\ QueueIsReady(c, "subscriber")' /\ queue'[c]["subscriber"].pending = {}
        /\ \A d \in Conns, q \in Peers :
               d # c \/ q # "subscriber" => /\ QueueIsReady(d, q)' <=> QueueIsReady(d, q)
                                            /\ queue'[d][q].pending = queue[d][q].pending
        /\ early \subseteq early'
        /\ \A d \in Conns, q \in Peers :
               d # c \/ q # "subscriber" => (<<d, q>> \in undone' <=> <<d, q>> \in undone)
    BY <1>1, MarkReadyOpens DEF CandidatesInv
  <1>7. loop' \in [Conns -> Loops] /\ loop'[c] = next /\ \A d \in Conns \ {c} : loop'[d] = loop[d]
    BY <1>4, <1>5, LoopMoves DEF CandidatesInv
  <1>8. PeerTyped'
    BY <1>1, <1>6, <1>7 DEF CandidatesInv, PeerTyped
  <1>9. LoopHolds'
    BY <1>1, <1>2, <1>4, <1>6, <1>7 DEF CandidatesInv, LoopHolds
  <1>10. TaskHolds' /\ \A d \in Conns, q \in Peers : InTask(d, q)' = InTask(d, q)
    BY <1>1, <1>6, <1>7, TaskKeeps
  <1>11. OpenedIsEmpty'
    BY <1>1, <1>2, <1>6 DEF CandidatesInv, OpenedIsEmpty
  <1>12. RefusedIsEarly' /\ NextIsFresh'
    BY <1>1, <1>6 DEF CandidatesInv, RefusedIsEarly, NextIsFresh
  <1>13. SetIsFlushed'
    BY <1>1, <1>6, <1>7 DEF CandidatesInv, PeerTyped, SetIsFlushed, FlushIsNext, Peers
  <1>14. ASSUME NEW d \in Conns, NEW q \in Peers PROVE IsAccounted(d, q)'
    <2>1. IsAccounted(d, q) /\ InTask(d, q)' = InTask(d, q) /\ fate' = fate
      BY <1>1, <1>10 DEF CandidatesInv, Accounted
    <2>2. CASE d = c /\ q = "subscriber"
      <3>1. InLoop(d, q) = {} /\ InLoop(d, q)' = queue[d][q].pending /\ queue'[d][q].pending = {}
        BY <1>2, <1>4, <1>6, <1>7, <2>2 DEF InLoop, pending
      <3> QED
        BY <2>1, <3>1 DEF IsAccounted
    <2>3. CASE d # c \/ q # "subscriber"
      <3>1. InLoop(d, q)' = InLoop(d, q) /\ queue'[d][q].pending = queue[d][q].pending
        BY <1>2, <1>4, <1>6, <1>7, <2>3 DEF InLoop
      <3> QED
        BY <2>1, <3>1 DEF IsAccounted
    <2> QED
      BY <2>2, <2>3
  <1> QED
    BY <1>8, <1>9, <1>10, <1>11, <1>12, <1>13, <1>14 DEF CandidatesInv, Accounted

LEMMA LoopGivesKeepsInv ==
  ASSUME MaxConns \in Nat \ {0}, CandidatesInv, NEW c \in Conns, LoopGives(c)
  PROVE  CandidatesInv'
  <1> DEFINE next == [Reading EXCEPT !.at = "answer"]
  <1>1. /\ loop[c].at = "give" /\ Given(c, "subscriber", loop[c].held) /\ loop' = [loop EXCEPT ![c] = next]
        /\ UNCHANGED <<active, remoteSet, queue, inbox, negotiating, trickled, early, undone>>
    BY DEF LoopGives
  <1>2. next \in Loops /\ next.held = {} /\ next.peer = "subscriber" /\ next.at = "answer"
    BY DEF Reading, Loops, LoopPlaces, Peers
  <1> HIDE DEF next
  <1>3. loop[c].peer = "subscriber" /\ remoteSet[c]["subscriber"] /\ loop[c].held \in SUBSET Nat /\ "subscriber" \in Peers
    BY <1>1, TypesOfLoop DEF CandidatesInv, LoopHolds
  <1>4. /\ loop' \in [Conns -> Loops] /\ loop'[c] = next /\ \A d \in Conns \ {c} : loop'[d] = loop[d]
        /\ LoopHolds'
        /\ \A q \in Peers : InLoop(c, q)' = {} /\ \A d \in Conns \ {c} : InLoop(d, q)' = InLoop(d, q)
    BY <1>1, <1>2, LoopRests
  <1>5. TaskHolds' /\ \A d \in Conns, q \in Peers : InTask(d, q)' = InTask(d, q)
    BY <1>1, <1>4, TaskKeeps
  <1>6. /\ fate' \in [Conns -> [Peers -> Fates]]
        /\ fate'[c]["subscriber"].taken = fate[c]["subscriber"].taken
        /\ fate'[c]["subscriber"].lost = fate[c]["subscriber"].lost
        /\ fate'[c]["subscriber"].added \cup fate'[c]["subscriber"].refused
           = fate[c]["subscriber"].added \cup fate[c]["subscriber"].refused \cup loop[c].held
        /\ fate'[c]["subscriber"].refused = fate[c]["subscriber"].refused
        /\ \A d \in Conns, q \in Peers : d # c \/ q # "subscriber" => fate'[d][q] = fate[d][q]
    BY <1>1, <1>3, GivenIsAdded DEF CandidatesInv
  <1>7. PeerTyped'
    BY <1>1, <1>4, <1>6 DEF CandidatesInv, PeerTyped
  <1>8. RefusedIsEarly'
    BY <1>1, <1>6 DEF CandidatesInv, RefusedIsEarly
  <1>9. OpenedIsEmpty' /\ NextIsFresh' /\ SetIsFlushed'
    BY <1>1, <1>4 DEF CandidatesInv, PeerTyped, OpenedIsEmpty, NextIsFresh, SetIsFlushed, FlushIsNext, QueueIsReady
  <1>10. ASSUME NEW d \in Conns, NEW q \in Peers PROVE IsAccounted(d, q)'
    <2>1. IsAccounted(d, q) /\ InTask(d, q)' = InTask(d, q) /\ queue' = queue
      BY <1>1, <1>5 DEF CandidatesInv, Accounted
    <2>2. CASE d = c /\ q = "subscriber"
      <3>1. InLoop(d, q) = loop[c].held /\ InLoop(d, q)' = {}
        BY <1>3, <1>4, <2>2 DEF InLoop
      <3> QED
        BY <1>6, <2>1, <2>2, <3>1 DEF IsAccounted
    <2>3. CASE d # c \/ q # "subscriber"
      <3>1. InLoop(d, q)' = InLoop(d, q)
        BY <1>3, <1>4, <2>3 DEF InLoop
      <3> QED
        BY <1>6, <2>1, <2>3, <3>1 DEF IsAccounted
    <2> QED
      BY <2>2, <2>3
  <1> QED
    BY <1>4, <1>5, <1>7, <1>8, <1>9, <1>10 DEF CandidatesInv, Accounted

LEMMA LoopAnswersKeepsInv ==
  ASSUME MaxConns \in Nat \ {0}, CandidatesInv, NEW c \in Conns, LoopAnswers(c)
  PROVE  CandidatesInv'
  <1>1. /\ loop[c].at = "answer"
        /\ UNCHANGED <<active, remoteSet, queue, inbox, negotiating, trickled, fate, early, undone>>
    BY DEF LoopAnswers
  <1>2. PICK next \in {Reading, Off} : loop' = [loop EXCEPT ![c] = next]
    BY DEF LoopAnswers
  <1>3. next \in Loops /\ next.held = {} /\ next.peer = "subscriber" /\ next.at \in {"idle", "off"}
    BY LoopEnds
  <1>4. /\ loop' \in [Conns -> Loops] /\ loop'[c] = next /\ \A d \in Conns \ {c} : loop'[d] = loop[d]
        /\ LoopHolds'
        /\ \A q \in Peers : InLoop(c, q)' = {} /\ \A d \in Conns \ {c} : InLoop(d, q)' = InLoop(d, q)
    BY <1>1, <1>2, <1>3, LoopRests
  <1>5. TaskHolds' /\ \A d \in Conns, q \in Peers : InTask(d, q)' = InTask(d, q)
    BY <1>1, <1>4, TaskKeeps
  <1>6. PeerTyped'
    BY <1>1, <1>4 DEF CandidatesInv, PeerTyped
  <1>7. OpenedIsEmpty' /\ RefusedIsEarly' /\ NextIsFresh' /\ SetIsFlushed'
    BY <1>1, <1>4 DEF CandidatesInv, PeerTyped, OpenedIsEmpty, RefusedIsEarly, NextIsFresh, SetIsFlushed, FlushIsNext,
                      QueueIsReady
  <1>8. \A d \in Conns, q \in Peers : InLoop(d, q)' = InLoop(d, q)
    <2>1. loop[c].held = {}
      BY <1>1 DEF CandidatesInv, LoopHolds
    <2> QED
      BY <1>4, <2>1 DEF InLoop
  <1>9. Accounted'
    BY <1>1, <1>5, <1>8 DEF CandidatesInv, Accounted, IsAccounted
  <1> QED
    BY <1>4, <1>5, <1>6, <1>7, <1>9 DEF CandidatesInv

-----------------------------------------------------------------------------

\* The media lock is taken with nothing in the hands.
LEMMA OffersBegin ==
  ASSUME CandidatesInv, NEW by \in Conns \cup {0}, NEW place \in {"offer", "flush"},
         negotiating' = [at |-> place, conn |-> active, by |-> by, held |-> {}]
  PROVE  /\ negotiating' \in Negotiations /\ negotiating'.at = place /\ negotiating'.conn = active
         /\ negotiating'.by = by /\ negotiating'.held = {}
  BY DEF Negotiations, CandidatesInv, PeerTyped

LEMMA NegotiationBeginsKeepsInv ==
  ASSUME MaxConns \in Nat \ {0}, CandidatesInv, NegotiationBegins
  PROVE  CandidatesInv'
  <1>1. /\ negotiating = NoLock
        /\ UNCHANGED <<active, remoteSet, queue, inbox, loop, trickled, fate, early, undone>>
    BY DEF NegotiationBegins
  <1>2. /\ negotiating' \in Negotiations /\ negotiating'.at = "offer" /\ negotiating'.conn = active
        /\ negotiating'.by = 0 /\ negotiating'.held = {}
    BY OffersBegin DEF NegotiationBegins, Offers
  <1>3. PeerTyped'
    BY <1>1, <1>2 DEF CandidatesInv, PeerTyped
  <1>4. TaskHolds'
    BY <1>1, <1>2, ConnsArePositive DEF CandidatesInv, PeerTyped, TaskHolds
  <1>5. LoopHolds' /\ OpenedIsEmpty' /\ RefusedIsEarly' /\ NextIsFresh'
    BY <1>1 DEF CandidatesInv, LoopHolds, OpenedIsEmpty, RefusedIsEarly, NextIsFresh, QueueIsReady
  <1>6. SetIsFlushed'
    BY <1>1, LockIsFree DEF CandidatesInv, SetIsFlushed, FlushIsNext, QueueIsReady
  <1>7. \A d \in Conns, q \in Peers : InTask(d, q) = {} /\ InTask(d, q)' = {} /\ InLoop(d, q)' = InLoop(d, q)
    BY <1>1, <1>2, LockIsFree DEF InTask, InLoop
  <1>8. Accounted'
    BY <1>1, <1>7 DEF CandidatesInv, Accounted, IsAccounted
  <1> QED
    BY <1>3, <1>4, <1>5, <1>6, <1>8 DEF CandidatesInv

LEMMA LoopNegotiatesKeepsInv ==
  ASSUME MaxConns \in Nat \ {0}, CandidatesInv, NEW c \in Conns, NEW kind \in {"options", "restart"},
         LoopNegotiates(c, kind)
  PROVE  CandidatesInv'
  <1>1. /\ negotiating = NoLock /\ inbox' \in [Conns -> Seq(InboxFrames)]
        /\ loop[c].at = "idle" /\ loop[c].held = {} /\ loop[c].peer = "subscriber"
        /\ UNCHANGED <<active, remoteSet, queue, trickled, fate, early, undone>>
    BY ReadsFrame DEF LoopNegotiates
  <1>2. ASSUME NEW place \in {"offer", "flush"}, loop' = [loop EXCEPT ![c].at = "negotiate"],
               negotiating' = [at |-> place, conn |-> active, by |-> c, held |-> {}]
        PROVE  CandidatesInv'
    <2> DEFINE next == [loop[c] EXCEPT !.at = "negotiate"]
    <2>1. next \in Loops /\ next.at = "negotiate" /\ next.held = {} /\ next.peer = "subscriber"
      BY <1>1 DEF CandidatesInv, PeerTyped, Loops, LoopPlaces
    <2>2. loop' = [loop EXCEPT ![c] = next]
      BY <1>2
    <2> HIDE DEF next
    <2>3. /\ loop' \in [Conns -> Loops] /\ loop'[c] = next /\ \A d \in Conns \ {c} : loop'[d] = loop[d]
          /\ LoopHolds'
          /\ \A q \in Peers : InLoop(c, q)' = {} /\ \A d \in Conns \ {c} : InLoop(d, q)' = InLoop(d, q)
      BY <1>1, <2>1, <2>2, LoopRests
    <2>4. /\ negotiating' \in Negotiations /\ negotiating'.at = place /\ negotiating'.conn = active
          /\ negotiating'.by = c /\ negotiating'.held = {}
      BY <1>2, OffersBegin
    <2>5. PeerTyped'
      BY <1>1, <2>3, <2>4 DEF CandidatesInv, PeerTyped
    <2>6. TaskHolds'
      BY <1>1, <2>1, <2>3, <2>4, ConnsArePositive DEF CandidatesInv, PeerTyped, TaskHolds
    <2>7. OpenedIsEmpty' /\ RefusedIsEarly' /\ NextIsFresh'
      BY <1>1 DEF CandidatesInv, OpenedIsEmpty, RefusedIsEarly, NextIsFresh, QueueIsReady
    <2>8. SetIsFlushed'
      BY <1>1, <2>3, <2>4, LockIsFree DEF CandidatesInv, PeerTyped, SetIsFlushed, FlushIsNext, QueueIsReady
    <2>9. \A d \in Conns, q \in Peers : InTask(d, q) = {} /\ InTask(d, q)' = {} /\ InLoop(d, q)' = InLoop(d, q)
      BY <1>1, <2>3, <2>4, LockIsFree DEF InTask, InLoop
    <2>10. Accounted'
      BY <1>1, <2>9 DEF CandidatesInv, Accounted, IsAccounted
    <2> QED
      BY <2>3, <2>5, <2>6, <2>7, <2>8, <2>10 DEF CandidatesInv
  <1>3. CASE UNCHANGED <<loop, negotiating>>
    BY <1>1, <1>3
    DEF CandidatesInv, PeerTyped, LoopHolds, TaskHolds, OpenedIsEmpty, RefusedIsEarly, SetIsFlushed, FlushIsNext,
        NextIsFresh, Accounted, IsAccounted, InLoop, InTask, QueueIsReady
  <1> QED
    BY <1>2, <1>3 DEF LoopNegotiates, Offers

\* The offer reaches the SFU.
LEMMA SfuAnswersKeepsInv ==
  ASSUME CandidatesInv, SfuAnswers
  PROVE  CandidatesInv'
  <1>1. /\ negotiating.at = "offer"
        /\ UNCHANGED <<active, remoteSet, queue, inbox, loop, trickled, fate, early, undone>>
    BY DEF SfuAnswers
  <1>2. /\ negotiating' \in Negotiations /\ negotiating'.at = "sent" /\ negotiating'.conn = negotiating.conn
        /\ negotiating'.by = negotiating.by /\ negotiating'.held = negotiating.held
    BY DEF SfuAnswers, Negotiations, CandidatesInv, PeerTyped
  <1>3. PeerTyped' /\ TaskHolds'
    BY <1>1, <1>2 DEF CandidatesInv, PeerTyped, TaskHolds
  <1>4. LoopHolds' /\ OpenedIsEmpty' /\ RefusedIsEarly' /\ NextIsFresh' /\ SetIsFlushed'
    BY <1>1, <1>2 DEF CandidatesInv, LoopHolds, OpenedIsEmpty, RefusedIsEarly, NextIsFresh, SetIsFlushed, FlushIsNext,
                      QueueIsReady
  <1>5. Accounted'
    BY <1>1, <1>2 DEF CandidatesInv, Accounted, IsAccounted, InTask, InLoop
  <1> QED
    BY <1>3, <1>4, <1>5 DEF CandidatesInv

\* The description of the publisher is set, and its flush is next.
LEMMA AppliesAnswerKeepsInv ==
  ASSUME MaxConns \in Nat \ {0}, CandidatesInv, AppliesAnswer
  PROVE  CandidatesInv'
  <1> DEFINE mine == negotiating.conn
  <1>1. /\ negotiating.at = "sent" /\ mine \in Conns /\ mine <= active
        /\ UNCHANGED <<active, queue, inbox, loop, trickled, fate, early, undone>>
    BY DEF AppliesAnswer, CandidatesInv, TaskHolds
  <1>2. /\ negotiating' \in Negotiations /\ negotiating'.at = "flush" /\ negotiating'.conn = mine
        /\ negotiating'.by = negotiating.by /\ negotiating'.held = {}
    BY <1>1 DEF AppliesAnswer, Negotiations, CandidatesInv, PeerTyped, TaskHolds
  <1> HIDE DEF mine
  <1>3. /\ remoteSet' \in [Conns -> [Peers -> BOOLEAN]] /\ remoteSet'[mine]["publisher"]
        /\ \A d \in Conns, p \in Peers : d # mine \/ p # "publisher" => remoteSet'[d][p] = remoteSet[d][p]
    <2>1. remoteSet' = [remoteSet EXCEPT ![mine]["publisher"] = TRUE]
      BY DEF AppliesAnswer, mine
    <2> QED
      BY <1>1, <2>1 DEF CandidatesInv, PeerTyped, Peers
  <1>4. PeerTyped'
    BY <1>1, <1>2, <1>3 DEF CandidatesInv, PeerTyped
  <1>5. \A d \in Conns, p \in Peers : remoteSet[d][p] => remoteSet'[d][p]
    BY <1>3
  <1>6. LoopHolds'
    <2>1. \A d \in Conns : loop[d].peer \in Peers
      BY TypesOfLoop DEF CandidatesInv
    <2> QED
      BY <1>1, <1>5, <2>1 DEF CandidatesInv, LoopHolds, Peers
  <1>7. TaskHolds'
    BY <1>1, <1>2, <1>3 DEF CandidatesInv, TaskHolds, mine
  <1>8. \A d \in Conns, p \in Peers : QueueIsReady(d, p)' <=> QueueIsReady(d, p)
    BY <1>1 DEF QueueIsReady
  <1>9. OpenedIsEmpty' /\ RefusedIsEarly'
    BY <1>1, <1>5, <1>8 DEF CandidatesInv, OpenedIsEmpty, RefusedIsEarly
  <1>10. NextIsFresh'
    <2>1. active \in Nat /\ mine \in Nat /\ \A d \in Conns : d \in Nat
      BY <1>1, ConnsArePositive DEF CandidatesInv, PeerTyped
    <2>2. ~(mine > active)
      BY <1>1, <2>1
    <2> QED
      BY <1>1, <1>3, <2>2 DEF CandidatesInv, NextIsFresh
  <1>11. SetIsFlushed'
    BY <1>1, <1>2, <1>3, <1>8 DEF CandidatesInv, PeerTyped, SetIsFlushed, FlushIsNext, Peers
  <1>12. Accounted'
    <2>1. \A d \in Conns, q \in Peers : InTask(d, q)' = {} /\ InTask(d, q) = {} /\ InLoop(d, q)' = InLoop(d, q)
      BY <1>1, <1>2 DEF InTask, InLoop, CandidatesInv, TaskHolds
    <2> QED
      BY <1>1, <2>1 DEF CandidatesInv, Accounted, IsAccounted
  <1> QED
    BY <1>4, <1>6, <1>7, <1>9, <1>10, <1>11, <1>12 DEF CandidatesInv

\* The queue of the publisher in the slot is emptied into the hands of the holder.
LEMMA FlushPublisherIceKeepsInv ==
  ASSUME MaxConns \in Nat \ {0}, CandidatesInv, FlushPublisherIce
  PROVE  CandidatesInv'
  <1> DEFINE pending == queue[active]["publisher"].pending
  <1>1. /\ negotiating.at = "flush" /\ MarkReady(active, "publisher") /\ "publisher" \in Peers /\ active \in Conns
        /\ UNCHANGED <<active, remoteSet, inbox, loop, trickled, fate>>
    BY DEF FlushPublisherIce, Peers, CandidatesInv, PeerTyped
  <1>2. pending \in SUBSET Nat
    BY <1>1 DEF CandidatesInv, PeerTyped, Queues
  <1>3. /\ negotiating' \in Negotiations /\ negotiating'.at = "give" /\ negotiating'.conn = active
        /\ negotiating'.by = negotiating.by /\ negotiating'.held = pending
    BY <1>1, <1>2 DEF FlushPublisherIce, Negotiations, CandidatesInv, PeerTyped
  <1> HIDE DEF pending
  <1>4. /\ queue' \in [Conns -> [Peers -> Queues]]
        /\ QueueIsReady(active, "publisher")' /\ queue'[active]["publisher"].pending = {}
        /\ \A d \in Conns, q \in Peers :
               d # active \/ q # "publisher" => /\ QueueIsReady(d, q)' <=> QueueIsReady(d, q)
                                                /\ queue'[d][q].pending = queue[d][q].pending
        /\ early \subseteq early' /\ (remoteSet[active]["publisher"] \/ active \in early')
        /\ \A d \in Conns, q \in Peers :
               d # active \/ q # "publisher" => (<<d, q>> \in undone' <=> <<d, q>> \in undone)
    BY <1>1, MarkReadyOpens DEF CandidatesInv
  <1>5. PeerTyped'
    BY <1>1, <1>3, <1>4 DEF CandidatesInv, PeerTyped
  <1>6. LoopHolds' /\ RefusedIsEarly' /\ NextIsFresh'
    BY <1>1, <1>4 DEF CandidatesInv, LoopHolds, RefusedIsEarly, NextIsFresh
  <1>7. TaskHolds'
    <2>1. active <= active
      BY <1>1, ConnsArePositive
    <2> QED
      BY <1>1, <1>3, <1>4, <2>1 DEF CandidatesInv, TaskHolds
  <1>8. OpenedIsEmpty'
    BY <1>1, <1>4 DEF CandidatesInv, OpenedIsEmpty
  <1>9. SetIsFlushed'
    BY <1>1, <1>4 DEF CandidatesInv, SetIsFlushed, FlushIsNext, Peers
  <1>10. ASSUME NEW d \in Conns, NEW q \in Peers PROVE IsAccounted(d, q)'
    <2>1. IsAccounted(d, q) /\ InLoop(d, q)' = InLoop(d, q) /\ fate' = fate
      BY <1>1 DEF CandidatesInv, Accounted, InLoop
    <2>2. InTask(d, q) = {}
      BY <1>1 DEF InTask, CandidatesInv, TaskHolds
    <2>3. CASE d = active /\ q = "publisher"
      <3>1. InTask(d, q)' = queue[d][q].pending /\ queue'[d][q].pending = {}
        BY <1>1, <1>3, <1>4, <2>3 DEF InTask, pending
      <3> QED
        BY <2>1, <2>2, <3>1 DEF IsAccounted
    <2>4. CASE d # active \/ q # "publisher"
      <3>1. InTask(d, q)' = {} /\ queue'[d][q].pending = queue[d][q].pending
        BY <1>1, <1>3, <1>4, <2>4 DEF InTask
      <3> QED
        BY <2>1, <2>2, <3>1 DEF IsAccounted
    <2> QED
      BY <2>3, <2>4
  <1> QED
    BY <1>5, <1>6, <1>7, <1>8, <1>9, <1>10 DEF CandidatesInv, Accounted

-----------------------------------------------------------------------------

\* The lock is given back, and a loop that held it reads again or ends.
LEMMA LockIsReleased ==
  ASSUME MaxConns \in Nat \ {0}, CandidatesInv, NEW next \in {Reading, Off}, Releases(next),
         UNCHANGED <<active, remoteSet, early>>
  PROVE  /\ negotiating' = NoLock /\ loop' \in [Conns -> Loops] /\ LoopHolds' /\ TaskHolds'
         /\ \A d \in Conns, q \in Peers : InLoop(d, q)' = InLoop(d, q) /\ InTask(d, q)' = {}
         /\ \A d \in Conns : loop[d].at = "flush" => loop'[d].at = "flush"
  <1>1. next \in Loops /\ next.held = {} /\ next.peer = "subscriber" /\ next.at \in {"idle", "off"}
    BY LoopEnds
  <1>2. negotiating' = NoLock /\ loop' = [d \in Conns |-> IF d = negotiating.by THEN next ELSE loop[d]]
    BY DEF Releases
  <1>3. \A d \in Conns : d = negotiating.by => loop[d].at = "negotiate" /\ loop[d].held = {}
    BY ConnsArePositive DEF CandidatesInv, TaskHolds, LoopHolds
  <1>4. loop' \in [Conns -> Loops]
    BY <1>1, <1>2 DEF CandidatesInv, PeerTyped
  <1>5. \A d \in Conns : \/ d = negotiating.by /\ loop'[d] = next
                         \/ d # negotiating.by /\ loop'[d] = loop[d]
    BY <1>2
  <1>6. LoopHolds'
    BY <1>1, <1>5 DEF CandidatesInv, LoopHolds
  <1>7. TaskHolds'
    BY <1>2, LockIsFree DEF TaskHolds
  <1>8. \A d \in Conns, q \in Peers : InLoop(d, q)' = InLoop(d, q) /\ InTask(d, q)' = {}
    BY <1>1, <1>2, <1>3, <1>5, LockIsFree DEF InLoop, InTask
  <1> QED
    BY <1>2, <1>3, <1>4, <1>5, <1>6, <1>7, <1>8

LEMMA NegotiationFailsKeepsInv ==
  ASSUME MaxConns \in Nat \ {0}, CandidatesInv, NegotiationFails
  PROVE  CandidatesInv'
  <1>1. /\ negotiating.at \in {"offer", "sent"} /\ Releases(Off)
        /\ UNCHANGED <<active, remoteSet, queue, inbox, trickled, fate, early, undone>>
    BY DEF NegotiationFails
  <1>2. /\ negotiating' = NoLock /\ loop' \in [Conns -> Loops] /\ LoopHolds' /\ TaskHolds'
        /\ \A d \in Conns, q \in Peers : InLoop(d, q)' = InLoop(d, q) /\ InTask(d, q)' = {}
        /\ \A d \in Conns : loop[d].at = "flush" => loop'[d].at = "flush"
    BY <1>1, LockIsReleased
  <1>3. PeerTyped'
    BY <1>1, <1>2, LockIsFree DEF CandidatesInv, PeerTyped
  <1>4. OpenedIsEmpty' /\ RefusedIsEarly' /\ NextIsFresh' /\ SetIsFlushed'
    BY <1>1, <1>2 DEF CandidatesInv, PeerTyped, OpenedIsEmpty, RefusedIsEarly, NextIsFresh, SetIsFlushed, FlushIsNext,
                      QueueIsReady
  <1>5. Accounted'
    <2>1. \A d \in Conns, q \in Peers : InTask(d, q) = {}
      BY <1>1 DEF InTask, CandidatesInv, TaskHolds
    <2> QED
      BY <1>1, <1>2, <2>1 DEF CandidatesInv, Accounted, IsAccounted
  <1> QED
    BY <1>2, <1>3, <1>4, <1>5 DEF CandidatesInv

LEMMA FlushGivesKeepsInv ==
  ASSUME MaxConns \in Nat \ {0}, CandidatesInv, FlushGives
  PROVE  CandidatesInv'
  <1> DEFINE c == negotiating.conn
  <1>1. /\ negotiating.at = "give" /\ Given(c, "publisher", negotiating.held) /\ Releases(Reading)
        /\ UNCHANGED <<active, remoteSet, queue, inbox, trickled, early, undone>>
    BY DEF FlushGives
  <1>2. /\ c \in Conns /\ negotiating.held \in SUBSET Nat /\ "publisher" \in Peers
        /\ remoteSet[c]["publisher"] \/ c \in early
    BY <1>1 DEF CandidatesInv, PeerTyped, TaskHolds, Negotiations, Peers
  <1>3. /\ negotiating' = NoLock /\ loop' \in [Conns -> Loops] /\ LoopHolds' /\ TaskHolds'
        /\ \A d \in Conns, q \in Peers : InLoop(d, q)' = InLoop(d, q) /\ InTask(d, q)' = {}
        /\ \A d \in Conns : loop[d].at = "flush" => loop'[d].at = "flush"
    BY <1>1, LockIsReleased
  <1>4. \A d \in Conns, q \in Peers :
            InTask(d, q) = IF d = c /\ q = "publisher" THEN negotiating.held ELSE {}
    BY DEF InTask
  <1> HIDE DEF c
  <1>5. /\ fate' \in [Conns -> [Peers -> Fates]]
        /\ fate'[c]["publisher"].taken = fate[c]["publisher"].taken
        /\ fate'[c]["publisher"].lost = fate[c]["publisher"].lost
        /\ fate'[c]["publisher"].added \cup fate'[c]["publisher"].refused
           = fate[c]["publisher"].added \cup fate[c]["publisher"].refused \cup negotiating.held
        /\ remoteSet[c]["publisher"] => fate'[c]["publisher"].refused = fate[c]["publisher"].refused
        /\ \A d \in Conns, q \in Peers : d # c \/ q # "publisher" => fate'[d][q] = fate[d][q]
    BY <1>1, <1>2, GivenIsAdded DEF CandidatesInv
  <1>6. PeerTyped'
    BY <1>1, <1>3, <1>5, LockIsFree DEF CandidatesInv, PeerTyped
  <1>7. RefusedIsEarly'
    BY <1>1, <1>2, <1>5 DEF CandidatesInv, RefusedIsEarly
  <1>8. OpenedIsEmpty' /\ NextIsFresh' /\ SetIsFlushed'
    BY <1>1, <1>3 DEF CandidatesInv, PeerTyped, OpenedIsEmpty, NextIsFresh, SetIsFlushed, FlushIsNext, QueueIsReady
  <1>9. ASSUME NEW d \in Conns, NEW q \in Peers PROVE IsAccounted(d, q)'
    <2>1. IsAccounted(d, q) /\ InLoop(d, q)' = InLoop(d, q) /\ InTask(d, q)' = {} /\ queue' = queue
      BY <1>1, <1>3 DEF CandidatesInv, Accounted
    <2>2. CASE d = c /\ q = "publisher"
      <3>1. InTask(d, q) = negotiating.held
        BY <1>4, <2>2
      <3> QED
        BY <1>5, <2>1, <2>2, <3>1 DEF IsAccounted
    <2>3. CASE d # c \/ q # "publisher"
      <3>1. InTask(d, q) = {}
        BY <1>4, <2>3
      <3> QED
        BY <1>5, <2>1, <2>3, <3>1 DEF IsAccounted
    <2> QED
      BY <2>2, <2>3
  <1> QED
    BY <1>3, <1>6, <1>7, <1>8, <1>9 DEF CandidatesInv, Accounted

-----------------------------------------------------------------------------

\* The future of a flush is dropped: what it had in its hands is lost.
LEMMA TaskIsDropped ==
  ASSUME MaxConns \in Nat \ {0}, CandidatesInv, negotiating.at # "free", negotiating' = NoLock,
         Drops(negotiating.conn, "publisher", negotiating.at, negotiating.held),
         loop' \in [Conns -> Loops], LoopHolds',
         \A d \in Conns, q \in Peers : InLoop(d, q)' = InLoop(d, q),
         \A d \in Conns : loop[d].at = "flush" => loop'[d].at = "flush",
         inbox' \in [Conns -> Seq(InboxFrames)], UNCHANGED <<active, remoteSet, queue, trickled, early>>
  PROVE  CandidatesInv'
  <1> DEFINE c == negotiating.conn
  <1>1. c \in Conns /\ negotiating.held \in SUBSET Nat /\ "publisher" \in Peers
    BY DEF CandidatesInv, PeerTyped, TaskHolds, Negotiations, Peers
  <1>2. Drops(c, "publisher", negotiating.at, negotiating.held)
    OBVIOUS
  <1>3. \A d \in Conns, q \in Peers :
            InTask(d, q) = IF d = c /\ q = "publisher" THEN negotiating.held ELSE {}
    BY DEF InTask
  <1>4. \A d \in Conns, q \in Peers : InTask(d, q)' = {}
    BY LockIsFree DEF InTask
  <1>5. negotiating.conn = c
    OBVIOUS
  <1> HIDE DEF c
  <1>6. /\ fate' \in [Conns -> [Peers -> Fates]]
        /\ fate'[c]["publisher"].taken = fate[c]["publisher"].taken
        /\ fate'[c]["publisher"].added = fate[c]["publisher"].added
        /\ fate'[c]["publisher"].refused = fate[c]["publisher"].refused
        /\ fate'[c]["publisher"].lost = fate[c]["publisher"].lost \cup negotiating.held
        /\ \A d \in Conns, q \in Peers : d # c \/ q # "publisher" => fate'[d][q] = fate[d][q]
        /\ undone \subseteq undone' /\ (negotiating.at = "flush" => <<c, "publisher">> \in undone')
    BY <1>1, <1>2, DroppedIsLost DEF CandidatesInv
  <1>7. PeerTyped'
    BY <1>6, LockIsFree DEF CandidatesInv, PeerTyped
  <1>8. TaskHolds'
    BY LockIsFree DEF TaskHolds
  <1>9. RefusedIsEarly'
    BY <1>6 DEF CandidatesInv, RefusedIsEarly
  <1>10. OpenedIsEmpty' /\ NextIsFresh'
    BY DEF CandidatesInv, OpenedIsEmpty, NextIsFresh, QueueIsReady
  <1>11. SetIsFlushed'
    BY <1>5, <1>6 DEF CandidatesInv, PeerTyped, SetIsFlushed, FlushIsNext, QueueIsReady
  <1>12. ASSUME NEW d \in Conns, NEW q \in Peers PROVE IsAccounted(d, q)'
    <2>1. IsAccounted(d, q) /\ InLoop(d, q)' = InLoop(d, q) /\ InTask(d, q)' = {} /\ queue' = queue
      BY <1>4 DEF CandidatesInv, Accounted
    <2>2. CASE d = c /\ q = "publisher"
      <3>1. InTask(d, q) = negotiating.held
        BY <1>3, <2>2
      <3> QED
        BY <1>6, <2>1, <2>2, <3>1 DEF IsAccounted
    <2>3. CASE d # c \/ q # "publisher"
      <3>1. InTask(d, q) = {}
        BY <1>3, <2>3
      <3> QED
        BY <1>6, <2>1, <2>3, <3>1 DEF IsAccounted
    <2> QED
      BY <2>2, <2>3
  <1> QED
    BY <1>7, <1>8, <1>9, <1>10, <1>11, <1>12 DEF CandidatesInv, Accounted

LEMMA PublishIsDroppedKeepsInv ==
  ASSUME MaxConns \in Nat \ {0}, CandidatesInv, PublishIsDropped
  PROVE  CandidatesInv'
  <1>1. /\ negotiating.at # "free" /\ negotiating' = NoLock
        /\ Drops(negotiating.conn, "publisher", negotiating.at, negotiating.held)
        /\ UNCHANGED <<active, remoteSet, queue, inbox, loop, trickled, early>>
    BY DEF PublishIsDropped
  <1>2. loop' \in [Conns -> Loops] /\ LoopHolds' /\ inbox' \in [Conns -> Seq(InboxFrames)]
    BY <1>1 DEF CandidatesInv, PeerTyped, LoopHolds
  <1>3. \A d \in Conns, q \in Peers : InLoop(d, q)' = InLoop(d, q)
    BY <1>1 DEF InLoop
  <1> QED
    BY <1>1, <1>2, <1>3, TaskIsDropped

\* An aborted loop drops what it has in its hands, or what it does as the holder of the lock.
LEMMA LoopIsAbortedKeepsInv ==
  ASSUME MaxConns \in Nat \ {0}, CandidatesInv, NEW c \in Conns, NEW next \in {Reading, Off},
         LoopIsAborted(c, next), inbox' \in [Conns -> Seq(InboxFrames)],
         UNCHANGED <<active, remoteSet, queue, trickled, early>>
  PROVE  CandidatesInv'
  <1>1. next \in Loops /\ next.held = {} /\ next.peer = "subscriber" /\ next.at \in {"idle", "off"}
    BY LoopEnds
  <1>2. loop' = [loop EXCEPT ![c] = next]
    BY DEF LoopIsAborted
  <1>3. /\ loop' \in [Conns -> Loops] /\ loop'[c] = next /\ \A d \in Conns \ {c} : loop'[d] = loop[d]
        /\ LoopHolds'
        /\ \A q \in Peers : InLoop(c, q)' = {} /\ \A d \in Conns \ {c} : InLoop(d, q)' = InLoop(d, q)
    BY <1>1, <1>2, LoopRests
  <1>4. CASE negotiating.by = c
    <2>1. loop[c].at = "negotiate" /\ loop[c].held = {} /\ negotiating.at # "free"
      BY <1>4, ConnsArePositive DEF CandidatesInv, TaskHolds, LoopHolds
    <2>2. negotiating' = NoLock /\ Drops(negotiating.conn, "publisher", negotiating.at, negotiating.held)
      BY <1>4 DEF LoopIsAborted
    <2>3. \A d \in Conns, q \in Peers : InLoop(d, q)' = InLoop(d, q)
      BY <1>3, <2>1 DEF InLoop
    <2>4. \A d \in Conns : loop[d].at = "flush" => loop'[d].at = "flush"
      BY <1>3, <2>1
    <2> QED
      BY <1>3, <2>1, <2>2, <2>3, <2>4, TaskIsDropped
  <1>5. CASE negotiating.by # c
    <2> DEFINE p == loop[c].peer
    <2>1. p \in Peers /\ loop[c].held \in SUBSET Nat
      BY TypesOfLoop DEF CandidatesInv
    <2>2. Drops(c, p, loop[c].at, loop[c].held) /\ negotiating' = negotiating
      BY <1>5 DEF LoopIsAborted
    <2>3. loop[c].at = "flush" => p = "subscriber"
      BY DEF CandidatesInv, LoopHolds
    <2>4. \A q \in Peers : InLoop(c, q) = IF q = p THEN loop[c].held ELSE {}
      BY DEF InLoop
    <2> HIDE DEF p
    <2>5. /\ fate' \in [Conns -> [Peers -> Fates]]
          /\ fate'[c][p].taken = fate[c][p].taken /\ fate'[c][p].added = fate[c][p].added
          /\ fate'[c][p].refused = fate[c][p].refused /\ fate'[c][p].lost = fate[c][p].lost \cup loop[c].held
          /\ \A d \in Conns, q \in Peers : d # c \/ q # p => fate'[d][q] = fate[d][q]
          /\ undone \subseteq undone' /\ (loop[c].at = "flush" => <<c, p>> \in undone')
      BY <2>1, <2>2, DroppedIsLost DEF CandidatesInv
    <2>6. PeerTyped'
      BY <1>3, <2>2, <2>5 DEF CandidatesInv, PeerTyped
    <2>7. TaskHolds'
      <3>1. negotiating.by \in Conns \cup {0}
        BY DEF CandidatesInv, PeerTyped, Negotiations
      <3> QED
        BY <1>3, <1>5, <2>2, <3>1 DEF CandidatesInv, TaskHolds
    <2>8. RefusedIsEarly'
      BY <2>5 DEF CandidatesInv, RefusedIsEarly
    <2>9. OpenedIsEmpty' /\ NextIsFresh'
      BY DEF CandidatesInv, OpenedIsEmpty, NextIsFresh, QueueIsReady
    <2>10. SetIsFlushed'
      BY <1>3, <2>2, <2>3, <2>5 DEF CandidatesInv, PeerTyped, SetIsFlushed, FlushIsNext, QueueIsReady
    <2>11. ASSUME NEW d \in Conns, NEW q \in Peers PROVE IsAccounted(d, q)'
      <3>1. IsAccounted(d, q) /\ InTask(d, q)' = InTask(d, q) /\ queue' = queue
        BY <2>2 DEF CandidatesInv, Accounted, InTask
      <3>2. CASE d = c /\ q = p
        <4>1. InLoop(d, q) = loop[c].held /\ InLoop(d, q)' = {}
          BY <1>3, <2>4, <3>2
        <4> QED
          BY <2>5, <3>1, <3>2, <4>1 DEF IsAccounted
      <3>3. CASE d # c \/ q # p
        <4>1. InLoop(d, q)' = InLoop(d, q)
          BY <1>3, <2>4, <3>3
        <4> QED
          BY <2>5, <3>1, <3>3, <4>1 DEF IsAccounted
      <3> QED
        BY <3>2, <3>3
    <2> QED
      BY <1>3, <2>6, <2>7, <2>8, <2>9, <2>10, <2>11 DEF CandidatesInv, Accounted
  <1> QED
    BY <1>4, <1>5

LEMMA AbortsKeepInv ==
  ASSUME MaxConns \in Nat \ {0}, CandidatesInv, NEW c \in Conns, FastReopens(c) \/ TearsDown(c)
  PROVE  CandidatesInv'
  <1>1. UNCHANGED <<active, remoteSet, queue, trickled, early>>
    BY DEF FastReopens, TearsDown
  <1>2. inbox' \in [Conns -> Seq(InboxFrames)]
    <2>1. inbox \in [Conns -> Seq(InboxFrames)] /\ <<>> \in Seq(InboxFrames)
      BY DEF CandidatesInv, PeerTyped
    <2>2. inbox' = inbox \/ inbox' = [inbox EXCEPT ![c] = <<>>]
      BY DEF FastReopens, TearsDown
    <2> QED
      BY <2>1, <2>2
  <1>3. \E next \in {Reading, Off} : LoopIsAborted(c, next)
    BY DEF FastReopens, TearsDown
  <1> QED
    BY <1>1, <1>2, <1>3, LoopIsAbortedKeepsInv

\* The connection that takes the slot has no description yet.
LEMMA ReplacesKeepsInv ==
  ASSUME MaxConns \in Nat \ {0}, CandidatesInv, Replaces
  PROVE  CandidatesInv'
  <1>1. UNCHANGED <<remoteSet, queue, inbox, loop, negotiating, trickled, fate, early, undone>>
    BY DEF Replaces
  <1>2. active' \in Conns /\ active \in Nat /\ active' = active + 1 /\ \A d \in Conns : d \in Nat
    BY DEF Replaces, CandidatesInv, PeerTyped, Conns
  <1>3. active' > active /\ \A d \in Conns : (d > active' => d > active) /\ (d <= active => d <= active')
    BY <1>2
  <1>4. PeerTyped'
    BY <1>1, <1>2 DEF CandidatesInv, PeerTyped
  <1>5. LoopHolds' /\ OpenedIsEmpty' /\ RefusedIsEarly'
    BY <1>1 DEF CandidatesInv, LoopHolds, OpenedIsEmpty, RefusedIsEarly, QueueIsReady
  <1>6. TaskHolds'
    BY <1>1, <1>3 DEF CandidatesInv, TaskHolds
  <1>7. NextIsFresh' /\ SetIsFlushed'
    BY <1>1, <1>2, <1>3 DEF CandidatesInv, NextIsFresh, SetIsFlushed
  <1>8. Accounted'
    BY <1>1 DEF CandidatesInv, Accounted, IsAccounted, InLoop, InTask
  <1> QED
    BY <1>4, <1>5, <1>6, <1>7, <1>8 DEF CandidatesInv

LEMMA CandidatesStep ==
  ASSUME MaxConns \in Nat \ {0}, CandidatesInv, [PeerNext]_peerVars
  PROVE  CandidatesInv'
  <1>1. ASSUME NEW c \in Conns, (\E kind \in {"offer", "options", "restart"} : SfuAsks(c, kind))
                                \/ \E p \in Peers : SfuTrickles(c, p)
        PROVE  CandidatesInv'
    BY <1>1, SfuKeepsInv
  <1>2. ASSUME NEW c \in Conns, LoopTakesCandidate(c) \/ LoopAdds(c) \/ LoopTakesOffer(c)
        PROVE  CandidatesInv'
    BY <1>2, LoopTakesCandidateKeepsInv, LoopAddsKeepsInv, LoopTakesOfferKeepsInv
  <1>3. ASSUME NEW c \in Conns, LoopFlushes(c) \/ LoopGives(c) \/ LoopAnswers(c)
        PROVE  CandidatesInv'
    BY <1>3, LoopFlushesKeepsInv, LoopGivesKeepsInv, LoopAnswersKeepsInv
  <1>4. ASSUME NEW c \in Conns, (\E kind \in {"options", "restart"} : LoopNegotiates(c, kind))
                                \/ FastReopens(c) \/ TearsDown(c)
        PROVE  CandidatesInv'
    BY <1>4, LoopNegotiatesKeepsInv, AbortsKeepInv
  <1>5. CASE NegotiationBegins \/ SfuAnswers \/ AppliesAnswer \/ NegotiationFails
    BY <1>5, NegotiationBeginsKeepsInv, SfuAnswersKeepsInv, AppliesAnswerKeepsInv, NegotiationFailsKeepsInv
  <1>6. CASE FlushPublisherIce \/ FlushGives \/ PublishIsDropped
    BY <1>6, FlushPublisherIceKeepsInv, FlushGivesKeepsInv, PublishIsDroppedKeepsInv
  <1>7. CASE Replaces
    BY <1>7, ReplacesKeepsInv
  <1>8. CASE UNCHANGED peerVars
    <2>1. UNCHANGED <<active, remoteSet, queue, inbox, loop, negotiating, trickled, fate, early, undone>>
      BY <1>8 DEF peerVars
    <2> QED
      BY <2>1
      DEF CandidatesInv, PeerTyped, LoopHolds, TaskHolds, OpenedIsEmpty, RefusedIsEarly, SetIsFlushed, FlushIsNext,
          NextIsFresh, Accounted, IsAccounted, InLoop, InTask, QueueIsReady
  <1> QED
    BY <1>1, <1>2, <1>3, <1>4, <1>5, <1>6, <1>7, <1>8 DEF PeerNext

LEMMA CandidatesInvIsEnough == ASSUME CandidatesInv PROVE CandidatesArrive
  <1>1. \A c \in Conns, p \in Peers : fate[c][p].refused # {} => p = "publisher" /\ c \in early
    BY DEF CandidatesInv, RefusedIsEarly
  <1>2. ASSUME NEW c \in Conns, NEW p \in Peers, Live(c), remoteSet[c][p], AtRest(c, p), <<c, p>> \notin undone
        PROVE  fate[c][p].taken = fate[c][p].added \cup fate[c][p].refused \cup fate[c][p].lost
    <2>1. c = active /\ ~FlushIsNext(c, p)
      BY <1>2 DEF Live, AtRest, FlushIsNext, Peers
    <2>2. queue[c][p].pending = {}
      BY <1>2, <2>1 DEF CandidatesInv, SetIsFlushed, OpenedIsEmpty
    <2>3. InLoop(c, p) = {}
      BY <1>2 DEF InLoop, AtRest, CandidatesInv, LoopHolds
    <2>4. InTask(c, p) = {}
      BY <1>2 DEF InTask, AtRest, CandidatesInv, TaskHolds
    <2> QED
      BY <2>2, <2>3, <2>4 DEF CandidatesInv, Accounted, IsAccounted
  <1> QED
    BY <1>1, <1>2 DEF CandidatesArrive

\* A candidate that was taken reaches its peer connection once that has its
\* description, unless the queue was opened before the description, the flush
\* after it was dropped, or the candidate was in the hands of a dropped future
\* (ice.rs, CandidateQueue; publish.rs, flush_publisher_ice).
THEOREM CandidatesAreKept == ASSUME MaxConns \in Nat \ {0} PROVE PeerSpec => []CandidatesArrive
  <1>1. PeerInit => CandidatesInv
    BY CandidatesInit
  <1>2. CandidatesInv /\ [PeerNext]_peerVars => CandidatesInv'
    BY CandidatesStep
  <1>3. CandidatesInv => CandidatesArrive
    BY CandidatesInvIsEnough
  <1> QED
    BY <1>1, <1>2, <1>3, PTL DEF PeerSpec

-----------------------------------------------------------------------------
(* What the SFU learns of the trace, for any number of records, of sources *)
(* and of reports that fail.                                               *)

\* A mark is not a record, and a buffer holds at least one of either.
StatsBounds ==
    /\ MaxBuffer \in Nat \ {0} /\ MaxRecords \in Nat
    /\ Overflow \notin Nat

Traces == Nat \cup {Overflow}

\* b may stand next to a.
Follows(a, b) == a # Overflow /\ b # Overflow => b = a + 1
Chained(q) == \A i \in 1..(Len(q) - 1) : Follows(q[i], q[i + 1])

\* What the holder of the lock drained, and all that is on its way to the SFU.
Flight == IF sendLock = Stats!Nobody THEN Stats!Empty ELSE reporting[sendLock].drained
Delivered(s) == <<0>> \o gone[s]
Stream(s) == Delivered(s) \o (Flight[s] \o buffer[s])

LifeStages == {"open", "flushing", "leaving", "flushed", "left", "closed"}
TracesTyped ==
    /\ buffer \in [Sources -> Seq(Traces)] /\ gone \in [Sources -> Seq(Traces)]
    /\ traced \in [Sources -> 0..MaxRecords]
    /\ \A s \in Sources : Len(buffer[s]) <= MaxBuffer
    /\ reporting \in [Stats!Reporters -> [at : {"off", "idle", "wait", "sample", "send"},
                                          drained : [Sources -> Seq(Traces)]]]
    /\ sendLock \in Stats!Reporters \cup {Stats!Nobody}
    /\ life \in LifeStages /\ lost \in [Sources -> SUBSET Nat]

\* One report at a time has records in its hands, and none once the connection
\* is closed.
ReportsInv ==
    /\ \A r \in Stats!Reporters :
        /\ reporting[r].at \in {"sample", "send"} <=> sendLock = r
        /\ reporting[r].at # "send" => reporting[r].drained = Stats!Empty
    /\ life \notin {"flushing", "leaving"} => reporting["teardown"].at = "off"
    /\ life = "closed" => reporting["run"].at = "off"

\* What left a source, what is in flight and what is buffered are one trace, in
\* order, which ends with the last record or with a mark.
StreamInv ==
    \A s \in Sources :
        /\ Chained(Delivered(s)) /\ Chained(Stream(s))
        /\ Stream(s)[Len(Stream(s))] \in {traced[s], Overflow}

\* What a dropped report took is in one place, and until the flush at the end.
LostInv ==
    \A s \in Sources :
        /\ lost[s] \subseteq 1..Len(gone[s])
        /\ lost[s] # {} => reporting["run"].at = "off"
        /\ life \in {"open", "flushing", "leaving"} => \A i \in lost[s] : i..Len(gone[s]) \subseteq lost[s]
        /\ \A i, k \in lost[s] : i..k \subseteq lost[s]

\* The inductive invariant.
StatsInv == TracesTyped /\ ReportsInv /\ StreamInv /\ LostInv

LEMMA ConcatOf ==
  ASSUME NEW p \in Seq(Traces), NEW q \in Seq(Traces)
  PROVE  /\ p \o q \in Seq(Traces)
         /\ Len(p \o q) = Len(p) + Len(q)
         /\ \A i \in 1..Len(p) : (p \o q)[i] = p[i]
         /\ \A i \in 1..Len(q) : (p \o q)[Len(p) + i] = q[i]
  OBVIOUS

\* A part of a chain at its front.
LEMMA ChainedFront ==
  ASSUME NEW p \in Seq(Traces), NEW q \in Seq(Traces), Chained(p \o q)
  PROVE  Chained(p)
  <1>1. Len(p) \in Nat /\ Len(q) \in Nat
    OBVIOUS
  <1>2. ASSUME NEW i \in 1..(Len(p) - 1) PROVE Follows(p[i], p[i + 1])
    <2>1. i \in 1..(Len(p \o q) - 1) /\ i \in 1..Len(p) /\ i + 1 \in 1..Len(p)
      BY <1>1, ConcatOf
    <2>2. Follows((p \o q)[i], (p \o q)[i + 1])
      BY <2>1 DEF Chained
    <2> QED
      BY <2>1, <2>2, ConcatOf
  <1> QED
    BY <1>2 DEF Chained

\* The next record.
LEMMA ChainedAppend ==
  ASSUME NEW p \in Seq(Traces), Len(p) > 0, Chained(p), NEW n \in Nat, p[Len(p)] \in {n, Overflow}
  PROVE  /\ Append(p, n + 1) \in Seq(Traces)
         /\ Chained(Append(p, n + 1))
         /\ Append(p, n + 1)[Len(Append(p, n + 1))] = n + 1
  <1> DEFINE q == Append(p, n + 1)
  <1>1. /\ q \in Seq(Traces) /\ Len(q) = Len(p) + 1 /\ Len(p) \in Nat
        /\ q[Len(p) + 1] = n + 1
        /\ \A i \in 1..Len(p) : q[i] = p[i]
    BY DEF Traces
  <1> HIDE DEF q
  <1>2. ASSUME NEW i \in 1..(Len(q) - 1) PROVE Follows(q[i], q[i + 1])
    <2>1. CASE i = Len(p)
      BY <1>1, <2>1 DEF Follows
    <2>2. CASE i # Len(p)
      <3>1. i \in 1..(Len(p) - 1) /\ i \in 1..Len(p) /\ i + 1 \in 1..Len(p)
        BY <1>1, <2>2
      <3> QED
        BY <1>1, <3>1 DEF Chained
    <2> QED
      BY <2>1, <2>2
  <1>3. Chained(q)
    BY <1>2 DEF Chained
  <1>4. q[Len(q)] = n + 1
    BY <1>1
  <1> QED
    BY <1>1, <1>3, <1>4 DEF q

\* cap_buffer leaves the end of a buffer behind a mark.
LEMMA CappedIs ==
  ASSUME StatsBounds, NEW q \in Seq(Traces), Len(q) > MaxBuffer
  PROVE  /\ Stats!Capped(q) \in Seq(Traces) /\ Len(Stats!Capped(q)) = MaxBuffer
         /\ Stats!Capped(q)[1] = Overflow
         /\ \A i \in 2..MaxBuffer : Stats!Capped(q)[i] = q[Len(q) - MaxBuffer + i]
  <1> DEFINE over == Len(q) - MaxBuffer
             rest == SubSeq(q, over + 2, Len(q))
             mark == <<Overflow>>
  <1>1. Len(q) \in Nat /\ MaxBuffer \in Nat /\ MaxBuffer >= 1 /\ over \in Nat /\ over >= 1
    BY DEF StatsBounds
  <1>2. /\ rest \in Seq(Traces) /\ Len(rest) = MaxBuffer - 1
        /\ \A i \in 1..(MaxBuffer - 1) : rest[i] = q[over + 1 + i]
    <2>1. /\ SubSeq(q, over + 2, Len(q)) \in Seq(Traces)
          /\ Len(SubSeq(q, over + 2, Len(q))) =
                IF over + 2 <= Len(q) THEN Len(q) - (over + 2) + 1 ELSE 0
          /\ \A i \in 1..(Len(q) - (over + 2) + 1) :
                SubSeq(q, over + 2, Len(q))[i] = q[(over + 2) + i - 1]
      BY <1>1
    <2>2. Len(q) - (over + 2) + 1 = MaxBuffer - 1
      BY <1>1
    <2> HIDE DEF over
    <2> QED
      BY <1>1, <2>1, <2>2
  <1>3. mark \in Seq(Traces) /\ Len(mark) = 1 /\ mark[1] = Overflow
    BY DEF Traces
  <1>4. Stats!Capped(q) = mark \o rest
    BY <1>1 DEF Stats!Capped
  <1> HIDE DEF rest, mark
  <1>5. /\ mark \o rest \in Seq(Traces) /\ Len(mark \o rest) = MaxBuffer
        /\ (mark \o rest)[1] = Overflow
        /\ \A i \in 1..(MaxBuffer - 1) : (mark \o rest)[1 + i] = rest[i]
    <2>1. /\ mark \o rest \in Seq(Traces) /\ Len(mark \o rest) = Len(mark) + Len(rest)
          /\ \A i \in 1..Len(mark) : (mark \o rest)[i] = mark[i]
          /\ \A i \in 1..Len(rest) : (mark \o rest)[Len(mark) + i] = rest[i]
      <3> HIDE DEF over
      <3>1. mark \in Seq(Traces) /\ rest \in Seq(Traces)
        BY <1>2, <1>3
      <3> QED
        BY <3>1, ConcatOf
    <2>2. 1 \in 1..Len(mark) /\ 1 + (MaxBuffer - 1) = MaxBuffer
      BY <1>1, <1>3
    <2> QED
      BY <1>2, <1>3, <2>1, <2>2
  <1>6. ASSUME NEW i \in 2..MaxBuffer PROVE (mark \o rest)[i] = q[Len(q) - MaxBuffer + i]
    <2>1. i - 1 \in 1..(MaxBuffer - 1) /\ 1 + (i - 1) = i /\ over + 1 + (i - 1) = over + i
      BY <1>1
    <2> QED
      BY <1>2, <1>5, <2>1
  <1> QED
    BY <1>4, <1>5, <1>6

\* Behind a mark, or whole, the buffer continues the chain that it continued.
LEMMA CappedKeepsChain ==
  ASSUME StatsBounds, NEW p \in Seq(Traces), Len(p) > 0, NEW q \in Seq(Traces), Chained(p \o q)
  PROVE  LET c == Stats!Capped(q) IN
         /\ c \in Seq(Traces) /\ Len(c) <= MaxBuffer
         /\ Chained(p \o c)
         /\ (p \o c)[Len(p \o c)] \in {(p \o q)[Len(p \o q)], Overflow}
  <1> DEFINE c == Stats!Capped(q)
  <1>1. Len(p) \in Nat /\ Len(q) \in Nat /\ MaxBuffer \in Nat /\ MaxBuffer >= 1
    BY DEF StatsBounds
  <1>2. CASE Len(q) <= MaxBuffer
    <2>1. c = q
      BY <1>1, <1>2 DEF Stats!Capped
    <2> HIDE DEF c
    <2> QED
      BY <1>2, <2>1 DEF c
  <1>3. CASE Len(q) > MaxBuffer
    <2>1. /\ c \in Seq(Traces) /\ Len(c) = MaxBuffer /\ c[1] = Overflow
          /\ \A i \in 2..MaxBuffer : c[i] = q[Len(q) - MaxBuffer + i]
      BY <1>3, CappedIs
    <2> HIDE DEF c
    <2>2. /\ p \o c \in Seq(Traces) /\ Len(p \o c) = Len(p) + MaxBuffer
          /\ \A i \in 1..Len(p) : (p \o c)[i] = p[i]
          /\ \A i \in 1..MaxBuffer : (p \o c)[Len(p) + i] = c[i]
      BY <2>1, ConcatOf
    <2>3. /\ Len(p \o q) = Len(p) + Len(q)
          /\ \A i \in 1..Len(p) : (p \o q)[i] = p[i]
          /\ \A i \in 1..Len(q) : (p \o q)[Len(p) + i] = q[i]
      BY ConcatOf
    <2>4. ASSUME NEW i \in 1..(Len(p) + MaxBuffer - 1) PROVE Follows((p \o c)[i], (p \o c)[i + 1])
      <3>1. CASE i < Len(p)
        <4>1. i \in 1..Len(p) /\ i + 1 \in 1..Len(p) /\ i \in 1..(Len(p \o q) - 1)
          BY <1>1, <2>3, <3>1
        <4>2. Follows((p \o q)[i], (p \o q)[i + 1])
          BY <4>1 DEF Chained
        <4> QED
          BY <2>2, <2>3, <4>1, <4>2
      <3>2. CASE i = Len(p)
        <4>1. (p \o c)[i + 1] = Overflow
          BY <1>1, <2>1, <2>2, <3>2
        <4> QED
          BY <4>1 DEF Follows
      <3>3. CASE i = Len(p) + 1
        <4>1. (p \o c)[i] = Overflow
          BY <1>1, <2>1, <2>2, <3>3
        <4> QED
          BY <4>1 DEF Follows
      <3>4. CASE i > Len(p) + 1
        <4> DEFINE k == Len(q) - MaxBuffer + (i - Len(p))
        <4>1. /\ i - Len(p) \in 2..MaxBuffer /\ i + 1 - Len(p) \in 2..MaxBuffer
              /\ i - Len(p) \in 1..MaxBuffer /\ i + 1 - Len(p) \in 1..MaxBuffer
              /\ Len(p) + (i - Len(p)) = i /\ Len(p) + (i + 1 - Len(p)) = i + 1
          BY <1>1, <3>4
        <4>2. /\ k \in 1..Len(q) /\ k + 1 \in 1..Len(q)
              /\ Len(q) - MaxBuffer + (i + 1 - Len(p)) = k + 1
              /\ Len(p) + k \in 1..(Len(p \o q) - 1)
              /\ Len(p) + k + 1 = Len(p) + (k + 1)
          BY <1>1, <1>3, <2>3, <3>4, <4>1
        <4>3. (p \o c)[i] = q[k] /\ (p \o c)[i + 1] = q[k + 1]
          <5>1. (p \o c)[Len(p) + (i - Len(p))] = c[i - Len(p)]
            BY <2>2, <4>1
          <5>2. (p \o c)[Len(p) + (i + 1 - Len(p))] = c[i + 1 - Len(p)]
            BY <2>2, <4>1
          <5>3. c[i - Len(p)] = q[k] /\ c[i + 1 - Len(p)] = q[Len(q) - MaxBuffer + (i + 1 - Len(p))]
            BY <2>1, <4>1
          <5> QED
            BY <4>1, <4>2, <5>1, <5>2, <5>3
        <4>4. Follows((p \o q)[Len(p) + k], (p \o q)[Len(p) + k + 1])
          BY <4>2 DEF Chained
        <4> HIDE DEF k
        <4> QED
          BY <2>3, <4>2, <4>3, <4>4
      <3>5. i < Len(p) \/ i = Len(p) \/ i = Len(p) + 1 \/ i > Len(p) + 1
        BY <1>1
      <3> QED
        BY <3>1, <3>2, <3>3, <3>4, <3>5
    <2>5. Chained(p \o c)
      <3>1. Len(p \o c) - 1 = Len(p) + MaxBuffer - 1
        BY <1>1, <2>1, <2>2
      <3>2. \A i \in 1..(Len(p \o c) - 1) : Follows((p \o c)[i], (p \o c)[i + 1])
        BY <2>4, <3>1
      <3> QED
        BY <3>2 DEF Chained
    <2>6. (p \o c)[Len(p \o c)] = c[MaxBuffer] /\ (p \o q)[Len(p \o q)] = q[Len(q)]
      BY <1>1, <1>3, <2>2, <2>3
    <2>7. c[MaxBuffer] \in {q[Len(q)], Overflow}
      BY <1>1, <1>3, <2>1
    <2> QED
      BY <1>1, <2>1, <2>5, <2>6, <2>7 DEF c
  <1> QED
    BY <1>1, <1>2, <1>3

LEMMA ConcatAssoc ==
  ASSUME NEW p \in Seq(Traces), NEW q \in Seq(Traces), NEW r \in Seq(Traces)
  PROVE  (p \o q) \o r = p \o (q \o r)
  OBVIOUS

LEMMA ConcatEmpty ==
  ASSUME NEW p \in Seq(Traces)
  PROVE  p \o <<>> = p /\ <<>> \o p = p
  OBVIOUS

LEMMA ConcatAppend ==
  ASSUME NEW p \in Seq(Traces), NEW q \in Seq(Traces), NEW n \in Traces
  PROVE  Append(p \o q, n) = p \o Append(q, n) /\ Append(q, n) \in Seq(Traces)
  OBVIOUS

LEMMA ConcatGrows ==
  ASSUME NEW p \in Seq(Traces), NEW q \in Seq(Traces), NEW r, r = p \o q
  PROVE  r \in Seq(Traces) /\ Len(p) \in Nat /\ Len(r) \in Nat /\ Len(p) <= Len(r)
  <1>1. Len(p) \in Nat /\ Len(q) \in Nat
    OBVIOUS
  <1>2. r \in Seq(Traces) /\ Len(r) = Len(p) + Len(q)
    BY ConcatOf
  <1> QED
    BY <1>1, <1>2

\* Places up to the end, and more of them behind.
LEMMA PlacesGrow ==
  ASSUME NEW old \in SUBSET Nat, NEW m \in Nat, NEW n \in Nat, m <= n,
         old \subseteq 1..m, \A i \in old : i..m \subseteq old, NEW all, all = old \cup (m + 1)..n
  PROVE  all \subseteq 1..n /\ \A i \in all : i..n \subseteq all /\ \A k \in all : i..k \subseteq all
  <1>1. \A j : j \in all <=> j \in old \/ j \in (m + 1)..n
    OBVIOUS
  <1>2. \A j \in old : j \in 1..m
    OBVIOUS
  <1>3. all \subseteq 1..n
    BY <1>1, <1>2
  <1>4. ASSUME NEW i \in all, NEW j \in i..n PROVE j \in all
    <2>1. CASE i \in old
      <3>1. CASE j <= m
        <4>1. j \in i..m
          BY <1>2, <2>1, <3>1
        <4> QED
          BY <1>1, <2>1, <4>1
      <3>2. CASE ~(j <= m)
        <4>1. j \in (m + 1)..n
          BY <1>2, <2>1, <3>2
        <4> QED
          BY <1>1, <4>1
      <3> QED
        BY <3>1, <3>2
    <2>2. CASE i \in (m + 1)..n
      <3>1. j \in (m + 1)..n
        BY <2>2
      <3> QED
        BY <1>1, <3>1
    <2> QED
      BY <1>1, <2>1, <2>2
  <1>5. \A k \in all : k <= n /\ k \in Nat
    BY <1>3
  <1>6. ASSUME NEW i \in all, NEW k \in all, NEW j \in i..k PROVE j \in i..n
    BY <1>5
  <1> QED
    BY <1>3, <1>4, <1>6

\* What the stream is made of.
LEMMA StreamTyped ==
  ASSUME StatsInv, NEW s \in Sources
  PROVE  /\ buffer[s] \in Seq(Traces) /\ gone[s] \in Seq(Traces) /\ Flight[s] \in Seq(Traces)
         /\ Delivered(s) \in Seq(Traces) /\ Len(Delivered(s)) > 0
         /\ traced[s] \in Nat /\ (StatsBounds => traced[s] <= MaxRecords)
         /\ \A r \in Stats!Reporters : reporting[r].drained[s] \in Seq(Traces)
  <1>1. /\ buffer[s] \in Seq(Traces) /\ gone[s] \in Seq(Traces)
        /\ traced[s] \in Nat /\ (StatsBounds => traced[s] <= MaxRecords)
        /\ \A r \in Stats!Reporters : reporting[r].drained[s] \in Seq(Traces)
    BY DEF StatsInv, TracesTyped, StatsBounds
  <1>2. <<>> \in Seq(Traces) /\ <<0>> \in Seq(Traces) /\ Len(<<0>>) = 1
    BY DEF Traces
  <1>3. Flight[s] \in Seq(Traces)
    <2>1. CASE sendLock = Stats!Nobody
      BY <1>2, <2>1 DEF Flight, Stats!Empty
    <2>2. CASE sendLock # Stats!Nobody
      BY <1>1, <2>2 DEF Flight, StatsInv, TracesTyped
    <2> QED
      BY <2>1, <2>2
  <1>4. Delivered(s) \in Seq(Traces) /\ Len(Delivered(s)) > 0
    <2>1. Len(gone[s]) \in Nat
      BY <1>1
    <2> QED
      BY <1>1, <1>2, <2>1, ConcatOf DEF Delivered
  <1> QED
    BY <1>1, <1>3, <1>4

LEMMA StatsStart ==
  ASSUME StatsBounds, Stats!Init
  PROVE  StatsInv
  <1>1. <<>> \in Seq(Traces) /\ <<0>> \in Seq(Traces) /\ Len(<<0>>) = 1 /\ Len(<<>>) = 0
    BY DEF Traces
  <1>2. TracesTyped
    BY <1>1 DEF StatsBounds, TracesTyped, LifeStages, Stats!Init, Stats!NothingTraced, Stats!Empty, Stats!Reporters,
       Stats!Loop, Stats!Flusher, Stats!Nobody
  <1>3. ReportsInv
    BY DEF ReportsInv, Stats!Init, Stats!Empty, Stats!Reporters, Stats!Loop, Stats!Flusher, Stats!Nobody
  <1>4. ASSUME NEW s \in Sources
        PROVE  Delivered(s) = <<0>> /\ Stream(s) = <<0>> /\ traced[s] = 0
    BY <1>1, ConcatEmpty DEF Delivered, Stream, Flight, Stats!Init, Stats!NothingTraced, Stats!Empty
  <1>5. Chained(<<0>>) /\ <<0>>[1] = 0
    BY DEF Chained
  <1>6. StreamInv
    BY <1>1, <1>4, <1>5 DEF StreamInv
  <1>7. LostInv
    BY DEF LostInv, Stats!Init
  <1> QED
    BY <1>2, <1>3, <1>6, <1>7 DEF StatsInv

\* The steps that end no report.
LEMMA LostKeeps ==
  ASSUME StatsInv, UNCHANGED <<gone, lost>>, reporting["run"].at = "off" => reporting'["run"].at = "off",
         life' \in {"open", "flushing", "leaving"} => life \in {"open", "flushing", "leaving"}
  PROVE  LostInv'
  BY DEF StatsInv, LostInv

\* A record that is traced goes to the end of the stream.
LEMMA TraceStep ==
  ASSUME StatsBounds, StatsInv, NEW s \in Sources, Stats!Trace(s)
  PROVE  StatsInv'
  <1> DEFINE n == traced[s]
             p == Delivered(s) \o Flight[s]
             q == Append(buffer[s], n + 1)
  <1>1. /\ n \in Nat /\ n + 1 \in 0..MaxRecords /\ n + 1 \in Traces
        /\ buffer[s] \in Seq(Traces) /\ Flight[s] \in Seq(Traces) /\ Delivered(s) \in Seq(Traces)
        /\ Len(Delivered(s)) > 0
    BY StreamTyped DEF StatsBounds, Stats!Trace, Traces
  <1>2. /\ traced' = [traced EXCEPT ![s] = n + 1]
        /\ buffer' = [buffer EXCEPT ![s] = Stats!Capped(q)]
        /\ UNCHANGED <<reporting, sendLock, life, gone, lost>>
    BY <1>1 DEF Stats!Trace, StatsInv, TracesTyped
  <1>3. /\ p \in Seq(Traces) /\ Len(p) > 0 /\ q \in Seq(Traces)
        /\ p \o buffer[s] \in Seq(Traces) /\ Len(p \o buffer[s]) > 0
        /\ p \o buffer[s] = Stream(s)
        /\ p \o q = Append(p \o buffer[s], n + 1)
    <2>1. p \in Seq(Traces) /\ Len(p) > 0
      <3>1. Len(Flight[s]) \in Nat /\ Len(Delivered(s)) \in Nat
        BY <1>1
      <3> QED
        BY <1>1, <3>1, ConcatOf
    <2>2. p \o buffer[s] = Stream(s)
      BY <1>1, ConcatAssoc DEF Stream
    <2> HIDE DEF p
    <2>3. p \o buffer[s] \in Seq(Traces) /\ Len(p \o buffer[s]) > 0
      <3>1. Len(buffer[s]) \in Nat /\ Len(p) \in Nat
        BY <1>1, <2>1
      <3> QED
        BY <1>1, <2>1, <3>1, ConcatOf
    <2> QED
      BY <1>1, <2>1, <2>2, <2>3, ConcatAppend
  <1> HIDE DEF p, q
  <1>4. Stats!Capped(q) \in Seq(Traces) /\ Len(Stats!Capped(q)) <= MaxBuffer
    <2>1. Len(q) \in Nat /\ MaxBuffer \in Nat
      BY <1>3 DEF StatsBounds
    <2>2. CASE Len(q) <= MaxBuffer
      BY <1>3, <2>1, <2>2 DEF Stats!Capped
    <2>3. CASE Len(q) > MaxBuffer
      BY <1>3, <2>1, <2>3, CappedIs
    <2> QED
      BY <2>1, <2>2, <2>3
  <1>5. TracesTyped'
    BY <1>1, <1>2, <1>4 DEF StatsInv, TracesTyped
  <1>6. ReportsInv'
    BY <1>2 DEF StatsInv, ReportsInv, Stats!Empty
  <1>7. ASSUME NEW t \in Sources
        PROVE  /\ Chained(Delivered(t))' /\ Chained(Stream(t))'
               /\ (Stream(t)[Len(Stream(t))] \in {traced[t], Overflow})'
    <2>1. Delivered(t)' = Delivered(t) /\ Flight' = Flight /\ Chained(Delivered(t))
      BY <1>2 DEF Delivered, Flight, Stats!Empty, Stats!Nobody, StatsInv, StreamInv
    <2>3. CASE t # s
      <3>1. Stream(t)' = Stream(t) /\ traced'[t] = traced[t]
        BY <1>2, <2>1, <2>3 DEF Stream, StatsInv, TracesTyped
      <3> QED
        BY <2>1, <2>3, <3>1 DEF StatsInv, StreamInv
    <2>4. CASE t = s
      <3>1. /\ Chained(p \o buffer[s])
            /\ (p \o buffer[s])[Len(p \o buffer[s])] \in {n, Overflow}
        BY <1>3, <2>4 DEF StatsInv, StreamInv
      <3>2. Chained(p \o q) /\ (p \o q)[Len(p \o q)] = n + 1
        BY <1>1, <1>3, <3>1, ChainedAppend
      <3>3. /\ Chained(p \o Stats!Capped(q))
            /\ (p \o Stats!Capped(q))[Len(p \o Stats!Capped(q))] \in {n + 1, Overflow}
        BY <1>3, <3>2, CappedKeepsChain
      <3>4. Stream(s)' = p \o Stats!Capped(q)
        <4>1. Stream(s)' = Delivered(s) \o (Flight[s] \o Stats!Capped(q))
          BY <1>2, <2>1, <2>4 DEF Stream, StatsInv, TracesTyped
        <4> QED
          BY <1>1, <1>4, <4>1, ConcatAssoc DEF p
      <3>5. traced'[s] = n + 1
        BY <1>2 DEF StatsInv, TracesTyped
      <3> QED
        BY <2>1, <2>4, <3>3, <3>4, <3>5
    <2> QED
      BY <2>3, <2>4
  <1>8. StreamInv' /\ LostInv'
    BY <1>2, <1>7, LostKeeps DEF StreamInv
  <1> QED
    BY <1>5, <1>6, <1>8 DEF StatsInv

\* While a report is in progress the connection is not closed, and the report
\* holds all that is in flight.
LEMMA InReport ==
  ASSUME StatsInv, NEW r \in Stats!Reporters, reporting[r].at \in {"sample", "send"}
  PROVE  sendLock = r /\ life # "closed" /\ Flight = reporting[r].drained
  BY DEF StatsInv, ReportsInv, Flight, Stats!Reporters, Stats!Loop, Stats!Flusher, Stats!Nobody

\* A report that ends lets go of the lock and of what it drained.
LEMMA EndsKeeps ==
  ASSUME StatsInv, NEW r \in Stats!Reporters, reporting[r].at = "send", Stats!Ends(r)
  PROVE  /\ ReportsInv'
         /\ reporting' \in [Stats!Reporters -> [at : {"off", "idle", "wait", "sample", "send"},
                                                drained : [Sources -> Seq(Traces)]]]
         /\ sendLock' = Stats!Nobody /\ life' \in LifeStages
         /\ life' # "closed" /\ Flight' = Stats!Empty
  <1>1. sendLock = r /\ life # "closed"
    BY InReport
  <1>2. Stats!Empty \in [Sources -> Seq(Traces)]
    BY DEF Stats!Empty
  <1>3. reporting \in [Stats!Reporters -> [at : {"off", "idle", "wait", "sample", "send"},
                                           drained : [Sources -> Seq(Traces)]]]
    BY DEF StatsInv, TracesTyped
  <1>4. ReportsInv'
    BY <1>1, <1>3 DEF StatsInv, ReportsInv, Stats!Ends, Stats!Reporters, Stats!Loop, Stats!Flusher,
       Stats!Nobody, Stats!Empty
  <1>5. reporting' \in [Stats!Reporters -> [at : {"off", "idle", "wait", "sample", "send"},
                                            drained : [Sources -> Seq(Traces)]]]
    BY <1>2, <1>3 DEF Stats!Ends
  <1> QED
    BY <1>1, <1>4, <1>5 DEF Stats!Ends, Flight, StatsInv, TracesTyped, LifeStages, Stats!Empty

\* The buffers become what is in flight.
LEMMA DrainStep ==
  ASSUME StatsBounds, StatsInv, NEW r \in Stats!Reporters, Stats!Drain(r)
  PROVE  StatsInv'
  <1>1. sendLock = r /\ life # "closed" /\ Flight = reporting[r].drained /\ reporting[r].drained = Stats!Empty
    BY InReport DEF Stats!Drain, StatsInv, ReportsInv
  <1>2. /\ reporting' = [reporting EXCEPT ![r] = [at |-> "send", drained |-> buffer]]
        /\ buffer' = Stats!Empty /\ Stats!Empty' = Stats!Empty
        /\ UNCHANGED <<traced, sendLock, life, gone, lost>>
    BY DEF Stats!Drain, Stats!Empty
  <1>3. TracesTyped'
    <2>1. Stats!Empty \in [Sources -> Seq(Traces)] /\ \A s \in Sources : Len(Stats!Empty[s]) <= MaxBuffer
      BY DEF Stats!Empty, StatsBounds
    <2>2. reporting' \in [Stats!Reporters -> [at : {"off", "idle", "wait", "sample", "send"},
                                              drained : [Sources -> Seq(Traces)]]]
      BY <1>2 DEF StatsInv, TracesTyped
    <2> QED
      BY <1>2, <2>1, <2>2 DEF StatsInv, TracesTyped
  <1>4. ReportsInv'
    BY <1>1, <1>2 DEF StatsInv, TracesTyped, ReportsInv, Stats!Drain, Stats!Reporters, Stats!Loop,
       Stats!Flusher
  <1>5. ASSUME NEW s \in Sources
        PROVE  Delivered(s)' = Delivered(s) /\ Stream(s)' = Stream(s)
    <2>1. Delivered(s)' = Delivered(s)
      BY <1>2 DEF Delivered
    <2>2. Flight[s] = <<>> /\ buffer'[s] = <<>>
      BY <1>1, <1>2 DEF Stats!Empty
    <2>3. Flight' = buffer
      BY <1>1, <1>2 DEF Flight, Stats!Nobody, StatsInv, TracesTyped, Stats!Reporters, Stats!Loop, Stats!Flusher
    <2> QED
      BY <2>1, <2>2, <2>3, StreamTyped, ConcatEmpty DEF Stream
  <1>6. StreamInv'
    BY <1>1, <1>2, <1>5 DEF StatsInv, StreamInv
  <1>7. LostInv'
    <2>1. reporting["run"].at = "off" => reporting'["run"].at = "off"
      BY <1>2 DEF Stats!Drain, StatsInv, TracesTyped, Stats!Reporters, Stats!Loop, Stats!Flusher
    <2> QED
      BY <1>2, <2>1, LostKeeps
  <1> QED
    BY <1>3, <1>4, <1>6, <1>7 DEF StatsInv

\* What was in flight is delivered.
LEMMA SentStep ==
  ASSUME StatsBounds, StatsInv, NEW r \in Stats!Reporters, Stats!Sent(r)
  PROVE  StatsInv'
  <1>1. reporting[r].at = "send" /\ Stats!Ends(r)
    BY DEF Stats!Sent
  <1>2. sendLock = r /\ life # "closed" /\ Flight = reporting[r].drained
    BY <1>1, InReport
  <1>3. /\ ReportsInv' /\ sendLock' = Stats!Nobody /\ life' \in LifeStages
        /\ reporting' \in [Stats!Reporters -> [at : {"off", "idle", "wait", "sample", "send"},
                                               drained : [Sources -> Seq(Traces)]]]
        /\ Flight' = Stats!Empty
    BY <1>1, EndsKeeps
  <1>4. ASSUME NEW s \in Sources
        PROVE  /\ gone'[s] = gone[s] \o Flight[s] /\ gone'[s] \in Seq(Traces)
               /\ Delivered(s)' = Delivered(s) \o Flight[s]
               /\ Stream(s)' = Stream(s) /\ Chained(Delivered(s))'
    <2>1. /\ buffer[s] \in Seq(Traces) /\ gone[s] \in Seq(Traces) /\ Flight[s] \in Seq(Traces)
          /\ Delivered(s) \in Seq(Traces) /\ <<0>> \in Seq(Traces)
      BY StreamTyped DEF Traces
    <2>2. gone'[s] = gone[s] \o Flight[s] /\ gone'[s] \in Seq(Traces)
      BY <1>2, <2>1, ConcatOf DEF Stats!Sent
    <2>3. Delivered(s)' = Delivered(s) \o Flight[s] /\ Delivered(s)' \in Seq(Traces)
      <3>1. Delivered(s)' = <<0>> \o (gone[s] \o Flight[s])
        BY <2>2 DEF Delivered
      <3>2. <<0>> \o (gone[s] \o Flight[s]) = (<<0>> \o gone[s]) \o Flight[s]
        BY <2>1, ConcatAssoc
      <3>3. (<<0>> \o gone[s]) \o Flight[s] = Delivered(s) \o Flight[s]
        BY DEF Delivered
      <3>4. Delivered(s) \o Flight[s] \in Seq(Traces)
        BY <2>1, ConcatOf
      <3> QED
        BY <3>1, <3>2, <3>3, <3>4
    <2>4. Stream(s)' = Delivered(s)' \o (<<>> \o buffer[s])
      BY <1>3 DEF Stream, Stats!Empty, Stats!Sent
    <2>5. Stream(s)' = (Delivered(s) \o Flight[s]) \o buffer[s]
      BY <2>1, <2>3, <2>4, ConcatEmpty
    <2>6. Stream(s)' = Stream(s)
      BY <2>1, <2>5, ConcatAssoc DEF Stream
    <2>7. Chained((Delivered(s) \o Flight[s]) \o buffer[s])
      BY <1>2, <2>5, <2>6 DEF StatsInv, StreamInv
    <2>8. Chained(Delivered(s) \o Flight[s])
      <3>1. Delivered(s) \o Flight[s] \in Seq(Traces)
        BY <2>1, ConcatOf
      <3> QED
        BY <2>1, <2>7, <3>1, ChainedFront
    <2>9. Chained(Delivered(s))' = Chained(Delivered(s)')
      BY DEF Chained, Follows
    <2> QED
      BY <2>2, <2>3, <2>6, <2>8, <2>9
  <1>5. TracesTyped'
    <2>1. gone' \in [Sources -> Seq(Traces)]
      BY <1>4 DEF Stats!Sent
    <2> QED
      BY <1>3, <2>1 DEF StatsInv, TracesTyped, Stats!Sent
  <1>6. StreamInv'
    <2>1. traced' = traced
      BY DEF Stats!Sent
    <2>2. ASSUME NEW s \in Sources
          PROVE  Chained(Stream(s)') /\ (Stream(s)')[Len(Stream(s)')] \in {traced[s], Overflow}
      BY <1>2, <1>4 DEF StatsInv, StreamInv
    <2> QED
      BY <1>4, <2>1, <2>2 DEF StreamInv, Chained, Follows
  <1>7. ASSUME NEW s \in Sources
        PROVE  /\ lost'[s] \subseteq 1..Len(gone'[s])
               /\ lost'[s] # {} => reporting'["run"].at = "off"
               /\ life' \in {"open", "flushing", "leaving"} => \A i \in lost'[s] : i..Len(gone'[s]) \subseteq lost'[s]
               /\ \A i, k \in lost'[s] : i..k \subseteq lost'[s]
    <2>1. lost' = lost /\ r \in {"run", "teardown"} /\ (r = "run" => lost[s] = {})
      BY <1>1 DEF Stats!Sent, Stats!Reporters, Stats!Loop, Stats!Flusher, StatsInv, LostInv
    <2>2. Len(gone[s]) \in Nat /\ Len(gone'[s]) \in Nat /\ Len(gone[s]) <= Len(gone'[s])
      <3>1. gone[s] \in Seq(Traces) /\ Flight[s] \in Seq(Traces)
        BY StreamTyped
      <3>2. gone'[s] = gone[s] \o Flight[s]
        BY <1>4
      <3> QED
        BY <3>1, <3>2, ConcatGrows
    <2>3. /\ r = "teardown" => life' \notin {"open", "flushing", "leaving"}
          /\ reporting["run"].at = "off" /\ r = "teardown" => reporting'["run"].at = "off"
      BY <1>1 DEF Stats!Ends, Stats!Loop, Stats!Flusher, Stats!Reporters, StatsInv, TracesTyped
    <2>4. /\ lost[s] \subseteq 1..Len(gone[s]) /\ (lost[s] # {} => reporting["run"].at = "off")
          /\ \A i, k \in lost[s] : i..k \subseteq lost[s]
      BY DEF StatsInv, LostInv
    <2> QED
      BY <2>1, <2>2, <2>3, <2>4
  <1> QED
    BY <1>3, <1>5, <1>6, <1>7 DEF StatsInv, LostInv

\* What was in flight comes back in front of what was traced meanwhile.
LEMMA FailedStep ==
  ASSUME StatsBounds, StatsInv, NEW r \in Stats!Reporters, Stats!Failed(r)
  PROVE  StatsInv'
  <1>1. reporting[r].at = "send" /\ Stats!Ends(r)
    BY DEF Stats!Failed
  <1>2. sendLock = r /\ life # "closed" /\ Flight = reporting[r].drained
    BY <1>1, InReport
  <1>3. /\ ReportsInv' /\ sendLock' = Stats!Nobody /\ life' \in LifeStages
        /\ reporting' \in [Stats!Reporters -> [at : {"off", "idle", "wait", "sample", "send"},
                                               drained : [Sources -> Seq(Traces)]]]
        /\ Flight' = Stats!Empty
    BY <1>1, EndsKeeps
  <1>4. ASSUME NEW s \in Sources
        PROVE  /\ buffer'[s] \in Seq(Traces) /\ Len(buffer'[s]) <= MaxBuffer
               /\ Chained(Stream(s)')
               /\ (Stream(s)')[Len(Stream(s)')] \in {traced[s], Overflow}
    <2> DEFINE q == Flight[s] \o buffer[s]
    <2>1. /\ buffer[s] \in Seq(Traces) /\ Len(buffer[s]) <= MaxBuffer /\ Flight[s] \in Seq(Traces)
          /\ Delivered(s) \in Seq(Traces) /\ Len(Delivered(s)) > 0 /\ q \in Seq(Traces)
      BY StreamTyped, ConcatOf DEF StatsInv, TracesTyped
    <2>2. /\ Chained(Delivered(s) \o q)
          /\ (Delivered(s) \o q)[Len(Delivered(s) \o q)] \in {traced[s], Overflow}
      BY <1>2 DEF StatsInv, StreamInv, Stream
    <2>3. Delivered(s)' = Delivered(s)
      BY DEF Delivered, Stats!Failed
    <2>4. Stream(s)' = Delivered(s) \o (<<>> \o buffer'[s])
      BY <1>3, <2>3 DEF Stream, Stats!Empty
    <2>5. buffer'[s] = IF Flight[s] = <<>> THEN buffer[s] ELSE Stats!Capped(q)
      BY <1>2 DEF Stats!Failed, Stats!Restored
    <2> HIDE DEF q
    <2>6. CASE Flight[s] = <<>>
      <3>1. buffer'[s] = buffer[s] /\ q = buffer[s]
        BY <2>1, <2>5, <2>6, ConcatEmpty DEF q
      <3>2. Stream(s)' = Delivered(s) \o q
        BY <2>1, <2>4, <3>1, ConcatEmpty
      <3> QED
        BY <2>1, <2>2, <3>1, <3>2
    <2>7. CASE Flight[s] # <<>>
      <3> DEFINE c == Stats!Capped(q)
      <3>1. /\ c \in Seq(Traces) /\ Len(c) <= MaxBuffer
            /\ Chained(Delivered(s) \o c)
            /\ (Delivered(s) \o c)[Len(Delivered(s) \o c)] \in
                  {(Delivered(s) \o q)[Len(Delivered(s) \o q)], Overflow}
        BY <2>1, <2>2, CappedKeepsChain
      <3>2. buffer'[s] = c
        BY <2>5, <2>7
      <3> HIDE DEF c
      <3>3. Stream(s)' = Delivered(s) \o c
        BY <2>4, <3>1, <3>2, ConcatEmpty
      <3> QED
        BY <2>2, <3>1, <3>2, <3>3
    <2> QED
      BY <2>6, <2>7
  <1>5. TracesTyped'
    <2>1. buffer' \in [Sources -> Seq(Traces)]
      BY <1>4 DEF Stats!Failed
    <2> QED
      BY <1>3, <1>4, <2>1 DEF StatsInv, TracesTyped, Stats!Failed
  <1>6. StreamInv'
    <2>1. traced' = traced /\ gone' = gone
      BY DEF Stats!Failed
    <2>2. \A s \in Sources : Chained(Delivered(s))'
      BY <2>1 DEF StatsInv, StreamInv, Delivered, Chained, Follows
    <2> QED
      BY <1>4, <2>1, <2>2 DEF StreamInv, Chained, Follows
  <1>7. LostInv'
    <2>1. reporting["run"].at = "off" => reporting'["run"].at = "off"
      BY <1>1 DEF Stats!Ends, StatsInv, TracesTyped, Stats!Reporters, Stats!Loop, Stats!Flusher
    <2>2. life' \in {"open", "flushing", "leaving"} => life \in {"open", "flushing", "leaving"}
      BY <1>1 DEF Stats!Ends
    <2> QED
      BY <2>1, <2>2, LostKeeps DEF Stats!Failed
  <1> QED
    BY <1>3, <1>5, <1>6, <1>7 DEF StatsInv

\* The report that is dropped leaves its source with what was in flight.
LEMMA DropStep ==
  ASSUME StatsInv, NEW who \in {{"run"}, Stats!Reporters}, Stats!IsDropped(who), UNCHANGED <<buffer, traced>>,
         \/ who = {"run"} /\ reporting["run"].at # "off" /\ life' = life
         \/ who = Stats!Reporters /\ life # "leaving" /\ life' = "closed"
  PROVE  StatsInv'
  <1> USE DEF Stats!Reporters, Stats!Loop, Stats!Flusher, Stats!Nobody
  <1>1. /\ TracesTyped /\ ReportsInv /\ StreamInv /\ LostInv
        /\ Stats!Empty \in [Sources -> Seq(Traces)] /\ Stats!Empty' = Stats!Empty
        /\ who \subseteq Stats!Reporters /\ "run" \in who
    BY DEF StatsInv, Stats!Empty
  <1>2. /\ reporting' = [r \in Stats!Reporters |-> IF r \in who THEN [at |-> "off", drained |-> Stats!Empty]
                                                  ELSE reporting[r]]
        /\ sendLock' = IF sendLock \in who THEN "nobody" ELSE sendLock
    BY DEF Stats!IsDropped
  <1>3. reporting' \in [Stats!Reporters -> [at : {"off", "idle", "wait", "sample", "send"},
                                            drained : [Sources -> Seq(Traces)]]]
    BY <1>1, <1>2 DEF TracesTyped
  <1>4. ReportsInv'
    BY <1>1, <1>2 DEF TracesTyped, ReportsInv
  <1>5. ASSUME NEW s \in Sources
        PROVE  /\ gone'[s] = gone[s] \o (IF sendLock \in who THEN Flight[s] ELSE <<>>)
               /\ lost'[s] = lost[s] \cup (Len(gone[s]) + 1)..Len(gone'[s])
    BY <1>1 DEF Stats!IsDropped, Flight
  <1>6. ASSUME NEW s \in Sources
        PROVE  /\ gone'[s] \in Seq(Traces) /\ Len(gone[s]) \in Nat /\ Len(gone'[s]) \in Nat
               /\ Len(gone'[s]) >= Len(gone[s]) /\ (sendLock \notin who => gone'[s] = gone[s])
               /\ Chained(Delivered(s)') /\ Stream(s)' = Stream(s)
    <2>1. /\ buffer[s] \in Seq(Traces) /\ gone[s] \in Seq(Traces) /\ Flight[s] \in Seq(Traces)
          /\ Delivered(s) \in Seq(Traces) /\ <<0>> \in Seq(Traces)
      BY StreamTyped DEF Traces
    <2>2. Chained(Delivered(s)) /\ Chained(Stream(s))
      BY <1>1 DEF StreamInv
    <2>3. CASE sendLock \in who
      <3>1. gone'[s] = gone[s] \o Flight[s] /\ Flight' = Stats!Empty
        BY <1>2, <1>5, <2>3 DEF Flight, Stats!Empty
      <3>2. /\ gone'[s] \in Seq(Traces) /\ Len(gone[s]) \in Nat /\ Len(gone'[s]) \in Nat
            /\ Len(gone'[s]) >= Len(gone[s])
        BY <2>1, <3>1, ConcatGrows
      <3>4. Delivered(s)' = Delivered(s) \o Flight[s] /\ Delivered(s) \o Flight[s] \in Seq(Traces)
        <4>1. <<0>> \o (gone[s] \o Flight[s]) = (<<0>> \o gone[s]) \o Flight[s]
          BY <2>1, ConcatAssoc
        <4>2. Delivered(s) \o Flight[s] \in Seq(Traces)
          BY <2>1, ConcatOf
        <4> QED
          BY <3>1, <4>1, <4>2 DEF Delivered
      <3>5. Stream(s)' = (Delivered(s) \o Flight[s]) \o (<<>> \o buffer[s])
        BY <3>1, <3>4 DEF Stream, Stats!Empty
      <3>6. Stream(s)' = Stream(s)
        <4>1. <<>> \o buffer[s] = buffer[s]
          BY <2>1, ConcatEmpty
        <4>2. (Delivered(s) \o Flight[s]) \o buffer[s] = Delivered(s) \o (Flight[s] \o buffer[s])
          BY <2>1, ConcatAssoc
        <4> QED
          BY <3>5, <4>1, <4>2 DEF Stream
      <3>7. Chained((Delivered(s) \o Flight[s]) \o buffer[s])
        BY <2>1, <2>2, ConcatAssoc DEF Stream
      <3>8. Chained(Delivered(s)')
        BY <2>1, <3>4, <3>7, ChainedFront
      <3> QED
        BY <2>3, <3>2, <3>6, <3>8
    <2>4. CASE sendLock \notin who
      <3>1. gone'[s] = gone[s]
        BY <1>5, <2>1, <2>4, ConcatEmpty
      <3>2. Flight'[s] = Flight[s]
        BY <1>1, <1>2, <2>4 DEF Flight, TracesTyped
      <3>3. Delivered(s)' = Delivered(s) /\ Stream(s)' = Stream(s)
        BY <3>1, <3>2 DEF Delivered, Stream
      <3>4. Len(gone[s]) \in Nat
        BY <2>1
      <3> QED
        BY <2>1, <2>2, <2>4, <3>1, <3>3, <3>4
    <2> QED
      BY <2>3, <2>4
  <1>7. TracesTyped'
    <2>1. \A s \in Sources : lost'[s] \in SUBSET Nat
      BY <1>1, <1>5, <1>6 DEF TracesTyped
    <2>2. gone' \in [Sources -> Seq(Traces)] /\ lost' \in [Sources -> SUBSET Nat]
      BY <1>6, <2>1 DEF Stats!IsDropped
    <2> QED
      BY <1>1, <1>2, <1>3, <2>2 DEF TracesTyped, LifeStages
  <1>8. StreamInv'
    <2>1. ASSUME NEW s \in Sources
          PROVE  Chained(Stream(s)') /\ (Stream(s)')[Len(Stream(s)')] \in {traced[s], Overflow}
      BY <1>1, <1>6 DEF StreamInv
    <2> QED
      BY <1>6, <2>1 DEF StreamInv, Chained, Follows
  <1>9. ASSUME NEW s \in Sources
        PROVE  /\ lost'[s] \subseteq 1..Len(gone'[s])
               /\ lost'[s] # {} => reporting'["run"].at = "off"
               /\ life' \in {"open", "flushing", "leaving"} => \A i \in lost'[s] : i..Len(gone'[s]) \subseteq lost'[s]
               /\ \A i, k \in lost'[s] : i..k \subseteq lost'[s]
    <2>1. reporting'["run"].at = "off"
      BY <1>1, <1>2
    <2>2. /\ lost[s] \subseteq 1..Len(gone[s]) /\ (lost[s] # {} => reporting["run"].at = "off")
          /\ life \in {"open", "flushing", "leaving"} => \A i \in lost[s] : i..Len(gone[s]) \subseteq lost[s]
          /\ \A i, k \in lost[s] : i..k \subseteq lost[s]
      BY <1>1 DEF LostInv
    <2>3. CASE sendLock \in who
      <3>1. \A i \in lost[s] : i..Len(gone[s]) \subseteq lost[s]
        BY <1>1, <2>2, <2>3 DEF ReportsInv, TracesTyped
      <3>2. lost[s] \in SUBSET Nat
        BY <1>1 DEF TracesTyped
      <3>3. lost'[s] = lost[s] \cup (Len(gone[s]) + 1)..Len(gone'[s])
        BY <1>5
      <3>4. Len(gone[s]) \in Nat /\ Len(gone'[s]) \in Nat /\ Len(gone[s]) <= Len(gone'[s])
        BY <1>6
      <3>5. /\ lost'[s] \subseteq 1..Len(gone'[s])
            /\ \A i \in lost'[s] : /\ i..Len(gone'[s]) \subseteq lost'[s]
                                   /\ \A k \in lost'[s] : i..k \subseteq lost'[s]
        BY <2>2, <3>1, <3>2, <3>3, <3>4, PlacesGrow
      <3> QED
        BY <2>1, <3>5
    <2>4. CASE sendLock \notin who
      <3>1. lost'[s] = lost[s] /\ gone'[s] = gone[s]
        <4>1. gone'[s] = gone[s] /\ Len(gone[s]) \in Nat
          BY <1>6, <2>4
        <4>2. lost'[s] = lost[s] \cup (Len(gone[s]) + 1)..Len(gone[s])
          BY <1>5, <4>1
        <4> QED
          BY <4>1, <4>2
      <3>2. life' \in {"open", "flushing", "leaving"} => life \in {"open", "flushing", "leaving"}
        OBVIOUS
      <3> QED
        BY <2>1, <2>2, <3>1, <3>2
    <2> QED
      BY <2>3, <2>4
  <1> QED
    BY <1>4, <1>7, <1>8, <1>9 DEF StatsInv, LostInv

\* The steps that move no record: a tick, the lock, the teardown and the leave.
LEMMA QuietStatsStep ==
  ASSUME StatsBounds, StatsInv,
         \/ Stats!Tick \/ Stats!TeardownBegins
         \/ \E r \in Stats!Reporters : Stats!Begin(r)
         \/ UNCHANGED <<buffer, traced, reporting, sendLock, life, gone, lost>>
  PROVE  StatsInv'
  <1> USE DEF Stats!Reporters, Stats!Loop, Stats!Flusher, Stats!Nobody
  <1>1. /\ UNCHANGED <<buffer, traced, gone, lost>>
        /\ TracesTyped /\ ReportsInv /\ StreamInv /\ LostInv
    BY DEF Stats!Tick, Stats!TeardownBegins, Stats!Begin, StatsInv
  <1>2. Stats!Empty \in [Sources -> Seq(Traces)] /\ Stats!Empty' = Stats!Empty
    BY DEF Stats!Empty
  <1>3. /\ TracesTyped' /\ ReportsInv' /\ Flight' = Flight
        /\ reporting["run"].at = "off" => reporting'["run"].at = "off"
        /\ life' \in {"open", "flushing", "leaving"} => life \in {"open", "flushing", "leaving"}
    <2>1. CASE Stats!Tick
      BY <1>1, <1>2, <2>1 DEF TracesTyped, ReportsInv, Stats!Tick, Stats!Goes, Flight
    <2>2. CASE Stats!TeardownBegins
      <3>1. /\ reporting' = [reporting EXCEPT !["teardown"].at = "wait"] /\ life = "open"
            /\ life' \in {"flushing", "leaving"} /\ sendLock' = sendLock
        BY <2>2 DEF Stats!TeardownBegins, Stats!Goes
      <3>2. TracesTyped' /\ ReportsInv'
        BY <1>1, <1>2, <3>1 DEF TracesTyped, ReportsInv, LifeStages
      <3>3. Flight' = Flight /\ (reporting["run"].at = "off" => reporting'["run"].at = "off")
        BY <1>1, <1>2, <3>1 DEF TracesTyped, ReportsInv, Flight
      <3> QED
        BY <3>1, <3>2, <3>3
    <2>4. ASSUME NEW r \in Stats!Reporters, Stats!Begin(r)
          PROVE  /\ TracesTyped' /\ ReportsInv' /\ life' = life /\ Flight' = Flight
                 /\ reporting["run"].at = "off" => reporting'["run"].at = "off"
      <3>1. /\ reporting' = [reporting EXCEPT ![r].at = "sample"] /\ sendLock' = r
            /\ reporting[r].at = "wait" /\ sendLock = "nobody" /\ UNCHANGED life
        BY <2>4 DEF Stats!Begin, Stats!Goes, Stats!MayReport
      <3>2. TracesTyped'
        BY <1>1, <3>1 DEF TracesTyped
      <3>3. ReportsInv'
        BY <1>1, <1>2, <3>1 DEF TracesTyped, ReportsInv
      <3>4. Flight' = Flight
        BY <1>1, <1>2, <3>1 DEF TracesTyped, ReportsInv, Flight
      <3>5. reporting["run"].at = "off" => reporting'["run"].at = "off"
        BY <1>1, <3>1 DEF TracesTyped
      <3> QED
        BY <3>1, <3>2, <3>3, <3>4, <3>5
    <2>5. CASE UNCHANGED <<buffer, traced, reporting, sendLock, life, gone, lost>>
      BY <1>1, <1>2, <2>5 DEF TracesTyped, ReportsInv, Flight
    <2> QED
      BY <2>1, <2>2, <2>4, <2>5
  <1>4. StreamInv'
    <2>1. \A s \in Sources : Delivered(s)' = Delivered(s)
      BY <1>1 DEF Delivered
    <2>2. \A s \in Sources : Stream(s)' = Stream(s)
      BY <1>1, <1>3, <2>1 DEF Stream
    <2> QED
      BY <1>1, <2>1, <2>2 DEF StreamInv, Chained, Follows
  <1>5. LostInv'
    BY <1>1, <1>3, LostKeeps
  <1> QED
    BY <1>3, <1>4, <1>5 DEF StatsInv

LEMMA StatsStep ==
  ASSUME StatsBounds, StatsInv, [Stats!Next]_tracing
  PROVE  StatsInv'
  <1>1. CASE \/ \E s \in Sources : Stats!Trace(s)
             \/ \E r \in Stats!Reporters : Stats!Drain(r) \/ Stats!Sent(r) \/ Stats!Failed(r)
    BY <1>1, TraceStep, DrainStep, SentStep, FailedStep
  <1>3. CASE Stats!Tick \/ Stats!TeardownBegins \/ \E r \in Stats!Reporters : Stats!Begin(r)
    BY <1>3, QuietStatsStep
  <1>4. CASE Stats!Cancel
    BY <1>4, QuietStatsStep DEF Stats!Cancel
  <1>5. CASE Stats!LoopIsCancelled \/ Stats!Close
    BY <1>5, DropStep DEF Stats!LoopIsCancelled, Stats!Close, Stats!Loop
  <1>2. CASE UNCHANGED tracing
    BY <1>2, QuietStatsStep DEF tracing
  <1> QED
    BY <1>1, <1>2, <1>3, <1>4, <1>5 DEF Stats!Next

\* What was delivered is a chain: the property of the run.
LEMMA StatsInvIsEnough ==
  ASSUME StatsBounds, StatsInv
  PROVE  Stats!TypeOK /\ Stats!NoSilentGap /\ Stats!LostInOnePlace
  <1>1. Stats!TypeOK
    BY DEF StatsInv, TracesTyped, LifeStages, Stats!TypeOK, Stats!Reporters, Stats!Loop, Stats!Flusher, Stats!Nobody
  <1>2. ASSUME NEW s \in Sources, NEW i \in DOMAIN gone[s]
        PROVE  LET all == <<0>> \o gone[s] IN
               all[i] # Overflow /\ all[i + 1] # Overflow => all[i + 1] = all[i] + 1
    <2>1. gone[s] \in Seq(Traces) /\ <<0>> \in Seq(Traces) /\ Len(<<0>>) = 1
      BY StreamTyped DEF Traces
    <2>2. Len(<<0>> \o gone[s]) = 1 + Len(gone[s]) /\ Len(gone[s]) \in Nat
          /\ DOMAIN gone[s] = 1..Len(gone[s])
      BY <2>1
    <2>3. i \in 1..(Len(<<0>> \o gone[s]) - 1)
      BY <2>2
    <2>4. Chained(<<0>> \o gone[s])
      BY DEF StatsInv, StreamInv, Delivered
    <2> QED
      BY <2>3, <2>4 DEF Chained, Follows
  <1>3. Stats!NoSilentGap /\ Stats!LostInOnePlace
    BY <1>2 DEF Stats!NoSilentGap, Stats!LostInOnePlace, StatsInv, LostInv
  <1> QED
    BY <1>1, <1>3

LEMMA SuiteRunsStats == Suite => Stats!Init /\ [][Stats!Next]_tracing
  <1>1. SuiteInit => Stats!Init
    BY DEF SuiteInit
  <1>2. [SuiteNext]_<<part, vars, tracing, coordinatorVars, peerVars, sfuLinking, showing>>
        => [Stats!Next]_tracing
    BY DEF SuiteNext
  <1> QED
    BY <1>1, <1>2, PTL DEF Suite

\* The SFU gets the records of a tracer in the order in which they were traced,
\* each once, and a mark stands where some are missing, however the reports of
\* the loop and of the teardown overlap, fail and put back what they drained; but
\* for one place, where a leave or the end of the connection dropped a report.
THEOREM TraceIsWholeButForADrop ==
  ASSUME StatsBounds
  PROVE  Suite => []TraceIsWhole
  <1>1. Stats!Init => StatsInv
    BY StatsStart
  <1>2. StatsInv /\ [Stats!Next]_tracing => StatsInv'
    BY StatsStep
  <1>3. StatsInv => TraceIsWhole
    BY StatsInvIsEnough DEF TraceIsWhole
  <1> QED
    BY <1>1, <1>2, <1>3, SuiteRunsStats, PTL

-----------------------------------------------------------------------------
(* The flag of the socket to the SFU and the order of the events, for any  *)
(* number of sockets, of frames and of failures.                           *)

SfuBounds == MaxLinks \in Nat \ {0} /\ MaxFrames \in Nat /\ ResponseTimeout \in Nat

Sendings == [f : Sfu!Frames, n : Nat]

SfuTyped ==
    /\ opener = [at |-> opener.at, socket |-> opener.socket, fast |-> opener.fast, outcome |-> opener.outcome]
    /\ opener.socket \in Sfu!Links /\ opener.fast \in BOOLEAN
    /\ Sfu!TypeOK /\ waiting <= ResponseTimeout
    /\ wireOf \in [Sfu!Links -> Seq(Sendings)] /\ shown \in Seq(Nat)

\* The tasks are of the socket that is written to.  A handshake runs while the
\* connection is not healthy, and none of its tasks when its socket is replaced.
TasksInv ==
    /\ reader \in {0, sender} /\ pinger \in {0, sender}
    /\ opener.at # "store" => (wsHealthy <=> reader # 0 /\ pinger # 0)
    /\ opener.at \in Sfu!Handshaking \ {"store"} => ~wsHealthy
    /\ opener.at \in {"swap", "store", "failed"} => reader = 0 /\ pinger = 0
    /\ opener.at = "store" => wsHealthy
    /\ opener.at \in Sfu!Handshaking /\ ~opener.fast => reader = 0 /\ pinger = 0
    /\ opener.at \in Sfu!Handshaking => reader # opener.socket
    /\ opener.at \in {"swap", "store"} => sender = opener.socket
    /\ reader <= opener.socket

\* A frame that comes after every event that took effect and every frame that the
\* event loop still reads.
Later(s, i) ==
    /\ \A j \in 1..Len(shown) : shown[j] < wireOf[s][i].n
    /\ reader # 0 => \A j \in 1..Len(wireOf[reader]) : wireOf[reader][j].n < wireOf[s][i].n

BehindResponse ==
    opener.at = "await" =>
        \A i, j \in 1..Len(wireOf[opener.socket]) :
            i < j /\ wireOf[opener.socket][i].f.kind = "response" => Later(opener.socket, j)
BehindHandshake ==
    opener.at \in {"answered", "abort", "swap", "store"} =>
        \A j \in 1..Len(wireOf[opener.socket]) : Later(opener.socket, j)

\* Every socket and the history have the frames in the order they were sent; the
\* socket of a handshake has only later ones behind its response; and a socket
\* that is not open yet has none.
FramesInv ==
    /\ \A s \in Sfu!Links :
        /\ \A i \in 1..Len(wireOf[s]) : wireOf[s][i].n <= sent
        /\ \A i, j \in 1..Len(wireOf[s]) : i < j => wireOf[s][i].n < wireOf[s][j].n
        /\ s > opener.socket \/ (s = opener.socket /\ opener.at = "connect") => wireOf[s] = <<>>
    /\ \A i \in 1..Len(shown) : shown[i] <= sent
    /\ \A i, j \in 1..Len(shown) : i < j => shown[i] < shown[j]
    /\ reader # 0 => \A i \in 1..Len(wireOf[reader]), j \in 1..Len(shown) :
                        shown[j] < wireOf[reader][i].n
    /\ BehindResponse /\ BehindHandshake

SfuInv == SfuTyped /\ TasksInv /\ FramesInv

\* A place of the handshake, and its outcome, are set in the record.
LEMMA OpenerMoves ==
  ASSUME SfuTyped
  PROVE  /\ \A place : Sfu!Opens(place) =>
              opener' = [at |-> place, socket |-> opener.socket, fast |-> opener.fast,
                         outcome |-> opener.outcome]
         /\ \A outcome : Sfu!FailsWith(outcome) =>
              opener' = [at |-> IF opener.fast THEN "idle" ELSE "failed", socket |-> opener.socket,
                         fast |-> opener.fast, outcome |-> outcome]
  BY DEF SfuTyped, Sfu!Opens, Sfu!FailsWith

LEMMA SfuStart ==
  ASSUME SfuBounds, Sfu!Init
  PROVE  SfuInv
  <1>1. \A s \in Sfu!Links : wireOf[s] = <<>>
    BY DEF Sfu!Init
  <1>2. <<>> \in Seq(Sendings) /\ <<>> \in Seq(Nat) /\ Len(<<>>) = 0
    OBVIOUS
  <1>3. SfuTyped
    <2>1. Sfu!TypeOK /\ waiting <= ResponseTimeout
      <3>1. 0 \in 0..MaxLinks /\ 0 \in 0..MaxFrames /\ 0 \in 0..(ResponseTimeout + 1) /\ 0 <= ResponseTimeout
        BY DEF SfuBounds
      <3>2. /\ opener.at = "connect" /\ waiting = 0 /\ sent = 0 /\ reader = 0 /\ pinger = 0 /\ sender = 0
            /\ wsHealthy = FALSE
        BY DEF Sfu!Init
      <3> QED
        BY <3>1, <3>2 DEF Sfu!TypeOK, Sfu!Handshaking
    <2>2. wireOf \in [Sfu!Links -> Seq(Sendings)] /\ shown \in Seq(Nat)
      BY <1>2 DEF Sfu!Init
    <2>3. 1 \in Sfu!Links
      BY DEF SfuBounds, Sfu!Links
    <2> QED
      BY <2>1, <2>2, <2>3 DEF SfuTyped, Sfu!Init
  <1>4. TasksInv
    BY DEF TasksInv, Sfu!Init, Sfu!Handshaking
  <1>5. FramesInv
    BY <1>1, <1>2 DEF FramesInv, BehindResponse, BehindHandshake, Later, Sfu!Init
  <1> QED
    BY <1>3, <1>4, <1>5 DEF SfuInv

\* The steps that move the handshake on and take no frame.
LEMMA HandshakeStep ==
  ASSUME SfuBounds, SfuInv,
         \/ Sfu!Connects \/ Sfu!TimesOut \/ Sfu!Tick \/ Sfu!JoinSpawns \/ Sfu!FastOpens \/ Sfu!FastTakes
         \/ Sfu!TaskGone \/ Sfu!FastSwaps \/ Sfu!FastStores \/ Sfu!FastSpawns \/ Sfu!PingFails
  PROVE  SfuInv'
  <1> DEFINE places == Sfu!Handshaking \cup {"idle", "failed"}
  <1>1. SfuTyped /\ TasksInv /\ FramesInv /\ UNCHANGED <<wireOf, sent, shown>>
    BY DEF SfuInv, Sfu!Connects, Sfu!TimesOut, Sfu!Tick, Sfu!JoinSpawns, Sfu!FastOpens, Sfu!FastTakes,
       Sfu!TaskGone, Sfu!FastSwaps, Sfu!FastStores, Sfu!FastSpawns, Sfu!PingFails, Sfu!RequestFails
  <1>2. /\ opener'.at \in places /\ opener'.socket \in Sfu!Links /\ opener'.fast \in BOOLEAN
        /\ opener' = [at |-> opener'.at, socket |-> opener'.socket, fast |-> opener'.fast,
                      outcome |-> opener'.outcome]
    <2> USE <1>1, OpenerMoves DEF SfuTyped, Sfu!TypeOK, Sfu!Handshaking
    <2>1. CASE Sfu!FastOpens
      BY <2>1 DEF Sfu!FastOpens, Sfu!Links, SfuBounds
    <2>2. CASE UNCHANGED opener
      BY <2>2
    <2>3. ASSUME NEW place \in places, Sfu!Opens(place)
          PROVE  /\ opener'.at \in places /\ opener'.socket \in Sfu!Links /\ opener'.fast \in BOOLEAN
                 /\ opener' = [at |-> opener'.at, socket |-> opener'.socket, fast |-> opener'.fast,
                               outcome |-> opener'.outcome]
      BY <2>3
    <2>4. ASSUME NEW outcome, Sfu!FailsWith(outcome)
          PROVE  /\ opener'.at \in places /\ opener'.socket \in Sfu!Links /\ opener'.fast \in BOOLEAN
                 /\ opener' = [at |-> opener'.at, socket |-> opener'.socket, fast |-> opener'.fast,
                               outcome |-> opener'.outcome]
      BY <2>4
    <2>5. \/ Sfu!FastOpens \/ UNCHANGED opener
          \/ \E place \in places : Sfu!Opens(place)
          \/ \E outcome : Sfu!FailsWith(outcome)
      <3> DEFINE moves == \/ UNCHANGED opener
                          \/ \E place \in places : Sfu!Opens(place)
                          \/ \E outcome : Sfu!FailsWith(outcome)
      <3>1. Sfu!Connects => moves
        BY DEF Sfu!Connects, Sfu!RequestFails
      <3>2. Sfu!TimesOut \/ Sfu!Tick \/ Sfu!TaskGone \/ Sfu!PingFails => moves
        BY DEF Sfu!TimesOut, Sfu!Tick, Sfu!TaskGone, Sfu!PingFails
      <3>3. Sfu!JoinSpawns \/ Sfu!FastTakes \/ Sfu!FastSwaps \/ Sfu!FastStores \/ Sfu!FastSpawns => moves
        BY DEF Sfu!JoinSpawns, Sfu!FastTakes, Sfu!FastSwaps, Sfu!FastStores, Sfu!FastSpawns
      <3> QED
        BY <3>1, <3>2, <3>3
    <2> QED
      BY <2>1, <2>2, <2>3, <2>4, <2>5
  <1>3. SfuTyped'
    <2>1. /\ waiting' \in 0..(ResponseTimeout + 1) /\ waiting' <= ResponseTimeout /\ reader' \in 0..MaxLinks
          /\ pinger' \in 0..MaxLinks /\ sender' \in 0..MaxLinks /\ wsHealthy' \in BOOLEAN
      <3>1. /\ waiting \in 0..ResponseTimeout /\ reader \in 0..MaxLinks /\ pinger \in 0..MaxLinks
            /\ sender \in 0..MaxLinks /\ wsHealthy \in BOOLEAN /\ opener.socket \in 0..MaxLinks
            /\ 0 \in 0..MaxLinks /\ ResponseTimeout \in Nat
        BY <1>1 DEF SfuTyped, Sfu!TypeOK, Sfu!Links, SfuBounds
      <3>2. waiting' \in {0, waiting} \/ (Sfu!Tick /\ waiting # ResponseTimeout /\ waiting' = waiting + 1
                                         /\ opener.at = "await")
        BY DEF Sfu!Connects, Sfu!TimesOut, Sfu!Tick, Sfu!JoinSpawns, Sfu!FastOpens, Sfu!FastTakes,
           Sfu!TaskGone, Sfu!FastSwaps, Sfu!FastStores, Sfu!FastSpawns, Sfu!PingFails, Sfu!Due
      <3>3. waiting' \in 0..(ResponseTimeout + 1) /\ waiting' <= ResponseTimeout
        BY <3>1, <3>2
      <3>4. /\ reader' \in {0, reader, opener.socket} /\ pinger' \in {0, pinger, opener.socket}
            /\ sender' \in {sender, opener.socket} /\ wsHealthy' \in {wsHealthy, TRUE, FALSE}
        BY DEF Sfu!Connects, Sfu!TimesOut, Sfu!Tick, Sfu!JoinSpawns, Sfu!FastOpens, Sfu!FastTakes,
           Sfu!TaskGone, Sfu!FastSwaps, Sfu!FastStores, Sfu!FastSpawns, Sfu!PingFails
      <3> QED
        BY <3>1, <3>3, <3>4
    <2> QED
      BY <1>1, <1>2, <2>1 DEF SfuTyped, Sfu!TypeOK
  <1>4. TasksInv'
    <2> USE <1>1, OpenerMoves DEF TasksInv, Sfu!Handshaking
    <2>1. CASE Sfu!Connects
      <3>1. UNCHANGED <<reader, pinger, sender, wsHealthy>> /\ opener.at = "connect"
        BY <2>1 DEF Sfu!Connects
      <3>2. CASE Sfu!Opens("await")
        BY <3>1, <3>2
      <3>3. ASSUME NEW outcome, Sfu!FailsWith(outcome) PROVE TasksInv'
        BY <3>1, <3>3
      <3> QED
        BY <2>1, <3>2, <3>3 DEF Sfu!Connects, Sfu!RequestFails
    <2>2. CASE Sfu!TimesOut
      BY <2>2 DEF Sfu!TimesOut, Sfu!Due
    <2>3. CASE Sfu!Tick
      BY <2>3 DEF Sfu!Tick
    <2>4. CASE Sfu!JoinSpawns
      BY <2>4 DEF Sfu!JoinSpawns, SfuTyped, Sfu!Links
    <2>5. CASE Sfu!FastOpens
      BY <2>5 DEF Sfu!FastOpens, SfuTyped, Sfu!Links, Sfu!TypeOK
    <2>6. CASE Sfu!FastTakes
      BY <2>6 DEF Sfu!FastTakes
    <2>7. CASE Sfu!TaskGone
      BY <2>7 DEF Sfu!TaskGone, SfuTyped, Sfu!Links
    <2>8. CASE Sfu!FastSwaps
      BY <2>8 DEF Sfu!FastSwaps, Sfu!Ends
    <2>9. CASE Sfu!FastStores
      BY <2>9 DEF Sfu!FastStores
    <2>10. CASE Sfu!FastSpawns
      <3>1. /\ reader' = opener.socket /\ pinger' = opener.socket /\ UNCHANGED <<sender, wsHealthy>>
            /\ opener'.at = "idle" /\ opener'.socket = opener.socket /\ opener.at = "store"
        BY <2>10 DEF Sfu!FastSpawns
      <3> QED
        BY <3>1 DEF SfuTyped, Sfu!Links
    <2>11. CASE Sfu!PingFails
      <3>1. /\ UNCHANGED <<opener, reader, sender>> /\ pinger # 0 /\ pinger' = 0 /\ wsHealthy' = FALSE
        BY <2>11 DEF Sfu!PingFails
      <3> QED
        BY <3>1
    <2> QED
      BY <2>1, <2>2, <2>3, <2>4, <2>5, <2>6, <2>7, <2>8, <2>9, <2>10, <2>11
  <1>5. FramesInv'
    <2>1. CASE UNCHANGED reader /\ opener'.socket = opener.socket /\
               (opener'.at = opener.at \/ opener'.at \in {"idle", "failed"}
                  \/ (opener.at = "connect" /\ opener'.at = "await"))
      BY <1>1, <2>1 DEF FramesInv, BehindResponse, BehindHandshake, Later, SfuTyped
    <2>2. CASE UNCHANGED reader /\ opener'.socket = opener.socket /\
               opener.at \in {"answered", "abort", "swap", "store"} /\
               opener'.at \in {"answered", "abort", "swap", "store"}
      BY <1>1, <2>2 DEF FramesInv, BehindResponse, BehindHandshake, Later, SfuTyped
    <2>3. CASE Sfu!TaskGone
      BY <1>1, <2>3 DEF FramesInv, BehindResponse, BehindHandshake, Later, SfuTyped, Sfu!TaskGone
    <2>4. CASE Sfu!JoinSpawns \/ Sfu!FastSpawns
      <3>1. /\ reader' = opener.socket /\ opener'.at = "idle" /\ opener'.socket = opener.socket
            /\ opener.at \in {"answered", "store"}
        BY <1>1, <2>4, OpenerMoves DEF Sfu!JoinSpawns, Sfu!FastSpawns
      <3> QED
        BY <1>1, <3>1 DEF FramesInv, BehindResponse, BehindHandshake, Later, SfuTyped
    <2>5. CASE Sfu!FastOpens
      <3>1. /\ reader' = reader /\ opener'.at = "connect" /\ opener'.socket = opener.socket + 1
            /\ opener.socket \in Nat
        BY <1>1, <2>5 DEF Sfu!FastOpens, SfuTyped, Sfu!Links
      <3> QED
        BY <1>1, <3>1 DEF FramesInv, BehindResponse, BehindHandshake, Later, SfuTyped, Sfu!Links
    <2> QED
      BY <1>1, <2>1, <2>2, <2>3, <2>4, <2>5, OpenerMoves DEF Sfu!Connects, Sfu!TimesOut, Sfu!Tick,
         Sfu!FastTakes, Sfu!FastSwaps, Sfu!FastStores, Sfu!PingFails, Sfu!RequestFails
  <1> QED
    BY <1>3, <1>4, <1>5 DEF SfuInv

\* A sequence in order stays so without its head and with a later end.
LEMMA TailKeepsOrder ==
  ASSUME NEW q \in Seq(Sendings), q # <<>>,
         \A i, j \in 1..Len(q) : i < j => q[i].n < q[j].n
  PROVE  /\ Tail(q) \in Seq(Sendings)
         /\ \A i, j \in 1..Len(Tail(q)) : i < j => Tail(q)[i].n < Tail(q)[j].n
         /\ \A i \in 1..Len(Tail(q)) : Head(q).n < Tail(q)[i].n
         /\ \A i \in 1..Len(Tail(q)) : i + 1 \in 1..Len(q) /\ Tail(q)[i] = q[i + 1]
         /\ Head(q) \in Sendings /\ Head(q) = q[1] /\ 1 \in 1..Len(q)
  <1>1. /\ Tail(q) \in Seq(Sendings) /\ Len(q) \in Nat /\ Len(q) > 0 /\ Len(Tail(q)) = Len(q) - 1
        /\ \A i \in 1..Len(Tail(q)) : Tail(q)[i] = q[i + 1]
        /\ Head(q) = q[1] /\ Head(q) \in Sendings
    OBVIOUS
  <1>2. \A i \in 1..Len(Tail(q)) : i + 1 \in 1..Len(q)
    BY <1>1
  <1>3. 1 \in 1..Len(q) /\ \A i \in 1..Len(Tail(q)) : 1 < i + 1
    BY <1>1
  <1> QED
    BY <1>1, <1>2, <1>3

\* Another frame of the SFU is the last one sent.
LEMMA SfuSendsStep ==
  ASSUME SfuBounds, SfuInv, NEW f \in Sfu!Frames, Sfu!SfuSends(f)
  PROVE  SfuInv'
  <1>1. SfuTyped /\ TasksInv /\ FramesInv
    BY DEF SfuInv
  <1>2. PICK s \in Sfu!Links :
          /\ \/ s = reader /\ (s = opener.socket \/ ~Sfu!Resumed)
             \/ s = opener.socket /\ opener.at \in Sfu!Handshaking \ {"connect"}
          /\ wireOf' = [wireOf EXCEPT ![s] = Append(@, [f |-> f, n |-> sent + 1])]
    BY DEF Sfu!SfuSends
  <1>3. /\ sent' = sent + 1 /\ sent \in Nat /\ sent' \in 0..MaxFrames
        /\ UNCHANGED <<opener, waiting, reader, pinger, sender, wsHealthy, shown>>
    BY <1>1 DEF Sfu!SfuSends, SfuTyped, Sfu!TypeOK, SfuBounds
  <1> DEFINE new == [f |-> f, n |-> sent + 1]
  <1>4. new \in Sendings /\ new.n = sent + 1 /\ wireOf[s] \in Seq(Sendings)
    <2>1. sent + 1 \in Nat
      BY <1>3
    <2>2. new \in Sendings /\ new.n = sent + 1
      BY <2>1 DEF Sendings
    <2>3. wireOf[s] \in Seq(Sendings)
      BY <1>1 DEF SfuTyped
    <2> QED
      BY <2>2, <2>3
  <1>5. /\ wireOf' = [wireOf EXCEPT ![s] = Append(wireOf[s], new)]
        /\ wireOf' \in [Sfu!Links -> Seq(Sendings)]
        /\ wireOf'[s] = Append(wireOf[s], new)
        /\ \A t \in Sfu!Links \ {s} : wireOf'[t] = wireOf[t]
    <2> HIDE DEF new
    <2> QED
      BY <1>1, <1>2, <1>4 DEF SfuTyped, new
  <1> HIDE DEF new
  <1>6. /\ Len(wireOf'[s]) = Len(wireOf[s]) + 1 /\ Len(wireOf[s]) \in Nat
        /\ wireOf'[s][Len(wireOf[s]) + 1] = new
        /\ \A i \in 1..Len(wireOf[s]) : wireOf'[s][i] = wireOf[s][i]
    BY <1>4, <1>5
  <1>7. SfuTyped' /\ TasksInv'
    BY <1>1, <1>3, <1>5 DEF SfuTyped, TasksInv, Sfu!TypeOK
  <1>8. /\ \A t \in Sfu!Links : \A i \in 1..Len(wireOf[t]) :
              wireOf[t][i].n <= sent' /\ wireOf[t][i].n < new.n
        /\ new.n <= sent'
    <2>1. ASSUME NEW t \in Sfu!Links, NEW i \in 1..Len(wireOf[t])
          PROVE  wireOf[t][i].n \in Nat
      <3>1. wireOf[t] \in Seq(Sendings)
        BY <1>1 DEF SfuTyped
      <3>2. wireOf[t][i] \in Sendings
        BY <3>1
      <3> QED
        BY <3>2 DEF Sendings
    <2>2. ASSUME NEW t \in Sfu!Links, NEW i \in 1..Len(wireOf[t])
          PROVE  wireOf[t][i].n <= sent
      BY <1>1 DEF FramesInv
    <2>3. ASSUME NEW m \in Nat, m <= sent
          PROVE  m <= sent' /\ m < new.n
      BY <1>3, <1>4, <2>3
    <2>4. new.n <= sent'
      BY <1>3, <1>4
    <2> QED
      BY <2>1, <2>2, <2>3, <2>4
  <1>9. ASSUME NEW t \in Sfu!Links
        PROVE  /\ \A i \in 1..Len(wireOf'[t]) : wireOf'[t][i].n <= sent'
               /\ \A i, j \in 1..Len(wireOf'[t]) : i < j => wireOf'[t][i].n < wireOf'[t][j].n
               /\ t > opener'.socket \/ (t = opener'.socket /\ opener'.at = "connect") => wireOf'[t] = <<>>
    <2>1. CASE t = s
      <3>1. \A i \in 1..Len(wireOf'[s]) : i \in 1..Len(wireOf[s]) \/ i = Len(wireOf[s]) + 1
        BY <1>6
      <3>2. \A i \in 1..Len(wireOf'[s]) : wireOf'[s][i].n <= sent'
        BY <1>6, <1>8, <3>1
      <3>3. \A i, j \in 1..Len(wireOf'[s]) : i < j => wireOf'[s][i].n < wireOf'[s][j].n
        <4>1. ASSUME NEW i \in 1..Len(wireOf'[s]), NEW j \in 1..Len(wireOf'[s]), i < j
              PROVE  wireOf'[s][i].n < wireOf'[s][j].n
          <5>1. i \in 1..Len(wireOf[s])
            BY <1>6, <4>1
          <5>2. CASE j \in 1..Len(wireOf[s])
            BY <1>1, <1>6, <4>1, <5>1, <5>2 DEF FramesInv
          <5>3. CASE j = Len(wireOf[s]) + 1
            BY <1>6, <1>8, <5>1, <5>3
          <5> QED
            BY <3>1, <5>2, <5>3
        <4> QED
          BY <4>1
      <3>4. ~(s > opener.socket) /\ ~(s = opener.socket /\ opener.at = "connect")
        BY <1>1, <1>2 DEF TasksInv, SfuTyped, Sfu!Links, Sfu!Handshaking
      <3> QED
        BY <1>3, <2>1, <3>2, <3>3, <3>4
    <2>2. CASE t # s
      <3>1. sent <= sent'
        BY <1>3
      <3> QED
        BY <1>1, <1>3, <1>5, <1>8, <2>2, <3>1 DEF FramesInv
    <2> QED
      BY <2>1, <2>2
  <1>10. /\ \A i \in 1..Len(shown') : shown'[i] <= sent'
         /\ \A i \in 1..Len(shown) : shown[i] < new.n
         /\ \A i, j \in 1..Len(shown') : i < j => shown'[i] < shown'[j]
    <2>1. ASSUME NEW i \in 1..Len(shown) PROVE shown[i] \in Nat /\ shown[i] <= sent
      <3>1. shown \in Seq(Nat)
        BY <1>1 DEF SfuTyped
      <3> QED
        BY <1>1, <3>1 DEF FramesInv
    <2>2. ASSUME NEW m \in Nat, m <= sent
          PROVE  m <= sent' /\ m < new.n
      BY <1>3, <1>4, <2>2
    <2>3. \A i, j \in 1..Len(shown) : i < j => shown[i] < shown[j]
      BY <1>1 DEF FramesInv
    <2> QED
      BY <1>3, <2>1, <2>2, <2>3
  <1>11. reader' # 0 => \A i \in 1..Len(wireOf'[reader']), j \in 1..Len(shown') :
                          shown'[j] < wireOf'[reader'][i].n
    <2>1. ASSUME reader # 0, NEW i \in 1..Len(wireOf'[reader]), NEW j \in 1..Len(shown)
          PROVE  shown[j] < wireOf'[reader][i].n
      <3>1. reader \in Sfu!Links
        BY <1>1, <2>1 DEF SfuTyped, Sfu!TypeOK, Sfu!Links
      <3>2. CASE reader = s /\ i = Len(wireOf[s]) + 1
        BY <1>6, <1>10, <3>2
      <3>3. CASE ~(reader = s /\ i = Len(wireOf[s]) + 1)
        <4>1. i \in 1..Len(wireOf[reader]) /\ wireOf'[reader][i] = wireOf[reader][i]
          BY <1>5, <1>6, <2>1, <3>1, <3>3
        <4> QED
          BY <1>1, <2>1, <4>1 DEF FramesInv
      <3> QED
        BY <3>2, <3>3
    <2> QED
      BY <1>3, <2>1
  \* In a handshake the frame goes to the new socket, or the old one is not resumed.
  <1>12. PICK o \in Sfu!Links : o = opener.socket
    BY <1>1 DEF SfuTyped
  <1>13. BehindResponse'
    <2>1. SUFFICES ASSUME opener.at = "await",
                          NEW i \in 1..Len(wireOf'[o]), NEW j \in 1..Len(wireOf'[o]), i < j,
                          wireOf'[o][i].f.kind = "response"
                   PROVE  Later(o, j)'
      BY <1>3, <1>12 DEF BehindResponse, Later
    <2>2. reader # o /\ reader \in 0..MaxLinks
      BY <1>1, <1>12, <2>1 DEF SfuTyped, TasksInv, Sfu!Handshaking, Sfu!TypeOK
    <2>3. CASE s = o
      <3>1. i \in 1..Len(wireOf[o]) /\ wireOf[o][i].f.kind = "response"
        BY <1>6, <2>1, <2>3
      <3>2. reader # 0 => reader \in Sfu!Links /\ wireOf'[reader] = wireOf[reader]
        BY <1>5, <2>2, <2>3 DEF Sfu!Links
      <3>3. CASE j = Len(wireOf[o]) + 1
        BY <1>3, <1>6, <1>8, <1>10, <2>3, <3>2, <3>3 DEF Later
      <3>4. CASE j # Len(wireOf[o]) + 1
        <4>1. j \in 1..Len(wireOf[o]) /\ wireOf'[o][j] = wireOf[o][j]
          BY <1>6, <2>3, <3>4
        <4>2. Later(o, j)
          BY <1>1, <1>12, <2>1, <3>1, <4>1 DEF FramesInv, BehindResponse
        <4> QED
          BY <1>3, <3>2, <4>1, <4>2 DEF Later
      <3> QED
        BY <3>3, <3>4
    <2>4. CASE s # o
      <3>1. wireOf'[o] = wireOf[o] /\ ~Sfu!Resumed
        BY <1>2, <1>5, <1>12, <2>4
      <3>2. i \in DOMAIN wireOf[o]
        BY <1>1, <2>1, <3>1 DEF SfuTyped
      <3> QED
        BY <1>12, <2>1, <3>1, <3>2 DEF Sfu!Resumed
    <2> QED
      BY <2>3, <2>4
  <1>14. BehindHandshake'
    <2>1. SUFFICES ASSUME opener.at \in {"answered", "abort", "swap", "store"},
                          NEW j \in 1..Len(wireOf'[o])
                   PROVE  Later(o, j)'
      BY <1>3, <1>12 DEF BehindHandshake, Later
    <2>2. reader # o /\ reader \in 0..MaxLinks /\ s = o
      BY <1>1, <1>2, <1>12, <2>1 DEF SfuTyped, TasksInv, Sfu!Handshaking, Sfu!TypeOK, Sfu!Resumed
    <2>3. reader # 0 => reader \in Sfu!Links /\ wireOf'[reader] = wireOf[reader]
      BY <1>5, <2>2 DEF Sfu!Links
    <2>4. CASE j = Len(wireOf[o]) + 1
      BY <1>3, <1>6, <1>8, <1>10, <2>2, <2>3, <2>4 DEF Later
    <2>5. CASE j # Len(wireOf[o]) + 1
      <3>1. j \in 1..Len(wireOf[o]) /\ wireOf'[o][j] = wireOf[o][j]
        BY <1>6, <2>2, <2>5
      <3>2. Later(o, j)
        BY <1>1, <1>12, <2>1, <3>1 DEF FramesInv, BehindHandshake
      <3> QED
        BY <1>3, <2>3, <3>1, <3>2 DEF Later
    <2> QED
      BY <2>4, <2>5
  <1>15. FramesInv'
    BY <1>9, <1>10, <1>11, <1>13, <1>14 DEF FramesInv, Sfu!Links
  <1> QED
    BY <1>7, <1>15 DEF SfuInv

LEMMA FrameKinds ==
  ASSUME NEW f \in Sfu!Frames
  PROVE  /\ f.kind \in {"skip", "event", "control", "bad", "close", "response", "error"}
         /\ f.kind = "response" => f.resumed \in BOOLEAN
  BY DEF Sfu!Frames

\* The head of a socket is taken from it alone.
LEMMA TakesHead ==
  ASSUME SfuInv, NEW r \in Sfu!Links, wireOf[r] # <<>>, wireOf' = [wireOf EXCEPT ![r] = Tail(@)],
         sent' = sent, opener'.socket = opener.socket,
         opener'.at = "connect" => opener.at = "connect"
  PROVE  /\ wireOf' \in [Sfu!Links -> Seq(Sendings)]
         /\ \A t \in Sfu!Links \ {r} : wireOf'[t] = wireOf[t]
         /\ 1 \in 1..Len(wireOf[r]) /\ Head(wireOf[r]) = wireOf[r][1] /\ Head(wireOf[r]) \in Sendings
         /\ \A i \in 1..Len(wireOf'[r]) : i + 1 \in 1..Len(wireOf[r]) /\ wireOf'[r][i] = wireOf[r][i + 1]
         /\ \A i \in 1..Len(wireOf'[r]) : Head(wireOf[r]).n < wireOf'[r][i].n
         /\ \A s \in Sfu!Links :
              /\ \A i \in 1..Len(wireOf'[s]) : wireOf'[s][i].n <= sent'
              /\ \A i, j \in 1..Len(wireOf'[s]) : i < j => wireOf'[s][i].n < wireOf'[s][j].n
              /\ s > opener'.socket \/ (s = opener'.socket /\ opener'.at = "connect") => wireOf'[s] = <<>>
  <1>1. SfuTyped /\ FramesInv /\ wireOf[r] \in Seq(Sendings)
    BY DEF SfuInv, SfuTyped
  <1>2. /\ wireOf' \in [Sfu!Links -> Seq(Sendings)] /\ wireOf'[r] = Tail(wireOf[r])
        /\ \A t \in Sfu!Links \ {r} : wireOf'[t] = wireOf[t]
    BY <1>1 DEF SfuTyped
  <1>3. \A i, j \in 1..Len(wireOf[r]) : i < j => wireOf[r][i].n < wireOf[r][j].n
    BY <1>1 DEF FramesInv
  <1>4. /\ \A i, j \in 1..Len(wireOf'[r]) : i < j => wireOf'[r][i].n < wireOf'[r][j].n
        /\ \A i \in 1..Len(wireOf'[r]) : Head(wireOf[r]).n < wireOf'[r][i].n
        /\ \A i \in 1..Len(wireOf'[r]) : i + 1 \in 1..Len(wireOf[r]) /\ wireOf'[r][i] = wireOf[r][i + 1]
        /\ Head(wireOf[r]) \in Sendings /\ Head(wireOf[r]) = wireOf[r][1] /\ 1 \in 1..Len(wireOf[r])
    BY <1>1, <1>2, <1>3, TailKeepsOrder
  <1>5. ASSUME NEW s \in Sfu!Links
        PROVE  /\ \A i \in 1..Len(wireOf'[s]) : wireOf'[s][i].n <= sent'
               /\ \A i, j \in 1..Len(wireOf'[s]) : i < j => wireOf'[s][i].n < wireOf'[s][j].n
               /\ s > opener'.socket \/ (s = opener'.socket /\ opener'.at = "connect") => wireOf'[s] = <<>>
    <2>1. CASE s = r
      <3>1. ~(r > opener.socket) /\ ~(r = opener.socket /\ opener.at = "connect")
        BY <1>1 DEF FramesInv
      <3> QED
        BY <1>1, <1>4, <2>1, <3>1 DEF FramesInv
    <2>2. CASE s # r
      BY <1>1, <1>2, <2>2 DEF FramesInv
    <2> QED
      BY <2>1, <2>2
  <1> QED
    BY <1>2, <1>4, <1>5

\* await_join_response reads the new socket up to its response.
LEMMA AwaitStep ==
  ASSUME SfuBounds, SfuInv, Sfu!AwaitReads
  PROVE  SfuInv'
  <1>1. SfuTyped /\ TasksInv /\ FramesInv
    BY DEF SfuInv
  <1>2. PICK o \in Sfu!Links : o = opener.socket
    BY <1>1 DEF SfuTyped
  <1> DEFINE f == Head(wireOf[o]).f
  <1>3. /\ opener.at = "await" /\ wireOf[o] # <<>> /\ wireOf' = [wireOf EXCEPT ![o] = Tail(@)]
        /\ UNCHANGED <<waiting, sent, reader, pinger, sender, wsHealthy, shown>>
    BY <1>2 DEF Sfu!AwaitReads
  <1>4. f \in Sfu!Frames
    <2>1. wireOf[o] \in Seq(Sendings)
      BY <1>1 DEF SfuTyped
    <2>2. Head(wireOf[o]) \in Sendings
      BY <1>3, <2>1
    <2> QED
      BY <2>2 DEF Sendings
  <1>5. \/ UNCHANGED opener
        \/ f.kind = "response" /\ Sfu!Opens("answered")
        \/ \E outcome : Sfu!FailsWith(outcome)
    <2>1. f.kind = "response" => f.resumed \in BOOLEAN
      BY <1>4, FrameKinds
    <2>2. opener.fast \in BOOLEAN
      BY <1>1 DEF SfuTyped
    <2>3. CASE f.kind \in {"skip", "event", "control"}
      BY <1>2, <2>3 DEF Sfu!AwaitReads
    <2>4. CASE f.kind = "response" /\ (f.resumed \/ ~opener.fast)
      BY <1>2, <2>1, <2>2, <2>4 DEF Sfu!AwaitReads
    <2>5. CASE f.kind = "response" /\ ~(f.resumed \/ ~opener.fast)
      BY <1>2, <2>1, <2>2, <2>5 DEF Sfu!AwaitReads
    <2>6. CASE f.kind = "error"
      BY <1>2, <2>6 DEF Sfu!AwaitReads
    <2>7. CASE f.kind \in {"bad", "close"}
      BY <1>2, <2>7 DEF Sfu!AwaitReads
    <2> QED
      BY <1>4, FrameKinds, <2>3, <2>4, <2>5, <2>6, <2>7
  <1>6. /\ opener' = [at |-> opener'.at, socket |-> opener.socket, fast |-> opener.fast,
                      outcome |-> opener'.outcome]
        /\ \/ opener'.at = "await"
           \/ opener'.at = "answered" /\ f.kind = "response"
           \/ opener'.at = (IF opener.fast THEN "idle" ELSE "failed")
    <2>1. CASE UNCHANGED opener
      BY <1>1, <1>3, <2>1 DEF SfuTyped
    <2>2. CASE f.kind = "response" /\ Sfu!Opens("answered")
      BY <1>1, <2>2, OpenerMoves
    <2>3. ASSUME NEW outcome, Sfu!FailsWith(outcome)
          PROVE  opener' = [at |-> IF opener.fast THEN "idle" ELSE "failed", socket |-> opener.socket,
                            fast |-> opener.fast, outcome |-> outcome]
      BY <1>1, <2>3, OpenerMoves
    <2> QED
      BY <1>5, <2>1, <2>2, <2>3
  <1> HIDE DEF f
  <1>7. /\ wireOf' \in [Sfu!Links -> Seq(Sendings)]
        /\ \A t \in Sfu!Links \ {o} : wireOf'[t] = wireOf[t]
        /\ 1 \in 1..Len(wireOf[o]) /\ Head(wireOf[o]) = wireOf[o][1]
        /\ \A i \in 1..Len(wireOf'[o]) : i + 1 \in 1..Len(wireOf[o]) /\ wireOf'[o][i] = wireOf[o][i + 1]
        /\ \A s \in Sfu!Links :
             /\ \A i \in 1..Len(wireOf'[s]) : wireOf'[s][i].n <= sent'
             /\ \A i, j \in 1..Len(wireOf'[s]) : i < j => wireOf'[s][i].n < wireOf'[s][j].n
             /\ s > opener'.socket \/ (s = opener'.socket /\ opener'.at = "connect") => wireOf'[s] = <<>>
    <2>1. opener'.socket = opener.socket
      BY <1>6
    <2>2. opener'.at # "connect"
      BY <1>6
    <2>3. UNCHANGED sent
      BY <1>3
    <2> QED
      BY <1>3, <2>1, <2>2, <2>3, TakesHead
  <1>8. SfuTyped'
    <2>1. opener'.at \in Sfu!Handshaking \cup {"idle", "failed"}
      BY <1>6 DEF Sfu!Handshaking
    <2>2. /\ opener'.socket = opener.socket /\ opener'.fast = opener.fast
          /\ opener' = [at |-> opener'.at, socket |-> opener'.socket, fast |-> opener'.fast,
                        outcome |-> opener'.outcome]
      BY <1>6
    <2> QED
      BY <1>1, <1>3, <1>7, <2>1, <2>2 DEF SfuTyped, Sfu!TypeOK
  <1>9. TasksInv'
    <2>1. opener'.socket = opener.socket /\ opener'.fast = opener.fast /\ opener.fast \in BOOLEAN
      BY <1>1, <1>6 DEF SfuTyped
    <2> QED
      BY <1>1, <1>3, <1>6, <2>1 DEF TasksInv, Sfu!Handshaking
  <1>10. reader # o /\ reader \in 0..MaxLinks
    BY <1>1, <1>2, <1>3 DEF SfuTyped, TasksInv, Sfu!Handshaking, Sfu!TypeOK
  <1>11. reader # 0 => reader \in Sfu!Links /\ wireOf'[reader] = wireOf[reader]
    BY <1>7, <1>10 DEF Sfu!Links
  <1>12. ASSUME NEW j \in 1..Len(wireOf'[o]), Later(o, j + 1) PROVE Later(o, j)'
    BY <1>3, <1>7, <1>11, <1>12 DEF Later
  <1>13. \A i, j \in 1..Len(wireOf[o]) : i < j /\ wireOf[o][i].f.kind = "response" => Later(o, j)
    BY <1>1, <1>2, <1>3 DEF FramesInv, BehindResponse
  <1>14. BehindResponse'
    <2>1. ASSUME NEW i \in 1..Len(wireOf'[o]), NEW j \in 1..Len(wireOf'[o]), i < j,
                 wireOf'[o][i].f.kind = "response"
          PROVE  Later(o, j)'
      <3>1. i + 1 \in 1..Len(wireOf[o]) /\ j + 1 \in 1..Len(wireOf[o]) /\ i + 1 < j + 1
        BY <1>7, <2>1
      <3>2. Later(o, j + 1)
        BY <1>7, <1>13, <2>1, <3>1
      <3> QED
        BY <1>12, <3>2
    <2> QED
      BY <1>2, <1>6, <2>1 DEF BehindResponse, Later
  <1>15. BehindHandshake'
    <2>1. ASSUME f.kind = "response", NEW j \in 1..Len(wireOf'[o])
          PROVE  Later(o, j)'
      <3>1. j + 1 \in 1..Len(wireOf[o]) /\ 1 < j + 1 /\ wireOf[o][1].f.kind = "response"
        BY <1>7, <2>1 DEF f
      <3> QED
        BY <1>7, <1>12, <1>13, <3>1
    <2> QED
      BY <1>2, <1>6, <2>1 DEF BehindHandshake, Later
  <1>16. FramesInv'
    BY <1>1, <1>3, <1>7, <1>11, <1>14, <1>15 DEF FramesInv
  <1> QED
    BY <1>8, <1>9, <1>16 DEF SfuInv

\* The event loop takes the next frame of its socket.
LEMMA LoopStep ==
  ASSUME SfuBounds, SfuInv, Sfu!LoopReads
  PROVE  SfuInv'
  <1>1. SfuTyped /\ TasksInv /\ FramesInv
    BY DEF SfuInv
  <1>2. PICK r \in Sfu!Links : r = reader /\ r # 0
    BY <1>1 DEF Sfu!LoopReads, SfuTyped, Sfu!TypeOK, Sfu!Links
  <1> DEFINE e == Head(wireOf[r])
  <1>3. /\ wireOf[r] # <<>> /\ wireOf' = [wireOf EXCEPT ![r] = Tail(@)]
        /\ UNCHANGED <<opener, waiting, sent, pinger, sender>>
        /\ \/ wsHealthy' = FALSE /\ reader' = 0
           \/ UNCHANGED <<wsHealthy, reader>>
        /\ shown' = Append(shown, e.n) \/ shown' = shown
    BY <1>2 DEF Sfu!LoopReads
  <1>4. /\ wireOf' \in [Sfu!Links -> Seq(Sendings)]
        /\ \A t \in Sfu!Links \ {r} : wireOf'[t] = wireOf[t]
        /\ 1 \in 1..Len(wireOf[r]) /\ e = wireOf[r][1] /\ e \in Sendings
        /\ \A i \in 1..Len(wireOf'[r]) : i + 1 \in 1..Len(wireOf[r]) /\ wireOf'[r][i] = wireOf[r][i + 1]
        /\ \A i \in 1..Len(wireOf'[r]) : e.n < wireOf'[r][i].n
        /\ \A s \in Sfu!Links :
             /\ \A i \in 1..Len(wireOf'[s]) : wireOf'[s][i].n <= sent'
             /\ \A i, j \in 1..Len(wireOf'[s]) : i < j => wireOf'[s][i].n < wireOf'[s][j].n
             /\ s > opener'.socket \/ (s = opener'.socket /\ opener'.at = "connect") => wireOf'[s] = <<>>
    BY <1>3, TakesHead
  <1> HIDE DEF e
  <1>5. e.n \in Nat /\ e.n <= sent /\ \A j \in 1..Len(shown) : shown[j] < e.n
    <2>1. e.n \in Nat
      BY <1>4 DEF Sendings
    <2> QED
      BY <1>1, <1>2, <1>4, <2>1 DEF FramesInv
  <1>6. shown \in Seq(Nat)
    BY <1>1 DEF SfuTyped
  <1>7. /\ shown' \in Seq(Nat)
        /\ \A i \in 1..Len(shown') : \/ i \in 1..Len(shown) /\ shown'[i] = shown[i]
                                     \/ i = Len(shown) + 1 /\ shown'[i] = e.n
    <2>1. CASE shown' = shown
      BY <1>6, <2>1
    <2>2. CASE shown' = Append(shown, e.n)
      <3> DEFINE n == e.n
      <3>1. n \in Nat /\ shown' = Append(shown, n)
        BY <1>5, <2>2
      <3> HIDE DEF n
      <3>2. /\ shown' \in Seq(Nat) /\ Len(shown') = Len(shown) + 1 /\ Len(shown) \in Nat
            /\ shown'[Len(shown) + 1] = n
            /\ \A i \in 1..Len(shown) : shown'[i] = shown[i]
        BY <1>6, <3>1
      <3>3. \A i \in 1..Len(shown') : i \in 1..Len(shown) \/ i = Len(shown) + 1
        BY <3>2
      <3> QED
        BY <3>2, <3>3 DEF n
    <2> QED
      BY <1>3, <2>1, <2>2
  <1>8. SfuTyped'
    <2>1. reader' \in 0..MaxLinks /\ wsHealthy' \in BOOLEAN
      <3>1. reader \in 0..MaxLinks /\ wsHealthy \in BOOLEAN /\ 0 \in 0..MaxLinks
        BY <1>1 DEF SfuTyped, Sfu!TypeOK, SfuBounds
      <3> QED
        BY <1>3, <3>1
    <2> QED
      BY <1>1, <1>3, <1>4, <1>7, <2>1 DEF SfuTyped, Sfu!TypeOK
  <1>9. TasksInv'
    <2>1. opener.socket \in Nat
      BY <1>1 DEF SfuTyped, Sfu!Links
    <2>2. opener.at \notin {"swap", "store"} /\ wireOf[r] # <<>>
      BY <1>1, <1>2, <1>3 DEF TasksInv
    <2>3. CASE wsHealthy' = FALSE /\ reader' = 0
      <3>1. opener.at \in Sfu!Handshaking => 0 # opener.socket
        BY <1>1 DEF SfuTyped, Sfu!Links
      <3> QED
        BY <1>1, <1>3, <2>1, <2>2, <2>3, <3>1 DEF TasksInv, Sfu!Handshaking
    <2>4. CASE UNCHANGED <<wsHealthy, reader>>
      BY <1>1, <1>3, <2>4 DEF TasksInv
    <2> QED
      BY <1>3, <2>3, <2>4
  <1>10. /\ \A i \in 1..Len(shown') : shown'[i] <= sent'
         /\ \A i, j \in 1..Len(shown') : i < j => shown'[i] < shown'[j]
    <2>1. \A i \in 1..Len(shown') : shown'[i] <= sent'
      BY <1>1, <1>3, <1>5, <1>7 DEF FramesInv
    <2>2. ASSUME NEW i \in 1..Len(shown'), NEW j \in 1..Len(shown'), i < j
          PROVE  shown'[i] < shown'[j]
      <3>1. i \in 1..Len(shown) /\ shown'[i] = shown[i]
        <4>1. Len(shown') <= Len(shown) + 1 /\ Len(shown) \in Nat
          BY <1>3, <1>5, <1>6
        <4> QED
          BY <1>7, <2>2, <4>1
      <3> QED
        BY <1>1, <1>5, <1>7, <2>2, <3>1 DEF FramesInv
    <2> QED
      BY <2>1, <2>2
  <1>11. ASSUME NEW j \in 1..Len(wireOf[r]), NEW i \in 1..Len(shown'), j # 1
         PROVE  shown'[i] < wireOf[r][j].n
    <2>1. shown[i] < wireOf[r][j].n \/ i \notin 1..Len(shown)
      BY <1>1, <1>2 DEF FramesInv
    <2>2. e.n < wireOf[r][j].n
      <3>1. 1 < j
        BY <1>11
      <3> QED
        BY <1>1, <1>4, <3>1 DEF FramesInv
    <2> QED
      BY <1>7, <2>1, <2>2
  <1>12. reader' # 0 => \A i \in 1..Len(wireOf'[reader']), j \in 1..Len(shown') :
                           shown'[j] < wireOf'[reader'][i].n
    <2>1. ASSUME reader' # 0, NEW i \in 1..Len(wireOf'[r]), NEW j \in 1..Len(shown')
          PROVE  shown'[j] < wireOf'[r][i].n
      <3>1. i + 1 \in 1..Len(wireOf[r]) /\ i + 1 # 1 /\ wireOf'[r][i] = wireOf[r][i + 1]
        BY <1>4
      <3> QED
        BY <1>11, <3>1
    <2> QED
      BY <1>2, <1>3, <2>1
  <1>13. PICK o \in Sfu!Links : o = opener.socket
    BY <1>1 DEF SfuTyped
  <1>14. ASSUME o # r, NEW j \in 1..Len(wireOf[o]), Later(o, j)
         PROVE  wireOf'[o] = wireOf[o] /\ Later(o, j)'
    <2>1. wireOf'[o] = wireOf[o]
      BY <1>4, <1>14
    <2>2. \A i \in 1..Len(wireOf[r]) : wireOf[r][i].n < wireOf[o][j].n
      BY <1>2, <1>14 DEF Later
    <2>3. \A i \in 1..Len(shown') : shown'[i] < wireOf[o][j].n
      BY <1>4, <1>7, <1>14, <2>2 DEF Later
    <2>4. reader' # 0 => \A i \in 1..Len(wireOf'[reader']) : wireOf'[reader'][i].n < wireOf[o][j].n
      BY <1>2, <1>3, <1>4, <2>2
    <2> QED
      BY <2>1, <2>3, <2>4 DEF Later
  <1>15. opener.at \in Sfu!Handshaking => o # r /\ wireOf'[o] = wireOf[o]
    BY <1>1, <1>2, <1>4, <1>13 DEF TasksInv
  <1>16. BehindResponse' /\ BehindHandshake'
    <2>1. ASSUME opener.at = "await",
                 NEW i \in 1..Len(wireOf'[o]), NEW j \in 1..Len(wireOf'[o]), i < j,
                 wireOf'[o][i].f.kind = "response"
          PROVE  Later(o, j)'
      <3>1. o # r /\ wireOf'[o] = wireOf[o]
        BY <1>15, <2>1 DEF Sfu!Handshaking
      <3>2. Later(o, j)
        BY <1>1, <1>13, <2>1, <3>1 DEF FramesInv, BehindResponse
      <3> QED
        BY <1>14, <2>1, <3>1, <3>2
    <2>2. ASSUME opener.at \in {"answered", "abort", "swap", "store"}, NEW j \in 1..Len(wireOf'[o])
          PROVE  Later(o, j)'
      <3>1. o # r /\ wireOf'[o] = wireOf[o]
        BY <1>15, <2>2 DEF Sfu!Handshaking
      <3>2. Later(o, j)
        BY <1>1, <1>13, <2>2, <3>1 DEF FramesInv, BehindHandshake
      <3> QED
        BY <1>14, <2>2, <3>1, <3>2
    <2> QED
      BY <1>3, <1>13, <2>1, <2>2 DEF BehindResponse, BehindHandshake, Later
  <1>17. FramesInv'
    BY <1>4, <1>10, <1>12, <1>16 DEF FramesInv
  <1> QED
    BY <1>8, <1>9, <1>17 DEF SfuInv

LEMMA SfuStep ==
  ASSUME SfuBounds, SfuInv, [Sfu!Next]_sfuLinking
  PROVE  SfuInv'
  <1>1. CASE Sfu!Next
    BY <1>1, HandshakeStep, SfuSendsStep, AwaitStep, LoopStep DEF Sfu!Next
  <1>2. CASE UNCHANGED sfuLinking
    BY <1>2 DEF sfuLinking, SfuInv, SfuTyped, Sfu!TypeOK, TasksInv, FramesInv, BehindResponse,
       BehindHandshake, Later
  <1> QED
    BY <1>1, <1>2

LEMMA SuiteRunsSfu == Suite => Sfu!Init /\ [][Sfu!Next]_sfuLinking
  <1>1. SuiteInit => Sfu!Init
    BY DEF SuiteInit
  <1>2. [SuiteNext]_<<part, vars, tracing, coordinatorVars, peerVars, sfuLinking, showing>>
        => [Sfu!Next]_sfuLinking
    BY DEF SuiteNext
  <1> QED
    BY <1>1, <1>2, PTL DEF Suite

\* A connection that counts as healthy is read, pinged and written to on one
\* socket, whatever the tasks of the socket that a FAST reconnect replaced do
\* last, and the events of the call take effect in the order in which the SFU
\* sent them, across the change of sockets.
THEOREM HealthTellsTheTruth ==
  ASSUME SfuBounds
  PROVE  Suite => []HealthIsTrue
  <1>1. Sfu!Init => SfuInv
    BY SfuStart
  <1>2. SfuInv /\ [Sfu!Next]_sfuLinking => SfuInv'
    BY SfuStep
  <1>3. SfuInv => HealthIsTrue
    <2>1. SUFFICES ASSUME SfuInv PROVE Sfu!TypeOK /\ Sfu!HealthIsTrue
      BY DEF HealthIsTrue
    <2>2. SfuTyped /\ TasksInv /\ FramesInv
      BY <2>1 DEF SfuInv
    <2>3. shown \in Seq(Nat) /\ DOMAIN shown = 1..Len(shown)
      BY <2>2 DEF SfuTyped
    <2>4. \A i, j \in DOMAIN shown : i < j => shown[i] < shown[j]
      BY <2>2, <2>3 DEF FramesInv
    <2> QED
      BY <2>2, <2>4 DEF SfuTyped, TasksInv, Sfu!HealthIsTrue
  <1> QED
    BY <1>1, <1>2, <1>3, SuiteRunsSfu, PTL

-----------------------------------------------------------------------------
(* The events about the participants, for any number of remote sessions,   *)
(* of reports and of reconnects.                                           *)

RosterBounds == MaxResponses \in Nat /\ MaxReports \in Nat /\ Remotes \cap Nat = {}

\* The changes that a handler broadcasts, and all that the SFU sends.
Changes == [type : {"joined", "updated"}, who : Remotes, info : State!Info]
              \cup [type : {"left", "published", "unpublished"}, who : Remotes]
Messages == Changes \cup [type : {"speaking", "paused"}, who : Remotes]

Partial(f, S, T) == DOMAIN f \subseteq S /\ \A s \in DOMAIN f : f[s] \in T

RosterTyped ==
    /\ Partial(truth, Remotes, State!Info)
    /\ Partial(known, State!Sessions, State!Entry)
    /\ Partial(roster, Remotes, State!Info)
    /\ misreported \subseteq Remotes
    /\ stateLoop \in [State!Conns -> BOOLEAN]
    /\ handling \in [State!Conns -> Changes \cup {State!NoReport}]
    /\ wire \in [State!Conns -> Seq(Messages)]
    /\ reports \in 0..MaxReports /\ responses \in 0..MaxResponses /\ resumed \in BOOLEAN
    /\ local \in 1..(responses + 1) /\ before \in 1..(responses + 1)

\* The roster shows of a session what the list has.
Same(r, k, s) ==
    /\ s \in DOMAIN r <=> s \in DOMAIN k
    /\ s \in DOMAIN r => State!SameBut(r[s], k[s].info)

\* One handler at a time has a change of a session that was reported in order,
\* and the roster has it once that is told; it runs in a loop that runs.
ToldInv ==
    /\ \A c \in State!Conns : handling[c] # State!NoReport => stateLoop[c]
    /\ \A s \in Remotes \ misreported :
        /\ \A c \in State!Conns :
             State!Handles(c, s) => /\ ~State!Handles(State!Other(c), s)
                                    /\ Same(State!Heard(roster, handling[c]), known, s)
        /\ (\A c \in State!Conns : ~State!Handles(c, s)) => Same(roster, known, s)

RosterInv == RosterTyped /\ ToldInv

\* Two rosters that show the same of a session.
Alike(r, q, s) == (s \in DOMAIN r <=> s \in DOMAIN q) /\ (s \in DOMAIN r => r[s] = q[s])

LEMMA ChangeKinds ==
  ASSUME NEW m \in Changes
  PROVE  /\ m.type \in {"joined", "updated", "left", "published", "unpublished"} /\ m.who \in Remotes
         /\ m.type \in {"joined", "updated"} => m.info \in State!Info
         /\ m # State!NoReport
  <1>1. CASE m \in [type : {"joined", "updated"}, who : Remotes, info : State!Info]
    BY <1>1 DEF State!NoReport
  <1>2. CASE m \in [type : {"left", "published", "unpublished"}, who : Remotes]
    BY <1>2 DEF State!NoReport
  <1> QED
    BY <1>1, <1>2 DEF Changes

LEMMA MessageKinds ==
  ASSUME NEW m \in Messages
  PROVE  /\ m.who \in Remotes
         /\ m.type \in State!Reports => m \in Changes
         /\ m.type \notin State!Reports => m.type \in {"speaking", "paused"}
  <1>1. CASE m \in Changes
    BY <1>1, ChangeKinds DEF State!Reports
  <1>2. CASE m \in [type : {"speaking", "paused"}, who : Remotes]
    BY <1>2 DEF State!Reports
  <1> QED
    BY <1>1, <1>2 DEF Messages

\* A roster changes only at the session that the report is of.
LEMMA HeardElsewhere ==
  ASSUME NEW m \in Changes, NEW r, NEW s, s # m.who
  PROVE  Alike(State!Heard(r, m), r, s)
  <1>1. CASE m.type \in {"joined", "updated"}
    BY <1>1, ChangeKinds DEF Alike, State!Heard, State!With
  <1>2. CASE m.type = "left"
    BY <1>2, ChangeKinds DEF Alike, State!Heard, State!Without, State!Restrict
  <1>3. CASE m.type = "published"
    BY <1>3, ChangeKinds DEF Alike, State!Heard, State!With
  <1>4. CASE m.type = "unpublished"
    BY <1>4, ChangeKinds DEF Alike, State!Heard
  <1> QED
    BY <1>1, <1>2, <1>3, <1>4, ChangeKinds

\* What is heard of a session depends on what was shown of it.
LEMMA HeardAlike ==
  ASSUME NEW m \in Changes, NEW r, NEW q, Alike(r, q, m.who)
  PROVE  Alike(State!Heard(r, m), State!Heard(q, m), m.who)
  <1>1. CASE m.type \in {"joined", "updated"}
    BY <1>1, ChangeKinds DEF Alike, State!Heard, State!With
  <1>2. CASE m.type = "left"
    BY <1>2, ChangeKinds DEF Alike, State!Heard, State!Without, State!Restrict
  <1>3. CASE m.type = "published"
    BY <1>3, ChangeKinds DEF Alike, State!Heard, State!With
  <1>4. CASE m.type = "unpublished"
    BY <1>4, ChangeKinds DEF Alike, State!Heard
  <1> QED
    BY <1>1, <1>2, <1>3, <1>4, ChangeKinds

LEMMA HeardTyped ==
  ASSUME NEW m \in Changes, NEW r, Partial(r, Remotes, State!Info)
  PROVE  Partial(State!Heard(r, m), Remotes, State!Info)
  <1>1. CASE m.type \in {"joined", "updated"}
    BY <1>1, ChangeKinds DEF Partial, State!Heard, State!With
  <1>2. CASE m.type = "left"
    BY <1>2, ChangeKinds DEF Partial, State!Heard, State!Without, State!Restrict
  <1>3. CASE m.type = "published"
    BY <1>3, ChangeKinds DEF Partial, State!Heard, State!With, State!Info, State!Default
  <1>4. CASE m.type = "unpublished"
    BY <1>4, ChangeKinds DEF Partial, State!Heard, State!Info
  <1> QED
    BY <1>1, <1>2, <1>3, <1>4, ChangeKinds

LEMMA SameOfAlike ==
  ASSUME NEW r, NEW q, NEW k, NEW s, Alike(q, r, s), Same(r, k, s)
  PROVE  Same(q, k, s)
  BY DEF Alike, Same

\* A handler and its broadcast do the same to the list and to the roster.
LEMMA HeardIsApplied ==
  ASSUME NEW m \in Changes, NEW r, NEW k, Same(r, k, m.who),
         Partial(r, Remotes, State!Info), Partial(k, State!Sessions, State!Entry)
  PROVE  Same(State!Heard(r, m), State!Applied(k, m), m.who)
  <1> DEFINE s == m.who
  <1>0. /\ s \in DOMAIN r => r[s] \in State!Info
        /\ s \in DOMAIN k => k[s] \in State!Entry /\ k[s].info \in State!Info
    BY DEF Partial, State!Entry
  <1>1. CASE m.type \in {"joined", "updated"}
    <2>1. State!Heard(r, m) = State!With(r, s, m.info)
      BY <1>1 DEF State!Heard
    <2>2. State!Applied(k, m) = State!Upserted(k, s, m.info)
      BY <1>1 DEF State!Applied
    <2> QED
      BY <2>1, <2>2 DEF Same, State!Upserted, State!With, State!SameBut
  <1>2. CASE m.type = "left"
    BY <1>2, ChangeKinds DEF Same, State!Heard, State!Applied, State!Without, State!Restrict
  <1>3. CASE m.type = "published"
    <2> DEFINE news == IF s \in DOMAIN r THEN r[s] ELSE State!Default
               entry == IF s \in DOMAIN k THEN k[s] ELSE [info |-> State!Default, paused |-> FALSE]
    <2>1. State!Heard(r, m) = State!With(r, s, [news EXCEPT !.video = TRUE])
      BY <1>3 DEF State!Heard
    <2>2. State!Applied(k, m) = State!With(k, s, [entry EXCEPT !.info.video = TRUE])
      <3>1. State!Applied(k, m) = State!TrackAdded(k, s)
        BY <1>3 DEF State!Applied
      <3> QED
        BY <3>1 DEF State!TrackAdded, State!EntryOf
    <2>3. news \in State!Info /\ entry \in State!Entry /\ entry.info \in State!Info
      BY <1>0 DEF State!Info, State!Entry, State!Default
    <2>4. news.data = entry.info.data
      BY DEF Same, State!SameBut
    <2> HIDE DEF news, entry
    <2>5. /\ [news EXCEPT !.video = TRUE].data = news.data /\ [news EXCEPT !.video = TRUE].video = TRUE
          /\ [entry EXCEPT !.info.video = TRUE].info = [entry.info EXCEPT !.video = TRUE]
          /\ [entry.info EXCEPT !.video = TRUE].data = entry.info.data
          /\ [entry.info EXCEPT !.video = TRUE].video = TRUE
      BY <2>3 DEF State!Info, State!Entry
    <2>6. State!SameBut([news EXCEPT !.video = TRUE], [entry EXCEPT !.info.video = TRUE].info)
      BY <2>4, <2>5 DEF State!SameBut
    <2>7. ASSUME NEW x, NEW y, State!SameBut(x, y.info)
          PROVE  Same(State!With(r, s, x), State!With(k, s, y), s)
      BY <2>7 DEF Same, State!With
    <2> QED
      BY <2>1, <2>2, <2>6, <2>7
  <1>4. CASE m.type = "unpublished"
    <2>1. State!Heard(r, m) = IF s \in DOMAIN r THEN [r EXCEPT ![s].video = FALSE] ELSE r
      BY <1>4 DEF State!Heard
    <2>2. State!Applied(k, m) = IF s \in DOMAIN k THEN [k EXCEPT ![s].info.video = FALSE] ELSE k
      <3>1. State!Applied(k, m) = State!TrackRemoved(k, s)
        BY <1>4 DEF State!Applied
      <3> QED
        BY <3>1 DEF State!TrackRemoved
    <2>3. CASE s \notin DOMAIN r
      BY <2>1, <2>2, <2>3 DEF Same
    <2>4. CASE s \in DOMAIN r
      <3>1. s \in DOMAIN k /\ r[s].data = k[s].info.data
        BY <2>4 DEF Same, State!SameBut
      <3>2. /\ [r EXCEPT ![s].video = FALSE][s] = [r[s] EXCEPT !.video = FALSE]
            /\ [k EXCEPT ![s].info.video = FALSE][s].info = [k[s].info EXCEPT !.video = FALSE]
        BY <1>0, <2>4, <3>1 DEF State!Info, State!Entry
      <3>3. State!SameBut([r[s] EXCEPT !.video = FALSE], [k[s].info EXCEPT !.video = FALSE])
        BY <1>0, <2>4, <3>1 DEF State!Info, State!SameBut
      <3> QED
        BY <2>1, <2>2, <2>4, <3>1, <3>2, <3>3 DEF Same
    <2> QED
      BY <2>3, <2>4
  <1> QED
    BY <1>1, <1>2, <1>3, <1>4, ChangeKinds

\* A report changes nothing that the events tell of the other sessions, and a
\* report without an event nothing at all.
LEMMA AppliedElsewhere ==
  ASSUME NEW m \in Messages, NEW k, Partial(k, State!Sessions, State!Entry), NEW s,
         s # m.who \/ m.type \notin State!Reports
  PROVE  /\ s \in DOMAIN State!Applied(k, m) <=> s \in DOMAIN k
         /\ s \in DOMAIN k => State!SameBut(State!Applied(k, m)[s].info, k[s].info)
  <1>0. s \in DOMAIN k => k[s] \in State!Entry /\ k[s].info \in State!Info
    BY DEF Partial, State!Entry
  <1>1. CASE m.type \in State!Reports
    <2>1. s # m.who /\ m \in Changes
      BY <1>1, MessageKinds
    <2>2. CASE m.type \in {"joined", "updated"}
      BY <2>1, <2>2 DEF State!Applied, State!Upserted, State!With, State!SameBut
    <2>3. CASE m.type = "left"
      BY <2>1, <2>3 DEF State!Applied, State!Without, State!Restrict, State!SameBut
    <2>4. CASE m.type = "published"
      BY <2>1, <2>4 DEF State!Applied, State!TrackAdded, State!With, State!SameBut
    <2>5. CASE m.type = "unpublished"
      BY <2>1, <2>5 DEF State!Applied, State!TrackRemoved, State!SameBut
    <2> QED
      BY <2>1, <2>2, <2>3, <2>4, <2>5, ChangeKinds
  <1>2. CASE m.type = "speaking"
    <2>1. State!Applied(k, m) = [t \in DOMAIN k |-> [k[t] EXCEPT !.info.speaking = t = m.who]]
      <3>1. State!Applied(k, m) = State!Spoke(k, m.who)
        BY <1>2 DEF State!Applied
      <3> QED
        BY <3>1 DEF State!Spoke
    <2>2. s \in DOMAIN k => State!Applied(k, m)[s].info = [k[s].info EXCEPT !.speaking = s = m.who]
      BY <1>0, <2>1 DEF State!Entry
    <2> QED
      BY <1>0, <2>1, <2>2 DEF State!SameBut, State!Info
  <1>3. CASE m.type = "paused"
    <2>1. State!Applied(k, m) = IF m.who \in DOMAIN k THEN [k EXCEPT ![m.who].paused = TRUE] ELSE k
      <3>1. State!Applied(k, m) = State!PausedBy(k, m.who)
        BY <1>3 DEF State!Applied
      <3> QED
        BY <3>1 DEF State!PausedBy
    <2>2. s \in DOMAIN k => State!Applied(k, m)[s].info = k[s].info
      BY <1>0, <2>1 DEF State!Entry
    <2> QED
      BY <2>1, <2>2 DEF State!SameBut
  <1> QED
    BY <1>1, <1>2, <1>3, MessageKinds

LEMMA AppliedTyped ==
  ASSUME NEW m \in Messages, NEW k, Partial(k, State!Sessions, State!Entry)
  PROVE  Partial(State!Applied(k, m), State!Sessions, State!Entry)
  <1> DEFINE s == m.who
  <1>0. /\ \A t \in DOMAIN k : t \in State!Sessions /\ k[t] \in State!Entry /\ k[t].info \in State!Info
                               /\ k[t].paused \in BOOLEAN
        /\ s \in State!Sessions
    BY MessageKinds DEF Partial, State!Entry, State!Sessions
  <1>1. CASE m.type \in {"joined", "updated"}
    <2>1. m.info \in State!Info
      BY <1>1, MessageKinds, ChangeKinds DEF State!Reports
    <2>2. State!Applied(k, m) = State!Upserted(k, s, m.info)
      BY <1>1 DEF State!Applied
    <2> QED
      BY <1>0, <2>1, <2>2 DEF Partial, State!Upserted, State!With, State!Entry
  <1>2. CASE m.type = "left"
    BY <1>0, <1>2 DEF Partial, State!Applied, State!Without, State!Restrict
  <1>3. CASE m.type = "published"
    <2> DEFINE entry == IF s \in DOMAIN k THEN k[s] ELSE [info |-> State!Default, paused |-> FALSE]
    <2>1. State!Applied(k, m) = State!With(k, s, [entry EXCEPT !.info.video = TRUE])
      <3>1. State!Applied(k, m) = State!TrackAdded(k, s)
        BY <1>3 DEF State!Applied
      <3> QED
        BY <3>1 DEF State!TrackAdded, State!EntryOf
    <2>2. entry \in State!Entry
      BY <1>0 DEF State!Info, State!Entry, State!Default
    <2> HIDE DEF entry
    <2>3. [entry EXCEPT !.info.video = TRUE] \in State!Entry
      BY <2>2 DEF State!Info, State!Entry
    <2> QED
      BY <1>0, <2>1, <2>3 DEF Partial, State!With
  <1>4. CASE m.type = "unpublished"
    <2>1. State!Applied(k, m) = IF s \in DOMAIN k THEN [k EXCEPT ![s].info.video = FALSE] ELSE k
      <3>1. State!Applied(k, m) = State!TrackRemoved(k, s)
        BY <1>4 DEF State!Applied
      <3> QED
        BY <3>1 DEF State!TrackRemoved
    <2>2. s \in DOMAIN k => [k[s] EXCEPT !.info.video = FALSE] \in State!Entry
      BY <1>0 DEF State!Info, State!Entry
    <2> QED
      BY <1>0, <2>1, <2>2 DEF Partial
  <1>5. CASE m.type = "speaking"
    <2>1. State!Applied(k, m) = [t \in DOMAIN k |-> [k[t] EXCEPT !.info.speaking = t = s]]
      <3>1. State!Applied(k, m) = State!Spoke(k, s)
        BY <1>5 DEF State!Applied
      <3> QED
        BY <3>1 DEF State!Spoke
    <2>2. \A t \in DOMAIN k : [k[t] EXCEPT !.info.speaking = t = s] \in State!Entry
      BY <1>0 DEF State!Info, State!Entry
    <2> QED
      BY <1>0, <2>1, <2>2 DEF Partial
  <1>6. CASE m.type = "paused"
    <2>1. State!Applied(k, m) = IF s \in DOMAIN k THEN [k EXCEPT ![s].paused = TRUE] ELSE k
      <3>1. State!Applied(k, m) = State!PausedBy(k, s)
        BY <1>6 DEF State!Applied
      <3> QED
        BY <3>1 DEF State!PausedBy
    <2>2. s \in DOMAIN k => [k[s] EXCEPT !.paused = TRUE] \in State!Entry
      BY <1>0 DEF State!Entry
    <2> QED
      BY <1>0, <2>1, <2>2 DEF Partial
  <1> QED
    BY <1>1, <1>2, <1>3, <1>4, <1>5, <1>6, MessageKinds, ChangeKinds

LEMMA RosterStart ==
  ASSUME RosterBounds, State!Init
  PROVE  RosterInv
  <1>1. State!Default \in State!Info /\ State!Entry = [info : State!Info, paused : BOOLEAN]
    BY DEF State!Default, State!Info, State!Entry
  <1> DEFINE mine == [i \in 1..(MaxResponses + 1) |-> i]
  <1>2. 1 \in State!Sessions /\ mine[1] = 1 /\ 1 \in 1..(MaxResponses + 1)
    <2>1. 1 \in 1..(MaxResponses + 1)
      BY DEF RosterBounds
    <2> QED
      BY <2>1 DEF State!Sessions, State!Range
  <1>3. Partial(known, State!Sessions, State!Entry)
    BY <1>1, <1>2 DEF Partial, State!Init
  <1>4. Partial(truth, Remotes, State!Info) /\ Partial(roster, Remotes, State!Info)
    BY DEF Partial, State!Init, State!Nobody
  <1>5. /\ stateLoop \in [State!Conns -> BOOLEAN] /\ handling \in [State!Conns -> Changes \cup {State!NoReport}]
        /\ wire \in [State!Conns -> Seq(Messages)] /\ misreported \subseteq Remotes
    <2>1. <<>> \in Seq(Messages)
      OBVIOUS
    <2> QED
      BY <2>1 DEF State!Init
  <1>6. RosterTyped
    <2>1. /\ reports = 0 /\ responses = 0 /\ resumed = FALSE /\ local = 1 /\ before = 1
          /\ 0 \in 0..MaxReports /\ 0 \in 0..MaxResponses /\ 1 \in 1..(0 + 1)
      BY DEF State!Init, RosterBounds
    <2> QED
      BY <1>3, <1>4, <1>5, <2>1 DEF RosterTyped
  <1>7. \A s \in Remotes : Same(roster, known, s)
    <2>1. DOMAIN roster = {} /\ DOMAIN known = {1} /\ 1 \notin Remotes
      BY <1>2 DEF State!Init, State!Nobody, RosterBounds
    <2> QED
      BY <2>1 DEF Same
  <1>8. \A c \in State!Conns : handling[c] = State!NoReport
    BY DEF State!Init
  <1>9. ToldInv
    BY <1>7, <1>8 DEF ToldInv, State!Handles
  <1> QED
    BY <1>6, <1>9 DEF RosterInv

\* What the SFU does reaches the list only through its events.
LEMMA TellStep ==
  ASSUME RosterBounds, RosterInv, NEW m \in Messages, State!Tell(m), Partial(truth', Remotes, State!Info)
  PROVE  RosterInv'
  <1>1. /\ wire' = [wire EXCEPT !["new"] = Append(@, m)] /\ reports' = reports + 1 /\ reports < MaxReports
        /\ UNCHANGED <<handling, stateLoop, responses, resumed, local, before, known, roster, misreported>>
    BY DEF State!Tell
  <1>2. wire' \in [State!Conns -> Seq(Messages)]
    BY <1>1 DEF RosterInv, RosterTyped, State!Conns
  <1>3. RosterTyped'
    <2>1. Partial(known, State!Sessions, State!Entry)' = Partial(known, State!Sessions, State!Entry)
      BY <1>1 DEF Partial, State!Sessions, State!Entry, State!Info, State!Range
    <2>2. Partial(roster, Remotes, State!Info)' = Partial(roster, Remotes, State!Info)
      BY <1>1 DEF Partial, State!Info
    <2>3. reports' \in 0..MaxReports
      BY <1>1 DEF RosterInv, RosterTyped, RosterBounds
    <2> QED
      BY <1>1, <1>2, <2>1, <2>2, <2>3 DEF RosterInv, RosterTyped
  <1>4. ToldInv'
    BY <1>1 DEF RosterInv, ToldInv, State!Handles
  <1> QED
    BY <1>3, <1>4 DEF RosterInv

LEMMA SfuTellsStep ==
  ASSUME RosterBounds, RosterInv, NEW s \in Remotes,
         \/ State!Enter(s) \/ State!Exit(s) \/ State!Rename(s) \/ State!Publish(s)
         \/ State!Speak(s) \/ State!Pause(s)
  PROVE  RosterInv'
  <1>1. Partial(truth, Remotes, State!Info)
    BY DEF RosterInv, RosterTyped
  <1>2. CASE State!Enter(s)
    <2> DEFINE info == [State!Default EXCEPT !.data = "first"]
    <2>1. info \in State!Info
      BY DEF State!Default, State!Info
    <2>2. Partial(truth', Remotes, State!Info)
      BY <1>1, <1>2, <2>1 DEF State!Enter, State!With, Partial
    <2>3. [type |-> "joined", who |-> s, info |-> info] \in Messages
      BY <2>1 DEF Messages, Changes
    <2> QED
      BY <1>2, <2>2, <2>3, TellStep DEF State!Enter
  <1>3. CASE State!Exit(s)
    <2>1. Partial(truth', Remotes, State!Info)
      BY <1>1, <1>3 DEF State!Exit, State!Without, State!Restrict, Partial
    <2>2. [type |-> "left", who |-> s] \in Messages
      BY DEF Messages, Changes
    <2> QED
      BY <1>3, <2>1, <2>2, TellStep DEF State!Exit
  <1>4. CASE State!Rename(s)
    <2>1. truth' = [truth EXCEPT ![s].data = "second"] /\ s \in DOMAIN truth
      BY <1>4 DEF State!Rename
    <2>2. Partial(truth', Remotes, State!Info) /\ truth'[s] \in State!Info
      BY <1>1, <2>1 DEF Partial, State!Info
    <2>3. [type |-> "updated", who |-> s, info |-> truth'[s]] \in Messages
      BY <2>2 DEF Messages, Changes
    <2> QED
      BY <1>4, <2>2, <2>3, TellStep DEF State!Rename
  <1>5. CASE State!Publish(s)
    <2>1. truth' = [truth EXCEPT ![s].video = ~@] /\ s \in DOMAIN truth
      BY <1>5 DEF State!Publish
    <2>2. Partial(truth', Remotes, State!Info)
      BY <1>1, <2>1 DEF Partial, State!Info
    <2>3. [type |-> IF truth[s].video THEN "unpublished" ELSE "published", who |-> s] \in Messages
      BY DEF Messages, Changes
    <2> QED
      BY <1>5, <2>2, <2>3, TellStep DEF State!Publish
  <1>6. CASE State!Speak(s)
    <2>1. truth' = [t \in DOMAIN truth |-> [truth[t] EXCEPT !.speaking = t = s]]
      BY <1>6 DEF State!Speak
    <2>2. \A t \in DOMAIN truth : [truth[t] EXCEPT !.speaking = t = s] \in State!Info
      BY <1>1 DEF Partial, State!Info
    <2>3. Partial(truth', Remotes, State!Info)
      BY <1>1, <2>1, <2>2 DEF Partial
    <2>4. [type |-> "speaking", who |-> s] \in Messages
      BY DEF Messages
    <2> QED
      BY <1>6, <2>3, <2>4, TellStep DEF State!Speak
  <1>7. CASE State!Pause(s)
    <2>1. truth' = truth
      BY <1>7 DEF State!Pause
    <2>2. Partial(truth', Remotes, State!Info)
      BY <1>1, <2>1
    <2>3. [type |-> "paused", who |-> s] \in Messages
      BY DEF Messages
    <2> QED
      BY <1>7, <2>2, <2>3, TellStep DEF State!Pause
  <1> QED
    BY <1>2, <1>3, <1>4, <1>5, <1>6, <1>7

\* The two loops.
LEMMA Others ==
  ASSUME NEW c \in State!Conns
  PROVE  /\ State!Other(c) \in State!Conns /\ State!Other(c) # c
         /\ \A d \in State!Conns : d = c \/ d = State!Other(c)
         /\ State!Other(State!Other(c)) = c
  BY DEF State!Conns, State!Other

\* A handler applies its report to the list and goes to its await.
LEMMA HandleStep ==
  ASSUME RosterBounds, RosterInv, NEW c \in State!Conns, State!Handle(c)
  PROVE  RosterInv'
  <1>0. wire[c] \in Seq(Messages) /\ wire[c] # <<>>
    BY DEF State!Handle, RosterInv, RosterTyped
  <1>1. PICK m \in Messages : m = Head(wire[c])
    BY <1>0
  <1>2. /\ stateLoop[c] /\ handling[c] = State!NoReport /\ Tail(wire[c]) \in Seq(Messages)
        /\ wire' = [wire EXCEPT ![c] = Tail(@)] /\ known' = State!Applied(known, m)
        /\ handling' = IF m.type \in State!Reports THEN [handling EXCEPT ![c] = m] ELSE handling
        /\ misreported' = IF m.type \in State!Reports /\ State!Handles(State!Other(c), m.who)
                          THEN misreported \cup {m.who} ELSE misreported
        /\ UNCHANGED <<truth, reports, stateLoop, responses, resumed, local, before, roster>>
    BY <1>0, <1>1 DEF State!Handle
  <1>3. /\ m.who \in Remotes
        /\ m.type \in State!Reports => m \in Changes
        /\ m # State!NoReport
    BY MessageKinds, ChangeKinds DEF Messages, State!NoReport
  <1>4. RosterTyped /\ ToldInv /\ handling \in [State!Conns -> Changes \cup {State!NoReport}]
    BY DEF RosterInv, RosterTyped
  <1>5. RosterTyped'
    <2>1. wire' \in [State!Conns -> Seq(Messages)]
      BY <1>1, <1>2, <1>4 DEF RosterTyped
    <2>2. handling' \in [State!Conns -> Changes \cup {State!NoReport}]
      BY <1>2, <1>3, <1>4
    <2>3. Partial(known', State!Sessions, State!Entry)
      BY <1>1, <1>2, <1>4, AppliedTyped DEF RosterTyped
    <2>4. misreported' \subseteq Remotes
      BY <1>2, <1>3, <1>4 DEF RosterTyped
    <2> QED
      BY <1>2, <1>4, <2>1, <2>2, <2>3, <2>4 DEF RosterTyped
  <1>6. ASSUME NEW s, s # m.who \/ m.type \notin State!Reports, NEW r, Same(r, known, s)
        PROVE  Same(r, known', s)
    <2>1. /\ s \in DOMAIN known' <=> s \in DOMAIN known
          /\ s \in DOMAIN known => State!SameBut(known'[s].info, known[s].info)
      BY <1>1, <1>2, <1>4, <1>6, AppliedElsewhere DEF RosterTyped
    <2> QED
      BY <1>6, <2>1 DEF Same, State!SameBut
  <1>7. CASE m.type \notin State!Reports
    <2>1. UNCHANGED <<handling, misreported, stateLoop, roster>>
      BY <1>2, <1>7
    <2>2. ToldInv'
      BY <1>4, <1>6, <1>7, <2>1 DEF ToldInv, State!Handles
    <2> QED
      BY <1>5, <2>2 DEF RosterInv
  <1>8. CASE m.type \in State!Reports
    <2>1. /\ handling' = [handling EXCEPT ![c] = m] /\ handling'[c] = m
          /\ \A d \in State!Conns : d # c => handling'[d] = handling[d]
          /\ m \in Changes
      BY <1>2, <1>3, <1>4, <1>8
    <2>2. \A d \in State!Conns : handling'[d] # State!NoReport => stateLoop'[d]
      BY <1>2, <1>4, <2>1 DEF ToldInv
    <2>3. ASSUME NEW s \in Remotes \ misreported', s # m.who
          PROVE  /\ \A d \in State!Conns :
                      State!Handles(d, s)' => /\ ~State!Handles(State!Other(d), s)'
                                              /\ Same(State!Heard(roster', handling'[d]), known', s)
                 /\ (\A d \in State!Conns : ~State!Handles(d, s)') => Same(roster', known', s)
      <3>1. s \in Remotes \ misreported
        BY <1>2, <2>3
      <3>2. \A d \in State!Conns : State!Handles(d, s)' <=> State!Handles(d, s) /\ d # c
        BY <1>2, <2>1, <2>3 DEF State!Handles
      <3>3. ~State!Handles(c, s)
        BY <1>2 DEF State!Handles
      <3>4. \A d \in State!Conns : State!Handles(d, s) => /\ ~State!Handles(State!Other(d), s)
                                                          /\ Same(State!Heard(roster, handling[d]), known, s)
        BY <1>4, <3>1 DEF ToldInv
      <3>5. (\A d \in State!Conns : ~State!Handles(d, s)) => Same(roster, known, s)
        BY <1>4, <3>1 DEF ToldInv
      <3>6. \A d \in State!Conns : State!Handles(d, s)' => ~State!Handles(State!Other(d), s)'
        BY <3>2, <3>4, Others
      <3>7. \A d \in State!Conns : State!Handles(d, s)' => Same(State!Heard(roster', handling'[d]), known', s)
        BY <1>2, <1>6, <2>1, <2>3, <3>2, <3>4
      <3>8. (\A d \in State!Conns : ~State!Handles(d, s)') => Same(roster', known', s)
        BY <1>2, <1>6, <2>3, <3>2, <3>3, <3>5
      <3> QED
        BY <3>6, <3>7, <3>8
    <2>4. ASSUME m.who \notin misreported'
          PROVE  /\ \A d \in State!Conns :
                      State!Handles(d, m.who)' => /\ ~State!Handles(State!Other(d), m.who)'
                                                  /\ Same(State!Heard(roster', handling'[d]), known', m.who)
                 /\ State!Handles(c, m.who)'
      <3>1. ~State!Handles(State!Other(c), m.who) /\ m.who \in Remotes \ misreported
        BY <1>2, <1>3, <1>8, <2>4
      <3>2. ~State!Handles(c, m.who)
        BY <1>2 DEF State!Handles
      <3>3. \A d \in State!Conns : ~State!Handles(d, m.who)
        BY <3>1, <3>2, Others
      <3>4. Same(roster, known, m.who)
        BY <1>4, <3>1, <3>3 DEF ToldInv
      <3>5. Same(State!Heard(roster, m), known', m.who)
        BY <1>2, <1>4, <2>1, <3>4, HeardIsApplied DEF RosterTyped
      <3>6. /\ State!Handles(c, m.who)'
            /\ \A d \in State!Conns : d # c => ~State!Handles(d, m.who)'
        BY <1>3, <2>1, <3>3 DEF State!Handles
      <3>7. ASSUME NEW d \in State!Conns, State!Handles(d, m.who)'
            PROVE  /\ ~State!Handles(State!Other(d), m.who)'
                   /\ Same(State!Heard(roster', handling'[d]), known', m.who)
        <4>1. d = c
          BY <3>6, <3>7
        <4>2. Same(State!Heard(roster', handling'[d]), known', m.who)
          BY <1>2, <2>1, <3>5, <4>1
        <4>3. ~State!Handles(State!Other(d), m.who)'
          BY <3>6, <4>1, Others
        <4> QED
          BY <4>2, <4>3
      <3> QED
        BY <3>6, <3>7
    <2>5. ToldInv'
      <3>1. ASSUME NEW s \in Remotes \ misreported'
            PROVE  /\ \A d \in State!Conns :
                        State!Handles(d, s)' => /\ ~State!Handles(State!Other(d), s)'
                                                /\ Same(State!Heard(roster', handling'[d]), known', s)
                   /\ (\A d \in State!Conns : ~State!Handles(d, s)') => Same(roster', known', s)
        <4>1. CASE s = m.who
          BY <2>4, <3>1, <4>1
        <4>2. CASE s # m.who
          BY <2>3, <3>1, <4>2
        <4> QED
          BY <4>1, <4>2
      <3> QED
        BY <2>2, <3>1 DEF ToldInv
    <2> QED
      BY <1>5, <2>5 DEF RosterInv
  <1> QED
    BY <1>7, <1>8

\* The broadcast of a change that was applied.
LEMMA BroadcastStep ==
  ASSUME RosterBounds, RosterInv, NEW c \in State!Conns, State!Broadcast(c)
  PROVE  RosterInv'
  <1> DEFINE m == handling[c]
  <1>1. /\ m \in Changes /\ roster' = State!Heard(roster, m)
        /\ handling' = [handling EXCEPT ![c] = State!NoReport]
        /\ UNCHANGED <<truth, reports, wire, stateLoop, responses, resumed, local, before, known, misreported>>
    BY DEF State!Broadcast, RosterInv, RosterTyped
  <1>2. RosterTyped /\ ToldInv /\ handling \in [State!Conns -> Changes \cup {State!NoReport}]
    BY DEF RosterInv, RosterTyped
  <1>3. /\ handling' \in [State!Conns -> Changes \cup {State!NoReport}] /\ handling'[c] = State!NoReport
        /\ \A d \in State!Conns : d # c => handling'[d] = handling[d]
    BY <1>1, <1>2
  <1> HIDE DEF m
  <1>4. RosterTyped'
    <2>1. Partial(roster', Remotes, State!Info)
      BY <1>1, <1>2, HeardTyped DEF RosterTyped
    <2> QED
      BY <1>1, <1>2, <1>3, <2>1 DEF RosterTyped
  <1>5. \A d \in State!Conns : \A s : State!Handles(d, s)' <=> State!Handles(d, s) /\ d # c
    BY <1>3 DEF State!Handles
  <1>6. ASSUME NEW s \in Remotes \ misreported
        PROVE  /\ \A d \in State!Conns :
                    State!Handles(d, s)' => /\ ~State!Handles(State!Other(d), s)'
                                            /\ Same(State!Heard(roster', handling'[d]), known, s)
               /\ (\A d \in State!Conns : ~State!Handles(d, s)') => Same(roster', known, s)
    <2>1. \A d \in State!Conns : State!Handles(d, s) => /\ ~State!Handles(State!Other(d), s)
                                                        /\ Same(State!Heard(roster, handling[d]), known, s)
      BY <1>2 DEF ToldInv
    <2>2. (\A d \in State!Conns : ~State!Handles(d, s)) => Same(roster, known, s)
      BY <1>2 DEF ToldInv
    <2>3. CASE s = m.who
      <3>1. State!Handles(c, s)
        BY <1>1, <2>3, ChangeKinds DEF State!Handles, m
      <3>2. \A d \in State!Conns : ~State!Handles(d, s)'
        BY <1>5, <2>1, <3>1, Others
      <3>3. Same(roster', known, s)
        BY <1>1, <2>1, <3>1 DEF m
      <3> QED
        BY <3>2, <3>3
    <2>4. CASE s # m.who
      <3>1. ~State!Handles(c, s)
        BY <2>4 DEF State!Handles, m
      <3>2. Alike(roster', roster, s)
        BY <1>1, <2>4, HeardElsewhere
      <3>3. ASSUME NEW d \in State!Conns, State!Handles(d, s)'
            PROVE  /\ ~State!Handles(State!Other(d), s)'
                   /\ Same(State!Heard(roster', handling'[d]), known, s)
        <4>1. State!Handles(d, s) /\ d # c /\ handling'[d] = handling[d]
          BY <1>3, <1>5, <3>3
        <4>2. handling[d] \in Changes /\ handling[d].who = s
          BY <1>2, <4>1 DEF State!Handles
        <4>3. Alike(State!Heard(roster', handling[d]), State!Heard(roster, handling[d]), s)
          BY <3>2, <4>2, HeardAlike
        <4>4. Same(State!Heard(roster, handling[d]), known, s) /\ ~State!Handles(State!Other(d), s)
          BY <2>1, <4>1
        <4> QED
          BY <1>5, <4>1, <4>3, <4>4, SameOfAlike, Others
      <3>4. (\A d \in State!Conns : ~State!Handles(d, s)') => Same(roster', known, s)
        BY <1>5, <2>2, <3>1, <3>2, SameOfAlike
      <3> QED
        BY <3>3, <3>4
    <2> QED
      BY <2>3, <2>4
  <1>7. ToldInv'
    BY <1>1, <1>2, <1>3, <1>6 DEF ToldInv
  <1> QED
    BY <1>4, <1>7 DEF RosterInv

\* A loop that ends in an await loses its broadcast.
LEMMA EndLoopStep ==
  ASSUME RosterBounds, RosterInv, NEW c \in State!Conns, State!EndLoop(c)
  PROVE  RosterInv'
  <1>1. /\ stateLoop' = [stateLoop EXCEPT ![c] = FALSE]
        /\ handling' = [handling EXCEPT ![c] = State!NoReport]
        /\ misreported' = misreported \cup State!Handled(c)
        /\ wire' = IF c = "old" THEN [wire EXCEPT ![c] = <<>>] ELSE wire
        /\ UNCHANGED <<truth, reports, responses, resumed, local, before, known, roster>>
    BY DEF State!EndLoop
  <1>2. RosterTyped /\ ToldInv /\ handling \in [State!Conns -> Changes \cup {State!NoReport}]
        /\ stateLoop \in [State!Conns -> BOOLEAN]
    BY DEF RosterInv, RosterTyped
  <1>3. /\ handling' \in [State!Conns -> Changes \cup {State!NoReport}] /\ handling'[c] = State!NoReport
        /\ \A d \in State!Conns : d # c => handling'[d] = handling[d] /\ stateLoop'[d] = stateLoop[d]
        /\ stateLoop' \in [State!Conns -> BOOLEAN]
    BY <1>1, <1>2
  <1>4. RosterTyped'
    <2>1. wire' \in [State!Conns -> Seq(Messages)]
      <3>1. <<>> \in Seq(Messages)
        OBVIOUS
      <3> QED
        BY <1>1, <1>2, <3>1 DEF RosterTyped
    <2>2. misreported' \subseteq Remotes
      <3>1. handling[c] # State!NoReport => handling[c].who \in Remotes
        BY <1>2, ChangeKinds
      <3> QED
        BY <1>1, <1>2, <3>1 DEF RosterTyped, State!Handled
    <2> QED
      BY <1>1, <1>2, <1>3, <2>1, <2>2 DEF RosterTyped
  <1>5. \A d \in State!Conns, s \in Remotes \ misreported' :
          /\ State!Handles(d, s)' <=> State!Handles(d, s)
          /\ State!Handles(d, s)' => handling'[d] = handling[d]
          /\ s \in Remotes \ misreported
    <2>1. \A s \in Remotes \ misreported' : ~State!Handles(c, s) /\ s \in Remotes \ misreported
      BY <1>1 DEF State!Handled, State!Handles
    <2> QED
      BY <1>3, <2>1 DEF State!Handles
  <1>6. ToldInv'
    <2>1. \A d \in State!Conns : handling'[d] # State!NoReport => stateLoop'[d]
      BY <1>2, <1>3 DEF ToldInv
    <2>2. ASSUME NEW s \in Remotes \ misreported'
          PROVE  /\ \A d \in State!Conns :
                      State!Handles(d, s)' => /\ ~State!Handles(State!Other(d), s)'
                                              /\ Same(State!Heard(roster', handling'[d]), known', s)
                 /\ (\A d \in State!Conns : ~State!Handles(d, s)') => Same(roster', known', s)
      <3>1. s \in Remotes \ misreported
        BY <1>1
      <3>2. \A d \in State!Conns : State!Handles(d, s) => /\ ~State!Handles(State!Other(d), s)
                                                          /\ Same(State!Heard(roster, handling[d]), known, s)
        BY <1>2, <3>1 DEF ToldInv
      <3>3. (\A d \in State!Conns : ~State!Handles(d, s)) => Same(roster, known, s)
        BY <1>2, <3>1 DEF ToldInv
      <3> QED
        BY <1>1, <1>5, <3>2, <3>3, Others
    <2> QED
      BY <2>1, <2>2 DEF ToldInv
  <1> QED
    BY <1>4, <1>6 DEF RosterInv

\* What a response hands to the two loops.
LEMMA OldAndNew ==
  ASSUME NEW T, NEW a \in T, NEW b \in T
  PROVE  [old |-> a, new |-> b] \in [State!Conns -> T]
  BY DEF State!Conns

\* A join response replaces the list and tells the differences.
LEMMA RespondStep ==
  ASSUME RosterBounds, RosterInv, NEW fast \in BOOLEAN, NEW rejoin \in BOOLEAN, NEW lingers \in BOOLEAN,
         NEW left \in SUBSET Remotes, State!Respond(fast, rejoin, lingers, left)
  PROVE  RosterInv'
  <1> DEFINE mine == [i \in 1..(MaxResponses + 1) |-> i]
             me == IF rejoin THEN local + 1 ELSE local
             own == {mine[me], mine[local]}
             others == DOMAIN truth \ left
             shownOwn == IF lingers THEN own ELSE {mine[me]}
             list == [s \in others \cup shownOwn |-> IF s \in others THEN truth[s] ELSE State!Default]
  <1>1. /\ responses < MaxResponses /\ ~stateLoop["old"] /\ responses' = responses + 1
        /\ local' = me /\ before' = local /\ resumed' = fast
        /\ known' = [s \in DOMAIN list |-> [info |-> list[s], paused |-> FALSE]]
        /\ roster' = State!Reported(list, own)
        /\ misreported' = misreported \cup State!Handled("new")
        /\ wire' = [old |-> IF stateLoop["new"] THEN wire["new"] ELSE <<>>, new |-> <<>>]
        /\ handling' = [old |-> handling["new"], new |-> State!NoReport]
        /\ stateLoop' = [old |-> stateLoop["new"], new |-> TRUE]
        /\ UNCHANGED <<truth, reports>>
    BY DEF State!Respond
  <1>2. RosterTyped /\ ToldInv /\ Partial(truth, Remotes, State!Info)
    BY DEF RosterInv, RosterTyped
  <1>3. /\ me \in 1..(MaxResponses + 1) /\ local \in 1..(MaxResponses + 1)
        /\ me \in 1..(responses + 2) /\ local \in 1..(responses + 2)
        /\ mine[me] = me /\ mine[local] = local /\ own = {me, local}
        /\ responses' \in 0..MaxResponses /\ responses + 2 = responses' + 1
        /\ own \cap Remotes = {} /\ own \subseteq State!Sessions
    <2>1. responses \in Nat /\ MaxResponses \in Nat /\ local \in 1..(responses + 1) /\ responses < MaxResponses
      BY <1>1, <1>2 DEF RosterTyped, RosterBounds
    <2>2. /\ me \in 1..(MaxResponses + 1) /\ local \in 1..(MaxResponses + 1)
          /\ me \in 1..(responses + 2) /\ local \in 1..(responses + 2)
          /\ responses + 1 \in 0..MaxResponses /\ responses + 2 = (responses + 1) + 1
      BY <2>1
    <2>3. mine[me] = me /\ mine[local] = local
      BY <2>2
    <2>4. own \subseteq State!Sessions
      BY <2>2, <2>3 DEF State!Sessions, State!Range
    <2>5. me \in Nat /\ local \in Nat
      BY <2>2
    <2> QED
      BY <1>1, <2>2, <2>3, <2>4, <2>5 DEF RosterBounds
  <1> HIDE DEF mine, me
  <1>4. /\ DOMAIN list = others \cup shownOwn /\ shownOwn \subseteq own /\ others \subseteq Remotes
        /\ \A s \in DOMAIN list : list[s] \in State!Info
    <2>1. State!Default \in State!Info
      BY DEF State!Default, State!Info
    <2> QED
      BY <1>2, <2>1 DEF Partial
  <1> HIDE DEF own, others, shownOwn, list
  <1>5. /\ DOMAIN known' = DOMAIN list
        /\ \A s \in DOMAIN list : known'[s].info = list[s] /\ known'[s] \in State!Entry
    BY <1>1, <1>4 DEF State!Entry
  <1>6. Partial(known', State!Sessions, State!Entry)
    BY <1>3, <1>4, <1>5 DEF Partial, State!Sessions
  <1> DEFINE news == (State!New(list) \cup State!Changed(list)) \ own
             absent == State!Gone(list) \ own
  <1>7. /\ DOMAIN roster' = (DOMAIN roster \cup news) \ absent
        /\ \A s \in DOMAIN roster' : roster'[s] = IF s \in news THEN list[s] ELSE roster[s]
    BY <1>1 DEF State!Reported
  <1>8. news \subseteq DOMAIN list \ own
    BY DEF State!New, State!Changed
  <1>9. Partial(roster', Remotes, State!Info)
    <2>1. Partial(roster, Remotes, State!Info)
      BY <1>2 DEF RosterTyped
    <2> HIDE DEF news, absent
    <2> QED
      BY <1>4, <1>7, <1>8, <2>1 DEF Partial
  <1>10. ASSUME NEW s \in Remotes, Same(roster, known, s)
         PROVE  Same(roster', known', s)
    <2>1. s \notin own
      BY <1>3
    <2>2. s \in news <=> s \in DOMAIN list /\ (s \in DOMAIN known => ~State!SameBut(known[s].info, list[s]))
      BY <2>1 DEF State!New, State!Changed
    <2>3. s \in absent <=> s \in DOMAIN known /\ s \notin DOMAIN list
      BY <2>1 DEF State!Gone
    <2> HIDE DEF news, absent
    <2>4. s \in DOMAIN roster' <=> s \in DOMAIN known'
      BY <1>5, <1>7, <1>10, <2>2, <2>3 DEF Same
    <2>5. ASSUME s \in DOMAIN roster' PROVE State!SameBut(roster'[s], known'[s].info)
      <3>1. s \in DOMAIN list /\ known'[s].info = list[s]
        BY <1>5, <2>4, <2>5
      <3>2. CASE s \in news
        BY <1>7, <2>5, <3>1, <3>2 DEF State!SameBut
      <3>3. CASE s \notin news
        BY <1>7, <1>10, <2>2, <2>5, <3>1, <3>3 DEF Same, State!SameBut
      <3> QED
        BY <3>2, <3>3
    <2> QED
      BY <2>4, <2>5 DEF Same
  <1> HIDE DEF news, absent
  <1>11. /\ handling["old"] = State!NoReport /\ handling["new"] \in Changes \cup {State!NoReport}
         /\ handling'["old"] = handling["new"] /\ handling'["new"] = State!NoReport
    BY <1>1, <1>2 DEF RosterTyped, ToldInv, State!Conns
  <1>12. ASSUME NEW s \in Remotes \ misreported'
         PROVE  /\ \A d \in State!Conns : ~State!Handles(d, s)'
                /\ Same(roster', known', s)
    <2>1. s \in Remotes \ misreported /\ ~State!Handles("new", s)
      BY <1>1, <1>12 DEF State!Handled, State!Handles
    <2>2. \A d \in State!Conns : ~State!Handles(d, s) /\ ~State!Handles(d, s)'
      BY <1>11, <2>1 DEF State!Conns, State!Handles
    <2>3. Same(roster, known, s)
      BY <1>2, <2>1, <2>2 DEF ToldInv
    <2> QED
      BY <1>10, <2>2, <2>3
  <1>13. RosterTyped'
    <2>1. stateLoop' \in [State!Conns -> BOOLEAN]
      BY <1>1, <1>2, OldAndNew DEF RosterTyped, State!Conns
    <2>2. handling' \in [State!Conns -> Changes \cup {State!NoReport}]
      BY <1>1, <1>11, OldAndNew
    <2>3. wire' \in [State!Conns -> Seq(Messages)]
      <3>1. <<>> \in Seq(Messages) /\ wire["new"] \in Seq(Messages)
        BY <1>2 DEF RosterTyped, State!Conns
      <3> QED
        BY <1>1, <3>1, OldAndNew
    <2>4. misreported' \subseteq Remotes
      <3>1. handling["new"] # State!NoReport => handling["new"].who \in Remotes
        BY <1>11, ChangeKinds
      <3> QED
        BY <1>1, <1>2, <3>1 DEF RosterTyped, State!Handled
    <2>5. Partial(truth', Remotes, State!Info)
      BY <1>1, <1>2
    <2>6. /\ local' \in 1..(responses' + 1) /\ before' \in 1..(responses' + 1) /\ resumed' \in BOOLEAN
          /\ responses' \in 0..MaxResponses /\ reports' \in 0..MaxReports
      BY <1>1, <1>2, <1>3 DEF RosterTyped
    <2> QED
      BY <1>6, <1>9, <2>1, <2>2, <2>3, <2>4, <2>5, <2>6 DEF RosterTyped
  <1>14. ToldInv'
    <2>1. \A d \in State!Conns : handling'[d] # State!NoReport => stateLoop'[d]
      BY <1>1, <1>2, <1>11 DEF ToldInv, State!Conns
    <2> QED
      BY <1>12, <2>1 DEF ToldInv
  <1> QED
    BY <1>13, <1>14 DEF RosterInv

LEMMA RosterStep ==
  ASSUME RosterBounds, RosterInv, [State!Next]_showing
  PROVE  RosterInv'
  <1>1. CASE State!Next
    BY <1>1, SfuTellsStep, HandleStep, BroadcastStep, EndLoopStep, RespondStep DEF State!Next
  <1>2. CASE UNCHANGED showing
    BY <1>2 DEF showing, RosterInv, RosterTyped, ToldInv, State!Handles
  <1> QED
    BY <1>1, <1>2

LEMMA RosterInvIsEnough ==
  ASSUME RosterBounds, RosterInv
  PROVE  State!TypeOK /\ State!RosterFollows
  <1>1. RosterTyped /\ ToldInv
    BY DEF RosterInv
  <1> DEFINE mine == [i \in 1..(MaxResponses + 1) |-> i]
  <1>2. /\ local \in 1..(MaxResponses + 1) /\ before \in 1..(MaxResponses + 1)
        /\ mine[local] \in Nat /\ mine[before] \in Nat /\ DOMAIN mine = 1..(MaxResponses + 1)
    <2>1. /\ responses \in 0..MaxResponses /\ MaxResponses \in Nat
          /\ local \in 1..(responses + 1) /\ before \in 1..(responses + 1)
      BY <1>1 DEF RosterTyped, RosterBounds
    <2>2. local \in 1..(MaxResponses + 1) /\ before \in 1..(MaxResponses + 1)
      BY <2>1
    <2> QED
      BY <2>2
  <1>3. State!TypeOK
    <2>1. \A c \in State!Conns : handling[c] = State!NoReport \/ handling[c].type \in State!Reports
      BY <1>1, ChangeKinds DEF RosterTyped, State!Reports
    <2>2. ASSUME NEW f, NEW S, NEW T, Partial(f, S, T) PROVE State!IsPartial(f, S, T)
      BY <2>2 DEF Partial, State!IsPartial, State!Range
    <2>3. /\ State!IsPartial(truth, Remotes, State!Info)
          /\ State!IsPartial(known, State!Sessions, State!Entry)
          /\ State!IsPartial(roster, State!Sessions, State!Info)
      <3>1. Partial(roster, State!Sessions, State!Info)
        BY <1>1 DEF RosterTyped, Partial, State!Sessions
      <3> QED
        BY <1>1, <2>2, <3>1 DEF RosterTyped
    <2>4. /\ reports \in 0..MaxReports /\ responses \in 0..MaxResponses /\ resumed \in BOOLEAN
          /\ stateLoop \in [State!Conns -> BOOLEAN] /\ misreported \subseteq Remotes
      BY <1>1 DEF RosterTyped
    <2>5. local \in DOMAIN mine /\ before \in DOMAIN mine
      BY <1>2
    <2> QED
      BY <2>1, <2>3, <2>4, <2>5 DEF State!TypeOK
  <1>4. {mine[local], mine[before]} \cap DOMAIN roster = {}
    BY <1>1, <1>2 DEF RosterTyped, Partial, RosterBounds
  <1>5. State!RosterFollows
    BY <1>1, <1>4 DEF ToldInv, Same, State!RosterFollows
  <1> QED
    BY <1>3, <1>5

LEMMA SuiteRunsState == Suite => State!Init /\ [][State!Next]_showing
  <1>1. SuiteInit => State!Init
    BY DEF SuiteInit
  <1>2. [SuiteNext]_<<part, vars, tracing, coordinatorVars, peerVars, sfuLinking, showing>>
        => [State!Next]_showing
    BY DEF SuiteNext
  <1> QED
    BY <1>1, <1>2, PTL DEF Suite

\* An application that folds the events shows the remote participants the call
\* knows, with their data and tracks, except one whose event waits for its
\* broadcast or was lost or overtaken in such a wait, and it never hears of the
\* two local sessions of a REJOIN.
THEOREM EventsTellWhoIsThere ==
  ASSUME RosterBounds
  PROVE  Suite => []RosterFollows
  <1>1. State!Init => RosterInv
    BY RosterStart
  <1>2. RosterInv /\ [State!Next]_showing => RosterInv'
    BY RosterStep
  <1>3. RosterInv => RosterFollows
    BY RosterInvIsEnough DEF RosterFollows
  <1> QED
    BY <1>1, <1>2, <1>3, SuiteRunsState, PTL

=============================================================================
