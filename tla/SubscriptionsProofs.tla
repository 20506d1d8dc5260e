------------------------ MODULE SubscriptionsProofs -------------------------
(***************************************************************************)
(* What the client, the SFU and the user know of the subscriptions of a    *)
(* generation, for any number of sessions, connections, requests that      *)
(* cross, tracks that are dropped and reconnects.                          *)
(***************************************************************************)
EXTENDS MCRequests, FiniteSetTheorems, TLAPS

Kinds4 == {"upsert", "left", "published", "unpublished"}
Messages == [kind : Kinds4, session : Sessions, tracks : SUBSET Types]

\* None is neither a track nor a list of events, and the policies are policies.
SubsBounds ==
    /\ IsFiniteSet(Sessions) /\ "video" \in Types
    /\ None \notin Types \cup {"migrate", "rejoin", "fast"} /\ None \notin Seq(Messages)
    /\ Policies \subseteq Subs!Policy /\ MaxEpochs \in Nat \ {0} /\ MaxSpent \in Nat

Worlds == [Sessions -> (SUBSET Types) \cup {Subs!Absent}]
Participants == [session : Sessions, tracks : SUBSET Types]
Phases == [at : {"idle", "joining", "answered", "closing", "installed", "restoring", "recomputing",
                 "restored", "failed"},
           kind : {None, "migrate", "rejoin", "fast"}, old : 0..MaxEpochs]
Asked == [by : Subs!Procs, to : Subs!Epochs, session : Subs!Epochs, list : SUBSET Subs!Keys,
          applied : BOOLEAN]

\* A list of participants has each session once.
Once(list) == \A i, j \in 1..Len(list) : list[i].session = list[j].session => i = j

CallTyped ==
    /\ world \in Worlds /\ participants \in Seq(Participants) /\ Once(participants)
    /\ wire \in [Subs!Epochs -> Seq(Messages)] /\ fastWire \in Seq(Messages) \cup {None}
    /\ policy \in Subs!Policy /\ subsActive \in BOOLEAN /\ manualUnsub \subseteq Subs!Keys

LinkTyped ==
    /\ conn \in Subs!Epochs /\ phase \in Phases
    /\ session \in [Subs!Epochs -> Subs!Epochs] /\ enabled \in [Subs!Epochs -> BOOLEAN]
    /\ delivered \in [Subs!Keys -> 0..MaxEpochs] /\ track \in [Subs!Epochs \X Subs!Keys -> Subs!Places]

\* A computation that waits for an answer has one request, and no other has any.
RequestsTyped ==
    /\ doing \in [Subs!Procs -> {"off", "idle", "compute", "rpc"}]
    /\ rpcs \subseteq Asked /\ sfu \in [Subs!Epochs -> SUBSET Subs!Keys] /\ activeSubs \subseteq Subs!Keys
    /\ \A p \in Subs!Procs : doing[p] = "rpc" <=> \E r \in rpcs : r.by = p
    /\ \A r, q \in rpcs : r.by = q.by => r = q

SubsTyped == CallTyped /\ LinkTyped /\ RequestsTyped

\* The epochs after the one in the slot have not begun, but for the one whose SFU
\* answered; no request goes to them.
FreshInv ==
    /\ \A e \in Subs!Epochs : e > conn =>
        /\ sfu[e] = {} /\ \A k \in Subs!Keys : track[<<e, k>>] = "none"
        /\ phase.at # "answered" \/ phase.kind = "fast" \/ e # conn + 1 =>
               doing[Subs!Loop(e)] = "off" /\ wire[e] = <<>>
    /\ \A r \in rpcs : r.to <= conn /\ session[r.to] = r.session

\* Where a reconnect is, and its computation; a connection that is to be closed is
\* not the one in the slot.
PhaseInv ==
    /\ doing[Subs!Restore] # "idle" => phase.at = "recomputing"
    /\ phase.at = "joining" \/ (phase.at = "answered" /\ phase.kind # "fast") => conn + 1 \in Subs!Epochs
    /\ phase.at = "answered" /\ phase.kind = "fast" => fastWire \in Seq(Messages)
    /\ phase.at = "closing" \/ (phase.kind = "migrate" /\ phase.at \notin {"joining", "answered"}) =>
           phase.old \in Subs!Epochs /\ phase.old < conn
    /\ phase.at \in {"joining", "answered"} => phase.old = conn
    /\ phase.at = "joining" => phase.kind = "migrate"

\* The task of a dropped track computes once it has unsubscribed.
DropperInv ==
    \A e \in Subs!Epochs, k \in Subs!Keys :
        doing[Subs!Dropper(e, k)] # "idle" => track[<<e, k>>] = "unsubscribed"

\* A connection without doubt has one request at most, and the belief of the client
\* is what its SFU has until the SFU takes that request.
AgreeInv ==
    Subs!Settled /\ conn \notin doubt =>
        /\ \A r, q \in rpcs : r.to = conn /\ q.to = conn => r = q
        /\ \A r \in rpcs : r.to = conn /\ r.applied => sfu[conn] = r.list
        /\ (\A r \in rpcs : r.to = conn => ~r.applied) => activeSubs = sfu[conn]

\* A change is followed by a computation that has not begun.  Those of the event
\* loops of other connections may be aborted before.
Pending ==
    \/ \E p \in Subs!Procs : doing[p] = "compute" /\ \A e \in Subs!Epochs : p = Subs!Loop(e) => e = conn
    \/ \E k \in Subs!Keys : track[<<conn, k>>] = "unsubscribed" /\ doing[Subs!Dropper(conn, k)] = "idle"

\* What was asked for, or is being asked for, is what is wanted.
WantedInv ==
    subsActive /\ ~late /\ ~raced /\ phase.at \in {"idle", "recomputing", "restored"} /\ ~Pending =>
        /\ \A r \in rpcs : r.to = conn /\ r.list = Subs!Wanted /\ rpcs = {r}
        /\ rpcs = {} => conn \in doubt \/ activeSubs = Subs!Wanted

\* What is asked for, or subscribed to, and has not arrived yet was not dropped.
HeldInv ==
    /\ Subs!HeldIsWanted
    /\ \A k \in Subs!Keys :
        /\ track[<<conn, k>>] = "none"
        /\ k \in sfu[conn] \/ \E r \in rpcs : r.to = conn /\ k \in r.list
        => k \notin manualUnsub

\* What a list of participants shows of the call, and what an event makes of it.
SeenIn(list, s) ==
    IF Subs!Lists(list, s)
    THEN UNION {list[i].tracks : i \in {j \in DOMAIN list : list[j].session = s}}
    ELSE Subs!Absent
View == [s \in Sessions |-> SeenIn(participants, s)]
Shown(ev, seen) ==
    CASE ev.kind = "upsert" -> ev.tracks
      [] ev.kind = "left" -> Subs!Absent
      [] ev.kind = "published" -> (IF seen = Subs!Absent THEN {} ELSE seen) \cup ev.tracks
      [] ev.kind = "unpublished" -> IF seen = Subs!Absent THEN Subs!Absent ELSE seen \ ev.tracks
After(ev, view) == [view EXCEPT ![ev.session] = Shown(ev, @)]

\* The events of q, one after the other, make b of a.
LeadsTo(a, q, b) ==
    \E views \in [0..Len(q) -> Worlds] :
        /\ views[0] = a /\ views[Len(q)] = b
        /\ \A i \in 1..Len(q) : views[i] = After(q[i], views[i - 1])

\* The events on the way on the socket that is listened to make the call of what
\* the participants show.
FollowInv ==
    ~late =>
        IF phase.at = "answered" /\ phase.kind = "fast" THEN LeadsTo(View, fastWire, world)
        ELSE LET e == IF phase.at = "answered" THEN conn + 1 ELSE conn
             IN  Subs!Listening(e) => LeadsTo(View, wire[e], world)

\* The inductive invariant.
SubsInv == SubsTyped /\ FreshInv /\ PhaseInv /\ DropperInv /\ AgreeInv /\ WantedInv /\ HeldInv /\ FollowInv

-----------------------------------------------------------------------------
(* Views and events. *)

LEMMA AfterIsWorld ==
  ASSUME NEW ev \in Messages, NEW v \in Worlds
  PROVE  After(ev, v) \in Worlds
  BY DEF After, Shown, Messages, Kinds4, Worlds

LEMMA NoEvents ==
  ASSUME NEW a \in Worlds, NEW b
  PROVE  LeadsTo(a, <<>>, b) <=> a = b
  <1>1. ASSUME LeadsTo(a, <<>>, b) PROVE a = b
    BY <1>1 DEF LeadsTo
  <1>2. ASSUME a = b PROVE LeadsTo(a, <<>>, b)
    <2> DEFINE views == [i \in 0..Len(<<>>) |-> a]
    <2>1. views \in [0..Len(<<>>) -> Worlds] /\ views[0] = a /\ views[Len(<<>>)] = b
      BY <1>2
    <2>2. \A i \in 1..Len(<<>>) : views[i] = After(<<>>[i], views[i - 1])
      OBVIOUS
    <2> HIDE DEF views
    <2> QED BY <2>1, <2>2 DEF LeadsTo
  <1> QED BY <1>1, <1>2

LEMMA EventTaken ==
  ASSUME NEW a \in Worlds, NEW q \in Seq(Messages), q # <<>>, NEW b, LeadsTo(a, q, b)
  PROVE  LeadsTo(After(Head(q), a), Tail(q), b)
  <1>1. PICK views \in [0..Len(q) -> Worlds] :
            /\ views[0] = a /\ views[Len(q)] = b
            /\ \A i \in 1..Len(q) : views[i] = After(q[i], views[i - 1])
    BY DEF LeadsTo
  <1>2. Len(q) \in Nat \ {0} /\ Tail(q) \in Seq(Messages) /\ Len(Tail(q)) = Len(q) - 1 /\ Head(q) = q[1]
        /\ \A i \in 1..(Len(q) - 1) : Tail(q)[i] = q[i + 1]
    OBVIOUS
  <1> DEFINE rest == [i \in 0..(Len(q) - 1) |-> views[i + 1]]
  <1>3. rest \in [0..(Len(q) - 1) -> Worlds]
    BY <1>1, <1>2
  <1>4. rest[0] = After(Head(q), a) /\ rest[Len(q) - 1] = b
    BY <1>1, <1>2
  <1>5. ASSUME NEW i \in 1..(Len(q) - 1) PROVE rest[i] = After(Tail(q)[i], rest[i - 1])
    <2>1. rest[i] = views[i + 1] /\ rest[i - 1] = views[i] /\ Tail(q)[i] = q[i + 1] /\ i + 1 \in 1..Len(q)
          /\ (i + 1) - 1 = i
      BY <1>2
    <2> QED BY <2>1, <1>1
  <1> HIDE DEF rest
  <1> QED BY <1>2, <1>3, <1>4, <1>5 DEF LeadsTo

LEMMA EventAdded ==
  ASSUME NEW a \in Worlds, NEW q \in Seq(Messages), NEW b \in Worlds, LeadsTo(a, q, b), NEW ev \in Messages
  PROVE  LeadsTo(a, Append(q, ev), After(ev, b))
  <1>1. PICK views \in [0..Len(q) -> Worlds] :
            /\ views[0] = a /\ views[Len(q)] = b
            /\ \A i \in 1..Len(q) : views[i] = After(q[i], views[i - 1])
    BY DEF LeadsTo
  <1> DEFINE n == Len(q)
             more == [i \in 0..(n + 1) |-> IF i = n + 1 THEN After(ev, b) ELSE views[i]]
  <1>2. n \in Nat /\ Len(Append(q, ev)) = n + 1 /\ Append(q, ev)[n + 1] = ev
        /\ \A i \in 1..n : Append(q, ev)[i] = q[i]
    OBVIOUS
  <1>3. After(ev, b) \in Worlds
    BY AfterIsWorld
  <1>4. more \in [0..(n + 1) -> Worlds] /\ more[0] = a /\ more[n + 1] = After(ev, b)
    BY <1>1, <1>2, <1>3
  <1>5. ASSUME NEW i \in 1..(n + 1) PROVE more[i] = After(Append(q, ev)[i], more[i - 1])
    <2>1. CASE i = n + 1
      <3>1. more[i] = After(ev, b) /\ more[i - 1] = views[n] /\ Append(q, ev)[i] = ev
        BY <2>1, <1>2
      <3> QED BY <3>1, <1>1
    <2>2. CASE i # n + 1
      <3>1. i \in 1..n /\ more[i] = views[i] /\ more[i - 1] = views[i - 1] /\ Append(q, ev)[i] = q[i]
        BY <2>2, <1>2
      <3> QED BY <3>1, <1>1
    <2> QED BY <2>1, <2>2
  <1> HIDE DEF more
  <1> QED BY <1>2, <1>4, <1>5 DEF LeadsTo

-----------------------------------------------------------------------------
(* Lists of participants. *)

LEMMA SeenAt ==
  ASSUME NEW list \in Seq(Participants), Once(list), NEW i \in 1..Len(list)
  PROVE  Subs!Lists(list, list[i].session) /\ SeenIn(list, list[i].session) = list[i].tracks
  <1>1. {j \in DOMAIN list : list[j].session = list[i].session} = {i}
    BY DEF Once
  <1> QED BY <1>1 DEF SeenIn, Subs!Lists

LEMMA SeenNowhere ==
  ASSUME NEW list \in Seq(Participants), NEW s, \A i \in 1..Len(list) : list[i].session # s
  PROVE  ~Subs!Lists(list, s) /\ SeenIn(list, s) = Subs!Absent
  BY DEF SeenIn, Subs!Lists

\* Two lists show the same of a session that each of them has with the same tracks,
\* or none of them.
LEMMA SeenAlike ==
  ASSUME NEW list \in Seq(Participants), NEW new \in Seq(Participants), Once(list), Once(new), NEW s,
         \A i \in 1..Len(list) : list[i].session = s =>
             \E j \in 1..Len(new) : new[j] = list[i],
         \A j \in 1..Len(new) : new[j].session = s => \E i \in 1..Len(list) : list[i].session = s
  PROVE  SeenIn(new, s) = SeenIn(list, s)
  <1>1. CASE \E i \in 1..Len(list) : list[i].session = s
    <2>1. PICK i \in 1..Len(list) : list[i].session = s
      BY <1>1
    <2>2. PICK j \in 1..Len(new) : new[j] = list[i]
      BY <2>1
    <2>3. SeenIn(list, s) = list[i].tracks
      BY <2>1, SeenAt
    <2>4. SeenIn(new, s) = new[j].tracks
      BY <2>1, <2>2, SeenAt
    <2> QED BY <2>2, <2>3, <2>4
  <1>2. CASE ~\E i \in 1..Len(list) : list[i].session = s
    <2>1. \A j \in 1..Len(new) : new[j].session # s
      BY <1>2
    <2> QED BY <1>2, <2>1, SeenNowhere
  <1> QED BY <1>1, <1>2

LEMMA UpsertedSees ==
  ASSUME NEW list \in Seq(Participants), Once(list), NEW s \in Sessions, NEW tracks \in SUBSET Types
  PROVE  /\ Subs!Upserted(list, s, tracks) \in Seq(Participants) /\ Once(Subs!Upserted(list, s, tracks))
         /\ \A x : SeenIn(Subs!Upserted(list, s, tracks), x) = IF x = s THEN tracks ELSE SeenIn(list, x)
  <1>1. CASE Subs!Lists(list, s)
    <2>1. PICK k \in 1..Len(list) : list[k].session = s
      BY <1>1 DEF Subs!Lists
    <2> DEFINE new == [i \in 1..Len(list) |-> IF list[i].session = s THEN [list[i] EXCEPT !.tracks = tracks]
                                              ELSE list[i]]
    <2>2. Subs!Upserted(list, s, tracks) = new
      BY <1>1 DEF Subs!Upserted
    <2>3. /\ new \in Seq(Participants) /\ Len(new) = Len(list)
          /\ \A i \in 1..Len(list) : new[i].session = list[i].session
          /\ \A i \in 1..Len(list) : list[i].session # s => new[i] = list[i]
          /\ new[k].tracks = tracks
      <3>1. \A i \in 1..Len(list) : list[i] \in Participants
        OBVIOUS
      <3>2. ASSUME NEW i \in 1..Len(list)
            PROVE  /\ new[i] \in Participants /\ new[i].session = list[i].session
                   /\ list[i].session # s => new[i] = list[i]
                   /\ list[i].session = s => new[i].tracks = tracks
        <4>1. list[i] \in Participants
          BY <3>1
        <4>2. CASE list[i].session = s
          <5>1. new[i] = [list[i] EXCEPT !.tracks = tracks]
            BY <4>2
          <5> QED BY <4>1, <4>2, <5>1 DEF Participants
        <4>3. CASE list[i].session # s
          BY <4>1, <4>3
        <4> QED BY <4>2, <4>3
      <3>3. new \in Seq(Participants) /\ Len(new) = Len(list)
        BY <3>2
      <3> HIDE DEF new
      <3> QED BY <2>1, <3>2, <3>3
    <2> HIDE DEF new
    <2>4. Once(new)
      BY <2>3 DEF Once
    <2>5. SeenIn(new, s) = tracks
      BY <2>1, <2>3, <2>4, SeenAt
    <2>6. ASSUME NEW x, x # s PROVE SeenIn(new, x) = SeenIn(list, x)
      <3>1. \A i \in 1..Len(list) : list[i].session = x => \E j \in 1..Len(new) : new[j] = list[i]
        BY <2>3, <2>6
      <3>2. \A j \in 1..Len(new) : new[j].session = x => \E i \in 1..Len(list) : list[i].session = x
        BY <2>3
      <3> QED BY <2>3, <2>4, <3>1, <3>2, SeenAlike
    <2> QED BY <2>2, <2>3, <2>4, <2>5, <2>6
  <1>2. CASE ~Subs!Lists(list, s)
    <2> DEFINE entry == [session |-> s, tracks |-> tracks]
               new == Append(list, entry)
    <2>1. \A i \in 1..Len(list) : list[i].session # s
      BY <1>2 DEF Subs!Lists
    <2>2. Subs!Upserted(list, s, tracks) = new
      BY <1>2 DEF Subs!Upserted
    <2>3. entry \in Participants /\ entry.session = s /\ entry.tracks = tracks
      BY DEF Participants
    <2> HIDE DEF entry
    <2>4. new \in Seq(Participants) /\ Len(new) = Len(list) + 1 /\ new[Len(list) + 1] = entry
          /\ \A i \in 1..Len(list) : new[i] = list[i]
      BY <2>3
    <2> HIDE DEF new
    <2>5. Once(new)
      BY <2>1, <2>3, <2>4 DEF Once
    <2>6. SeenIn(new, s) = tracks
      BY <2>3, <2>4, <2>5, SeenAt
    <2>7. ASSUME NEW x, x # s PROVE SeenIn(new, x) = SeenIn(list, x)
      <3>1. \A i \in 1..Len(list) : list[i].session = x => \E j \in 1..Len(new) : new[j] = list[i]
        BY <2>4
      <3>2. \A j \in 1..Len(new) : new[j].session = x => \E i \in 1..Len(list) : list[i].session = x
        BY <2>3, <2>4, <2>7
      <3> QED BY <2>4, <2>5, <3>1, <3>2, SeenAlike
    <2> QED BY <2>2, <2>4, <2>5, <2>6, <2>7
  <1> QED BY <1>1, <1>2

LEMMA JoinedLists ==
  ASSUME NEW p \in Seq(Participants), NEW q \in Seq(Participants)
  PROVE  /\ p \o q \in Seq(Participants)
         /\ Len(p \o q) = Len(p) + Len(q)
         /\ \A i \in 1..Len(p) : (p \o q)[i] = p[i]
         /\ \A i \in 1..Len(q) : (p \o q)[Len(p) + i] = q[i]
  OBVIOUS

LEMMA RemovedSees ==
  ASSUME NEW list \in Seq(Participants), Once(list), NEW s \in Sessions
  PROVE  /\ Subs!Removed(list, s) \in Seq(Participants) /\ Once(Subs!Removed(list, s))
         /\ \A x : SeenIn(Subs!Removed(list, s), x) = IF x = s THEN Subs!Absent ELSE SeenIn(list, x)
  <1>1. CASE ~Subs!Lists(list, s)
    <2>1. Subs!Removed(list, s) = list /\ SeenIn(list, s) = Subs!Absent
      BY <1>1 DEF Subs!Removed, SeenIn
    <2> QED BY <2>1
  <1>2. CASE Subs!Lists(list, s)
    <2> DEFINE k == Subs!Place(list, s)
               n == Len(list)
               new == Subs!Removed(list, s)
    <2>1. k \in 1..n /\ list[k].session = s /\ n \in Nat
      BY <1>2 DEF Subs!Lists, Subs!Place
    <2>2. new = SubSeq(list, 1, k - 1) \o SubSeq(list, k + 1, n)
      BY <1>2 DEF Subs!Removed, Subs!RemoveAt
    <2> HIDE DEF k, n, new
    <2>3. n = Len(list)
      BY DEF n
    <2>4. SubSeq(list, 1, k - 1) \in Seq(Participants) /\ Len(SubSeq(list, 1, k - 1)) = k - 1
          /\ \A i \in 1..(k - 1) : SubSeq(list, 1, k - 1)[i] = list[i]
      BY <2>1, <2>3
    <2>5. SubSeq(list, k + 1, n) \in Seq(Participants) /\ Len(SubSeq(list, k + 1, n)) = n - k
          /\ \A i \in 1..(n - k) : SubSeq(list, k + 1, n)[i] = list[k + i]
      BY <2>1, <2>3
    <2>6. /\ new \in Seq(Participants) /\ Len(new) = n - 1
          /\ \A i \in 1..(k - 1) : new[i] = list[i]
          /\ \A i \in k..(n - 1) : new[i] = list[i + 1]
      <3> DEFINE p == SubSeq(list, 1, k - 1)
                 q == SubSeq(list, k + 1, n)
      <3>1. p \in Seq(Participants) /\ q \in Seq(Participants) /\ Len(p) = k - 1 /\ Len(q) = n - k /\ new = p \o q
        BY <2>2, <2>4, <2>5
      <3>2. \A i \in 1..(k - 1) : p[i] = list[i]
        BY <2>4
      <3>3. \A i \in 1..(n - k) : q[i] = list[k + i]
        BY <2>5
      <3> HIDE DEF p, q
      <3>4. /\ new \in Seq(Participants) /\ Len(new) = n - 1
            /\ \A i \in 1..(k - 1) : new[i] = p[i]
            /\ \A i \in k..(n - 1) : new[i] = q[i - (k - 1)]
        <4>1. /\ p \o q \in Seq(Participants) /\ Len(p \o q) = Len(p) + Len(q)
              /\ \A i \in 1..Len(p) : (p \o q)[i] = p[i]
              /\ \A i \in 1..Len(q) : (p \o q)[Len(p) + i] = q[i]
          BY <3>1, JoinedLists
        <4>2. ASSUME NEW i \in k..(n - 1) PROVE new[i] = q[i - (k - 1)]
          <5>1. i - (k - 1) \in 1..Len(q) /\ Len(p) + (i - (k - 1)) = i
            BY <2>1, <3>1
          <5> QED BY <3>1, <4>1, <5>1
        <4> QED BY <2>1, <3>1, <4>1, <4>2
      <3>5. ASSUME NEW i \in k..(n - 1) PROVE new[i] = list[i + 1]
        <4>1. i - (k - 1) \in 1..(n - k) /\ k + (i - (k - 1)) = i + 1
          BY <2>1
        <4> QED BY <3>3, <3>4, <4>1
      <3> QED BY <3>2, <3>4, <3>5
    <2>7. \A i \in 1..(n - 1) : (i < k /\ new[i] = list[i]) \/ (i >= k /\ i + 1 \in 1..n /\ new[i] = list[i + 1])
      <3> SUFFICES ASSUME NEW i \in 1..(n - 1)
                   PROVE  (i < k /\ new[i] = list[i]) \/ (i >= k /\ i + 1 \in 1..n /\ new[i] = list[i + 1])
        OBVIOUS
      <3>1. CASE i < k
        BY <2>1, <2>6, <3>1
      <3>2. CASE i >= k
        <4>1. i \in k..(n - 1) /\ i + 1 \in 1..n
          BY <2>1, <3>2
        <4> QED BY <2>6, <3>2, <4>1
      <3> QED BY <2>1, <3>1, <3>2
    <2>8. Once(new)
      <3> SUFFICES ASSUME NEW i \in 1..(n - 1), NEW j \in 1..(n - 1), new[i].session = new[j].session
                   PROVE  i = j
        BY <2>6 DEF Once
      <3> QED BY <2>1, <2>3, <2>7 DEF Once
    <2>9. \A i \in 1..Len(new) : new[i].session # s
      BY <2>1, <2>3, <2>6, <2>7 DEF Once
    <2>10. SeenIn(new, s) = Subs!Absent
      BY <2>6, <2>9, SeenNowhere
    <2>11. ASSUME NEW x, x # s PROVE SeenIn(new, x) = SeenIn(list, x)
      <3>1. ASSUME NEW i \in 1..Len(list), list[i].session = x PROVE \E j \in 1..Len(new) : new[j] = list[i]
        <4>1. CASE i < k
          BY <2>1, <2>3, <2>6, <4>1
        <4>2. CASE i > k
          <5>1. i - 1 \in k..(n - 1) /\ (i - 1) + 1 = i /\ i - 1 \in 1..Len(new)
            BY <2>1, <2>3, <2>6, <4>2
          <5> QED BY <2>6, <5>1
        <4> QED BY <2>1, <2>11, <3>1, <4>1, <4>2
      <3>2. \A j \in 1..Len(new) : new[j].session = x => \E i \in 1..Len(list) : list[i].session = x
        BY <2>1, <2>3, <2>6, <2>7
      <3> QED BY <2>6, <2>8, <3>1, <3>2, SeenAlike
    <2> QED BY <2>6, <2>8, <2>10, <2>11 DEF new
  <1> QED BY <1>1, <1>2

LEMMA CardinalityIs == ASSUME NEW S PROVE Subs!Cardinality(S) = Cardinality(S)
  BY DEF Subs!Cardinality, Cardinality

LEMMA AnsweredSees ==
  ASSUME SubsBounds, world \in Worlds, NEW list, NEW new \in Subs!Answered(list)
  PROVE  /\ new \in Seq(Participants) /\ Once(new)
         /\ \A x \in Sessions : SeenIn(new, x) = world[x]
  <1> DEFINE present == {s \in Sessions : world[s] # Subs!Absent}
  <1>1. PICK order \in Subs!SetToSeqs(present) : new = Subs!Entries(order)
    BY DEF Subs!Answered
  <1>2. IsFiniteSet(present) /\ Cardinality(present) \in Nat
    <2>1. IsFiniteSet(present)
      BY FS_Subset DEF SubsBounds
    <2> QED BY <2>1, FS_CardinalityType
  <1> DEFINE n == Cardinality(present)
  <1> HIDE DEF present
  <1>3. order \in [1..n -> present] /\ \A i, j \in 1..n : i # j => order[i] # order[j]
    BY <1>1, CardinalityIs DEF Subs!SetToSeqs
  <1> DEFINE listed == {order[i] : i \in 1..n}
  <1>4. listed = present
    <2>1. listed \subseteq present
      BY <1>3
    <2>2. IsFiniteSet(1..n) /\ Cardinality(1..n) = n
      BY <1>2, FS_Interval
    <2>3. order \in Bijection(1..n, listed)
      BY <1>3 DEF Bijection, Injection, Surjection, IsInjective
    <2>4. Cardinality(listed) = n
      BY <1>2, <2>3, FS_CountingElements DEF ExistsBijection
    <2> HIDE DEF listed
    <2> QED BY <1>2, <2>1, <2>4, FS_Subset
  <1>5. \A s \in present : s \in Sessions /\ world[s] \in SUBSET Types /\ world[s] # Subs!Absent
    BY DEF present, Worlds
  <1>6. /\ new \in Seq(Participants) /\ Len(new) = n
        /\ \A i \in 1..n : new[i].session = order[i] /\ new[i].tracks = world[order[i]]
    <2> DEFINE entry(i) == [session |-> order[i], tracks |-> world[order[i]]]
    <2>1. new = [i \in 1..n |-> entry(i)]
      BY <1>1, <1>3 DEF Subs!Entries
    <2>2. \A i \in 1..n : entry(i).session = order[i] /\ entry(i).tracks = world[order[i]]
      OBVIOUS
    <2>3. ASSUME NEW i \in 1..n PROVE entry(i) \in Participants
      <3>1. order[i] \in present
        BY <1>3
      <3> QED BY <1>5, <3>1 DEF Participants
    <2> HIDE DEF entry
    <2>4. new \in Seq(Participants) /\ Len(new) = n
      BY <1>2, <2>1, <2>3
    <2>5. \A i \in 1..n : new[i] = entry(i)
      BY <2>1
    <2> QED BY <2>2, <2>4, <2>5
  <1>7. Once(new)
    BY <1>3, <1>6 DEF Once
  <1>8. ASSUME NEW x \in Sessions PROVE SeenIn(new, x) = world[x]
    <2>1. CASE x \in present
      <3>1. PICK i \in 1..n : order[i] = x
        BY <1>4, <2>1
      <3> QED BY <1>6, <1>7, <3>1, SeenAt
    <2>2. CASE x \notin present
      <3>1. world[x] = Subs!Absent
        BY <2>2 DEF present
      <3>2. \A i \in 1..Len(new) : new[i].session # x
        BY <1>3, <1>6, <2>2
      <3> QED BY <1>6, <3>1, <3>2, SeenNowhere
    <2> QED BY <2>1, <2>2
  <1> QED BY <1>6, <1>7, <1>8

-----------------------------------------------------------------------------
(* Processes, tracks, and what a step takes from them. *)

LEMMA ProcsAre ==
  /\ \A e \in Subs!Epochs : Subs!Loop(e) \in Subs!Procs /\ Len(Subs!Loop(e)) = 2
  /\ Subs!User \in Subs!Procs /\ Len(Subs!User) = 1 /\ Subs!Restore \in Subs!Procs /\ Len(Subs!Restore) = 1
  /\ Subs!User # Subs!Restore
  /\ \A e \in Subs!Epochs, k \in Subs!Keys :
        Subs!Dropper(e, k) \in Subs!Procs /\ Len(Subs!Dropper(e, k)) = 3
  BY DEF Subs!Procs, Subs!Loop, Subs!User, Subs!Restore, Subs!Dropper

LEMMA ProcsDiffer ==
  /\ \A e, f : Subs!Loop(e) = Subs!Loop(f) => e = f
  /\ \A e, f, k, l : Subs!Dropper(e, k) = Subs!Dropper(f, l) => e = f /\ k = l
  /\ \A e : Subs!Loop(e) # Subs!User /\ Subs!Loop(e) # Subs!Restore
  /\ \A e, f, k : Subs!Dropper(e, k) # Subs!Loop(f)
  /\ \A e, k : Subs!Dropper(e, k) # Subs!User /\ Subs!Dropper(e, k) # Subs!Restore
  BY DEF Subs!Loop, Subs!User, Subs!Restore, Subs!Dropper

LEMMA ProcIsOne ==
  ASSUME NEW p \in Subs!Procs
  PROVE  \/ \E e \in Subs!Epochs : p = Subs!Loop(e)
         \/ p = Subs!User \/ p = Subs!Restore
         \/ \E e \in Subs!Epochs, k \in Subs!Keys : p = Subs!Dropper(e, k)
  BY DEF Subs!Procs

\* The task of a dropped track waits; the other tracks stay where they are.
LEMMA TrackAfterIs ==
  ASSUME LinkTyped, NEW p \in Subs!Procs
  PROVE  /\ Subs!TrackAfter(p) \in [Subs!Epochs \X Subs!Keys -> Subs!Places]
         /\ \A e \in Subs!Epochs, k \in Subs!Keys :
                Subs!TrackAfter(p)[<<e, k>>] =
                    IF p = Subs!Dropper(e, k) THEN "waiting" ELSE track[<<e, k>>]
  <1>1. track \in [Subs!Epochs \X Subs!Keys -> Subs!Places] /\ "waiting" \in Subs!Places
    BY DEF LinkTyped, Subs!Places
  <1>2. ASSUME Len(p) # 3 PROVE Subs!TrackAfter(p) = track /\ \A e, k : p # Subs!Dropper(e, k)
    BY <1>2 DEF Subs!TrackAfter, Subs!Dropper
  <1>3. ASSUME NEW f \in Subs!Epochs, NEW l \in Subs!Keys, p = Subs!Dropper(f, l)
        PROVE  Subs!TrackAfter(p) = [track EXCEPT ![<<f, l>>] = "waiting"]
    BY <1>3 DEF Subs!TrackAfter, Subs!Dropper
  <1>4. ASSUME NEW f \in Subs!Epochs, NEW l \in Subs!Keys, p = Subs!Dropper(f, l),
               NEW e \in Subs!Epochs, NEW k \in Subs!Keys
        PROVE  Subs!TrackAfter(p)[<<e, k>>] = IF p = Subs!Dropper(e, k) THEN "waiting" ELSE track[<<e, k>>]
    <2>1. p = Subs!Dropper(e, k) <=> e = f /\ k = l
      BY <1>4, ProcsDiffer
    <2>2. <<e, k>> \in Subs!Epochs \X Subs!Keys /\ <<f, l>> \in Subs!Epochs \X Subs!Keys
      OBVIOUS
    <2> QED BY <1>1, <1>3, <1>4, <2>1, <2>2
  <1>5. CASE Len(p) # 3
    BY <1>1, <1>2, <1>5
  <1>6. CASE Len(p) = 3
    <2>1. PICK f \in Subs!Epochs, l \in Subs!Keys : p = Subs!Dropper(f, l)
      BY <1>6, ProcIsOne, ProcsAre
    <2> QED BY <1>1, <1>3, <1>4, <2>1
  <1> QED BY <1>5, <1>6

LEMMA GoesTo ==
  ASSUME RequestsTyped, NEW p \in Subs!Procs, NEW place \in {"off", "idle", "compute", "rpc"},
         Subs!Goes(p, place)
  PROVE  /\ doing' \in [Subs!Procs -> {"off", "idle", "compute", "rpc"}]
         /\ \A q \in Subs!Procs : doing'[q] = IF q = p THEN place ELSE doing[q]
  BY DEF RequestsTyped, Subs!Goes

\* A list of what is wanted has no track that was dropped.
LEMMA WantedIs ==
  ASSUME CallTyped
  PROVE  Subs!Wanted \subseteq Subs!Keys \ manualUnsub
  <1>1. policy.targets = None \/ policy.targets \subseteq Subs!Keys
    BY DEF CallTyped, Subs!Policy
  <1>2. Subs!TargetList \subseteq policy.targets \ manualUnsub
    BY DEF Subs!TargetList
  <1>3. Subs!PolicyList \subseteq Subs!Keys \ manualUnsub
    <2>1. ASSUME NEW i \in DOMAIN participants, NEW k \in Subs!RuleKeys(participants[i])
          PROVE  k \in Subs!Keys \ manualUnsub
      <3>1. participants[i] \in Participants
        BY DEF CallTyped
      <3>2. k \in {participants[i].session}
                    \X (participants[i].tracks \cap policy.rule[participants[i].session])
            /\ k \notin manualUnsub
        BY DEF Subs!RuleKeys
      <3>3. k[1] \in Sessions /\ k[2] \in Types /\ k = <<k[1], k[2]>>
        BY <3>1, <3>2 DEF Participants
      <3> QED BY <3>2, <3>3 DEF Subs!Keys
    <2> QED BY <2>1 DEF Subs!PolicyList
  <1> QED BY <1>1, <1>2, <1>3 DEF Subs!Wanted

LEMMA WantedStays ==
  ASSUME UNCHANGED <<participants, policy, manualUnsub>>
  PROVE  Subs!Wanted' = Subs!Wanted
  BY DEF Subs!Wanted, Subs!PolicyList, Subs!TargetList, Subs!RuleKeys, Subs!Earlier, Subs!Known, Subs!TracksOf

-----------------------------------------------------------------------------
(* The call and the events. *)

LEMMA ViewIs ==
  ASSUME SubsBounds, CallTyped
  PROVE  /\ View \in Worlds
         /\ \A s \in Sessions : Subs!TracksOf(s) \in SUBSET Types
         /\ \A s \in Sessions : Subs!Known(s) => View[s] = Subs!TracksOf(s) /\ View[s] # Subs!Absent
         /\ \A s \in Sessions : ~Subs!Known(s) => View[s] = Subs!Absent /\ Subs!TracksOf(s) = {}
  <1>1. \A i \in DOMAIN participants : participants[i] \in Participants
    BY DEF CallTyped
  <1>2. \A s \in Sessions : Subs!TracksOf(s) \in SUBSET Types
    BY <1>1 DEF Subs!TracksOf, Participants
  <1>3. \A t \in SUBSET Types : t # Subs!Absent
    BY DEF SubsBounds, Subs!Absent
  <1>4. ASSUME NEW s \in Sessions, Subs!Known(s) PROVE View[s] = Subs!TracksOf(s)
    BY <1>4 DEF View, SeenIn, Subs!Known, Subs!TracksOf
  <1>5. ASSUME NEW s \in Sessions, ~Subs!Known(s) PROVE View[s] = Subs!Absent /\ Subs!TracksOf(s) = {}
    BY <1>5 DEF View, SeenIn, Subs!Known, Subs!TracksOf, Subs!Lists
  <1>6. View \in Worlds
    <2>1. \A s \in Sessions : View[s] \in (SUBSET Types) \cup {Subs!Absent}
      BY <1>2, <1>4, <1>5
    <2> QED BY <2>1 DEF View, Worlds
  <1> QED BY <1>2, <1>3, <1>4, <1>5, <1>6

\* An event changes the participants as it changes what they show.
LEMMA AppliesSees ==
  ASSUME SubsBounds, CallTyped, NEW ev \in Messages, Subs!Applies(ev)
  PROVE  /\ participants' \in Seq(Participants) /\ Once(participants')
         /\ View' = After(ev, View)
         /\ manualUnsub' \subseteq manualUnsub
  <1> DEFINE s == ev.session
  <1>1. /\ participants \in Seq(Participants) /\ Once(participants)
        /\ s \in Sessions /\ ev.tracks \in SUBSET Types /\ ev.kind \in Kinds4
    BY DEF CallTyped, Messages
  <1> HIDE DEF s
  <1>2. /\ View \in Worlds /\ Subs!TracksOf(s) \in SUBSET Types
        /\ Subs!Known(s) => View[s] = Subs!TracksOf(s) /\ View[s] # Subs!Absent
        /\ ~Subs!Known(s) => View[s] = Subs!Absent /\ Subs!TracksOf(s) = {}
    BY <1>1, ViewIs
  <1>3. ASSUME NEW new, \A x : SeenIn(participants', x) = IF x = s THEN new ELSE SeenIn(participants, x)
        PROVE  View' = [View EXCEPT ![s] = new]
    <2>1. View' = [x \in Sessions |-> SeenIn(participants', x)]
      BY DEF View
    <2> QED BY <1>3, <2>1 DEF View
  <1>4. CASE ev.kind = "upsert"
    <2>1. participants' = Subs!Upserted(participants, s, ev.tracks) /\ manualUnsub' = manualUnsub
      BY <1>4 DEF Subs!Applies, s
    <2>2. /\ participants' \in Seq(Participants) /\ Once(participants')
          /\ \A x : SeenIn(participants', x) = IF x = s THEN ev.tracks ELSE SeenIn(participants, x)
      BY <1>1, <2>1, UpsertedSees
    <2>3. View' = [View EXCEPT ![s] = ev.tracks]
      BY <1>3, <2>2
    <2>4. View' = After(ev, View)
      BY <1>4, <2>3 DEF After, Shown, s
    <2> QED BY <2>1, <2>2, <2>4
  <1>5. CASE ev.kind = "left"
    <2>1. participants' = Subs!Removed(participants, s) /\ manualUnsub' = manualUnsub
      BY <1>5 DEF Subs!Applies, s
    <2>2. /\ participants' \in Seq(Participants) /\ Once(participants')
          /\ \A x : SeenIn(participants', x) = IF x = s THEN Subs!Absent ELSE SeenIn(participants, x)
      BY <1>1, <2>1, RemovedSees
    <2>3. View' = [View EXCEPT ![s] = Subs!Absent]
      BY <1>3, <2>2
    <2>4. View' = After(ev, View)
      BY <1>5, <2>3 DEF After, Shown, s
    <2> QED BY <2>1, <2>2, <2>4
  <1>6. CASE ev.kind = "published"
    <2>1. participants' = Subs!Upserted(participants, s, Subs!TracksOf(s) \cup ev.tracks)
          /\ manualUnsub' \subseteq manualUnsub
      BY <1>6 DEF Subs!Applies, s
    <2> DEFINE new == Subs!TracksOf(s) \cup ev.tracks
    <2>2. /\ participants' \in Seq(Participants) /\ Once(participants')
          /\ \A x : SeenIn(participants', x) = IF x = s THEN new ELSE SeenIn(participants, x)
      <3>1. new \in SUBSET Types
        BY <1>1, <1>2
      <3> QED BY <1>1, <2>1, <3>1, UpsertedSees
    <2>3. View' = [View EXCEPT ![s] = new]
      BY <1>3, <2>2
    <2>4. Shown(ev, View[s]) = new
      BY <1>2, <1>6 DEF Shown
    <2>5. View' = After(ev, View)
      BY <2>3, <2>4 DEF After, s
    <2> QED BY <2>1, <2>2, <2>5
  <1>7. CASE ev.kind = "unpublished" /\ Subs!Known(s)
    <2> DEFINE new == Subs!TracksOf(s) \ ev.tracks
    <2>1. participants' = Subs!Upserted(participants, s, new) /\ manualUnsub' = manualUnsub
      BY <1>7 DEF Subs!Applies, s
    <2>2. /\ participants' \in Seq(Participants) /\ Once(participants')
          /\ \A x : SeenIn(participants', x) = IF x = s THEN new ELSE SeenIn(participants, x)
      <3>1. new \in SUBSET Types
        BY <1>1, <1>2
      <3> QED BY <1>1, <2>1, <3>1, UpsertedSees
    <2>3. View' = [View EXCEPT ![s] = new]
      BY <1>3, <2>2
    <2>4. Shown(ev, View[s]) = new
      BY <1>2, <1>7 DEF Shown
    <2>5. View' = After(ev, View)
      BY <2>3, <2>4 DEF After, s
    <2> QED BY <2>1, <2>2, <2>5
  <1>8. CASE ev.kind = "unpublished" /\ ~Subs!Known(s)
    <2>1. participants' = participants /\ manualUnsub' = manualUnsub
      BY <1>8 DEF Subs!Applies, s
    <2>2. View' = View
      BY <2>1 DEF View
    <2>3. Shown(ev, View[s]) = View[s]
      BY <1>2, <1>8 DEF Shown
    <2>4. After(ev, View) = View
      <3>1. After(ev, View) = [View EXCEPT ![s] = Shown(ev, View[s])]
        BY DEF After, s
      <3> QED BY <1>1, <1>2, <2>3, <3>1 DEF Worlds
    <2> QED BY <1>1, <2>1, <2>2, <2>4
  <1> QED BY <1>1, <1>4, <1>5, <1>6, <1>7, <1>8 DEF Kinds4

Changes ==
    \/ \E s \in Sessions : Subs!Joins(s) \/ Subs!Leaves(s) \/ Subs!Updates(s)
    \/ \E s \in Sessions, t \in Types : Subs!Publishes(s, t) \/ Subs!Unpublishes(s, t)

\* A change in the call is what its event says.
LEMMA ChangeIsReported ==
  ASSUME SubsBounds, CallTyped, Changes
  PROVE  \E ev \in Messages : Subs!Reports(ev) /\ world' = After(ev, world)
  <1>1. \A s \in Sessions : world[s] \in (SUBSET Types) \cup {Subs!Absent}
    BY DEF CallTyped, Worlds
  <1>2. {} # Subs!Absent /\ \A s \in Sessions : world = [world EXCEPT ![s] = world[s]]
    BY DEF CallTyped, Worlds, Subs!Absent
  <1>3. ASSUME NEW kind \in Kinds4, NEW s \in Sessions, NEW tracks \in SUBSET Types,
               Subs!Reports(Subs!Event(kind, s, tracks)),
               world' = [world EXCEPT ![s] = Shown(Subs!Event(kind, s, tracks), world[s])]
        PROVE  \E ev \in Messages : Subs!Reports(ev) /\ world' = After(ev, world)
    <2> DEFINE ev == Subs!Event(kind, s, tracks)
    <2>1. ev \in Messages /\ ev.session = s
      BY DEF Messages, Subs!Event
    <2> HIDE DEF ev
    <2>2. world' = After(ev, world)
      BY <1>3, <2>1 DEF After, ev
    <2> QED BY <1>3, <2>1, <2>2 DEF ev
  <1>4. CASE \E s \in Sessions : Subs!Joins(s)
    <2>1. PICK s \in Sessions : Subs!Joins(s)
      BY <1>4
    <2>2. Subs!Reports(Subs!Event("upsert", s, {})) /\ world' = [world EXCEPT ![s] = {}]
      BY <2>1 DEF Subs!Joins
    <2>3. Shown(Subs!Event("upsert", s, {}), world[s]) = {}
      BY DEF Shown, Subs!Event
    <2> QED BY <1>3, <2>2, <2>3 DEF Kinds4
  <1>5. CASE \E s \in Sessions : Subs!Leaves(s)
    <2>1. PICK s \in Sessions : Subs!Leaves(s)
      BY <1>5
    <2>2. Subs!Reports(Subs!Event("left", s, {})) /\ world' = [world EXCEPT ![s] = Subs!Absent]
      BY <2>1 DEF Subs!Leaves
    <2>3. Shown(Subs!Event("left", s, {}), world[s]) = Subs!Absent
      BY DEF Shown, Subs!Event
    <2>4. world' = [world EXCEPT ![s] = Shown(Subs!Event("left", s, {}), world[s])]
      BY <2>2, <2>3
    <2>5. "left" \in Kinds4 /\ {} \in SUBSET Types
      BY DEF Kinds4
    <2> QED BY <1>3, <2>2, <2>4, <2>5
  <1>6. CASE \E s \in Sessions : Subs!Updates(s)
    <2>1. PICK s \in Sessions : Subs!Updates(s)
      BY <1>6
    <2>2. Subs!Reports(Subs!Event("upsert", s, world[s])) /\ world' = world /\ world[s] \in SUBSET Types
      BY <1>1, <2>1 DEF Subs!Updates
    <2>3. Shown(Subs!Event("upsert", s, world[s]), world[s]) = world[s]
      BY DEF Shown, Subs!Event
    <2>4. world' = [world EXCEPT ![s] = world[s]]
      BY <1>2, <2>2
    <2> QED BY <1>3, <2>2, <2>3, <2>4 DEF Kinds4
  <1>7. CASE \E s \in Sessions, t \in Types : Subs!Publishes(s, t)
    <2>1. PICK s \in Sessions, t \in Types : Subs!Publishes(s, t)
      BY <1>7
    <2>2. Subs!Reports(Subs!Event("published", s, {t})) /\ world' = [world EXCEPT ![s] = world[s] \cup {t}]
          /\ world[s] # Subs!Absent
      BY <2>1 DEF Subs!Publishes
    <2>3. Shown(Subs!Event("published", s, {t}), world[s]) = world[s] \cup {t}
      BY <2>2 DEF Shown, Subs!Event
    <2>4. world' = [world EXCEPT ![s] = Shown(Subs!Event("published", s, {t}), world[s])]
      BY <2>2, <2>3
    <2>5. "published" \in Kinds4 /\ {t} \in SUBSET Types
      BY DEF Kinds4
    <2> QED BY <1>3, <2>2, <2>4, <2>5
  <1>8. CASE \E s \in Sessions, t \in Types : Subs!Unpublishes(s, t)
    <2>1. PICK s \in Sessions, t \in Types : Subs!Unpublishes(s, t)
      BY <1>8
    <2>2. Subs!Reports(Subs!Event("unpublished", s, {t})) /\ world' = [world EXCEPT ![s] = world[s] \ {t}]
          /\ world[s] # Subs!Absent
      BY <2>1 DEF Subs!Unpublishes
    <2>3. Shown(Subs!Event("unpublished", s, {t}), world[s]) = world[s] \ {t}
      BY <2>2 DEF Shown, Subs!Event
    <2>4. world' = [world EXCEPT ![s] = Shown(Subs!Event("unpublished", s, {t}), world[s])]
      BY <2>2, <2>3
    <2>5. "unpublished" \in Kinds4 /\ {t} \in SUBSET Types
      BY DEF Kinds4
    <2> QED BY <1>3, <2>2, <2>4, <2>5
  <1> QED BY <1>4, <1>5, <1>6, <1>7, <1>8 DEF Changes

LEMMA TypesHold == ASSUME SubsTyped PROVE Subs!TypeOK
  <1>1. world \in [Sessions -> (SUBSET Types) \cup {{None}}]
    BY DEF SubsTyped, CallTyped, Worlds, Subs!Absent
  <1>2. /\ \A i \in DOMAIN participants :
              participants[i].session \in Sessions /\ participants[i].tracks \subseteq Types
        /\ \A i, j \in DOMAIN participants :
              participants[i].session = participants[j].session => i = j
    <2>1. participants \in Seq(Participants) /\ Once(participants)
      BY DEF SubsTyped, CallTyped
    <2>2. \A i \in DOMAIN participants : participants[i] \in Participants
      BY <2>1
    <2>3. DOMAIN participants = 1..Len(participants)
      BY <2>1
    <2> QED BY <2>1, <2>2, <2>3 DEF Once, Participants
  <1> QED BY <1>1, <1>2 DEF SubsTyped, CallTyped, LinkTyped, RequestsTyped, Subs!TypeOK

-----------------------------------------------------------------------------
(* The types of the variables. *)

LEMMA CallStep ==
  ASSUME SubsBounds, CallTyped, LinkTyped, PhaseInv, Subs!Next
  PROVE  CallTyped'
  <1>1. /\ world \in Worlds /\ participants \in Seq(Participants) /\ Once(participants)
        /\ wire \in [Subs!Epochs -> Seq(Messages)] /\ fastWire \in Seq(Messages) \cup {None}
        /\ policy \in Subs!Policy /\ subsActive \in BOOLEAN /\ manualUnsub \subseteq Subs!Keys
    BY DEF CallTyped
  <1>2. CASE \/ \E p \in Subs!Procs : Subs!Computes(p) \/ Subs!Answers(p) \/ Subs!Fails(p)
             \/ Subs!SfuApplies
             \/ \E e \in Subs!Epochs, k \in Subs!Keys : \/ Subs!TrackArrives(e, k) \/ Subs!UserDrops(e, k)
                                                        \/ Subs!DropChecks(e, k) \/ Subs!PacketArrives(e, k)
             \/ Subs!MigrateBegins \/ Subs!MigrateFails \/ Subs!Installs \/ Subs!Clears
             \/ Subs!RestoreBegins \/ Subs!RestoreFails \/ Subs!Ends
    <2>1. UNCHANGED <<world, wire, fastWire, participants, policy, subsActive, manualUnsub>>
      BY <1>2 DEF Subs!Computes, Subs!Answers, Subs!Fails, Subs!SfuApplies, Subs!TrackArrives, Subs!UserDrops,
                  Subs!DropChecks, Subs!PacketArrives, Subs!MigrateBegins, Subs!MigrateFails, Subs!Installs,
                  Subs!Clears, Subs!RestoreBegins, Subs!RestoreFails, Subs!Ends, Subs!sfuVars, Subs!stateVars
    <2> QED BY <1>1, <2>1 DEF CallTyped
  <1>3. CASE Changes
    <2>1. PICK ev \in Messages : Subs!Reports(ev) /\ world' = After(ev, world)
      BY <1>3, ChangeIsReported
    <2>2. world' \in Worlds
      BY <1>1, <2>1, AfterIsWorld
    <2>3. /\ wire' \in [Subs!Epochs -> Seq(Messages)] /\ fastWire' \in Seq(Messages) \cup {None}
          /\ UNCHANGED <<participants, policy, subsActive, manualUnsub>>
      BY <1>1, <2>1 DEF Subs!Reports, Subs!stateVars
    <2> QED BY <1>1, <2>2, <2>3 DEF CallTyped
  <1>4. CASE \E e \in Subs!Epochs : Subs!LoopTakes(e)
    <2>1. PICK e \in Subs!Epochs : Subs!LoopTakes(e)
      BY <1>4
    <2>2. wire[e] \in Seq(Messages) /\ wire[e] # <<>> /\ Subs!Applies(Head(wire[e]))
      BY <1>1, <2>1 DEF Subs!LoopTakes
    <2>3. Head(wire[e]) \in Messages /\ Tail(wire[e]) \in Seq(Messages)
      BY <2>2
    <2>4. participants' \in Seq(Participants) /\ Once(participants') /\ manualUnsub' \subseteq manualUnsub
      BY <2>2, <2>3, AppliesSees
    <2>5. wire' = [wire EXCEPT ![e] = Tail(wire[e])] /\ UNCHANGED <<world, fastWire, policy, subsActive>>
      BY <2>1 DEF Subs!LoopTakes
    <2> QED BY <1>1, <2>3, <2>4, <2>5 DEF CallTyped
  <1>5. CASE Subs!UpdateSubscriptions
    <2>1. /\ UNCHANGED <<world, wire, fastWire, participants, manualUnsub>>
          /\ policy' \in Subs!Policy /\ subsActive' \in BOOLEAN
      BY <1>5 DEF Subs!UpdateSubscriptions, Subs!sfuVars, SubsBounds
    <2> QED BY <1>1, <2>1 DEF CallTyped
  <1>6. CASE \E enable \in BOOLEAN : Subs!SetIncomingVideo(enable)
    <2>1. PICK enable \in BOOLEAN : Subs!SetIncomingVideo(enable)
      BY <1>6
    <2>2. /\ UNCHANGED <<world, wire, fastWire, participants, manualUnsub>> /\ subsActive' = TRUE
          /\ policy' = [policy EXCEPT !.targets = None,
                                      !.rule = [s \in Sessions |-> IF enable THEN policy.rule[s] \cup {"video"}
                                                                   ELSE policy.rule[s] \ {"video"}]]
      BY <2>1 DEF Subs!SetIncomingVideo, Subs!sfuVars
    <2> DEFINE rule == [s \in Sessions |-> IF enable THEN policy.rule[s] \cup {"video"}
                                           ELSE policy.rule[s] \ {"video"}]
    <2>3. rule \in [Sessions -> SUBSET Types]
      BY <1>1 DEF Subs!Policy, SubsBounds
    <2> HIDE DEF rule
    <2>4. [policy EXCEPT !.targets = None, !.rule = rule] \in Subs!Policy
      BY <1>1, <2>3 DEF Subs!Policy
    <2>5. policy' \in Subs!Policy
      BY <2>2, <2>4 DEF rule
    <2> QED BY <1>1, <2>2, <2>5 DEF CallTyped
  <1>7. CASE \E e \in Subs!Epochs, k \in Subs!Keys : Subs!DropTakes(e, k)
    <2>1. PICK e \in Subs!Epochs, k \in Subs!Keys : Subs!DropTakes(e, k)
      BY <1>7
    <2>2. /\ UNCHANGED <<world, wire, fastWire, participants, policy, subsActive>>
          /\ manualUnsub' \subseteq manualUnsub \cup {k}
      BY <2>1 DEF Subs!DropTakes, Subs!sfuVars
    <2> QED BY <1>1, <2>2 DEF CallTyped
  <1>8. CASE Subs!Migrates \/ Subs!Rejoins
    <2>1. participants' \in Subs!Answered(participants)
          /\ UNCHANGED <<world, wire, fastWire, policy, subsActive, manualUnsub>>
      BY <1>8 DEF Subs!Migrates, Subs!Rejoins, Subs!Joined, Subs!sfuVars
    <2>2. participants' \in Seq(Participants) /\ Once(participants')
      BY <1>1, <2>1, AnsweredSees
    <2> QED BY <1>1, <2>1, <2>2 DEF CallTyped
  <1>9. CASE Subs!ClosesOld
    <2>1. /\ UNCHANGED <<world, fastWire, participants, policy, subsActive, manualUnsub>>
          /\ wire' = [wire EXCEPT ![phase.old] = <<>>] /\ <<>> \in Seq(Messages)
      BY <1>9 DEF Subs!ClosesOld, Subs!Aborts, Subs!stateVars
    <2> QED BY <1>1, <2>1 DEF CallTyped
  <1>10. CASE Subs!FastAnswered
    <2>1. participants' \in Subs!Answered(participants) /\ fastWire' = <<>>
          /\ UNCHANGED <<world, wire, policy, subsActive, manualUnsub>>
      BY <1>10 DEF Subs!FastAnswered
    <2>2. participants' \in Seq(Participants) /\ Once(participants')
      BY <1>1, <2>1, AnsweredSees
    <2> QED BY <1>1, <2>1, <2>2 DEF CallTyped
  <1>11. CASE Subs!FastSwitches
    <2>1. /\ UNCHANGED <<world, participants, policy, subsActive, manualUnsub>>
          /\ wire' = [wire EXCEPT ![conn] = fastWire] /\ fastWire' = None
          /\ fastWire \in Seq(Messages)
      BY <1>11 DEF Subs!FastSwitches, Subs!stateVars, PhaseInv
    <2> QED BY <1>1, <2>1 DEF CallTyped
  <1> QED BY <1>2, <1>3, <1>4, <1>5, <1>6, <1>7, <1>8, <1>9, <1>10, <1>11 DEF Subs!Next, Changes

LEMMA PhaseAfterIs ==
  ASSUME LinkTyped, NEW p, NEW ok \in BOOLEAN
  PROVE  /\ Subs!PhaseAfter(p, ok) \in Phases
         /\ p # Subs!Restore => Subs!PhaseAfter(p, ok) = phase
         /\ p = Subs!Restore => /\ Subs!PhaseAfter(p, ok).at = IF ok THEN "restored" ELSE "failed"
                                /\ Subs!PhaseAfter(p, ok).kind = phase.kind
                                /\ Subs!PhaseAfter(p, ok).old = phase.old
  <1>1. phase \in Phases
    BY DEF LinkTyped
  <1>2. \A stage \in {"restored", "failed"} :
            /\ [phase EXCEPT !.at = stage] \in Phases
            /\ [phase EXCEPT !.at = stage].at = stage /\ [phase EXCEPT !.at = stage].kind = phase.kind
            /\ [phase EXCEPT !.at = stage].old = phase.old
    BY <1>1 DEF Phases
  <1> QED BY <1>1, <1>2 DEF Subs!PhaseAfter

Sent(p) == [by |-> p, to |-> conn, session |-> session[conn], list |-> Subs!Wanted, applied |-> FALSE]

\* A step of a computation: it sends its request, or it ends; what it changes of its
\* track and of its reconnect.
LEMMA Proceeds ==
  ASSUME NEW p \in Subs!Procs, Subs!Computes(p) \/ Subs!Answers(p) \/ Subs!Fails(p)
  PROVE  /\ UNCHANGED <<world, wire, fastWire, sfu, participants, policy, subsActive, manualUnsub, delivered,
                        conn, session, enabled, late>>
         /\ doing[p] \in {"compute", "rpc"}
         /\ \/ /\ doing[p] = "compute" /\ Subs!Goes(p, "rpc") /\ UNCHANGED <<track, phase>>
               /\ rpcs' = rpcs \cup {Sent(p)}
            \/ \E place \in {"off", "idle"}, ok \in BOOLEAN :
                /\ Subs!Goes(p, place)
                /\ place = "off" => \E e \in Subs!Epochs : p = Subs!Loop(e)
                /\ track' = Subs!TrackAfter(p) /\ phase' = Subs!PhaseAfter(p, ok) /\ rpcs' \subseteq rpcs
  <1>1. CASE Subs!Computes(p)
    BY <1>1 DEF Subs!Computes, Subs!sfuVars, Subs!stateVars, Sent
  <1>2. CASE Subs!Answers(p)
    BY <1>2 DEF Subs!Answers, Subs!sfuVars, Subs!stateVars
  <1>3. CASE Subs!Fails(p)
    <2>1. p[1] = "loop" => \E e \in Subs!Epochs : p = Subs!Loop(e)
      BY DEF Subs!Procs, Subs!Loop, Subs!User, Subs!Restore, Subs!Dropper
    <2> QED BY <1>3, <2>1 DEF Subs!Fails, Subs!sfuVars, Subs!stateVars
  <1> QED BY <1>1, <1>2, <1>3

LEMMA LinkStep ==
  ASSUME SubsBounds, LinkTyped, PhaseInv, Subs!Next
  PROVE  LinkTyped'
  <1>1. /\ conn \in Subs!Epochs /\ phase \in Phases
        /\ session \in [Subs!Epochs -> Subs!Epochs] /\ enabled \in [Subs!Epochs -> BOOLEAN]
        /\ delivered \in [Subs!Keys -> 0..MaxEpochs] /\ track \in [Subs!Epochs \X Subs!Keys -> Subs!Places]
    BY DEF LinkTyped
  <1>2. CASE \E p \in Subs!Procs : Subs!Computes(p) \/ Subs!Answers(p) \/ Subs!Fails(p)
    <2>1. PICK p \in Subs!Procs : Subs!Computes(p) \/ Subs!Answers(p) \/ Subs!Fails(p)
      BY <1>2
    <2>2. UNCHANGED <<conn, session, enabled, delivered>>
      BY <2>1, Proceeds
    <2>3. track' \in [Subs!Epochs \X Subs!Keys -> Subs!Places] /\ phase' \in Phases
      <3>1. \/ track' = track /\ phase' = phase
            \/ track' = Subs!TrackAfter(p) /\ \E ok \in BOOLEAN : phase' = Subs!PhaseAfter(p, ok)
        BY <2>1, Proceeds
      <3> QED BY <1>1, <3>1, TrackAfterIs, PhaseAfterIs
    <2> QED BY <1>1, <2>2, <2>3 DEF LinkTyped
  <1>3. CASE \/ Subs!SfuApplies \/ Changes
             \/ \E e \in Subs!Epochs : Subs!LoopTakes(e)
             \/ Subs!UpdateSubscriptions \/ \E enable \in BOOLEAN : Subs!SetIncomingVideo(enable)
    <2>1. UNCHANGED <<conn, phase, session, enabled, delivered, track>>
      BY <1>3 DEF Subs!SfuApplies, Changes, Subs!Joins, Subs!Leaves, Subs!Updates, Subs!Publishes,
                  Subs!Unpublishes, Subs!Reports, Subs!LoopTakes, Subs!UpdateSubscriptions,
                  Subs!SetIncomingVideo, Subs!linkVars
    <2> QED BY <1>1, <2>1 DEF LinkTyped
  <1>4. CASE \E e \in Subs!Epochs, k \in Subs!Keys :
                \/ Subs!TrackArrives(e, k) \/ Subs!UserDrops(e, k) \/ Subs!DropTakes(e, k)
                \/ Subs!DropChecks(e, k) \/ Subs!PacketArrives(e, k)
    <2>1. PICK e \in Subs!Epochs, k \in Subs!Keys :
                \/ Subs!TrackArrives(e, k) \/ Subs!UserDrops(e, k) \/ Subs!DropTakes(e, k)
                \/ Subs!DropChecks(e, k) \/ Subs!PacketArrives(e, k)
      BY <1>4
    <2>2. /\ UNCHANGED <<conn, phase, session, enabled>>
          /\ track' = track \/ \E place \in Subs!Places : track' = [track EXCEPT ![<<e, k>>] = place]
          /\ delivered' = delivered \/ \E n \in {0, e} : delivered' = [delivered EXCEPT ![k] = n]
      BY <2>1 DEF Subs!TrackArrives, Subs!UserDrops, Subs!DropTakes, Subs!DropChecks, Subs!PacketArrives,
                  Subs!Incoming, Subs!linkVars, Subs!Places
    <2>3. {0, e} \subseteq 0..MaxEpochs /\ <<e, k>> \in Subs!Epochs \X Subs!Keys
      BY DEF Subs!Epochs, SubsBounds
    <2>4. track' \in [Subs!Epochs \X Subs!Keys -> Subs!Places]
      BY <1>1, <2>2
    <2>5. delivered' \in [Subs!Keys -> 0..MaxEpochs]
      BY <1>1, <2>2, <2>3
    <2> QED BY <1>1, <2>2, <2>4, <2>5 DEF LinkTyped
  <1>5. 0 \in 0..MaxEpochs /\ conn \in 0..MaxEpochs /\ phase.old \in 0..MaxEpochs /\ phase.kind \in {None, "migrate", "rejoin", "fast"}
    BY <1>1 DEF Subs!Epochs, SubsBounds, Phases
  <1>6. CASE \/ Subs!MigrateBegins \/ Subs!MigrateFails \/ Subs!FastAnswered \/ Subs!FastSwitches
             \/ Subs!ClosesOld \/ Subs!Clears \/ Subs!RestoreBegins \/ Subs!RestoreFails \/ Subs!Ends
    <2>1. /\ UNCHANGED <<conn, session, delivered, track>>
          /\ enabled' = enabled \/ \E b \in BOOLEAN : enabled' = [enabled EXCEPT ![conn] = b]
      BY <1>6 DEF Subs!MigrateBegins, Subs!MigrateFails, Subs!FastAnswered, Subs!FastSwitches, Subs!ClosesOld,
                  Subs!Clears, Subs!RestoreBegins, Subs!RestoreFails, Subs!Ends
    <2>2. \/ phase' \in {[at |-> "joining", kind |-> "migrate", old |-> conn],
                         [at |-> "answered", kind |-> "fast", old |-> conn],
                         Subs!Idle, [Subs!Idle EXCEPT !.at = "failed"]}
          \/ \E stage \in {"installed", "restoring", "recomputing", "failed"} : phase' = [phase EXCEPT !.at = stage]
      BY <1>6 DEF Subs!MigrateBegins, Subs!MigrateFails, Subs!FastAnswered, Subs!FastSwitches, Subs!ClosesOld,
                  Subs!Clears, Subs!RestoreBegins, Subs!RestoreFails, Subs!Ends
    <2>3. /\ [at |-> "joining", kind |-> "migrate", old |-> conn] \in Phases
          /\ [at |-> "answered", kind |-> "fast", old |-> conn] \in Phases
          /\ Subs!Idle \in Phases
      BY <1>5 DEF Phases, Subs!Idle
    <2>7. [Subs!Idle EXCEPT !.at = "failed"] \in Phases
      BY <2>3 DEF Phases
    <2>4. \A stage \in {"installed", "restoring", "recomputing", "failed"} : [phase EXCEPT !.at = stage] \in Phases
      BY <1>1 DEF Phases
    <2>5. phase' \in Phases
      BY <2>2, <2>3, <2>4, <2>7
    <2>6. enabled' \in [Subs!Epochs -> BOOLEAN]
      BY <1>1, <2>1
    <2> QED BY <1>1, <2>1, <2>5, <2>6 DEF LinkTyped
  <1>7. CASE Subs!Migrates \/ Subs!Rejoins
    <2>1. conn + 1 \in Subs!Epochs
      BY <1>7 DEF Subs!Migrates, Subs!Rejoins, Subs!Fresh, PhaseInv
    <2>2. PICK kind \in {"migrate", "rejoin"} : Subs!Joined(kind)
      BY <1>7 DEF Subs!Migrates, Subs!Rejoins
    <2>3. /\ UNCHANGED <<conn, enabled, delivered, track>>
          /\ session' = [session EXCEPT ![conn + 1] = IF kind = "migrate" THEN session[conn] ELSE conn + 1]
          /\ phase' = [at |-> "answered", kind |-> kind, old |-> conn]
      BY <2>2 DEF Subs!Joined, Subs!Fresh
    <2>4. session[conn] \in Subs!Epochs
      BY <1>1
    <2>5. session' \in [Subs!Epochs -> Subs!Epochs]
      BY <1>1, <2>1, <2>3, <2>4
    <2>6. phase' \in Phases
      BY <1>5, <2>3 DEF Phases
    <2> QED BY <1>1, <2>3, <2>5, <2>6 DEF LinkTyped
  <1>8. CASE Subs!Installs
    <2>1. /\ UNCHANGED <<session, enabled, delivered, track>>
          /\ conn' = conn + 1 /\ conn + 1 \in Subs!Epochs
          /\ \E stage \in {"closing", "installed"} : phase' = [phase EXCEPT !.at = stage]
      BY <1>8 DEF Subs!Installs, Subs!Fresh, PhaseInv
    <2>2. phase' \in Phases
      BY <1>1, <2>1 DEF Phases
    <2> QED BY <1>1, <2>1, <2>2 DEF LinkTyped
  <1> QED BY <1>2, <1>3, <1>4, <1>6, <1>7, <1>8 DEF Subs!Next, Changes

-----------------------------------------------------------------------------
(* The requests. *)

LEMMA NoRequest ==
  ASSUME RequestsTyped, NEW p \in Subs!Procs, doing[p] # "rpc"
  PROVE  rpcs = {r \in rpcs : r.by # p}
  BY DEF RequestsTyped

LEMMA RequestGone ==
  ASSUME RequestsTyped, NEW p \in Subs!Procs, NEW place \in {"off", "idle", "compute"}, Subs!Goes(p, place),
         rpcs' = {r \in rpcs : r.by # p}, sfu' \in [Subs!Epochs -> SUBSET Subs!Keys],
         activeSubs' \subseteq Subs!Keys
  PROVE  RequestsTyped'
  <1>1. /\ doing' \in [Subs!Procs -> {"off", "idle", "compute", "rpc"}]
        /\ \A q \in Subs!Procs : doing'[q] = IF q = p THEN place ELSE doing[q]
    BY GoesTo
  <1>2. \A q \in Subs!Procs : doing'[q] = "rpc" <=> \E r \in rpcs' : r.by = q
    BY <1>1 DEF RequestsTyped
  <1>3. rpcs' \subseteq Asked /\ \A r, q \in rpcs' : r.by = q.by => r = q
    BY DEF RequestsTyped
  <1> QED BY <1>1, <1>2, <1>3 DEF RequestsTyped

\* The task p ends where it awaits; its request got to the SFU or it did not.
Stops(p) ==
    /\ rpcs' = {r \in rpcs : r.by # p}
    /\ doubt' = doubt \cup {r.to : r \in {q \in rpcs : q.by = p}}
    /\ \/ sfu' = sfu
       \/ \E r \in rpcs : r.by = p /\ ~r.applied /\ sfu' = [sfu EXCEPT ![r.to] = r.list]

LEMMA OldStops ==
  ASSUME Subs!ClosesOld
  PROVE  /\ Stops(Subs!Loop(phase.old)) /\ Subs!Goes(Subs!Loop(phase.old), "off")
         /\ wire' = [wire EXCEPT ![phase.old] = <<>>]
  BY DEF Subs!ClosesOld, Subs!Aborts, Stops

LEMMA FirstStops ==
  ASSUME Subs!FastSwitches
  PROVE  Stops(Subs!Loop(conn)) /\ Subs!Goes(Subs!Loop(conn), "idle")
  BY DEF Subs!FastSwitches, Stops

LEMMA StopsTyped ==
  ASSUME RequestsTyped, NEW p, Stops(p)
  PROVE  sfu' \in [Subs!Epochs -> SUBSET Subs!Keys]
  <1>1. \A r \in rpcs : r.to \in Subs!Epochs /\ r.list \in SUBSET Subs!Keys
    BY DEF RequestsTyped, Asked
  <1> QED BY <1>1 DEF RequestsTyped, Stops

LEMMA RequestsStep ==
  ASSUME SubsBounds, SubsTyped, FreshInv, PhaseInv, Subs!Next
  PROVE  RequestsTyped'
  <1>1. /\ CallTyped /\ LinkTyped /\ RequestsTyped
        /\ doing \in [Subs!Procs -> {"off", "idle", "compute", "rpc"}]
        /\ rpcs \subseteq Asked /\ sfu \in [Subs!Epochs -> SUBSET Subs!Keys] /\ activeSubs \subseteq Subs!Keys
        /\ \A p \in Subs!Procs : doing[p] = "rpc" <=> \E r \in rpcs : r.by = p
        /\ \A r, q \in rpcs : r.by = q.by => r = q
    BY DEF SubsTyped, RequestsTyped
  <1>2. \A r \in rpcs : r.by \in Subs!Procs /\ r.to \in Subs!Epochs /\ r.list \in SUBSET Subs!Keys
    BY <1>1 DEF Asked
  <1>3. CASE \E p \in Subs!Procs : Subs!Computes(p)
    <2>1. PICK p \in Subs!Procs : Subs!Computes(p)
      BY <1>3
    <2>2. doing[p] = "compute" /\ sfu' = sfu /\ activeSubs' = activeSubs
      BY <2>1 DEF Subs!Computes, Subs!sfuVars
    <2>3. CASE Subs!Goes(p, "idle") /\ rpcs' = rpcs
      BY <1>1, <2>2, <2>3, NoRequest, RequestGone
    <2>4. CASE Subs!Goes(p, "rpc") /\ rpcs' = rpcs \cup {Sent(p)}
      <3>1. Sent(p) \in Asked /\ Sent(p).by = p
        <4>1. Subs!Wanted \in SUBSET Subs!Keys /\ session[conn] \in Subs!Epochs /\ conn \in Subs!Epochs
          BY <1>1, WantedIs DEF LinkTyped
        <4> QED BY <4>1 DEF Sent, Asked
      <3>2. /\ doing' \in [Subs!Procs -> {"off", "idle", "compute", "rpc"}]
            /\ \A q \in Subs!Procs : doing'[q] = IF q = p THEN "rpc" ELSE doing[q]
        BY <1>1, <2>4, GoesTo
      <3>3. \A r \in rpcs : r.by # p
        BY <1>1, <2>2
      <3>4. rpcs' \subseteq Asked
        BY <1>1, <2>4, <3>1
      <3>5. \A q \in Subs!Procs : doing'[q] = "rpc" <=> \E r \in rpcs' : r.by = q
        BY <1>1, <2>4, <3>1, <3>2
      <3>6. \A r, q \in rpcs' : r.by = q.by => r = q
        BY <1>1, <2>4, <3>1, <3>3
      <3> QED BY <1>1, <2>2, <3>2, <3>4, <3>5, <3>6 DEF RequestsTyped
    <2> QED BY <2>1, <2>3, <2>4 DEF Subs!Computes, Sent
  <1>4. CASE \E p \in Subs!Procs : Subs!Answers(p) \/ Subs!Fails(p)
    <2>1. PICK p \in Subs!Procs : Subs!Answers(p) \/ Subs!Fails(p)
      BY <1>4
    <2>2. PICK r \in rpcs : /\ r.by = p /\ rpcs' = rpcs \ {r} /\ sfu' = sfu
                            /\ activeSubs' \in {activeSubs, r.list}
      BY <2>1 DEF Subs!Answers, Subs!Fails, Subs!sfuVars
    <2>3. rpcs' = {q \in rpcs : q.by # p}
      BY <1>1, <2>2
    <2>4. activeSubs' \subseteq Subs!Keys
      BY <1>1, <1>2, <2>2
    <2>5. \E place \in {"off", "idle"} : Subs!Goes(p, place)
      BY <2>1 DEF Subs!Answers, Subs!Fails
    <2> QED BY <1>1, <2>2, <2>3, <2>4, <2>5, RequestGone
  <1>5. CASE Subs!SfuApplies
    <2>1. /\ doing' = doing /\ activeSubs' = activeSubs
          /\ \E r \in rpcs : /\ sfu' = [sfu EXCEPT ![r.to] = r.list]
                             /\ rpcs' = (rpcs \ {r}) \cup {[r EXCEPT !.applied = TRUE]}
      BY <1>5 DEF Subs!SfuApplies
    <2>2. PICK r \in rpcs : /\ sfu' = [sfu EXCEPT ![r.to] = r.list]
                            /\ rpcs' = (rpcs \ {r}) \cup {[r EXCEPT !.applied = TRUE]}
      BY <2>1
    <2> DEFINE new == [r EXCEPT !.applied = TRUE]
    <2>3. new \in Asked /\ new.by = r.by
      BY <1>1 DEF Asked
    <2> HIDE DEF new
    <2>4. rpcs' = (rpcs \ {r}) \cup {new}
      BY <2>2 DEF new
    <2>5. rpcs' \subseteq Asked
      BY <1>1, <2>3, <2>4
    <2>6. \A p \in Subs!Procs : doing'[p] = "rpc" <=> \E q \in rpcs' : q.by = p
      BY <1>1, <2>1, <2>3, <2>4
    <2>7. \A q, t \in rpcs' : q.by = t.by => q = t
      BY <1>1, <2>3, <2>4
    <2>8. sfu' \in [Subs!Epochs -> SUBSET Subs!Keys]
      BY <1>1, <1>2, <2>2
    <2> QED BY <1>1, <2>1, <2>5, <2>6, <2>7, <2>8 DEF RequestsTyped
  <1>6. ASSUME NEW p \in Subs!Procs, doing[p] # "rpc", UNCHANGED <<rpcs, sfu, activeSubs>>,
               NEW place \in {"off", "idle", "compute"}, Subs!Goes(p, place)
        PROVE  RequestsTyped'
    BY <1>1, <1>6, NoRequest, RequestGone
  <1>7. CASE UNCHANGED <<rpcs, sfu, activeSubs, doing>>
    BY <1>1, <1>7 DEF RequestsTyped
  <1>8. CASE \E e \in Subs!Epochs : Subs!LoopTakes(e)
    <2>1. PICK e \in Subs!Epochs : Subs!LoopTakes(e)
      BY <1>8
    <2>2. doing[Subs!Loop(e)] # "rpc" /\ UNCHANGED <<rpcs, sfu, activeSubs>> /\ Subs!Goes(Subs!Loop(e), "compute")
      BY <2>1 DEF Subs!LoopTakes
    <2> QED BY <1>6, <2>2, ProcsAre
  <1>9. CASE Subs!UpdateSubscriptions \/ \E enable \in BOOLEAN : Subs!SetIncomingVideo(enable)
    <2>1. doing[Subs!User] # "rpc" /\ UNCHANGED <<rpcs, sfu, activeSubs>> /\ Subs!Goes(Subs!User, "compute")
      BY <1>9 DEF Subs!UpdateSubscriptions, Subs!SetIncomingVideo, Subs!Calls, Subs!sfuVars
    <2> QED BY <1>6, <2>1, ProcsAre
  <1>10. CASE \E e \in Subs!Epochs, k \in Subs!Keys : Subs!DropChecks(e, k)
    <2>1. PICK e \in Subs!Epochs, k \in Subs!Keys : Subs!DropChecks(e, k)
      BY <1>10
    <2>2. /\ UNCHANGED <<rpcs, sfu, activeSubs>> /\ doing[Subs!Dropper(e, k)] # "rpc"
          /\ Subs!Goes(Subs!Dropper(e, k), "compute") \/ doing' = doing
      BY <2>1 DEF Subs!DropChecks, Subs!sfuVars
    <2> QED BY <1>6, <1>7, <2>2, ProcsAre
  <1>11. CASE Subs!Migrates \/ Subs!Rejoins
    <2>1. conn + 1 \in Subs!Epochs /\ conn + 1 > conn /\ phase.at # "answered"
      BY <1>1, <1>11 DEF Subs!Migrates, Subs!Rejoins, Subs!Fresh, Subs!NoAttempt, PhaseInv, LinkTyped,
                         Subs!Epochs, SubsBounds
    <2>2. doing[Subs!Loop(conn + 1)] = "off"
      BY <2>1 DEF FreshInv
    <2>3. UNCHANGED <<rpcs, sfu, activeSubs>> /\ Subs!Goes(Subs!Loop(conn + 1), "idle")
      BY <1>11 DEF Subs!Migrates, Subs!Rejoins, Subs!Joined, Subs!Fresh, Subs!sfuVars
    <2> QED BY <1>6, <2>1, <2>2, <2>3, ProcsAre
  <1>12. CASE Subs!ClosesOld
    <2>1. phase.old \in Subs!Epochs /\ activeSubs' = activeSubs
      BY <1>12 DEF Subs!ClosesOld, PhaseInv
    <2>2. Stops(Subs!Loop(phase.old)) /\ Subs!Goes(Subs!Loop(phase.old), "off")
      BY <1>12, OldStops
    <2>3. sfu' \in [Subs!Epochs -> SUBSET Subs!Keys] /\ rpcs' = {r \in rpcs : r.by # Subs!Loop(phase.old)}
      BY <1>1, <2>2, StopsTyped DEF Stops
    <2> QED BY <1>1, <2>1, <2>2, <2>3, ProcsAre, RequestGone
  <1>13. CASE Subs!FastSwitches
    <2>1. conn \in Subs!Epochs /\ activeSubs' = activeSubs
      BY <1>1, <1>13 DEF Subs!FastSwitches, LinkTyped
    <2>2. Stops(Subs!Loop(conn)) /\ Subs!Goes(Subs!Loop(conn), "idle")
      BY <1>13, FirstStops
    <2>3. sfu' \in [Subs!Epochs -> SUBSET Subs!Keys] /\ rpcs' = {r \in rpcs : r.by # Subs!Loop(conn)}
      BY <1>1, <2>2, StopsTyped DEF Stops
    <2> QED BY <1>1, <2>1, <2>2, <2>3, ProcsAre, RequestGone
  <1>14. CASE Subs!RestoreBegins
    <2>1. doing[Subs!Restore] # "rpc" /\ UNCHANGED <<rpcs, sfu, activeSubs>> /\ Subs!Goes(Subs!Restore, "compute")
      BY <1>14 DEF Subs!RestoreBegins, Subs!sfuVars
    <2> QED BY <1>6, <2>1, ProcsAre
  <1>15. CASE Subs!Clears
    <2>1. activeSubs' = {} /\ UNCHANGED <<rpcs, sfu, doing>>
      BY <1>15 DEF Subs!Clears, Subs!Forgets, Subs!sfuVars
    <2> QED BY <1>1, <2>1 DEF RequestsTyped
  <1>16. CASE \/ Changes
              \/ \E e \in Subs!Epochs, k \in Subs!Keys : \/ Subs!TrackArrives(e, k) \/ Subs!UserDrops(e, k)
                                                         \/ Subs!DropTakes(e, k) \/ Subs!PacketArrives(e, k)
              \/ Subs!MigrateBegins \/ Subs!MigrateFails \/ Subs!Installs \/ Subs!FastAnswered
              \/ Subs!RestoreFails \/ Subs!Ends
    <2>1. UNCHANGED <<rpcs, sfu, activeSubs, doing>>
      BY <1>16 DEF Changes, Subs!Joins, Subs!Leaves, Subs!Updates, Subs!Publishes, Subs!Unpublishes,
                   Subs!Reports, Subs!TrackArrives, Subs!UserDrops, Subs!DropTakes, Subs!PacketArrives,
                   Subs!MigrateBegins, Subs!MigrateFails, Subs!Installs, Subs!FastAnswered,
                   Subs!RestoreFails, Subs!Ends, Subs!sfuVars
    <2> QED BY <1>7, <2>1
  <1> QED BY <1>3, <1>4, <1>5, <1>8, <1>9, <1>10, <1>11, <1>12, <1>13, <1>14, <1>15, <1>16
          DEF Subs!Next, Changes

-----------------------------------------------------------------------------
(* Reconnects, new connections and dropped tracks. *)

LEMMA PhaseStep ==
  ASSUME SubsBounds, SubsTyped, PhaseInv, Subs!Next
  PROVE  PhaseInv'
  <1>1. CallTyped /\ LinkTyped /\ RequestsTyped /\ conn \in Subs!Epochs /\ phase \in Phases
    BY DEF SubsTyped, LinkTyped
  <1>2. /\ doing[Subs!Restore] # "idle" => phase.at = "recomputing"
        /\ phase.at = "joining" \/ (phase.at = "answered" /\ phase.kind # "fast") => conn + 1 \in Subs!Epochs
        /\ phase.at = "answered" /\ phase.kind = "fast" => fastWire \in Seq(Messages)
        /\ phase.at = "closing" \/ (phase.kind = "migrate" /\ phase.at \notin {"joining", "answered"}) =>
               phase.old \in Subs!Epochs /\ phase.old < conn
        /\ phase.at \in {"joining", "answered"} => phase.old = conn
        /\ phase.at = "joining" => phase.kind = "migrate"
    BY DEF PhaseInv
  <1>3. conn \in Nat /\ None \notin {"migrate", "rejoin", "fast"}
    BY <1>1 DEF Subs!Epochs, SubsBounds
  <1>4. ASSUME NEW p \in Subs!Procs, NEW place \in {"off", "idle", "compute", "rpc"}, Subs!Goes(p, place),
               p # Subs!Restore
        PROVE  doing'[Subs!Restore] = doing[Subs!Restore]
    BY <1>1, <1>4, GoesTo, ProcsAre
  <1>5. \A stage : /\ [phase EXCEPT !.at = stage].at = stage /\ [phase EXCEPT !.at = stage].kind = phase.kind
                   /\ [phase EXCEPT !.at = stage].old = phase.old
    BY <1>1 DEF Phases
  <1>6. CASE \E p \in Subs!Procs : Subs!Computes(p) \/ Subs!Answers(p) \/ Subs!Fails(p)
    <2>1. PICK p \in Subs!Procs : Subs!Computes(p) \/ Subs!Answers(p) \/ Subs!Fails(p)
      BY <1>6
    <2>2. /\ UNCHANGED <<conn, fastWire>> /\ doing[p] \in {"compute", "rpc"}
          /\ \/ Subs!Goes(p, "rpc") /\ phase' = phase
             \/ \E place \in {"off", "idle"}, ok \in BOOLEAN :
                 /\ Subs!Goes(p, place)
                 /\ place = "off" => \E e \in Subs!Epochs : p = Subs!Loop(e)
                 /\ phase' = Subs!PhaseAfter(p, ok)
      BY <2>1, Proceeds
    <2>3. CASE p # Subs!Restore
      <3>1. phase' = phase /\ doing'[Subs!Restore] = doing[Subs!Restore]
        BY <1>1, <1>4, <2>2, <2>3, PhaseAfterIs
      <3> QED BY <1>2, <2>2, <3>1 DEF PhaseInv
    <2>4. CASE p = Subs!Restore
      <3>1. phase.at = "recomputing"
        BY <1>2, <2>2, <2>4
      <3>2. CASE phase' = phase
        BY <1>2, <2>2, <3>1, <3>2 DEF PhaseInv
      <3>3. CASE phase' # phase
        <4>1. PICK place \in {"off", "idle"}, ok \in BOOLEAN :
                 /\ Subs!Goes(p, place)
                 /\ place = "off" => \E e \in Subs!Epochs : p = Subs!Loop(e)
                 /\ phase' = Subs!PhaseAfter(p, ok)
          BY <2>2, <3>3
        <4>2. doing'[Subs!Restore] = "idle"
          BY <1>1, <2>4, <4>1, GoesTo, ProcsDiffer
        <4>3. phase'.at \in {"restored", "failed"} /\ phase'.kind = phase.kind /\ phase'.old = phase.old
          BY <1>1, <2>4, <4>1, PhaseAfterIs
        <4> QED BY <1>2, <2>2, <3>1, <4>2, <4>3 DEF PhaseInv
      <3> QED BY <3>2, <3>3
    <2> QED BY <2>3, <2>4
  <1>7. CASE Changes
    <2>1. UNCHANGED <<conn, phase, doing>> /\ (fastWire \in Seq(Messages) => fastWire' \in Seq(Messages))
      <3>1. PICK ev \in Messages : Subs!Reports(ev)
        BY <1>1, <1>7, ChangeIsReported
      <3>2. UNCHANGED <<conn, phase, doing>>
            /\ fastWire' = IF fastWire = None THEN None ELSE Append(fastWire, ev)
        BY <3>1 DEF Subs!Reports, Subs!linkVars
      <3> QED BY <3>2 DEF SubsBounds
    <2> QED BY <1>2, <2>1 DEF PhaseInv
  <1>8. CASE \/ Subs!SfuApplies
             \/ \E e \in Subs!Epochs : Subs!LoopTakes(e)
             \/ Subs!UpdateSubscriptions \/ \E enable \in BOOLEAN : Subs!SetIncomingVideo(enable)
             \/ \E e \in Subs!Epochs, k \in Subs!Keys :
                    \/ Subs!TrackArrives(e, k) \/ Subs!UserDrops(e, k) \/ Subs!DropTakes(e, k)
                    \/ Subs!DropChecks(e, k) \/ Subs!PacketArrives(e, k)
    <2>1. /\ UNCHANGED <<conn, phase, fastWire>>
          /\ \/ doing' = doing
             \/ \E p \in Subs!Procs : p # Subs!Restore /\ Subs!Goes(p, "compute")
      <3>1. CASE \E e \in Subs!Epochs : Subs!LoopTakes(e)
        BY <3>1, ProcsAre, ProcsDiffer DEF Subs!LoopTakes, Subs!linkVars
      <3>2. CASE Subs!UpdateSubscriptions \/ \E enable \in BOOLEAN : Subs!SetIncomingVideo(enable)
        BY <3>2, ProcsAre DEF Subs!UpdateSubscriptions, Subs!SetIncomingVideo, Subs!Calls, Subs!linkVars,
                              Subs!sfuVars
      <3>3. CASE \E e \in Subs!Epochs, k \in Subs!Keys : Subs!DropChecks(e, k)
        BY <3>3, ProcsAre, ProcsDiffer DEF Subs!DropChecks, Subs!linkVars, Subs!sfuVars
      <3>4. CASE \/ Subs!SfuApplies
                 \/ \E e \in Subs!Epochs, k \in Subs!Keys :
                    \/ Subs!TrackArrives(e, k) \/ Subs!UserDrops(e, k) \/ Subs!DropTakes(e, k)
                    \/ Subs!PacketArrives(e, k)
        BY <3>4 DEF Subs!SfuApplies, Subs!TrackArrives, Subs!UserDrops, Subs!DropTakes, Subs!PacketArrives,
                    Subs!linkVars, Subs!sfuVars
      <3> QED BY <1>8, <3>1, <3>2, <3>3, <3>4
    <2>2. doing'[Subs!Restore] = doing[Subs!Restore]
      BY <1>4, <2>1
    <2> QED BY <1>2, <2>1, <2>2 DEF PhaseInv
  <1>9. CASE Subs!MigrateBegins
    <2>1. /\ UNCHANGED <<conn, doing, fastWire>> /\ conn + 1 \in Subs!Epochs
          /\ phase' = [at |-> "joining", kind |-> "migrate", old |-> conn]
          /\ phase.at \in {"idle", "failed"}
      BY <1>9 DEF Subs!MigrateBegins, Subs!NoAttempt, Subs!Fresh, Subs!sfuVars
    <2> QED BY <1>2, <2>1 DEF PhaseInv
  <1>10. CASE Subs!MigrateFails \/ Subs!Ends
    <2>1. /\ UNCHANGED <<conn, doing, fastWire>> /\ phase.at \in {"joining", "restored"}
          /\ phase' \in {Subs!Idle, [Subs!Idle EXCEPT !.at = "failed"]}
      BY <1>10 DEF Subs!MigrateFails, Subs!Ends, Subs!sfuVars
    <2>2. phase'.at \in {"idle", "failed"} /\ phase'.kind = None
      BY <2>1 DEF Subs!Idle
    <2> QED BY <1>2, <1>3, <2>1, <2>2 DEF PhaseInv
  <1>11. CASE Subs!Migrates \/ Subs!Rejoins
    <2>1. /\ conn' = conn /\ fastWire' = fastWire /\ conn + 1 \in Subs!Epochs
          /\ \E kind \in {"migrate", "rejoin"} : phase' = [at |-> "answered", kind |-> kind, old |-> conn]
          /\ phase.at \in {"joining", "idle", "failed"} /\ Subs!Goes(Subs!Loop(conn + 1), "idle")
      BY <1>2, <1>11 DEF Subs!Migrates, Subs!Rejoins, Subs!Joined, Subs!Fresh, Subs!NoAttempt, Subs!sfuVars
    <2>2. doing'[Subs!Restore] = doing[Subs!Restore]
      BY <1>4, <2>1, ProcsAre, ProcsDiffer
    <2> QED BY <1>2, <2>1, <2>2 DEF PhaseInv
  <1>12. CASE Subs!Installs
    <2>1. /\ UNCHANGED <<doing, fastWire>> /\ conn' = conn + 1 /\ phase.at = "answered"
          /\ \E stage \in {"closing", "installed"} : phase' = [phase EXCEPT !.at = stage]
      BY <1>12 DEF Subs!Installs, Subs!Fresh, Subs!sfuVars
    <2>2. phase'.at \in {"closing", "installed"} /\ phase'.old = phase.old
      BY <1>5, <2>1
    <2> QED BY <1>1, <1>2, <1>3, <2>1, <2>2 DEF PhaseInv
  <1>13. CASE Subs!ClosesOld
    <2>1. /\ UNCHANGED <<conn, fastWire>>
          /\ \/ phase.at = "closing" /\ phase' = [phase EXCEPT !.at = "installed"]
             \/ phase.at \in {"restored", "failed"}
                    /\ phase' \in {Subs!Idle, [Subs!Idle EXCEPT !.at = "failed"]}
      BY <1>13 DEF Subs!ClosesOld
    <2>2. phase.old \in Subs!Epochs /\ Subs!Goes(Subs!Loop(phase.old), "off")
      BY <1>2, <1>13 DEF Subs!ClosesOld
    <2>3. doing'[Subs!Restore] = doing[Subs!Restore]
      BY <1>4, <2>2, ProcsAre, ProcsDiffer
    <2>4. \/ phase.at = "closing" /\ phase'.at = "installed" /\ phase'.old = phase.old
          \/ phase.at \in {"restored", "failed"} /\ phase'.at \in {"idle", "failed"} /\ phase'.kind = None
      <3>1. Subs!Idle.at = "idle" /\ Subs!Idle.kind = None /\ [Subs!Idle EXCEPT !.at = "failed"].at = "failed"
            /\ [Subs!Idle EXCEPT !.at = "failed"].kind = None
        BY DEF Subs!Idle
      <3>2. phase.at = "closing" /\ phase' = [phase EXCEPT !.at = "installed"] =>
                phase'.at = "installed" /\ phase'.old = phase.old
        BY <1>5
      <3> QED BY <2>1, <3>1, <3>2
    <2> QED BY <1>2, <1>3, <2>1, <2>3, <2>4 DEF PhaseInv
  <1>14. CASE Subs!Clears \/ Subs!RestoreFails
    <2>1. /\ UNCHANGED <<conn, doing, fastWire>> /\ phase.at \in {"installed", "restoring", "restored"}
          /\ \E stage \in {"restoring", "failed"} : phase' = [phase EXCEPT !.at = stage]
      BY <1>14 DEF Subs!Clears, Subs!RestoreFails, Subs!sfuVars
    <2>2. phase'.at \in {"restoring", "failed"} /\ phase'.kind = phase.kind /\ phase'.old = phase.old
      BY <1>5, <2>1
    <2> QED BY <1>2, <2>1, <2>2 DEF PhaseInv
  <1>15. CASE Subs!FastAnswered
    <2>1. /\ UNCHANGED <<conn, doing>> /\ fastWire' = <<>> /\ phase.at \in {"idle", "failed"}
          /\ phase' = [at |-> "answered", kind |-> "fast", old |-> conn]
      BY <1>15 DEF Subs!FastAnswered, Subs!NoAttempt
    <2>2. <<>> \in Seq(Messages)
      OBVIOUS
    <2> QED BY <1>2, <2>1, <2>2 DEF PhaseInv
  <1>16. CASE Subs!FastSwitches
    <2>1. /\ conn' = conn /\ phase.at = "answered" /\ phase.kind = "fast" /\ phase' = [phase EXCEPT !.at = "restoring"]
          /\ Subs!Goes(Subs!Loop(conn), "idle")
      BY <1>16 DEF Subs!FastSwitches
    <2>2. phase'.at = "restoring" /\ phase'.kind = "fast"
      BY <1>5, <2>1
    <2>3. doing'[Subs!Restore] = doing[Subs!Restore]
      BY <1>1, <1>4, <2>1, ProcsAre, ProcsDiffer
    <2> QED BY <1>2, <2>1, <2>2, <2>3 DEF PhaseInv
  <1>17. CASE Subs!RestoreBegins
    <2>1. /\ UNCHANGED <<conn, fastWire>> /\ phase.at = "restoring" /\ phase' = [phase EXCEPT !.at = "recomputing"]
      BY <1>17 DEF Subs!RestoreBegins, Subs!sfuVars
    <2>2. phase'.at = "recomputing" /\ phase'.kind = phase.kind /\ phase'.old = phase.old
      BY <1>5, <2>1
    <2> QED BY <1>2, <2>1, <2>2 DEF PhaseInv
  <1> QED BY <1>6, <1>7, <1>8, <1>9, <1>10, <1>11, <1>12, <1>13, <1>14, <1>15, <1>16, <1>17
          DEF Subs!Next, Changes

LEMMA DropperStep ==
  ASSUME SubsBounds, SubsTyped, FreshInv, PhaseInv, DropperInv, Subs!Next
  PROVE  DropperInv'
  <1>1. CallTyped /\ LinkTyped /\ RequestsTyped /\ track \in [Subs!Epochs \X Subs!Keys -> Subs!Places]
        /\ conn \in Subs!Epochs
    BY DEF SubsTyped, LinkTyped
  <1>2. ASSUME NEW p \in Subs!Procs, NEW place \in {"off", "idle", "compute", "rpc"}, Subs!Goes(p, place),
               \A e \in Subs!Epochs, k \in Subs!Keys : p # Subs!Dropper(e, k), track' = track
        PROVE  DropperInv'
    <2>1. \A e \in Subs!Epochs, k \in Subs!Keys : doing'[Subs!Dropper(e, k)] = doing[Subs!Dropper(e, k)]
      BY <1>1, <1>2, GoesTo, ProcsAre
    <2> QED BY <1>2, <2>1 DEF DropperInv
  <1>3. ASSUME NEW e \in Subs!Epochs, NEW k \in Subs!Keys, NEW place, track' = [track EXCEPT ![<<e, k>>] = place],
               doing' = doing, doing[Subs!Dropper(e, k)] = "idle"
        PROVE  DropperInv'
    BY <1>1, <1>3 DEF DropperInv
  <1>4. CASE \E p \in Subs!Procs : Subs!Computes(p) \/ Subs!Answers(p) \/ Subs!Fails(p)
    <2>1. PICK p \in Subs!Procs : Subs!Computes(p) \/ Subs!Answers(p) \/ Subs!Fails(p)
      BY <1>4
    <2>2. doing[p] # "idle"
      BY <2>1, Proceeds
    <2>3. CASE Subs!Goes(p, "rpc") /\ track' = track
      <3>1. \A e \in Subs!Epochs, k \in Subs!Keys :
                doing'[Subs!Dropper(e, k)] # "idle" => doing[Subs!Dropper(e, k)] # "idle"
        BY <1>1, <2>2, <2>3, GoesTo, ProcsAre
      <3> QED BY <2>3, <3>1 DEF DropperInv
    <2>4. CASE \E place \in {"off", "idle"} :
                   /\ Subs!Goes(p, place)
                   /\ place = "off" => \E e \in Subs!Epochs : p = Subs!Loop(e)
                   /\ track' = Subs!TrackAfter(p)
      <3>1. PICK place \in {"off", "idle"} :
                   /\ Subs!Goes(p, place)
                   /\ place = "off" => \E e \in Subs!Epochs : p = Subs!Loop(e)
                   /\ track' = Subs!TrackAfter(p)
        BY <2>4
      <3>2. ASSUME NEW e \in Subs!Epochs, NEW k \in Subs!Keys, doing'[Subs!Dropper(e, k)] # "idle"
            PROVE  track'[<<e, k>>] = "unsubscribed"
        <4>1. p # Subs!Dropper(e, k)
          BY <1>1, <3>1, <3>2, GoesTo, ProcsDiffer
        <4>2. doing[Subs!Dropper(e, k)] # "idle"
          BY <1>1, <3>1, <3>2, <4>1, GoesTo, ProcsAre
        <4>3. track'[<<e, k>>] = track[<<e, k>>]
          BY <1>1, <3>1, <4>1, TrackAfterIs
        <4> QED BY <4>2, <4>3 DEF DropperInv
      <3> QED BY <3>2 DEF DropperInv
    <2> QED BY <2>1, <2>3, <2>4, Proceeds
  <1>5. CASE \/ Subs!SfuApplies \/ Changes
             \/ Subs!MigrateBegins \/ Subs!MigrateFails \/ Subs!Installs \/ Subs!Clears \/ Subs!FastAnswered
             \/ Subs!RestoreFails \/ Subs!Ends
    <2>1. UNCHANGED <<track, doing>>
      BY <1>5 DEF Changes, Subs!Joins, Subs!Leaves, Subs!Updates, Subs!Publishes, Subs!Unpublishes,
                  Subs!Reports, Subs!SfuApplies, Subs!MigrateBegins, Subs!MigrateFails, Subs!Installs,
                  Subs!Clears, Subs!FastAnswered, Subs!RestoreFails, Subs!Ends
    <2> QED BY <2>1 DEF DropperInv
  <1>6. CASE \E e \in Subs!Epochs : Subs!LoopTakes(e)
    <2>1. PICK e \in Subs!Epochs : track' = track /\ Subs!Goes(Subs!Loop(e), "compute")
      BY <1>6 DEF Subs!LoopTakes
    <2> QED BY <1>2, <2>1, ProcsAre, ProcsDiffer
  <1>7. CASE Subs!UpdateSubscriptions \/ \E enable \in BOOLEAN : Subs!SetIncomingVideo(enable)
    <2>1. track' = track /\ Subs!Goes(Subs!User, "compute")
      BY <1>7 DEF Subs!UpdateSubscriptions, Subs!SetIncomingVideo, Subs!Calls
    <2> QED BY <1>2, <2>1, ProcsAre, ProcsDiffer
  <1>8. CASE \E e \in Subs!Epochs, k \in Subs!Keys :
                \/ Subs!TrackArrives(e, k) \/ Subs!UserDrops(e, k) \/ Subs!DropTakes(e, k)
                \/ Subs!PacketArrives(e, k)
    <2>1. PICK e \in Subs!Epochs, k \in Subs!Keys :
                \/ Subs!TrackArrives(e, k) \/ Subs!UserDrops(e, k) \/ Subs!DropTakes(e, k)
                \/ Subs!PacketArrives(e, k)
      BY <1>8
    <2>2. /\ doing' = doing /\ track[<<e, k>>] # "unsubscribed"
          /\ \E place : track' = [track EXCEPT ![<<e, k>>] = place]
      BY <2>1 DEF Subs!TrackArrives, Subs!UserDrops, Subs!DropTakes, Subs!PacketArrives, Subs!Incoming
    <2> QED BY <1>3, <2>2 DEF DropperInv
  <1>9. CASE \E e \in Subs!Epochs, k \in Subs!Keys : Subs!DropChecks(e, k)
    <2>1. PICK e \in Subs!Epochs, k \in Subs!Keys : Subs!DropChecks(e, k)
      BY <1>9
    <2>2. track[<<e, k>>] = "unsubscribed" /\ doing[Subs!Dropper(e, k)] = "idle"
          /\ \/ Subs!Goes(Subs!Dropper(e, k), "compute") /\ track' = track
             \/ track' = [track EXCEPT ![<<e, k>>] = "gone"] /\ doing' = doing
      BY <2>1 DEF Subs!DropChecks
    <2>3. CASE Subs!Goes(Subs!Dropper(e, k), "compute") /\ track' = track
      <3>1. ASSUME NEW f \in Subs!Epochs, NEW l \in Subs!Keys, doing'[Subs!Dropper(f, l)] # "idle"
            PROVE  track'[<<f, l>>] = "unsubscribed"
        <4>1. CASE Subs!Dropper(f, l) = Subs!Dropper(e, k)
          <5>1. f = e /\ l = k
            BY <4>1, ProcsDiffer
          <5> QED BY <2>2, <2>3, <5>1
        <4>2. CASE Subs!Dropper(f, l) # Subs!Dropper(e, k)
          <5>1. doing[Subs!Dropper(f, l)] # "idle"
            BY <1>1, <2>3, <3>1, <4>2, GoesTo, ProcsAre
          <5> QED BY <2>3, <5>1 DEF DropperInv
        <4> QED BY <4>1, <4>2
      <3> QED BY <3>1 DEF DropperInv
    <2>4. CASE track' = [track EXCEPT ![<<e, k>>] = "gone"] /\ doing' = doing
      BY <1>3, <2>2, <2>4
    <2> QED BY <2>2, <2>3, <2>4
  <1>10. CASE Subs!Migrates \/ Subs!Rejoins
    <2>1. track' = track /\ Subs!Goes(Subs!Loop(conn + 1), "idle") /\ conn + 1 \in Subs!Epochs
      BY <1>10 DEF Subs!Migrates, Subs!Rejoins, Subs!Joined, Subs!Fresh, PhaseInv
    <2> QED BY <1>2, <2>1, ProcsAre, ProcsDiffer
  <1>11. CASE Subs!ClosesOld
    <2>1. track' = track /\ Subs!Goes(Subs!Loop(phase.old), "off") /\ phase.old \in Subs!Epochs
      BY <1>11 DEF Subs!ClosesOld, PhaseInv
    <2> QED BY <1>2, <2>1, ProcsAre, ProcsDiffer
  <1>12. CASE Subs!FastSwitches
    <2>1. track' = track /\ Subs!Goes(Subs!Loop(conn), "idle")
      BY <1>12 DEF Subs!FastSwitches
    <2> QED BY <1>1, <1>2, <2>1, ProcsAre, ProcsDiffer
  <1>13. CASE Subs!RestoreBegins
    <2>1. track' = track /\ Subs!Goes(Subs!Restore, "compute")
      BY <1>13 DEF Subs!RestoreBegins
    <2> QED BY <1>2, <2>1, ProcsAre, ProcsDiffer
  <1> QED BY <1>4, <1>5, <1>6, <1>7, <1>8, <1>9, <1>10, <1>11, <1>12, <1>13 DEF Subs!Next, Changes

LEMMA FreshStep ==
  ASSUME SubsBounds, SubsTyped, FreshInv, PhaseInv, DropperInv, Subs!Next
  PROVE  FreshInv'
  <1> DEFINE Exempt(e) == phase.at = "answered" /\ phase.kind # "fast" /\ e = conn + 1
  <1>1. /\ CallTyped /\ LinkTyped /\ RequestsTyped /\ conn \in Subs!Epochs /\ conn \in Nat /\ phase \in Phases
        /\ track \in [Subs!Epochs \X Subs!Keys -> Subs!Places] /\ session \in [Subs!Epochs -> Subs!Epochs]
        /\ sfu \in [Subs!Epochs -> SUBSET Subs!Keys] /\ wire \in [Subs!Epochs -> Seq(Messages)]
        /\ rpcs \subseteq Asked /\ doing \in [Subs!Procs -> {"off", "idle", "compute", "rpc"}]
        /\ Subs!Epochs \subseteq Nat
    BY DEF SubsTyped, CallTyped, LinkTyped, RequestsTyped, Subs!Epochs
  <1>2. \A e \in Subs!Epochs : e > conn =>
            /\ sfu[e] = {} /\ \A k \in Subs!Keys : track[<<e, k>>] = "none"
            /\ ~Exempt(e) => doing[Subs!Loop(e)] = "off" /\ wire[e] = <<>>
    BY DEF FreshInv
  <1>3. \A r \in rpcs : r.to \in Subs!Epochs /\ r.to <= conn /\ session[r.to] = r.session
    BY <1>1 DEF FreshInv, Asked
  <1>4. ASSUME conn' = conn,
               \A e \in Subs!Epochs : e > conn =>
                   /\ sfu'[e] = {} /\ \A k \in Subs!Keys : track'[<<e, k>>] = "none"
                   /\ ~(phase'.at = "answered" /\ phase'.kind # "fast" /\ e = conn + 1) =>
                          doing'[Subs!Loop(e)] = "off" /\ wire'[e] = <<>>,
               \A r \in rpcs' : r.to <= conn /\ session'[r.to] = r.session
        PROVE  FreshInv'
    BY <1>4 DEF FreshInv
  <1> HIDE DEF Exempt
  <1>5. CASE \E p \in Subs!Procs : Subs!Computes(p) \/ Subs!Answers(p) \/ Subs!Fails(p)
    <2>1. PICK p \in Subs!Procs : Subs!Computes(p) \/ Subs!Answers(p) \/ Subs!Fails(p)
      BY <1>5
    <2>2. /\ UNCHANGED <<sfu, wire, conn, session>> /\ doing[p] \in {"compute", "rpc"}
          /\ \E place \in {"off", "idle", "rpc"} : Subs!Goes(p, place)
          /\ rpcs' \subseteq rpcs \cup {Sent(p)}
          /\ track' = track \/ track' = Subs!TrackAfter(p)
          /\ phase' = phase \/ \E ok \in BOOLEAN : phase' = Subs!PhaseAfter(p, ok)
      BY <2>1, Proceeds
    <2>3. ASSUME NEW e \in Subs!Epochs, e > conn, NEW k \in Subs!Keys PROVE track'[<<e, k>>] = "none"
      <3>1. track[<<e, k>>] = "none"
        BY <1>2, <2>3
      <3>2. p # Subs!Dropper(e, k)
        BY <2>2, <3>1 DEF DropperInv
      <3> QED BY <1>1, <2>2, <3>1, <3>2, TrackAfterIs
    <2>4. p = Subs!Restore \/ phase' = phase
      BY <1>1, <2>2, PhaseAfterIs
    <2>5. p = Subs!Restore => phase.at = "recomputing"
      BY <2>2 DEF PhaseInv
    <2>6. ASSUME NEW e \in Subs!Epochs, e > conn,
                 ~(phase'.at = "answered" /\ phase'.kind # "fast" /\ e = conn + 1)
          PROVE  doing'[Subs!Loop(e)] = "off" /\ wire'[e] = <<>>
      <3>1. ~Exempt(e)
        BY <2>4, <2>5, <2>6 DEF Exempt
      <3>2. doing[Subs!Loop(e)] = "off" /\ wire[e] = <<>>
        BY <1>2, <2>6, <3>1
      <3>3. doing'[Subs!Loop(e)] = doing[Subs!Loop(e)]
        BY <1>1, <2>2, <3>2, GoesTo, ProcsAre
      <3> QED BY <2>2, <3>2, <3>3
    <2>7. \A r \in rpcs' : r.to <= conn /\ session'[r.to] = r.session
      BY <1>1, <1>3, <2>2 DEF Sent
    <2> QED BY <1>2, <1>4, <2>2, <2>3, <2>6, <2>7
  <1>6. CASE Subs!SfuApplies
    <2>1. PICK r \in rpcs : /\ sfu' = [sfu EXCEPT ![r.to] = r.list]
                            /\ rpcs' = (rpcs \ {r}) \cup {[r EXCEPT !.applied = TRUE]}
      BY <1>6 DEF Subs!SfuApplies
    <2>2. UNCHANGED <<wire, conn, session, phase, doing, track>>
      BY <1>6 DEF Subs!SfuApplies, Subs!linkVars
    <2>3. [r EXCEPT !.applied = TRUE].to = r.to /\ [r EXCEPT !.applied = TRUE].session = r.session
      BY <1>1 DEF Asked
    <2>4. \A q \in rpcs' : q.to <= conn /\ session'[q.to] = q.session
      BY <1>3, <2>1, <2>2, <2>3
    <2>5. \A e \in Subs!Epochs : e > conn => sfu'[e] = {}
      BY <1>1, <1>2, <1>3, <2>1
    <2> QED BY <1>2, <1>4, <2>2, <2>4, <2>5 DEF Exempt
  <1>7. CASE Changes
    <2>1. PICK ev \in Messages : Subs!Reports(ev)
      BY <1>1, <1>7, ChangeIsReported
    <2>2. /\ UNCHANGED <<sfu, conn, session, phase, doing, rpcs, track>>
          /\ \A e \in Subs!Epochs : doing[Subs!Loop(e)] = "off" => wire'[e] = wire[e]
      BY <1>1, <2>1 DEF Subs!Reports, Subs!linkVars, Subs!Listening
    <2> QED BY <1>2, <1>3, <1>4, <2>2 DEF Exempt
  <1>8. CASE \E e \in Subs!Epochs : Subs!LoopTakes(e)
    <2>1. PICK f \in Subs!Epochs : Subs!LoopTakes(f)
      BY <1>8
    <2>2. /\ UNCHANGED <<sfu, conn, session, phase, rpcs, track>> /\ doing[Subs!Loop(f)] = "idle"
          /\ Subs!Goes(Subs!Loop(f), "compute") /\ wire' = [wire EXCEPT ![f] = Tail(wire[f])]
      BY <2>1 DEF Subs!LoopTakes, Subs!linkVars
    <2>3. ASSUME NEW e \in Subs!Epochs, doing[Subs!Loop(e)] = "off" /\ wire[e] = <<>>
          PROVE  doing'[Subs!Loop(e)] = "off" /\ wire'[e] = <<>>
      BY <1>1, <2>2, <2>3, GoesTo, ProcsAre
    <2> QED BY <1>2, <1>3, <1>4, <2>2, <2>3 DEF Exempt
  <1>9. CASE Subs!UpdateSubscriptions \/ \E enable \in BOOLEAN : Subs!SetIncomingVideo(enable)
    <2>1. UNCHANGED <<sfu, wire, conn, session, phase, rpcs, track>> /\ Subs!Goes(Subs!User, "compute")
      BY <1>9 DEF Subs!UpdateSubscriptions, Subs!SetIncomingVideo, Subs!Calls, Subs!linkVars, Subs!sfuVars
    <2>2. \A e \in Subs!Epochs : doing'[Subs!Loop(e)] = doing[Subs!Loop(e)]
      BY <1>1, <2>1, GoesTo, ProcsAre, ProcsDiffer
    <2> QED BY <1>2, <1>3, <1>4, <2>1, <2>2 DEF Exempt
  <1>10. CASE \E e \in Subs!Epochs, k \in Subs!Keys :
                \/ Subs!TrackArrives(e, k) \/ Subs!UserDrops(e, k) \/ Subs!DropTakes(e, k)
                \/ Subs!DropChecks(e, k) \/ Subs!PacketArrives(e, k)
    <2>1. PICK f \in Subs!Epochs, l \in Subs!Keys :
                \/ Subs!TrackArrives(f, l) \/ Subs!UserDrops(f, l) \/ Subs!DropTakes(f, l)
                \/ Subs!DropChecks(f, l) \/ Subs!PacketArrives(f, l)
      BY <1>10
    <2>2. /\ UNCHANGED <<sfu, wire, conn, session, phase, rpcs>>
          /\ doing' = doing \/ Subs!Goes(Subs!Dropper(f, l), "compute")
          /\ track' = track \/ \E place : track' = [track EXCEPT ![<<f, l>>] = place]
          /\ track[<<f, l>>] # "none" \/ l \in sfu[f]
      BY <2>1 DEF Subs!TrackArrives, Subs!UserDrops, Subs!DropTakes, Subs!DropChecks, Subs!PacketArrives,
                  Subs!Incoming, Subs!linkVars, Subs!sfuVars
    <2>3. \A e \in Subs!Epochs : doing'[Subs!Loop(e)] = doing[Subs!Loop(e)]
      BY <1>1, <2>2, GoesTo, ProcsAre, ProcsDiffer
    <2>4. ~(f > conn)
      BY <1>2, <2>2
    <2>5. ASSUME NEW e \in Subs!Epochs, e > conn, NEW k \in Subs!Keys PROVE track'[<<e, k>>] = "none"
      <3>1. <<e, k>> # <<f, l>> /\ track[<<e, k>>] = "none"
        BY <1>2, <2>4, <2>5
      <3> QED BY <1>1, <2>2, <3>1
    <2> QED BY <1>2, <1>3, <1>4, <2>2, <2>3, <2>5 DEF Exempt
  <1>11. CASE \/ Subs!MigrateBegins \/ Subs!MigrateFails \/ Subs!Clears \/ Subs!FastAnswered
              \/ Subs!RestoreBegins \/ Subs!RestoreFails \/ Subs!Ends
    <2>1. /\ UNCHANGED <<sfu, wire, conn, session, rpcs, track>>
          /\ doing' = doing \/ Subs!Goes(Subs!Restore, "compute")
          /\ phase.at # "answered"
      BY <1>11 DEF Subs!MigrateBegins, Subs!MigrateFails, Subs!Clears, Subs!FastAnswered, Subs!RestoreBegins,
                   Subs!RestoreFails, Subs!Ends, Subs!NoAttempt, Subs!sfuVars
    <2>2. \A e \in Subs!Epochs : doing'[Subs!Loop(e)] = doing[Subs!Loop(e)]
      BY <1>1, <2>1, GoesTo, ProcsAre, ProcsDiffer
    <2> QED BY <1>2, <1>3, <1>4, <2>1, <2>2 DEF Exempt
  <1>12. CASE Subs!Migrates \/ Subs!Rejoins
    <2>1. /\ UNCHANGED <<sfu, wire, conn, rpcs, track>> /\ conn + 1 \in Subs!Epochs
          /\ \E id : session' = [session EXCEPT ![conn + 1] = id]
          /\ Subs!Goes(Subs!Loop(conn + 1), "idle") /\ phase.at # "answered"
          /\ phase'.at = "answered" /\ phase'.kind \in {"migrate", "rejoin"}
      BY <1>12 DEF Subs!Migrates, Subs!Rejoins, Subs!Joined, Subs!Fresh, Subs!NoAttempt, Subs!sfuVars, PhaseInv
    <2>2. ASSUME NEW e \in Subs!Epochs, e # conn + 1 PROVE doing'[Subs!Loop(e)] = doing[Subs!Loop(e)]
      BY <1>1, <2>1, <2>2, GoesTo, ProcsAre, ProcsDiffer
    <2>3. \A r \in rpcs' : r.to <= conn /\ session'[r.to] = r.session
      <3>1. \A r \in rpcs : r.to # conn + 1
        BY <1>1, <1>3
      <3> QED BY <1>1, <1>3, <2>1, <3>1
    <2> QED BY <1>2, <1>4, <2>1, <2>2, <2>3 DEF Exempt
  <1>13. CASE Subs!Installs
    <2>1. /\ UNCHANGED <<sfu, wire, session, rpcs, track, doing>> /\ conn' = conn + 1
      BY <1>13 DEF Subs!Installs, Subs!Fresh, Subs!sfuVars
    <2>2. \A e \in Subs!Epochs : e > conn + 1 => e > conn /\ ~Exempt(e)
      BY <1>1 DEF Exempt
    <2>3. \A r \in rpcs' : r.to <= conn + 1 /\ session'[r.to] = r.session
      <3>1. \A r \in rpcs : r.to \in Nat /\ r.to <= conn /\ conn \in Nat
        BY <1>1, <1>3
      <3>2. rpcs' = rpcs /\ session' = session
        BY <2>1
      <3> QED BY <1>3, <3>1, <3>2
    <2> QED BY <1>2, <2>1, <2>2, <2>3 DEF FreshInv
  <1>14. ASSUME NEW p \in Subs!Procs, Stops(p) PROVE \A e \in Subs!Epochs : e > conn => sfu'[e] = {}
    <2> SUFFICES ASSUME NEW e \in Subs!Epochs, e > conn PROVE sfu'[e] = {}
      OBVIOUS
    <2>1. \A r \in rpcs : r.to # e
      BY <1>1, <1>3
    <2>2. sfu' = sfu \/ \E r \in rpcs : sfu' = [sfu EXCEPT ![r.to] = r.list]
      BY <1>14 DEF Stops
    <2>3. sfu'[e] = sfu[e]
      BY <1>1, <2>1, <2>2
    <2> QED BY <1>2, <2>3
  <1>15. CASE Subs!ClosesOld
    <2>1. /\ UNCHANGED <<conn, session, track>> /\ phase.at # "answered" /\ phase.old \in Subs!Epochs
          /\ Stops(Subs!Loop(phase.old)) /\ Subs!Goes(Subs!Loop(phase.old), "off")
          /\ wire' = [wire EXCEPT ![phase.old] = <<>>]
      BY <1>15, OldStops DEF Subs!ClosesOld, PhaseInv
    <2>2. ASSUME NEW e \in Subs!Epochs, doing[Subs!Loop(e)] = "off" /\ wire[e] = <<>>
          PROVE  doing'[Subs!Loop(e)] = "off" /\ wire'[e] = <<>>
      <3>1. wire'[e] = <<>>
        BY <1>1, <2>1, <2>2
      <3>2. Subs!Loop(e) \in Subs!Procs /\ Subs!Loop(phase.old) \in Subs!Procs
        BY <2>1, ProcsAre
      <3>3. doing'[Subs!Loop(e)] \in {doing[Subs!Loop(e)], "off"}
        BY <1>1, <2>1, <3>2, GoesTo
      <3> QED BY <2>2, <3>1, <3>3
    <2>3. rpcs' \subseteq rpcs
      BY <2>1 DEF Stops
    <2> QED BY <1>2, <1>3, <1>4, <1>14, <2>1, <2>2, <2>3, ProcsAre DEF Exempt
  <1>16. CASE Subs!FastSwitches
    <2>1. /\ UNCHANGED <<conn, session, track>> /\ phase.kind = "fast"
          /\ Stops(Subs!Loop(conn)) /\ Subs!Goes(Subs!Loop(conn), "idle")
          /\ wire' = [wire EXCEPT ![conn] = fastWire]
      BY <1>16, FirstStops DEF Subs!FastSwitches
    <2>2. ASSUME NEW e \in Subs!Epochs, e > conn, doing[Subs!Loop(e)] = "off" /\ wire[e] = <<>>
          PROVE  doing'[Subs!Loop(e)] = "off" /\ wire'[e] = <<>>
      <3>1. e # conn
        BY <1>1, <2>2
      <3> QED BY <1>1, <2>1, <2>2, <3>1, GoesTo, ProcsAre, ProcsDiffer
    <2>3. rpcs' \subseteq rpcs
      BY <2>1 DEF Stops
    <2> QED BY <1>1, <1>2, <1>3, <1>4, <1>14, <2>1, <2>2, <2>3, ProcsAre DEF Exempt
  <1> QED BY <1>5, <1>6, <1>7, <1>8, <1>9, <1>10, <1>11, <1>12, <1>13, <1>15, <1>16 DEF Subs!Next, Changes

-----------------------------------------------------------------------------
(* The belief of the client. *)

LEMMA AgreeStays ==
  ASSUME AgreeInv, UNCHANGED <<conn, rpcs, sfu, activeSubs, doubt>>, Subs!Settled' => Subs!Settled
  PROVE  AgreeInv'
  BY DEF AgreeInv

\* The requests of a task that is aborted leave doubt.
LEMMA AgreeStops ==
  ASSUME SubsTyped, AgreeInv, UNCHANGED <<conn, activeSubs>>, Subs!Settled' => Subs!Settled, NEW p, Stops(p)
  PROVE  AgreeInv'
  <1> SUFFICES ASSUME Subs!Settled', conn' \notin doubt'
               PROVE  /\ \A r, q \in rpcs' : r.to = conn' /\ q.to = conn' => r = q
                      /\ \A r \in rpcs' : r.to = conn' /\ r.applied => sfu'[conn'] = r.list
                      /\ (\A r \in rpcs' : r.to = conn' => ~r.applied) => activeSubs' = sfu'[conn']
    BY DEF AgreeInv
  <1>1. /\ rpcs' = {r \in rpcs : r.by # p}
        /\ doubt' = doubt \cup {r.to : r \in {q \in rpcs : q.by = p}}
        /\ \/ sfu' = sfu
           \/ \E r \in rpcs : r.by = p /\ ~r.applied /\ sfu' = [sfu EXCEPT ![r.to] = r.list]
    BY DEF Stops
  <1>2. conn \notin doubt /\ \A r \in rpcs : r.by = p => r.to # conn
    BY <1>1
  <1>3. sfu'[conn] = sfu[conn]
    <2>1. conn \in Subs!Epochs /\ sfu \in [Subs!Epochs -> SUBSET Subs!Keys]
      BY DEF SubsTyped, LinkTyped, RequestsTyped
    <2> QED BY <1>1, <1>2, <2>1
  <1> QED BY <1>1, <1>2, <1>3 DEF AgreeInv

LEMMA AgreeStep ==
  ASSUME SubsBounds, SubsTyped, FreshInv, PhaseInv, AgreeInv, Subs!Next
  PROVE  AgreeInv'
  <1>1. /\ CallTyped /\ LinkTyped /\ RequestsTyped /\ conn \in Subs!Epochs /\ phase \in Phases
        /\ sfu \in [Subs!Epochs -> SUBSET Subs!Keys] /\ rpcs \subseteq Asked
        /\ \A r, q \in rpcs : r.by = q.by => r = q
    BY DEF SubsTyped, LinkTyped, RequestsTyped
  <1>2. Subs!Settled /\ conn \notin doubt =>
            /\ \A r, q \in rpcs : r.to = conn /\ q.to = conn => r = q
            /\ \A r \in rpcs : r.to = conn /\ r.applied => sfu[conn] = r.list
            /\ (\A r \in rpcs : r.to = conn => ~r.applied) => activeSubs = sfu[conn]
    BY DEF AgreeInv
  <1>3. ASSUME NEW p \in Subs!Procs, Subs!Computes(p) \/ Subs!Answers(p) \/ Subs!Fails(p)
        PROVE  Subs!Settled' => Subs!Settled
    <2>1. phase' = phase \/ \E ok \in BOOLEAN : phase' = Subs!PhaseAfter(p, ok)
      BY <1>3, Proceeds
    <2>2. doing[p] # "idle"
      BY <1>3, Proceeds
    <2>3. CASE phase' = phase
      BY <2>3 DEF Subs!Settled
    <2>4. CASE p = Subs!Restore
      <3>1. phase.at = "recomputing"
        BY <2>2, <2>4 DEF PhaseInv
      <3> QED BY <3>1 DEF Subs!Settled
    <2> QED BY <1>1, <2>1, <2>3, <2>4, PhaseAfterIs
  <1>4. CASE \E p \in Subs!Procs : Subs!Computes(p)
    <2>1. PICK p \in Subs!Procs : Subs!Computes(p)
      BY <1>4
    <2>2. /\ UNCHANGED <<conn, sfu, activeSubs>>
          /\ \/ rpcs' = rpcs /\ doubt' = doubt
             \/ /\ rpcs' = rpcs \cup {Sent(p)}
                /\ doubt' = IF Subs!Crossing THEN doubt \cup {conn} ELSE doubt
      BY <2>1 DEF Subs!Computes, Subs!sfuVars, Sent
    <2>3. Subs!Settled' => Subs!Settled
      BY <1>3, <2>1
    <2>4. CASE rpcs' = rpcs /\ doubt' = doubt
      BY <2>2, <2>3, <2>4, AgreeStays
    <2>5. CASE rpcs' = rpcs \cup {Sent(p)} /\ doubt' = IF Subs!Crossing THEN doubt \cup {conn} ELSE doubt
      <3> SUFFICES ASSUME Subs!Settled', conn' \notin doubt'
                   PROVE  /\ \A r, q \in rpcs' : r.to = conn' /\ q.to = conn' => r = q
                          /\ \A r \in rpcs' : r.to = conn' /\ r.applied => sfu'[conn'] = r.list
                          /\ (\A r \in rpcs' : r.to = conn' => ~r.applied) => activeSubs' = sfu'[conn']
        BY DEF AgreeInv
      <3>1. ~Subs!Crossing /\ conn \notin doubt /\ Subs!Settled
        BY <2>2, <2>3, <2>5
      <3>2. \A r \in rpcs : r.to # conn
        BY <3>1 DEF Subs!Crossing
      <3>3. Sent(p).applied = FALSE
        BY DEF Sent
      <3> QED BY <1>2, <2>2, <2>5, <3>1, <3>2, <3>3
    <2> QED BY <2>2, <2>4, <2>5
  <1>5. CASE \E p \in Subs!Procs : Subs!Answers(p)
    <2>1. PICK p \in Subs!Procs : Subs!Answers(p)
      BY <1>5
    <2>2. PICK r \in rpcs :
            /\ r.applied /\ rpcs' = rpcs \ {r}
            /\ activeSubs' = IF Subs!Stores(r) THEN r.list ELSE activeSubs
            /\ doubt' = IF Subs!Misplaced(r) THEN doubt \cup {conn}
                        ELSE IF \E q \in rpcs' : q.to = r.to THEN doubt \cup {r.to}
                        ELSE IF Subs!Stores(r) /\ sfu[conn] = r.list THEN doubt \ {conn} ELSE doubt
      BY <2>1 DEF Subs!Answers
    <2>3. UNCHANGED <<conn, sfu>>
      BY <2>1 DEF Subs!Answers, Subs!sfuVars
    <2>4. Subs!Settled' => Subs!Settled
      BY <1>3, <2>1
    <2> SUFFICES ASSUME Subs!Settled', conn \notin doubt'
                 PROVE  /\ \A q, t \in rpcs' : q.to = conn /\ t.to = conn => q = t
                        /\ \A q \in rpcs' : q.to = conn /\ q.applied => sfu[conn] = q.list
                        /\ (\A q \in rpcs' : q.to = conn => ~q.applied) => activeSubs' = sfu[conn]
      BY <2>3 DEF AgreeInv
    <2>5. ~Subs!Misplaced(r) /\ session[r.to] = r.session
      BY <2>2 DEF FreshInv
    <2>6. Subs!Stores(r) <=> r.to = conn
      BY <2>5 DEF Subs!Misplaced, Subs!Stores
    <2>7. CASE r.to = conn /\ sfu[conn] = r.list
      <3>1. \A q \in rpcs' : q.to # conn
        BY <2>2, <2>5, <2>6, <2>7
      <3> QED BY <2>2, <2>6, <2>7, <3>1
    <2>8. CASE r.to = conn /\ sfu[conn] # r.list
      <3>1. conn \notin doubt
        BY <2>2, <2>5, <2>6, <2>8
      <3> QED BY <1>2, <2>2, <2>4, <2>8, <3>1
    <2>9. CASE r.to # conn
      <3>1. conn \notin doubt /\ activeSubs' = activeSubs
        BY <2>2, <2>5, <2>6, <2>9
      <3> QED BY <1>2, <2>2, <2>4, <2>9, <3>1
    <2> QED BY <2>7, <2>8, <2>9
  <1>6. CASE \E p \in Subs!Procs : Subs!Fails(p)
    <2>1. PICK p \in Subs!Procs : Subs!Fails(p)
      BY <1>6
    <2>2. PICK r \in rpcs : r.by = p /\ rpcs' = rpcs \ {r} /\ doubt' = doubt \cup {r.to}
      BY <2>1 DEF Subs!Fails
    <2>3. UNCHANGED <<conn, sfu, activeSubs>>
      BY <2>1 DEF Subs!Fails, Subs!sfuVars
    <2>4. Stops(p)
      <3>1. rpcs' = {q \in rpcs : q.by # p} /\ {q \in rpcs : q.by = p} = {r}
        BY <1>1, <2>2
      <3> QED BY <2>2, <2>3, <3>1 DEF Stops
    <2>5. Subs!Settled' => Subs!Settled
      BY <1>3, <2>1
    <2> QED BY <2>3, <2>4, <2>5, AgreeStops
  <1>7. CASE Subs!SfuApplies
    <2>1. UNCHANGED <<conn, activeSubs, doubt, phase>>
      BY <1>7 DEF Subs!SfuApplies, Subs!linkVars
    <2>2. PICK r \in rpcs : /\ ~r.applied /\ sfu' = [sfu EXCEPT ![r.to] = r.list]
                            /\ rpcs' = (rpcs \ {r}) \cup {[r EXCEPT !.applied = TRUE]}
      BY <1>7 DEF Subs!SfuApplies
    <2> DEFINE new == [r EXCEPT !.applied = TRUE]
    <2>3. new.to = r.to /\ new.list = r.list /\ new.applied = TRUE
      BY <1>1 DEF Asked
    <2> HIDE DEF new
    <2>4. rpcs' = (rpcs \ {r}) \cup {new} /\ sfu' = [sfu EXCEPT ![r.to] = r.list]
      BY <2>2 DEF new
    <2> SUFFICES ASSUME Subs!Settled, conn \notin doubt
                 PROVE  /\ \A q, t \in rpcs' : q.to = conn /\ t.to = conn => q = t
                        /\ \A q \in rpcs' : q.to = conn /\ q.applied => sfu'[conn] = q.list
                        /\ (\A q \in rpcs' : q.to = conn => ~q.applied) => activeSubs = sfu'[conn]
      BY <2>1 DEF AgreeInv, Subs!Settled
    <2>5. CASE r.to = conn
      <3>1. \A q \in rpcs' : q.to = conn => q = new
        BY <1>2, <2>4, <2>5
      <3>2. new \in rpcs' /\ sfu'[conn] = new.list
        BY <1>1, <2>3, <2>4, <2>5
      <3> QED BY <2>3, <2>5, <3>1, <3>2
    <2>6. CASE r.to # conn
      <3>1. \A q \in rpcs' : q.to = conn => q \in rpcs
        BY <2>3, <2>4, <2>6
      <3>2. \A q \in rpcs : q.to = conn => q \in rpcs'
        BY <2>4, <2>6
      <3>3. sfu'[conn] = sfu[conn]
        BY <1>1, <2>4, <2>6
      <3> QED BY <1>2, <3>1, <3>2, <3>3
    <2> QED BY <2>5, <2>6
  <1>8. CASE \/ Changes
             \/ \E e \in Subs!Epochs : Subs!LoopTakes(e)
             \/ Subs!UpdateSubscriptions \/ \E enable \in BOOLEAN : Subs!SetIncomingVideo(enable)
             \/ \E e \in Subs!Epochs, k \in Subs!Keys :
                    \/ Subs!TrackArrives(e, k) \/ Subs!UserDrops(e, k) \/ Subs!DropTakes(e, k)
                    \/ Subs!DropChecks(e, k) \/ Subs!PacketArrives(e, k)
    <2>1. UNCHANGED <<conn, rpcs, sfu, activeSubs, doubt, phase>>
      BY <1>8 DEF Changes, Subs!Joins, Subs!Leaves, Subs!Updates, Subs!Publishes, Subs!Unpublishes,
                  Subs!Reports, Subs!LoopTakes, Subs!UpdateSubscriptions, Subs!SetIncomingVideo, Subs!TrackArrives,
                  Subs!UserDrops, Subs!DropTakes, Subs!DropChecks, Subs!PacketArrives, Subs!linkVars, Subs!sfuVars
    <2> QED BY <2>1, AgreeStays DEF Subs!Settled
  <1>9. CASE \/ Subs!MigrateBegins \/ Subs!MigrateFails \/ Subs!Migrates \/ Subs!Rejoins \/ Subs!FastAnswered
             \/ Subs!RestoreBegins \/ Subs!RestoreFails \/ Subs!Ends
    <2>1. UNCHANGED <<conn, rpcs, sfu, activeSubs, doubt>> /\ phase.at \notin {"closing", "installed"}
      BY <1>9 DEF Subs!MigrateBegins, Subs!MigrateFails, Subs!Migrates, Subs!Rejoins, Subs!Joined,
                  Subs!FastAnswered, Subs!RestoreBegins, Subs!RestoreFails, Subs!Ends, Subs!NoAttempt, Subs!sfuVars
    <2> QED BY <2>1, AgreeStays DEF Subs!Settled
  <1>10. CASE Subs!Installs
    <2>1. phase'.at \in {"closing", "installed"}
      BY <1>1, <1>10 DEF Subs!Installs, Phases
    <2> QED BY <2>1 DEF AgreeInv, Subs!Settled
  <1>11. CASE Subs!ClosesOld
    <2>1. /\ UNCHANGED <<conn, activeSubs>> /\ Stops(Subs!Loop(phase.old))
          /\ \/ phase' = [phase EXCEPT !.at = "installed"]
             \/ phase.at \in {"restored", "failed"}
      BY <1>11, OldStops DEF Subs!ClosesOld
    <2>2. Subs!Settled' => Subs!Settled
      BY <1>1, <2>1 DEF Subs!Settled, Phases
    <2> QED BY <2>1, <2>2, AgreeStops
  <1>12. CASE Subs!Clears
    <2>1. /\ UNCHANGED <<conn, sfu, rpcs>> /\ activeSubs' = {}
          /\ doubt' = IF Subs!Crossing \/ sfu[conn] # {} THEN doubt \cup {conn} ELSE doubt
      BY <1>12 DEF Subs!Clears, Subs!Forgets, Subs!sfuVars
    <2>2. conn \notin doubt' => sfu[conn] = {} /\ \A r \in rpcs : r.to # conn
      BY <2>1 DEF Subs!Crossing
    <2> QED BY <2>1, <2>2 DEF AgreeInv
  <1>13. CASE Subs!FastSwitches
    <2>1. UNCHANGED <<conn, activeSubs>> /\ Stops(Subs!Loop(conn)) /\ phase.at = "answered"
      BY <1>13, FirstStops DEF Subs!FastSwitches
    <2> QED BY <2>1, AgreeStops DEF Subs!Settled
  <1> QED BY <1>4, <1>5, <1>6, <1>7, <1>8, <1>9, <1>10, <1>11, <1>12, <1>13 DEF Subs!Next, Changes

-----------------------------------------------------------------------------
(* What is asked for. *)

Restored == phase.at \in {"idle", "recomputing", "restored"}

LEMMA WantedKeeps ==
  ASSUME WantedInv, Pending => Pending', Restored' => Restored,
         UNCHANGED <<participants, policy, manualUnsub, subsActive, rpcs, activeSubs, conn, doubt, late, raced>>
  PROVE  WantedInv'
  <1>1. Subs!Wanted' = Subs!Wanted
    BY WantedStays
  <1>2. subsActive /\ ~late /\ ~raced /\ Restored /\ ~Pending =>
            /\ \A r \in rpcs : r.to = conn /\ r.list = Subs!Wanted /\ rpcs = {r}
            /\ rpcs = {} => conn \in doubt \/ activeSubs = Subs!Wanted
    BY DEF WantedInv, Restored
  <1>3. /\ \A r \in rpcs : r.to = conn /\ r.list = Subs!Wanted /\ rpcs = {r}
        /\ rpcs = {} => conn \in doubt \/ activeSubs = Subs!Wanted
        => /\ \A r \in rpcs' : r.to = conn' /\ r.list = Subs!Wanted' /\ rpcs' = {r}
           /\ rpcs' = {} => conn' \in doubt' \/ activeSubs' = Subs!Wanted'
    BY <1>1
  <1> HIDE DEF WantedInv
  <1>4. subsActive' /\ ~late' /\ ~raced' /\ Restored' /\ ~Pending' =>
            subsActive /\ ~late /\ ~raced /\ Restored /\ ~Pending
    OBVIOUS
  <1>5. subsActive' /\ ~late' /\ ~raced' /\ Restored' /\ ~Pending' =>
            /\ \A r \in rpcs' : r.to = conn' /\ r.list = Subs!Wanted' /\ rpcs' = {r}
            /\ rpcs' = {} => conn' \in doubt' \/ activeSubs' = Subs!Wanted'
    BY <1>2, <1>3, <1>4
  <1> QED BY <1>5 DEF WantedInv, Restored

\* A computation that waits for its answer is no change that is followed by one.
LEMMA PendingStays ==
  ASSUME SubsTyped, Pending, conn' = conn, NEW p \in Subs!Procs, doing[p] # "idle",
         doing[p] # "compute" \/ \E f \in Subs!Epochs : p = Subs!Loop(f) /\ f # conn,
         NEW place \in {"off", "idle", "compute", "rpc"}, Subs!Goes(p, place),
         \A k \in Subs!Keys : p # Subs!Dropper(conn, k) => track'[<<conn, k>>] = track[<<conn, k>>]
  PROVE  Pending'
  <1>1. RequestsTyped /\ conn \in Subs!Epochs
    BY DEF SubsTyped, LinkTyped
  <1>2. CASE \E q \in Subs!Procs : /\ doing[q] = "compute"
                                   /\ \A e \in Subs!Epochs : q = Subs!Loop(e) => e = conn
    <2>1. PICK q \in Subs!Procs : /\ doing[q] = "compute"
                                  /\ \A e \in Subs!Epochs : q = Subs!Loop(e) => e = conn
      BY <1>2
    <2>2. q # p
      BY <2>1
    <2>3. doing'[q] = "compute"
      BY <1>1, <2>1, <2>2, GoesTo
    <2> QED BY <2>1, <2>3 DEF Pending
  <1>3. CASE \E k \in Subs!Keys : track[<<conn, k>>] = "unsubscribed" /\ doing[Subs!Dropper(conn, k)] = "idle"
    <2>1. PICK k \in Subs!Keys : track[<<conn, k>>] = "unsubscribed" /\ doing[Subs!Dropper(conn, k)] = "idle"
      BY <1>3
    <2>2. p # Subs!Dropper(conn, k)
      BY <2>1
    <2>3. doing'[Subs!Dropper(conn, k)] = "idle" /\ track'[<<conn, k>>] = "unsubscribed"
      BY <1>1, <2>1, <2>2, GoesTo, ProcsAre
    <2> QED BY <2>3 DEF Pending
  <1> QED BY <1>2, <1>3 DEF Pending

LEMMA PendingTracks ==
  ASSUME SubsTyped, Pending, UNCHANGED <<conn, doing>>, NEW e \in Subs!Epochs, NEW k \in Subs!Keys,
         NEW place, track' = [track EXCEPT ![<<e, k>>] = place], track[<<e, k>>] # "unsubscribed" \/ e # conn
  PROVE  Pending'
  <1>1. conn \in Subs!Epochs /\ track \in [Subs!Epochs \X Subs!Keys -> Subs!Places]
    BY DEF SubsTyped, LinkTyped
  <1>2. \A l \in Subs!Keys : track[<<conn, l>>] = "unsubscribed" => track'[<<conn, l>>] = "unsubscribed"
    <2> SUFFICES ASSUME NEW l \in Subs!Keys, track[<<conn, l>>] = "unsubscribed"
                 PROVE  track'[<<conn, l>>] = "unsubscribed"
      OBVIOUS
    <2>1. <<conn, l>> # <<e, k>>
      OBVIOUS
    <2> QED BY <1>1, <2>1
  <1> QED BY <1>2 DEF Pending

LEMMA WantedStep ==
  ASSUME SubsBounds, SubsTyped, FreshInv, PhaseInv, DropperInv, WantedInv, Subs!Next
  PROVE  WantedInv'
  <1>1. /\ CallTyped /\ LinkTyped /\ RequestsTyped /\ conn \in Subs!Epochs /\ conn \in Nat /\ phase \in Phases
        /\ track \in [Subs!Epochs \X Subs!Keys -> Subs!Places]
        /\ rpcs \subseteq Asked /\ \A r, q \in rpcs : r.by = q.by => r = q
    BY DEF SubsTyped, LinkTyped, RequestsTyped, Subs!Epochs
  <1>2. subsActive /\ ~late /\ ~raced /\ Restored /\ ~Pending =>
            /\ \A r \in rpcs : r.to = conn /\ r.list = Subs!Wanted /\ rpcs = {r}
            /\ rpcs = {} => conn \in doubt \/ activeSubs = Subs!Wanted
    BY DEF WantedInv, Restored
  <1>3. ASSUME \/ Pending' \/ ~Restored' \/ ~subsActive' \/ late' \/ raced'
               \/ /\ \A r \in rpcs' : r.to = conn' /\ r.list = Subs!Wanted' /\ rpcs' = {r}
                  /\ rpcs' = {} => conn' \in doubt' \/ activeSubs' = Subs!Wanted'
        PROVE  WantedInv'
    BY <1>3 DEF WantedInv, Restored
  <1>4. \A stage : [phase EXCEPT !.at = stage].at = stage
    BY <1>1 DEF Phases
  <1>5. ASSUME NEW p \in Subs!Procs, doing'[p] = "compute", \A e \in Subs!Epochs : p = Subs!Loop(e) => e = conn'
        PROVE  WantedInv'
    <2>1. Pending'
      BY <1>5 DEF Pending
    <2> QED BY <1>3, <2>1
  <1>6. CASE \E p \in Subs!Procs : Subs!Computes(p)
    <2>1. PICK p \in Subs!Procs : Subs!Computes(p)
      BY <1>6
    <2>2. /\ UNCHANGED <<conn, participants, policy, manualUnsub, subsActive, activeSubs, session>>
          /\ raced' = (rpcs # {})
          /\ IF ~subsActive \/ Subs!Unchanged THEN rpcs' = rpcs ELSE rpcs' = rpcs \cup {Sent(p)}
      BY <2>1 DEF Subs!Computes, Subs!sfuVars, Subs!stateVars, Sent
    <2>3. Subs!Wanted' = Subs!Wanted
      BY <2>2, WantedStays
    <2>4. CASE rpcs # {} \/ ~subsActive
      BY <1>3, <2>2, <2>4
    <2>5. CASE rpcs = {} /\ subsActive /\ Subs!Unchanged
      <3>1. rpcs' = {} /\ activeSubs' = Subs!Wanted'
        BY <2>2, <2>3, <2>5 DEF Subs!Unchanged
      <3> QED BY <1>3, <3>1
    <2>6. CASE rpcs = {} /\ subsActive /\ ~Subs!Unchanged
      <3>1. rpcs' = {Sent(p)} /\ Sent(p).to = conn' /\ Sent(p).list = Subs!Wanted'
        BY <2>2, <2>3, <2>6 DEF Sent
      <3> QED BY <1>3, <3>1
    <2> QED BY <2>4, <2>5, <2>6
  <1>7. CASE \E p \in Subs!Procs : Subs!Answers(p) \/ Subs!Fails(p)
    <2>1. PICK p \in Subs!Procs : Subs!Answers(p) \/ Subs!Fails(p)
      BY <1>7
    <2>2. /\ UNCHANGED <<conn, participants, policy, manualUnsub, subsActive, late, raced>>
          /\ doing[p] = "rpc" /\ track' = Subs!TrackAfter(p)
          /\ \E place \in {"off", "idle"} : Subs!Goes(p, place)
      BY <2>1 DEF Subs!Answers, Subs!Fails, Subs!stateVars
    <2>3. Subs!Wanted' = Subs!Wanted
      BY <2>2, WantedStays
    <2>4. Pending => Pending'
      <3>1. \A k \in Subs!Keys : p # Subs!Dropper(conn, k) => track'[<<conn, k>>] = track[<<conn, k>>]
        BY <1>1, <2>2, TrackAfterIs
      <3> QED BY <2>2, <3>1, PendingStays
    <2>5. Restored' => Restored
      <3>1. \E ok \in BOOLEAN : phase' = Subs!PhaseAfter(p, ok)
        BY <2>1 DEF Subs!Answers, Subs!Fails
      <3>2. CASE p = Subs!Restore
        BY <2>2, <3>2 DEF PhaseInv, Restored
      <3>3. CASE p # Subs!Restore
        <4>1. phase' = phase
          BY <1>1, <3>1, <3>3, PhaseAfterIs
        <4> QED BY <4>1 DEF Restored
      <3> QED BY <3>2, <3>3
    <2> SUFFICES ASSUME subsActive', ~late', ~raced', Restored', ~Pending'
                 PROVE  /\ \A r \in rpcs' : r.to = conn' /\ r.list = Subs!Wanted' /\ rpcs' = {r}
                        /\ rpcs' = {} => conn' \in doubt' \/ activeSubs' = Subs!Wanted'
      BY <1>3
    <2>6. \A r \in rpcs : r.to = conn /\ r.list = Subs!Wanted /\ rpcs = {r}
      BY <1>2, <2>2, <2>4, <2>5
    <2>7. PICK r \in rpcs :
            /\ r.by = p /\ rpcs' = rpcs \ {r}
            /\ \/ /\ activeSubs' = IF Subs!Stores(r) THEN r.list ELSE activeSubs
               \/ doubt' = doubt \cup {r.to}
      BY <2>1 DEF Subs!Answers, Subs!Fails
    <2>8. rpcs' = {} /\ r.to = conn /\ r.list = Subs!Wanted
      BY <2>6, <2>7
    <2>9. Subs!Stores(r)
      BY <2>8 DEF Subs!Stores, FreshInv
    <2> QED BY <2>2, <2>3, <2>7, <2>8, <2>9
  <1>8. CASE Subs!SfuApplies
    <2>1. UNCHANGED <<conn, participants, policy, manualUnsub, subsActive, late, raced, phase, doing, track>>
      BY <1>8 DEF Subs!SfuApplies, Subs!linkVars, Subs!stateVars
    <2>2. PICK r \in rpcs : rpcs' = (rpcs \ {r}) \cup {[r EXCEPT !.applied = TRUE]}
      BY <1>8 DEF Subs!SfuApplies
    <2> DEFINE new == [r EXCEPT !.applied = TRUE]
    <2>3. new.to = r.to /\ new.list = r.list
      BY <1>1 DEF Asked
    <2> HIDE DEF new
    <2>4. rpcs' = (rpcs \ {r}) \cup {new}
      BY <2>2 DEF new
    <2>5. Subs!Wanted' = Subs!Wanted /\ (Pending => Pending') /\ (Restored' => Restored)
      BY <2>1, WantedStays DEF Pending, Restored
    <2> SUFFICES ASSUME subsActive', ~late', ~raced', Restored', ~Pending'
                 PROVE  /\ \A q \in rpcs' : q.to = conn' /\ q.list = Subs!Wanted' /\ rpcs' = {q}
                        /\ rpcs' = {} => conn' \in doubt' \/ activeSubs' = Subs!Wanted'
      BY <1>3
    <2>6. r.to = conn /\ r.list = Subs!Wanted /\ rpcs = {r}
      BY <1>2, <2>1, <2>5
    <2>7. rpcs' = {new}
      BY <2>4, <2>6
    <2> QED BY <2>1, <2>3, <2>5, <2>6, <2>7
  <1>9. CASE Changes
    <2>1. UNCHANGED <<participants, policy, manualUnsub, subsActive, rpcs, activeSubs, conn, doubt, late, raced,
                      phase, doing, track>>
      BY <1>9 DEF Changes, Subs!Joins, Subs!Leaves, Subs!Updates, Subs!Publishes, Subs!Unpublishes,
                  Subs!Reports, Subs!linkVars, Subs!stateVars
    <2> QED BY <2>1, WantedKeeps DEF Pending, Restored
  <1>10. CASE \E e \in Subs!Epochs : Subs!LoopTakes(e)
    <2>1. PICK e \in Subs!Epochs : Subs!LoopTakes(e)
      BY <1>10
    <2>2. conn' = conn /\ Subs!Goes(Subs!Loop(e), "compute") /\ (late' \/ e = conn)
      BY <2>1 DEF Subs!LoopTakes, Subs!linkVars
    <2>3. doing'[Subs!Loop(e)] = "compute"
      BY <1>1, <2>2, GoesTo, ProcsAre
    <2> QED BY <1>3, <1>5, <2>2, <2>3, ProcsAre, ProcsDiffer
  <1>11. CASE Subs!UpdateSubscriptions \/ \E enable \in BOOLEAN : Subs!SetIncomingVideo(enable)
    <2>1. Subs!Goes(Subs!User, "compute")
      BY <1>11 DEF Subs!UpdateSubscriptions, Subs!SetIncomingVideo, Subs!Calls
    <2>2. doing'[Subs!User] = "compute"
      BY <1>1, <2>1, GoesTo, ProcsAre
    <2> QED BY <1>5, <2>2, ProcsAre, ProcsDiffer
  <1>12. CASE \E e \in Subs!Epochs, k \in Subs!Keys :
                \/ Subs!TrackArrives(e, k) \/ Subs!UserDrops(e, k) \/ Subs!PacketArrives(e, k)
    <2>1. PICK e \in Subs!Epochs, k \in Subs!Keys :
                \/ Subs!TrackArrives(e, k) \/ Subs!UserDrops(e, k) \/ Subs!PacketArrives(e, k)
      BY <1>12
    <2>2. /\ UNCHANGED <<participants, policy, manualUnsub, subsActive, rpcs, activeSubs, conn, doubt, late, raced,
                         phase, doing>>
          /\ track[<<e, k>>] # "unsubscribed" /\ \E place : track' = [track EXCEPT ![<<e, k>>] = place]
      BY <2>1 DEF Subs!TrackArrives, Subs!UserDrops, Subs!PacketArrives, Subs!Incoming, Subs!linkVars,
                  Subs!stateVars
    <2>3. Pending => Pending'
      BY <2>2, PendingTracks
    <2> QED BY <2>2, <2>3, WantedKeeps DEF Restored
  <1>13. CASE \E e \in Subs!Epochs, k \in Subs!Keys : Subs!DropTakes(e, k)
    <2>1. PICK e \in Subs!Epochs, k \in Subs!Keys : Subs!DropTakes(e, k)
      BY <1>13
    <2>2. /\ UNCHANGED <<participants, policy, subsActive, rpcs, activeSubs, conn, doubt, late, raced, phase, doing>>
          /\ track[<<e, k>>] = "dropped"
          /\ \/ e = conn /\ track' = [track EXCEPT ![<<e, k>>] = "unsubscribed"]
             \/ manualUnsub' = manualUnsub /\ track' = [track EXCEPT ![<<e, k>>] = "gone"]
      BY <2>1 DEF Subs!DropTakes, Subs!IsLatest, Subs!linkVars
    <2>3. CASE e = conn /\ track' = [track EXCEPT ![<<e, k>>] = "unsubscribed"]
      <3>1. doing[Subs!Dropper(e, k)] = "idle"
        BY <2>2 DEF DropperInv
      <3>2. track'[<<conn', k>>] = "unsubscribed" /\ doing'[Subs!Dropper(conn', k)] = "idle"
        BY <1>1, <2>2, <2>3, <3>1
      <3>3. Pending'
        BY <3>2 DEF Pending
      <3> QED BY <1>3, <3>3
    <2>4. CASE manualUnsub' = manualUnsub /\ track' = [track EXCEPT ![<<e, k>>] = "gone"]
      <3>1. Pending => Pending'
        BY <2>2, <2>4, PendingTracks
      <3> QED BY <2>2, <2>4, <3>1, WantedKeeps DEF Restored
    <2> QED BY <2>2, <2>3, <2>4
  <1>14. CASE \E e \in Subs!Epochs, k \in Subs!Keys : Subs!DropChecks(e, k)
    <2>1. PICK e \in Subs!Epochs, k \in Subs!Keys : Subs!DropChecks(e, k)
      BY <1>14
    <2>2. /\ UNCHANGED <<participants, policy, manualUnsub, subsActive, rpcs, activeSubs, conn, doubt, late, raced,
                         phase>>
          /\ \/ Subs!Goes(Subs!Dropper(e, k), "compute")
             \/ conn # e /\ doing' = doing /\ track' = [track EXCEPT ![<<e, k>>] = "gone"]
      BY <2>1 DEF Subs!DropChecks, Subs!linkVars, Subs!stateVars
    <2>3. CASE Subs!Goes(Subs!Dropper(e, k), "compute")
      <3>1. doing'[Subs!Dropper(e, k)] = "compute"
        BY <1>1, <2>3, GoesTo, ProcsAre
      <3> QED BY <1>5, <3>1, ProcsAre, ProcsDiffer
    <2>4. CASE conn # e /\ doing' = doing /\ track' = [track EXCEPT ![<<e, k>>] = "gone"]
      <3>1. Pending => Pending'
        BY <2>2, <2>4, PendingTracks
      <3> QED BY <2>2, <2>4, <3>1, WantedKeeps DEF Restored
    <2> QED BY <2>2, <2>3, <2>4
  <1>15. CASE \/ Subs!MigrateBegins \/ Subs!MigrateFails \/ Subs!Migrates \/ Subs!Rejoins \/ Subs!Installs
              \/ Subs!Clears \/ Subs!FastAnswered \/ Subs!FastSwitches \/ Subs!RestoreFails
    <2>1. phase'.at \in {"joining", "failed", "answered", "closing", "installed", "restoring"}
      <3>1. CASE \/ Subs!MigrateBegins \/ Subs!MigrateFails \/ Subs!Migrates \/ Subs!Rejoins
                 \/ Subs!FastAnswered
        BY <3>1 DEF Subs!MigrateBegins, Subs!MigrateFails, Subs!Migrates, Subs!Rejoins, Subs!Joined,
                    Subs!FastAnswered, Subs!Idle
      <3>2. CASE Subs!Installs \/ Subs!Clears \/ Subs!FastSwitches \/ Subs!RestoreFails
        <4>1. \E stage \in {"failed", "closing", "installed", "restoring"} : phase' = [phase EXCEPT !.at = stage]
          BY <3>2 DEF Subs!Installs, Subs!Clears, Subs!FastSwitches, Subs!RestoreFails
        <4> QED BY <1>4, <4>1
      <3> QED BY <1>15, <3>1, <3>2
    <2>2. ~Restored'
      BY <2>1 DEF Restored
    <2> QED BY <1>3, <2>2
  <1>16. CASE Subs!RestoreBegins
    <2>1. Subs!Goes(Subs!Restore, "compute")
      BY <1>16 DEF Subs!RestoreBegins
    <2>2. doing'[Subs!Restore] = "compute"
      BY <1>1, <2>1, GoesTo, ProcsAre
    <2> QED BY <1>5, <2>2, ProcsAre, ProcsDiffer
  <1>17. CASE Subs!Ends
    <2>1. UNCHANGED <<participants, policy, manualUnsub, subsActive, rpcs, activeSubs, conn, doubt, late, raced,
                      doing, track>> /\ phase.at = "restored"
      BY <1>17 DEF Subs!Ends, Subs!stateVars
    <2> QED BY <2>1, WantedKeeps DEF Pending, Restored
  <1>18. CASE Subs!ClosesOld
    <2>1. /\ UNCHANGED <<conn, participants, policy, manualUnsub, subsActive, activeSubs, late, raced, track>>
          /\ Stops(Subs!Loop(phase.old)) /\ Subs!Goes(Subs!Loop(phase.old), "off")
          /\ phase.old \in Subs!Epochs /\ phase.old < conn
          /\ \/ phase' = [phase EXCEPT !.at = "installed"]
             \/ phase.at = "restored"
             \/ phase' = [Subs!Idle EXCEPT !.at = "failed"]
      BY <1>18, OldStops DEF Subs!ClosesOld, Subs!stateVars, PhaseInv
    <2>2. CASE phase.at # "restored"
      <3>1. phase'.at \in {"installed", "failed"}
        BY <1>4, <2>1, <2>2 DEF Subs!Idle
      <3> QED BY <1>3, <3>1 DEF Restored
    <2>3. CASE phase.at = "restored"
      <3>1. Subs!Wanted' = Subs!Wanted /\ Restored
        BY <2>1, <2>3, WantedStays DEF Restored
      <3>2. phase.old # conn
        BY <1>1, <2>1
      <3>3. Pending => Pending'
        <4>1. CASE doing[Subs!Loop(phase.old)] = "idle"
          <5>1. \A q \in Subs!Procs : q # Subs!Loop(phase.old) => doing'[q] = doing[q]
            BY <1>1, <2>1, GoesTo, ProcsAre
          <5>2. \A k \in Subs!Keys : doing'[Subs!Dropper(conn, k)] = doing[Subs!Dropper(conn, k)]
            BY <1>1, <5>1, ProcsAre, ProcsDiffer
          <5> QED BY <2>1, <4>1, <5>1, <5>2 DEF Pending
        <4>2. CASE doing[Subs!Loop(phase.old)] # "idle"
          BY <2>1, <3>2, <4>2, ProcsAre, PendingStays
        <4> QED BY <4>1, <4>2
      <3> SUFFICES ASSUME subsActive', ~late', ~raced', Restored', ~Pending'
                   PROVE  /\ \A r \in rpcs' : r.to = conn' /\ r.list = Subs!Wanted' /\ rpcs' = {r}
                          /\ rpcs' = {} => conn' \in doubt' \/ activeSubs' = Subs!Wanted'
        BY <1>3
      <3>4. /\ \A r \in rpcs : r.to = conn /\ r.list = Subs!Wanted /\ rpcs = {r}
            /\ rpcs = {} => conn \in doubt \/ activeSubs = Subs!Wanted
        BY <1>2, <2>1, <3>1, <3>3
      <3>5. /\ rpcs' = {r \in rpcs : r.by # Subs!Loop(phase.old)}
            /\ doubt' = doubt \cup {r.to : r \in {q \in rpcs : q.by = Subs!Loop(phase.old)}}
        BY <2>1 DEF Stops
      <3>6. CASE rpcs' = rpcs
        BY <2>1, <3>1, <3>4, <3>5, <3>6
      <3>7. CASE rpcs' # rpcs
        <4>1. PICK r \in rpcs : r.by = Subs!Loop(phase.old)
          BY <3>5, <3>7
        <4>2. rpcs' = {} /\ conn \in doubt'
          BY <3>4, <3>5, <4>1
        <4> QED BY <2>1, <4>2
      <3> QED BY <3>6, <3>7
    <2> QED BY <2>2, <2>3
  <1> QED BY <1>6, <1>7, <1>8, <1>9, <1>10, <1>11, <1>12, <1>13, <1>14, <1>15, <1>16, <1>17, <1>18
          DEF Subs!Next, Changes

-----------------------------------------------------------------------------
(* The tracks that the user holds. *)

Bound(k) == k \in sfu[conn] \/ \E r \in rpcs : r.to = conn /\ k \in r.list

LEMMA HeldKeeps ==
  ASSUME HeldInv, manualUnsub' \subseteq manualUnsub, UNCHANGED <<conn, delivered>>,
         \A k \in Subs!Keys : track'[<<conn, k>>] \in {"held", "none"} => track'[<<conn, k>>] = track[<<conn, k>>],
         \A k \in Subs!Keys : Bound(k)' => Bound(k) \/ k \notin manualUnsub
  PROVE  HeldInv'
  <1>1. ASSUME NEW k \in Subs!Keys, track'[<<conn, k>>] = "held", delivered'[k] = conn
        PROVE  k \notin manualUnsub'
    BY <1>1 DEF HeldInv, Subs!HeldIsWanted
  <1>2. ASSUME NEW k \in Subs!Keys, track'[<<conn, k>>] = "none", Bound(k)'
        PROVE  k \notin manualUnsub'
    BY <1>2 DEF HeldInv, Bound
  <1> QED BY <1>1, <1>2 DEF HeldInv, Subs!HeldIsWanted, Bound

LEMMA StopsBound ==
  ASSUME SubsTyped, NEW p, Stops(p), conn' = conn
  PROVE  \A k \in Subs!Keys : Bound(k)' => Bound(k)
  <1>1. conn \in Subs!Epochs /\ sfu \in [Subs!Epochs -> SUBSET Subs!Keys]
    BY DEF SubsTyped, LinkTyped, RequestsTyped
  <1>2. rpcs' \subseteq rpcs /\ (sfu' = sfu \/ \E r \in rpcs : sfu' = [sfu EXCEPT ![r.to] = r.list])
    BY DEF Stops
  <1> QED BY <1>1, <1>2 DEF Bound

LEMMA HeldStep ==
  ASSUME SubsBounds, SubsTyped, FreshInv, PhaseInv, HeldInv, Subs!Next
  PROVE  HeldInv'
  <1>1. /\ CallTyped /\ LinkTyped /\ RequestsTyped /\ conn \in Subs!Epochs /\ conn \in Nat
        /\ track \in [Subs!Epochs \X Subs!Keys -> Subs!Places] /\ delivered \in [Subs!Keys -> 0..MaxEpochs]
        /\ sfu \in [Subs!Epochs -> SUBSET Subs!Keys] /\ rpcs \subseteq Asked
    BY DEF SubsTyped, LinkTyped, RequestsTyped, Subs!Epochs
  <1>2. CASE \E p \in Subs!Procs : Subs!Computes(p) \/ Subs!Answers(p) \/ Subs!Fails(p)
    <2>1. PICK p \in Subs!Procs : Subs!Computes(p) \/ Subs!Answers(p) \/ Subs!Fails(p)
      BY <1>2
    <2>2. /\ UNCHANGED <<manualUnsub, conn, delivered, sfu>>
          /\ track' = track \/ track' = Subs!TrackAfter(p)
          /\ rpcs' \subseteq rpcs \cup {Sent(p)}
      BY <2>1, Proceeds
    <2>3. \A k \in Subs!Keys : track'[<<conn, k>>] \in {"held", "none"} => track'[<<conn, k>>] = track[<<conn, k>>]
      BY <1>1, <2>2, TrackAfterIs
    <2>4. \A k \in Sent(p).list : k \notin manualUnsub
      BY <1>1, WantedIs DEF Sent
    <2>5. \A k \in Subs!Keys : Bound(k)' => Bound(k) \/ k \notin manualUnsub
      BY <2>2, <2>4 DEF Bound
    <2> QED BY <2>2, <2>3, <2>5, HeldKeeps
  <1>3. CASE Subs!SfuApplies
    <2>1. UNCHANGED <<manualUnsub, conn, delivered, track>>
      BY <1>3 DEF Subs!SfuApplies, Subs!linkVars, Subs!stateVars
    <2>2. PICK r \in rpcs : /\ sfu' = [sfu EXCEPT ![r.to] = r.list]
                            /\ rpcs' = (rpcs \ {r}) \cup {[r EXCEPT !.applied = TRUE]}
      BY <1>3 DEF Subs!SfuApplies
    <2> DEFINE new == [r EXCEPT !.applied = TRUE]
    <2>3. new.to = r.to /\ new.list = r.list
      BY <1>1 DEF Asked
    <2> HIDE DEF new
    <2>4. rpcs' = (rpcs \ {r}) \cup {new}
      BY <2>2 DEF new
    <2>5. \A k \in Subs!Keys : Bound(k)' => Bound(k)
      BY <1>1, <2>1, <2>2, <2>3, <2>4 DEF Bound
    <2> QED BY <2>1, <2>5, HeldKeeps
  <1>4. CASE Changes
    <2>1. UNCHANGED <<manualUnsub, conn, delivered, track, sfu, rpcs>>
      BY <1>4 DEF Changes, Subs!Joins, Subs!Leaves, Subs!Updates, Subs!Publishes, Subs!Unpublishes,
                  Subs!Reports, Subs!linkVars, Subs!stateVars
    <2> QED BY <2>1, HeldKeeps DEF Bound
  <1>5. CASE \E e \in Subs!Epochs : Subs!LoopTakes(e)
    <2>1. PICK e \in Subs!Epochs : Subs!LoopTakes(e)
      BY <1>5
    <2>2. UNCHANGED <<conn, delivered, track, sfu, rpcs>> /\ Subs!Applies(Head(wire[e])) /\ wire[e] # <<>>
      BY <2>1 DEF Subs!LoopTakes, Subs!linkVars
    <2>3. wire[e] \in Seq(Messages)
      BY <1>1 DEF CallTyped
    <2>4. Head(wire[e]) \in Messages
      BY <2>2, <2>3
    <2>5. manualUnsub' \subseteq manualUnsub
      BY <1>1, <2>2, <2>4, AppliesSees
    <2> QED BY <2>2, <2>5, HeldKeeps DEF Bound
  <1>6. CASE \/ Subs!UpdateSubscriptions \/ \E enable \in BOOLEAN : Subs!SetIncomingVideo(enable)
             \/ Subs!MigrateBegins \/ Subs!MigrateFails \/ Subs!Migrates \/ Subs!Rejoins \/ Subs!Clears
             \/ Subs!FastAnswered \/ Subs!RestoreBegins \/ Subs!RestoreFails \/ Subs!Ends
    <2>1. UNCHANGED <<manualUnsub, conn, delivered, track, sfu, rpcs>>
      BY <1>6 DEF Subs!UpdateSubscriptions, Subs!SetIncomingVideo, Subs!MigrateBegins, Subs!MigrateFails,
                  Subs!Migrates, Subs!Rejoins, Subs!Joined, Subs!Clears, Subs!FastAnswered, Subs!RestoreBegins,
                  Subs!RestoreFails, Subs!Ends, Subs!linkVars, Subs!stateVars, Subs!sfuVars
    <2> QED BY <2>1, HeldKeeps DEF Bound
  <1>7. ASSUME NEW e \in Subs!Epochs, NEW k \in Subs!Keys, NEW place \in {"gone", "dropped"},
               track' = [track EXCEPT ![<<e, k>>] = place],
               UNCHANGED <<manualUnsub, conn, delivered, sfu, rpcs>>
        PROVE  HeldInv'
    <2>1. \A l \in Subs!Keys : track'[<<conn, l>>] \in {"held", "none"} => track'[<<conn, l>>] = track[<<conn, l>>]
      BY <1>1, <1>7
    <2> QED BY <1>7, <2>1, HeldKeeps DEF Bound
  <1>8. ASSUME NEW e \in Subs!Epochs, NEW k \in Subs!Keys, Subs!Incoming(e, k),
               e = conn => k \notin manualUnsub, UNCHANGED <<manualUnsub, conn, sfu, rpcs>>
        PROVE  HeldInv'
    <2>1. CASE track' = [track EXCEPT ![<<e, k>>] = "gone"] /\ delivered' = delivered
      BY <1>7, <1>8, <2>1
    <2>2. CASE track' = [track EXCEPT ![<<e, k>>] = "held"] /\ delivered' = [delivered EXCEPT ![k] = e]
      <3>1. ASSUME NEW l \in Subs!Keys, track'[<<conn, l>>] = "held", delivered'[l] = conn
            PROVE  l \notin manualUnsub
        <4>1. CASE l = k
          <5>1. e = conn
            BY <1>1, <2>2, <3>1, <4>1
          <5> QED BY <1>8, <4>1, <5>1
        <4>2. CASE l # k
          <5>1. <<conn, l>> # <<e, k>>
            BY <4>2
          <5>2. track[<<conn, l>>] = "held" /\ delivered[l] = conn
            BY <1>1, <2>2, <3>1, <4>2, <5>1
          <5> QED BY <5>2 DEF HeldInv, Subs!HeldIsWanted
        <4> QED BY <4>1, <4>2
      <3>2. ASSUME NEW l \in Subs!Keys, track'[<<conn, l>>] = "none", Bound(l)
            PROVE  l \notin manualUnsub
        <4>1. <<conn, l>> # <<e, k>>
          BY <1>1, <2>2, <3>2
        <4>2. track[<<conn, l>>] = "none"
          BY <1>1, <2>2, <3>2, <4>1
        <4> QED BY <3>2, <4>2 DEF HeldInv, Bound
      <3> QED BY <1>8, <3>1, <3>2 DEF HeldInv, Subs!HeldIsWanted, Bound
    <2> QED BY <1>8, <2>1, <2>2 DEF Subs!Incoming
  <1>9. CASE \E e \in Subs!Epochs, k \in Subs!Keys : Subs!TrackArrives(e, k)
    <2>1. PICK e \in Subs!Epochs, k \in Subs!Keys : Subs!TrackArrives(e, k)
      BY <1>9
    <2>2. /\ UNCHANGED <<manualUnsub, conn, sfu, rpcs>> /\ Subs!Incoming(e, k)
          /\ track[<<e, k>>] = "none" /\ k \in sfu[e]
      BY <2>1 DEF Subs!TrackArrives, Subs!linkVars, Subs!stateVars, Subs!sfuVars
    <2>3. e = conn => k \notin manualUnsub
      BY <2>2 DEF HeldInv
    <2> QED BY <1>8, <2>2, <2>3
  <1>10. CASE \E e \in Subs!Epochs, k \in Subs!Keys : Subs!UserDrops(e, k)
    <2>1. PICK e \in Subs!Epochs, k \in Subs!Keys : Subs!UserDrops(e, k)
      BY <1>10
    <2>2. /\ track' = [track EXCEPT ![<<e, k>>] = "dropped"]
          /\ UNCHANGED <<manualUnsub, conn, delivered, sfu, rpcs>>
      BY <2>1 DEF Subs!UserDrops, Subs!linkVars, Subs!stateVars, Subs!sfuVars
    <2> QED BY <1>7, <2>2
  <1>11. CASE \E e \in Subs!Epochs, k \in Subs!Keys : Subs!DropTakes(e, k)
    <2>1. PICK e \in Subs!Epochs, k \in Subs!Keys : Subs!DropTakes(e, k)
      BY <1>11
    <2>2. /\ UNCHANGED <<conn, sfu, rpcs>>
          /\ \/ /\ e = conn /\ track' = [track EXCEPT ![<<e, k>>] = "unsubscribed"]
                /\ delivered' = [delivered EXCEPT ![k] = 0] /\ manualUnsub' = manualUnsub \cup {k}
             \/ track' = [track EXCEPT ![<<e, k>>] = "gone"] /\ UNCHANGED <<delivered, manualUnsub>>
      BY <2>1 DEF Subs!DropTakes, Subs!IsLatest, Subs!linkVars, Subs!sfuVars
    <2>3. CASE track' = [track EXCEPT ![<<e, k>>] = "gone"] /\ UNCHANGED <<delivered, manualUnsub>>
      BY <1>7, <2>2, <2>3
    <2>4. CASE /\ e = conn /\ track' = [track EXCEPT ![<<e, k>>] = "unsubscribed"]
               /\ delivered' = [delivered EXCEPT ![k] = 0] /\ manualUnsub' = manualUnsub \cup {k}
      <3>1. ASSUME NEW l \in Subs!Keys, track'[<<conn, l>>] \in {"held", "none"}
            PROVE  l # k /\ track[<<conn, l>>] = track'[<<conn, l>>] /\ delivered'[l] = delivered[l]
        <4>1. l # k
          BY <1>1, <2>4, <3>1
        <4>2. <<conn, l>> # <<e, k>>
          BY <4>1
        <4> QED BY <1>1, <2>4, <3>1, <4>1, <4>2
      <3>2. ASSUME NEW l \in Subs!Keys, track'[<<conn, l>>] = "held", delivered'[l] = conn
            PROVE  l \notin manualUnsub'
        <4>1. l # k /\ track[<<conn, l>>] = "held" /\ delivered[l] = conn
          BY <3>1, <3>2
        <4> QED BY <2>4, <4>1 DEF HeldInv, Subs!HeldIsWanted
      <3>3. ASSUME NEW l \in Subs!Keys, track'[<<conn, l>>] = "none", Bound(l)
            PROVE  l \notin manualUnsub'
        <4>1. l # k /\ track[<<conn, l>>] = "none"
          BY <3>1, <3>3
        <4> QED BY <2>4, <3>3, <4>1 DEF HeldInv, Bound
      <3> QED BY <2>2, <3>2, <3>3 DEF HeldInv, Subs!HeldIsWanted, Bound
    <2> QED BY <2>2, <2>3, <2>4
  <1>12. CASE \E e \in Subs!Epochs, k \in Subs!Keys : Subs!DropChecks(e, k)
    <2>1. PICK e \in Subs!Epochs, k \in Subs!Keys : Subs!DropChecks(e, k)
      BY <1>12
    <2>2. /\ UNCHANGED <<manualUnsub, conn, delivered, sfu, rpcs>>
          /\ track' = track \/ track' = [track EXCEPT ![<<e, k>>] = "gone"]
      BY <2>1 DEF Subs!DropChecks, Subs!linkVars, Subs!stateVars, Subs!sfuVars
    <2> QED BY <1>7, <2>2, HeldKeeps DEF Bound
  <1>13. CASE \E e \in Subs!Epochs, k \in Subs!Keys : Subs!PacketArrives(e, k)
    <2>1. PICK e \in Subs!Epochs, k \in Subs!Keys : Subs!PacketArrives(e, k)
      BY <1>13
    <2>2. /\ UNCHANGED <<manualUnsub, conn, sfu, rpcs>>
          /\ \/ track' = [track EXCEPT ![<<e, k>>] = "gone"] /\ delivered' = delivered
             \/ k \notin manualUnsub /\ Subs!Incoming(e, k)
      BY <2>1 DEF Subs!PacketArrives, Subs!KeepsWaiting, Subs!linkVars, Subs!stateVars, Subs!sfuVars
    <2> QED BY <1>7, <1>8, <2>2
  <1>14. CASE Subs!Installs
    <2>1. UNCHANGED <<manualUnsub, delivered, track, sfu, rpcs>> /\ conn' = conn + 1
      BY <1>14 DEF Subs!Installs, Subs!Fresh, Subs!stateVars, Subs!sfuVars
    <2>2. conn + 1 \in Subs!Epochs /\ conn + 1 > conn
      BY <1>1, <1>14 DEF Subs!Installs, PhaseInv
    <2>3. sfu[conn + 1] = {} /\ \A k \in Subs!Keys : track[<<conn + 1, k>>] = "none"
      BY <2>2 DEF FreshInv
    <2>4. \A r \in rpcs : r.to # conn + 1
      <3>1. \A r \in rpcs : r.to \in Nat /\ r.to <= conn
        BY <1>1 DEF FreshInv, Asked, Subs!Epochs
      <3> QED BY <1>1, <3>1
    <2> QED BY <2>1, <2>3, <2>4 DEF HeldInv, Subs!HeldIsWanted
  <1>15. CASE Subs!ClosesOld
    <2>1. UNCHANGED <<manualUnsub, conn, delivered, track>> /\ Stops(Subs!Loop(phase.old))
      BY <1>15, OldStops DEF Subs!ClosesOld, Subs!stateVars
    <2> QED BY <2>1, StopsBound, HeldKeeps
  <1>16. CASE Subs!FastSwitches
    <2>1. UNCHANGED <<manualUnsub, conn, delivered, track>> /\ Stops(Subs!Loop(conn))
      BY <1>16, FirstStops DEF Subs!FastSwitches, Subs!stateVars
    <2> QED BY <2>1, StopsBound, HeldKeeps
  <1> QED BY <1>2, <1>3, <1>4, <1>5, <1>6, <1>9, <1>10, <1>11, <1>12, <1>13, <1>14, <1>15, <1>16
          DEF Subs!Next, Changes

-----------------------------------------------------------------------------
(* What the participants show, and the events on the way. *)

Fast == phase.at = "answered" /\ phase.kind = "fast"
Heard == IF phase.at = "answered" THEN conn + 1 ELSE conn

LEMMA FollowIs ==
  FollowInv <=> \/ late
                \/ Fast /\ LeadsTo(View, fastWire, world)
                \/ ~Fast /\ (Subs!Listening(Heard) => LeadsTo(View, wire[Heard], world))
  BY DEF FollowInv, Fast, Heard

LEMMA FollowsAfter ==
  ASSUME \/ late'
         \/ Fast' /\ LeadsTo(View', fastWire', world')
         \/ ~Fast' /\ (doing'[Subs!Loop(Heard')] # "off" => LeadsTo(View', wire'[Heard'], world'))
  PROVE  FollowInv'
  BY DEF FollowInv, Fast, Heard, Subs!Listening

\* A step that leaves the participants and the events follows if no loop starts.
LEMMA FollowStays ==
  ASSUME FollowInv, UNCHANGED <<world, participants, wire, fastWire, conn, late>>,
         phase' = phase \/ (phase.at # "answered" /\ phase'.at # "answered"), Heard \in Subs!Epochs \/ Fast,
         \A e \in Subs!Epochs : doing[Subs!Loop(e)] = "off" => doing'[Subs!Loop(e)] = "off"
  PROVE  FollowInv'
  <1>1. View' = View
    BY DEF View
  <1>2. Heard' = Heard /\ Fast' = Fast
    BY DEF Heard, Fast
  <1>3. \/ late
        \/ Fast /\ LeadsTo(View, fastWire, world)
        \/ ~Fast /\ (doing[Subs!Loop(Heard)] # "off" => LeadsTo(View, wire[Heard], world))
    BY FollowIs DEF Subs!Listening
  <1>4. ~Fast /\ doing'[Subs!Loop(Heard)] # "off" => doing[Subs!Loop(Heard)] # "off"
    OBVIOUS
  <1> QED BY <1>1, <1>2, <1>3, <1>4, FollowsAfter

LEMMA FollowStep ==
  ASSUME SubsBounds, SubsTyped, FreshInv, PhaseInv, FollowInv, Subs!Next
  PROVE  FollowInv'
  <1>1. /\ CallTyped /\ LinkTyped /\ RequestsTyped /\ conn \in Subs!Epochs /\ conn \in Nat /\ phase \in Phases
        /\ world \in Worlds /\ wire \in [Subs!Epochs -> Seq(Messages)] /\ View \in Worlds
        /\ doing \in [Subs!Procs -> {"off", "idle", "compute", "rpc"}]
    BY ViewIs DEF SubsTyped, LinkTyped, CallTyped, RequestsTyped, Subs!Epochs
  <1>2. Heard \in Subs!Epochs \/ Fast
    BY <1>1 DEF Heard, Fast, PhaseInv
  <1>3. \/ late
        \/ Fast /\ LeadsTo(View, fastWire, world)
        \/ ~Fast /\ (doing[Subs!Loop(Heard)] # "off" => LeadsTo(View, wire[Heard], world))
    BY FollowIs DEF Subs!Listening
  <1>4. \A stage : [phase EXCEPT !.at = stage].at = stage /\ [phase EXCEPT !.at = stage].kind = phase.kind
    BY <1>1 DEF Phases
  <1>5. ASSUME NEW new \in Subs!Answered(participants), participants' = new, world' = world
        PROVE  View' = world' /\ world' \in Worlds
    <2>1. \A s \in Sessions : SeenIn(participants', s) = world[s]
      BY <1>1, <1>5, AnsweredSees
    <2>2. View' = [s \in Sessions |-> SeenIn(participants', s)]
      BY DEF View
    <2> QED BY <1>1, <1>5, <2>1, <2>2 DEF Worlds
  <1>6. ASSUME NEW p \in Subs!Procs, NEW place \in {"off", "idle", "compute", "rpc"}, Subs!Goes(p, place),
               doing[p] # "off" \/ \A e \in Subs!Epochs : p # Subs!Loop(e)
        PROVE  \A e \in Subs!Epochs : doing[Subs!Loop(e)] = "off" => doing'[Subs!Loop(e)] = "off"
    BY <1>1, <1>6, GoesTo, ProcsAre
  <1>7. CASE \E p \in Subs!Procs : Subs!Computes(p) \/ Subs!Answers(p) \/ Subs!Fails(p)
    <2>1. PICK p \in Subs!Procs : Subs!Computes(p) \/ Subs!Answers(p) \/ Subs!Fails(p)
      BY <1>7
    <2>2. /\ UNCHANGED <<world, participants, wire, fastWire, conn, late>> /\ doing[p] \in {"compute", "rpc"}
          /\ \E place \in {"off", "idle", "rpc"} : Subs!Goes(p, place)
          /\ phase' = phase \/ \E ok \in BOOLEAN : phase' = Subs!PhaseAfter(p, ok)
      BY <2>1, Proceeds
    <2>3. phase' = phase \/ (phase.at # "answered" /\ phase'.at # "answered")
      <3>1. CASE p = Subs!Restore
        <4>1. phase.at = "recomputing"
          BY <2>2, <3>1 DEF PhaseInv
        <4> QED BY <1>1, <2>2, <3>1, <4>1, PhaseAfterIs
      <3>2. CASE p # Subs!Restore
        BY <1>1, <2>2, <3>2, PhaseAfterIs
      <3> QED BY <3>1, <3>2
    <2>4. \A e \in Subs!Epochs : doing[Subs!Loop(e)] = "off" => doing'[Subs!Loop(e)] = "off"
      BY <1>6, <2>2
    <2> QED BY <1>2, <2>2, <2>3, <2>4, FollowStays
  <1>8. CASE \/ Subs!SfuApplies
             \/ Subs!UpdateSubscriptions \/ \E enable \in BOOLEAN : Subs!SetIncomingVideo(enable)
             \/ \E e \in Subs!Epochs, k \in Subs!Keys :
                    \/ Subs!TrackArrives(e, k) \/ Subs!UserDrops(e, k) \/ Subs!DropTakes(e, k)
                    \/ Subs!DropChecks(e, k) \/ Subs!PacketArrives(e, k)
             \/ Subs!MigrateBegins \/ Subs!MigrateFails \/ Subs!Clears \/ Subs!RestoreBegins
             \/ Subs!RestoreFails \/ Subs!Ends
    <2>1. UNCHANGED <<world, participants, wire, fastWire, conn, late>>
      BY <1>8 DEF Subs!SfuApplies, Subs!UpdateSubscriptions, Subs!SetIncomingVideo, Subs!TrackArrives,
                  Subs!UserDrops, Subs!DropTakes, Subs!DropChecks, Subs!PacketArrives, Subs!MigrateBegins,
                  Subs!MigrateFails, Subs!Clears, Subs!RestoreBegins, Subs!RestoreFails, Subs!Ends,
                  Subs!linkVars, Subs!stateVars, Subs!sfuVars
    <2>2. phase' = phase \/ (phase.at # "answered" /\ phase'.at # "answered")
      <3>1. \/ phase' = phase
            \/ /\ phase.at # "answered"
               /\ \/ phase' \in {[at |-> "joining", kind |-> "migrate", old |-> conn], Subs!Idle,
                                 [Subs!Idle EXCEPT !.at = "failed"]}
                  \/ \E stage \in {"restoring", "recomputing", "failed"} : phase' = [phase EXCEPT !.at = stage]
        BY <1>8 DEF Subs!SfuApplies, Subs!UpdateSubscriptions, Subs!SetIncomingVideo, Subs!TrackArrives,
                    Subs!UserDrops, Subs!DropTakes, Subs!DropChecks, Subs!PacketArrives, Subs!MigrateBegins,
                    Subs!MigrateFails, Subs!Clears, Subs!RestoreBegins, Subs!RestoreFails, Subs!Ends,
                    Subs!NoAttempt, Subs!linkVars
      <3>2. /\ Subs!Idle.at # "answered" /\ [Subs!Idle EXCEPT !.at = "failed"].at # "answered"
            /\ [at |-> "joining", kind |-> "migrate", old |-> conn].at # "answered"
        BY DEF Subs!Idle
      <3>3. \A stage \in {"restoring", "recomputing", "failed"} : [phase EXCEPT !.at = stage].at # "answered"
        BY <1>4
      <3> QED BY <3>1, <3>2, <3>3
    <2>3. \/ doing' = doing
          \/ \E p \in Subs!Procs : Subs!Goes(p, "compute") /\ \A e \in Subs!Epochs : p # Subs!Loop(e)
      <3>1. \/ doing' = doing
            \/ Subs!Goes(Subs!User, "compute") \/ Subs!Goes(Subs!Restore, "compute")
            \/ \E e \in Subs!Epochs, k \in Subs!Keys : Subs!Goes(Subs!Dropper(e, k), "compute")
        BY <1>8 DEF Subs!SfuApplies, Subs!UpdateSubscriptions, Subs!SetIncomingVideo, Subs!Calls,
                    Subs!TrackArrives, Subs!UserDrops, Subs!DropTakes, Subs!DropChecks, Subs!PacketArrives,
                    Subs!MigrateBegins, Subs!MigrateFails, Subs!Clears, Subs!RestoreBegins, Subs!RestoreFails,
                    Subs!Ends
      <3> QED BY <3>1, ProcsAre, ProcsDiffer
    <2>4. \A e \in Subs!Epochs : doing[Subs!Loop(e)] = "off" => doing'[Subs!Loop(e)] = "off"
      BY <1>6, <2>3
    <2> QED BY <1>2, <2>1, <2>2, <2>4, FollowStays
  <1>9. CASE Changes
    <2>1. PICK ev \in Messages : Subs!Reports(ev) /\ world' = After(ev, world)
      BY <1>1, <1>9, ChangeIsReported
    <2>2. /\ UNCHANGED <<participants, conn, phase, doing, late>>
          /\ \A e \in Subs!Epochs : doing[Subs!Loop(e)] # "off" => wire'[e] = Append(wire[e], ev)
          /\ fastWire \in Seq(Messages) => fastWire' = Append(fastWire, ev)
      BY <2>1 DEF Subs!Reports, Subs!linkVars, Subs!stateVars, Subs!Listening, SubsBounds
    <2>3. View' = View /\ Heard' = Heard /\ Fast' = Fast
      BY <2>2 DEF View, Heard, Fast
    <2>4. CASE late
      BY <2>2, <2>4, FollowsAfter
    <2>5. CASE Fast /\ LeadsTo(View, fastWire, world)
      <3>1. fastWire \in Seq(Messages)
        BY <2>5 DEF Fast, PhaseInv
      <3>2. LeadsTo(View, fastWire', world')
        BY <1>1, <2>1, <2>2, <2>5, <3>1, EventAdded
      <3> QED BY <2>3, <2>5, <3>2, FollowsAfter
    <2>6. CASE ~Fast /\ (doing[Subs!Loop(Heard)] # "off" => LeadsTo(View, wire[Heard], world))
      <3>1. Heard \in Subs!Epochs /\ wire[Heard] \in Seq(Messages)
        BY <1>1, <1>2, <2>6
      <3>2. ASSUME doing[Subs!Loop(Heard)] # "off" PROVE LeadsTo(View, wire'[Heard], world')
        <4>1. wire'[Heard] = Append(wire[Heard], ev)
          BY <2>2, <3>1, <3>2
        <4> QED BY <1>1, <2>1, <2>6, <3>1, <3>2, <4>1, EventAdded
      <3> QED BY <2>2, <2>3, <2>6, <3>2, FollowsAfter
    <2> QED BY <1>3, <2>4, <2>5, <2>6
  <1>10. CASE \E e \in Subs!Epochs : Subs!LoopTakes(e)
    <2>1. PICK e \in Subs!Epochs : Subs!LoopTakes(e)
      BY <1>10
    <2>2. /\ UNCHANGED <<world, conn, phase>> /\ doing[Subs!Loop(e)] = "idle"
          /\ late' = (late \/ e # conn \/ phase.at = "answered")
          /\ wire[e] # <<>> /\ Subs!Applies(Head(wire[e])) /\ wire' = [wire EXCEPT ![e] = Tail(wire[e])]
      BY <2>1 DEF Subs!LoopTakes, Subs!linkVars
    <2>3. wire[e] \in Seq(Messages) /\ Head(wire[e]) \in Messages
      BY <1>1, <2>2
    <2>4. CASE late'
      BY <2>4, FollowsAfter
    <2>5. CASE ~late'
      <3>1. ~late /\ e = conn /\ ~Fast /\ ~Fast' /\ Heard = conn /\ Heard' = conn
        BY <2>2, <2>5 DEF Fast, Heard
      <3>2. LeadsTo(View, wire[e], world)
        BY <1>3, <2>2, <3>1
      <3>3. View' = After(Head(wire[e]), View)
        BY <1>1, <2>2, <2>3, AppliesSees
      <3>4. LeadsTo(View', wire'[e], world')
        <4>1. wire'[e] = Tail(wire[e])
          BY <1>1, <2>2
        <4> QED BY <1>1, <2>2, <2>3, <3>2, <3>3, <4>1, EventTaken
      <3> QED BY <3>1, <3>4, FollowsAfter
    <2> QED BY <2>4, <2>5
  <1>11. CASE Subs!Migrates \/ Subs!Rejoins
    <2>1. /\ participants' \in Subs!Answered(participants) /\ UNCHANGED <<world, wire, conn>>
          /\ phase'.at = "answered" /\ phase'.kind \in {"migrate", "rejoin"} /\ phase.at # "answered"
          /\ conn + 1 \in Subs!Epochs
      BY <1>11 DEF Subs!Migrates, Subs!Rejoins, Subs!Joined, Subs!Fresh, Subs!NoAttempt, Subs!sfuVars, PhaseInv
    <2>2. View' = world' /\ world' \in Worlds
      BY <1>5, <2>1
    <2>3. wire'[conn + 1] = <<>>
      <3>1. conn + 1 > conn
        BY <1>1
      <3> QED BY <2>1, <3>1 DEF FreshInv
    <2>4. LeadsTo(View', <<>>, world')
      BY <2>2, NoEvents
    <2>5. ~Fast' /\ Heard' = conn + 1
      BY <2>1 DEF Fast, Heard
    <2> QED BY <2>3, <2>4, <2>5, FollowsAfter
  <1>12. CASE Subs!FastAnswered
    <2>1. /\ participants' \in Subs!Answered(participants) /\ world' = world /\ fastWire' = <<>>
          /\ phase'.at = "answered" /\ phase'.kind = "fast"
      BY <1>12 DEF Subs!FastAnswered
    <2>2. View' = world' /\ world' \in Worlds
      BY <1>5, <2>1
    <2>3. LeadsTo(View', fastWire', world')
      BY <2>1, <2>2, NoEvents
    <2> QED BY <2>1, <2>3, FollowsAfter DEF Fast
  <1>13. CASE Subs!Installs
    <2>1. /\ UNCHANGED <<world, wire, participants, doing, late>> /\ conn' = conn + 1
          /\ phase.at = "answered" /\ phase.kind # "fast"
          /\ \E stage \in {"closing", "installed"} : phase' = [phase EXCEPT !.at = stage]
      BY <1>13 DEF Subs!Installs, Subs!Fresh, Subs!sfuVars, Subs!stateVars
    <2>2. phase'.at \in {"closing", "installed"}
      BY <1>4, <2>1
    <2>3. Heard' = Heard /\ ~Fast /\ ~Fast'
      BY <2>1, <2>2 DEF Heard, Fast
    <2>4. View' = View
      BY <2>1 DEF View
    <2> QED BY <1>3, <2>1, <2>3, <2>4, FollowsAfter
  <1>14. CASE Subs!ClosesOld
    <2>1. /\ UNCHANGED <<world, participants, conn, late>> /\ phase.at # "answered"
          /\ wire' = [wire EXCEPT ![phase.old] = <<>>] /\ Subs!Goes(Subs!Loop(phase.old), "off")
          /\ phase.old \in Subs!Epochs /\ phase.old < conn
          /\ \/ phase' = [phase EXCEPT !.at = "installed"]
             \/ phase' = Subs!Idle \/ phase' = [Subs!Idle EXCEPT !.at = "failed"]
      BY <1>14, OldStops DEF Subs!ClosesOld, Subs!stateVars, PhaseInv
    <2>2. phase'.at # "answered"
      <3>1. Subs!Idle.at # "answered" /\ [Subs!Idle EXCEPT !.at = "failed"].at # "answered"
        BY DEF Subs!Idle
      <3> QED BY <1>4, <2>1, <3>1
    <2>3. Heard = conn /\ Heard' = conn /\ ~Fast /\ ~Fast'
      BY <2>1, <2>2 DEF Heard, Fast
    <2>4. View' = View
      BY <2>1 DEF View
    <2>5. wire'[conn] = wire[conn] /\ doing'[Subs!Loop(conn)] = doing[Subs!Loop(conn)]
      <3>1. phase.old # conn
        BY <1>1, <2>1
      <3> QED BY <1>1, <2>1, <3>1, GoesTo, ProcsAre, ProcsDiffer
    <2> QED BY <1>3, <2>1, <2>3, <2>4, <2>5, FollowsAfter
  <1>15. CASE Subs!FastSwitches
    <2>1. /\ UNCHANGED <<world, participants, conn, late>> /\ Fast /\ phase' = [phase EXCEPT !.at = "restoring"]
          /\ wire' = [wire EXCEPT ![conn] = fastWire]
      BY <1>15 DEF Subs!FastSwitches, Subs!stateVars, Fast
    <2>2. Heard' = conn /\ ~Fast' /\ wire'[conn] = fastWire
      BY <1>1, <1>4, <2>1 DEF Heard, Fast
    <2>3. View' = View
      BY <2>1 DEF View
    <2> QED BY <1>3, <2>1, <2>2, <2>3, FollowsAfter
  <1> QED BY <1>7, <1>8, <1>9, <1>10, <1>11, <1>12, <1>13, <1>14, <1>15 DEF Subs!Next, Changes

-----------------------------------------------------------------------------
(* The invariant. *)

LEMMA SubsBegins == ASSUME SubsBounds, Subs!Init PROVE SubsInv
  <1>1. /\ world \in [Sessions -> {Subs!Absent, Types}] /\ sfu = [e \in Subs!Epochs |-> {}]
        /\ wire = [e \in Subs!Epochs |-> <<>>] /\ fastWire = None /\ participants \in Subs!Answered(<<>>)
        /\ policy \in Policies /\ subsActive = FALSE /\ manualUnsub = {} /\ activeSubs = {}
        /\ delivered = [k \in Subs!Keys |-> 0] /\ conn = 1
        /\ session = [e \in Subs!Epochs |-> 1] /\ enabled = [e \in Subs!Epochs |-> TRUE]
        /\ phase = Subs!Idle /\ rpcs = {} /\ track = [ek \in Subs!Epochs \X Subs!Keys |-> "none"]
        /\ doing = [p \in Subs!Procs |-> IF p \in {Subs!Loop(e) : e \in Subs!Epochs \ {1}} THEN "off" ELSE "idle"]
    BY DEF Subs!Init
  <1>2. 1 \in Subs!Epochs /\ conn \in Nat /\ 0 \in 0..MaxEpochs /\ Subs!Epochs \subseteq Nat
    BY <1>1 DEF Subs!Epochs, SubsBounds
  <1>3. world \in Worlds
    BY <1>1 DEF Worlds
  <1>4. participants \in Seq(Participants) /\ Once(participants) /\ \A s \in Sessions : SeenIn(participants, s) = world[s]
    BY <1>1, <1>3, AnsweredSees
  <1>5. CallTyped
    <2>1. <<>> \in Seq(Messages)
      OBVIOUS
    <2>2. wire \in [Subs!Epochs -> Seq(Messages)]
      BY <1>1, <2>1
    <2>3. policy \in Subs!Policy /\ subsActive \in BOOLEAN /\ manualUnsub \subseteq Subs!Keys
          /\ fastWire \in Seq(Messages) \cup {None}
      BY <1>1 DEF SubsBounds
    <2> QED BY <1>3, <1>4, <2>2, <2>3 DEF CallTyped
  <1>6. LinkTyped
    <2>1. phase \in Phases
      BY <1>1, <1>2 DEF Phases, Subs!Idle
    <2> QED BY <1>1, <1>2, <2>1 DEF LinkTyped, Subs!Places
  <1>7. RequestsTyped
    BY <1>1 DEF RequestsTyped
  <1>8. phase.at = "idle" /\ phase.kind = None
    BY <1>1 DEF Subs!Idle
  <1>9. /\ \A e \in Subs!Epochs : doing[Subs!Loop(e)] = IF e = 1 THEN "idle" ELSE "off"
        /\ doing[Subs!User] = "idle" /\ doing[Subs!Restore] = "idle"
        /\ \A e \in Subs!Epochs, k \in Subs!Keys : doing[Subs!Dropper(e, k)] = "idle"
    <2>1. \A e \in Subs!Epochs : Subs!Loop(e) \in {Subs!Loop(f) : f \in Subs!Epochs \ {1}} <=> e # 1
      BY ProcsDiffer
    <2> QED BY <1>1, <2>1, ProcsAre, ProcsDiffer
  <1>10. FreshInv
    <2>1. \A e \in Subs!Epochs : e > conn => e # 1
      BY <1>1
    <2> QED BY <1>1, <1>9, <2>1 DEF FreshInv
  <1>11. PhaseInv
    BY <1>8, <1>9 DEF PhaseInv, SubsBounds
  <1>12. DropperInv
    BY <1>9 DEF DropperInv
  <1>13. AgreeInv
    BY <1>1, <1>2 DEF AgreeInv
  <1>14. WantedInv
    BY <1>1 DEF WantedInv
  <1>15. HeldInv
    BY <1>1, <1>2 DEF HeldInv, Subs!HeldIsWanted
  <1>16. FollowInv
    <2>1. View = world
      BY <1>3, <1>4 DEF View, Worlds
    <2>2. LeadsTo(View, wire[conn], world)
      <3>1. wire[conn] = <<>>
        BY <1>1, <1>2
      <3> QED BY <1>3, <2>1, <3>1, NoEvents
    <2> QED BY <1>8, <2>2 DEF FollowInv
  <1> QED BY <1>5, <1>6, <1>7, <1>10, <1>11, <1>12, <1>13, <1>14, <1>15, <1>16 DEF SubsInv, SubsTyped

LEMMA SubsStep == ASSUME SubsBounds, SubsInv, Subs!Next PROVE SubsInv'
  <1>1. SubsTyped /\ FreshInv /\ PhaseInv /\ DropperInv /\ AgreeInv /\ WantedInv /\ HeldInv /\ FollowInv
    BY DEF SubsInv
  <1>2. SubsTyped'
    BY <1>1, CallStep, LinkStep, RequestsStep DEF SubsTyped
  <1>3. FreshInv' /\ PhaseInv' /\ DropperInv'
    BY <1>1, FreshStep, PhaseStep, DropperStep
  <1>4. AgreeInv' /\ WantedInv'
    BY <1>1, AgreeStep, WantedStep
  <1>5. HeldInv' /\ FollowInv'
    BY <1>1, HeldStep, FollowStep
  <1> QED BY <1>2, <1>3, <1>4, <1>5 DEF SubsInv

LEMMA SubsRests == ASSUME SubsInv, UNCHANGED subscribing PROVE SubsInv'
  <1>1. UNCHANGED <<world, sfu, wire, fastWire, participants, policy, subsActive, manualUnsub, activeSubs,
                    delivered, conn, session, enabled, phase, doing, rpcs, track, spent, doubt, raced, late>>
    BY DEF subscribing
  <1>2. SubsTyped' /\ FreshInv' /\ PhaseInv' /\ DropperInv'
    BY <1>1 DEF SubsInv, SubsTyped, CallTyped, LinkTyped, RequestsTyped, FreshInv, PhaseInv, DropperInv
  <1>3. AgreeInv'
    BY <1>1 DEF SubsInv, AgreeInv, Subs!Settled
  <1>4. WantedInv'
    BY <1>1, WantedStays DEF SubsInv, WantedInv, Pending
  <1>5. HeldInv'
    BY <1>1 DEF SubsInv, HeldInv, Subs!HeldIsWanted
  <1>6. FollowInv'
    <2>1. View' = View /\ Fast' = Fast /\ Heard' = Heard
      BY <1>1 DEF View, Fast, Heard
    <2>2. \/ late
          \/ Fast /\ LeadsTo(View, fastWire, world)
          \/ ~Fast /\ (doing[Subs!Loop(Heard)] # "off" => LeadsTo(View, wire[Heard], world))
      BY FollowIs DEF SubsInv, Subs!Listening
    <2> QED BY <1>1, <2>1, <2>2, FollowsAfter
  <1> QED BY <1>2, <1>3, <1>4, <1>5, <1>6 DEF SubsInv

LEMMA SubsHolds == ASSUME SubsBounds PROVE Suite => []SubsInv
  <1>1. SuiteInit => SubsInv
    BY SubsBegins DEF SuiteInit
  <1>2. SubsInv /\ [SuiteNext]_<<part, vars, limiterVars, subscribing, tokensVars, httpVars>> => SubsInv'
    <2> SUFFICES ASSUME SubsInv, [SuiteNext]_<<part, vars, limiterVars, subscribing, tokensVars, httpVars>>
                 PROVE  SubsInv'
      OBVIOUS
    <2>1. Subs!Next \/ UNCHANGED subscribing
      BY DEF SuiteNext
    <2> QED BY <2>1, SubsStep, SubsRests
  <1> QED BY <1>1, <1>2, PTL DEF Suite

-----------------------------------------------------------------------------
(* The theorems. *)

LEMMA QuietIs ==
  ASSUME SubsInv, Subs!Quiet
  PROVE  rpcs = {} /\ ~Pending /\ phase.at = "idle" /\ wire[conn] = <<>> /\ Subs!Listening(conn)
  <1>1. /\ rpcs = {} /\ \A p \in Subs!Procs : doing[p] \in {"idle", "off"}
        /\ \A ek \in Subs!Epochs \X Subs!Keys : track[ek] \notin {"dropped", "unsubscribed"}
        /\ phase.at = "idle" /\ wire[conn] = <<>> /\ Subs!Listening(conn)
    BY DEF Subs!Quiet
  <1>2. \A k \in Subs!Keys : <<conn, k>> \in Subs!Epochs \X Subs!Keys
    BY DEF SubsInv, SubsTyped, LinkTyped
  <1> QED BY <1>1, <1>2 DEF Pending

\* Once no request is on its way, and unless two requests of the connection crossed
\* or one failed, the list the client would not send again (active_subs) is what the
\* SFU of its connection has: across events, reconnects and aborted tasks.
THEOREM BeliefAgrees == ASSUME SubsBounds PROVE Suite => []Agrees
  <1>1. SubsInv => Agrees
    <2> SUFFICES ASSUME SubsInv PROVE Subs!TypeOK /\ Subs!Agrees
      BY DEF Agrees
    <2>1. Subs!TypeOK
      BY TypesHold DEF SubsInv
    <2>2. Subs!Agrees
      BY DEF SubsInv, AgreeInv, Subs!Agrees
    <2> QED BY <2>1, <2>2
  <1> QED BY <1>1, SubsHolds, PTL

\* When nothing is under way, the SFU sends an active subscriber the tracks that its
\* policy, the participants and the dropped tracks call for (recompute_subscriptions,
\* without a lock, by every task that changes one of them), unless two computations
\* raced, a request failed, or an event of a replaced socket came too late.
THEOREM SubscriptionsAreThoseWanted == ASSUME SubsBounds PROVE Suite => []SubscriptionsSettle
  <1>1. SubsInv => SubscriptionsSettle
    <2> SUFFICES ASSUME SubsInv, Subs!Quiet, subsActive, ~late, conn \notin doubt, ~raced
                 PROVE  sfu[conn] = Subs!Wanted
      BY DEF SubscriptionsSettle, Subs!SubscriptionsSettle
    <2>1. rpcs = {} /\ ~Pending /\ phase.at = "idle"
      BY QuietIs
    <2>2. activeSubs = Subs!Wanted
      BY <2>1 DEF SubsInv, WantedInv
    <2>3. activeSubs = sfu[conn]
      BY <2>1 DEF SubsInv, AgreeInv, Subs!Settled
    <2> QED BY <2>2, <2>3
  <1> QED BY <1>1, SubsHolds, PTL

\* The drop of a track of an earlier connection, or of an earlier delivery, never
\* unsubscribes from the one in use (on_remote_track_dropped, manual_unsub).
THEOREM HeldStaysWanted == ASSUME SubsBounds PROVE Suite => []HeldIsWanted
  <1>1. SubsInv => HeldIsWanted
    BY DEF SubsInv, HeldInv, HeldIsWanted
  <1> QED BY <1>1, SubsHolds, PTL

\* When nothing is under way the participants are those of the SFU: each join response
\* (apply_join_call_state_if_current) and the events after it (handle_event) show the
\* call, unless an event of a replaced socket came after the answer of its successor.
THEOREM ParticipantsAreThoseOfTheCall == ASSUME SubsBounds PROVE Suite => []ParticipantsFollow
  <1>1. SubsInv => ParticipantsFollow
    <2> SUFFICES ASSUME SubsInv, Subs!Quiet, ~late, NEW s \in Sessions
                 PROVE  IF Subs!Known(s) THEN world[s] = Subs!TracksOf(s) ELSE world[s] = Subs!Absent
      BY DEF ParticipantsFollow, Subs!ParticipantsFollow
    <2>1. phase.at = "idle" /\ wire[conn] = <<>> /\ Subs!Listening(conn)
      BY QuietIs
    <2>2. LeadsTo(View, <<>>, world)
      BY <2>1 DEF SubsInv, FollowInv
    <2>3. View \in Worlds /\ (Subs!Known(s) => View[s] = Subs!TracksOf(s))
          /\ (~Subs!Known(s) => View[s] = Subs!Absent)
      BY ViewIs DEF SubsInv, SubsTyped
    <2>4. View = world
      BY <2>2, <2>3, NoEvents
    <2> QED BY <2>3, <2>4
  <1> QED BY <1>1, SubsHolds, PTL

=============================================================================
