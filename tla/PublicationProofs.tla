-------------------------- MODULE PublicationProofs -------------------------
(***************************************************************************)
(* Theorems about Publication for any number of callers, tracks, publish   *)
(* options, failures and reconnects.                                       *)
(***************************************************************************)
EXTENDS ConnectionProofs, FiniteSetTheorems, WellFoundedInduction

\* The event task and the reconnect are no tasks of the user, and None is no task.
PubBounds ==
    /\ Revoker \notin Callers /\ Restore \notin Procs /\ None \notin Procs \cup {Restore}
    /\ NumOptions \in Nat /\ Swaps \in Nat

Publications == [track : Tracks, status : Statuses, option : 1..NumOptions]
Retirements == [track : Tracks, option : 1..NumOptions]
Senders == [track : Tracks, announced : BOOLEAN]
Calls == [at : Places, track : Tracks \cup {None}, option : 0..NumOptions, conn : 0..(Swaps + 1),
          to : BOOLEAN, tracks : SUBSET Tracks]

\* A call that begins a publication, and one that holds the media lock.
Beginning == {"replace", "register", "add", "added"}
Holding == Beginning \cup {"negotiate", "announce", "unmute", "stopMute"}

CallsTyped == call \in [Procs -> Calls] /\ \A p \in Procs : call[p].conn <= conn

PubTyped ==
    /\ media \in Procs \cup {Restore, None}
    /\ pubs \in Seq(Publications) /\ retired \in Seq(Retirements) /\ senders \in Seq(Senders)
    /\ conn \in 1..(Swaps + 1)
    /\ connected \in BOOLEAN /\ notify \in BOOLEAN /\ capable \in BOOLEAN
    /\ sfuMuted \in BOOLEAN /\ listed \in BOOLEAN
    /\ astray \in BOOLEAN /\ due \in BOOLEAN /\ doubt \in BOOLEAN
    /\ stopped \in SUBSET Tracks /\ muted \in SUBSET Tracks /\ held \in SUBSET Tracks
    /\ CallsTyped
    /\ restoring \in {"none", "swapped", "fast", "sync", "stops", "failed"}

-----------------------------------------------------------------------------
(* The lists as sets: the tracks by the status of their publication, those *)
(* with a sender, and the retired ones.                                    *)

TracksOf(list) == {list[i].track : i \in DOMAIN list}
OptionsOf(list) == {list[i].option : i \in DOMAIN list}
TracksWith(list, status) == {list[i].track : i \in {j \in DOMAIN list : list[j].status = status}}
AnnouncedOf(list) == {list[i].track : i \in {j \in DOMAIN list : list[j].announced}}

OneTrackEach(list) == \A i, j \in DOMAIN list : list[i].track = list[j].track => i = j
Distinct(list) ==
    \A i, j \in DOMAIN list : list[i].track = list[j].track \/ list[i].option = list[j].option => i = j

Negotiating == TracksWith(pubs, "PendingPublishNegotiation")
Muting == TracksWith(pubs, "PendingPublishMute")
Audible == TracksWith(pubs, "Published")
Stopping == TracksWith(pubs, "PendingStopMute")
InPubs == TracksOf(pubs)
Used == OptionsOf(pubs)

Sending == TracksOf(senders)
Heard == AnnouncedOf(senders)

Retired == TracksOf(retired)
RetiredOptions == OptionsOf(retired)
\* The options whose sender a stop has kept.
KeptOptions == {retired[i].option : i \in {j \in DOMAIN retired : retired[j].track \in Sending}}

\* The tracks of the calls that have a sender and no publication yet.
Taking == {call[p].track : p \in {q \in Procs : call[q].at \in {"register", "added"}}}

-----------------------------------------------------------------------------
(* The inductive invariant. *)

\* Each track and each option is published once; a retired track is stopped.
ListsInv == Distinct(pubs) /\ Retired \subseteq stopped

\* Who holds the lock.
HolderInv ==
    /\ \A p \in Procs : call[p].at \in Holding <=> media = p
    /\ media = Restore <=> restoring \in {"sync", "stops"}
    /\ restoring = "swapped" => due
    /\ call[Revoker].at \in {"idle", "list", "stop", "stopMute"}
    /\ call[Revoker].at = "idle" => call[Revoker].tracks = {}

\* What a call knows of the lists: nobody else changes them while it holds the
\* lock, except the reconnect that replaces the connection.
KnowsInv ==
    \A p \in Procs :
        /\ call[p].at \notin {"idle", "list", "mute", "answer"} => call[p].track \in Tracks
        /\ call[p].at \in Beginning =>
               call[p].track \notin InPubs /\ call[p].option \in (1..NumOptions) \ Used
        /\ call[p].at = "replace" => call[p].option \in RetiredOptions
        /\ call[p].at = "negotiate" => call[p].track \in Negotiating
        /\ call[p].at \in {"announce", "unmute"} => call[p].track \in Muting
        /\ call[p].at = "stopMute" => /\ call[p].track \in Stopping \cap stopped
                                      /\ call[p].to => Active = {}
        /\ call[p].at \in Holding /\ ~Current(p) =>
               senders = <<>> /\ restoring = "swapped" /\ ~connected

\* Without the permission every active track will be stopped, and nobody is
\* about to publish another one.
ToStop == call[Revoker].tracks \cup (IF call[Revoker].at = "stop" THEN {call[Revoker].track} ELSE {})
RevokeInv ==
    ~capable => \/ restoring = "swapped"
                \/ call[Revoker].at = "list" /\ call[Revoker].tracks = {}
                \/ Active \subseteq ToStop /\ \A p \in Procs : call[p].at \notin Beginning

\* A published track, or one whose call has looked at the publisher, is not held
\* once the callback of the connection has run.
PacingInv ==
    connected /\ ~notify /\ ~astray =>
        /\ Audible \cap held = {}
        /\ \A p \in Procs : call[p].at = "unmute" => call[p].track \notin held

\* Each sender has one name, which a publication, a retired track or a call
\* knows.
OneSenderEach == OneTrackEach(senders)
Known == Sending \subseteq InPubs \cup Retired \cup Taking

Latest ==
    \A i, j \in DOMAIN retired :
        retired[i].track \in Sending /\ retired[i].option = retired[j].option => j <= i

\* A retired track that has its sender is the latest of its option, which no
\* publication and no call has.
RetiredApart ==
    /\ Retired \cap InPubs = {} /\ KeptOptions \cap Used = {} /\ Retired \cap Sending \subseteq Heard
    /\ OneTrackEach(retired)
    /\ Latest
CallsApart ==
    \A p \in Procs : call[p].at \in Beginning =>
        /\ call[p].track \notin Retired
        /\ call[p].at # "replace" => call[p].option \notin KeptOptions
SendersInv == ~astray => OneSenderEach /\ Known /\ RetiredApart /\ CallsApart

\* A publication has its sender, announced when its status says so.
AnnouncedInv ==
    ~astray /\ ~due =>
        /\ Active \subseteq Sending /\ Muting \cup Audible \subseteq Heard
        /\ restoring = "sync" => Active \subseteq Heard
        /\ \A p \in Procs : /\ call[p].at = "register" => call[p].track \in Heard
                            /\ call[p].at = "added" => call[p].track \in Sending

\* What the SFU was told fits the tracks, or an answer to a mute is on its way.
Answering == {p \in Procs : call[p].at = "answer"}
SfuKnowsInv ==
    ~doubt =>
        /\ restoring \in {"none", "stops"} =>
            /\ Answering = {} /\ ~(Audible \subseteq muted) => ~sfuMuted /\ listed
            /\ \A p \in Procs : Answering = {p} =>
                   IF Current(p) THEN call[p].to => Audible \subseteq muted ELSE Audible = {}
        /\ \A p \in Procs : call[p].at = "unmute" /\ Current(p) => listed

PubInv ==
    /\ PubTyped /\ ListsInv /\ HolderInv /\ KnowsInv /\ RevokeInv /\ PacingInv
    /\ SendersInv /\ AnnouncedInv /\ SfuKnowsInv

-----------------------------------------------------------------------------
(* The filter. *)

\* The smallest of a set of numbers: finite sets are well-founded by inclusion.
LEMMA Smallest ==
  ASSUME NEW T \in SUBSET Nat, T # {}
  PROVE \E x \in T : \A y \in T : x <= y
  <1> DEFINE F == {1..n : n \in T}
  <1>0. IsWellFoundedOn(StrictSubsetOrdering(Nat), FiniteSubsetsOf(Nat))
    BY FS_StrictSubsetOrderingWellFounded
  <1>1. F \subseteq FiniteSubsetsOf(Nat) /\ F # {}
    <2>1. \A n \in T : 1..n \in FiniteSubsetsOf(Nat)
      BY FS_Interval DEF FiniteSubsetsOf
    <2> QED BY <2>1
  <1> HIDE DEF F
  <1>2. PICK X \in F : \A Y \in F : ~(<<Y, X>> \in StrictSubsetOrdering(Nat))
    BY <1>0, <1>1, WFMin
  <1>3. PICK m \in T : X = 1..m
    BY DEF F
  <1>4. ASSUME NEW n \in T PROVE m <= n
    <2> SUFFICES ASSUME n < m PROVE FALSE
       OBVIOUS
    <2>1. 1..n \subseteq 1..m /\ m \in 1..m /\ m \notin 1..n
      OBVIOUS
    <2>2. 1..n \in FiniteSubsetsOf(Nat) /\ 1..m \in FiniteSubsetsOf(Nat) /\ 1..n \in F
      BY <1>1, <1>3 DEF F
    <2>3. <<1..n, 1..m>> \in StrictSubsetOrdering(Nat)
      BY <2>1, <2>2 DEF StrictSubsetOrdering
    <2> QED BY <1>2, <1>3, <2>2, <2>3
  <1> QED BY <1>4

\* A set of numbers has a least and, if it is bounded, a greatest element.
LEMMA Greatest ==
  ASSUME NEW T \in SUBSET Nat, T # {}, NEW b \in Nat, \A y \in T : y <= b
  PROVE  \E x \in T : \A y \in T : y <= x
  <1> DEFINE Bounds == {n \in Nat : \A y \in T : y <= n}
  <1>1. PICK m \in Bounds : \A n \in Bounds : m <= n
    <2>1. Bounds \in SUBSET Nat /\ Bounds # {}
      OBVIOUS
    <2> HIDE DEF Bounds
    <2> QED
      BY <2>1, Smallest
  <1>2. CASE m \in T
    BY <1>2
  <1>3. CASE m \notin T
    <2>1. PICK y \in T : TRUE
      OBVIOUS
    <2>2. m # 0 /\ m - 1 \in Nat
      BY <2>1, <1>3
    <2>3. \A z \in T : z <= m - 1
      BY <2>2, <1>3
    <2> QED
      BY <2>2, <2>3, <1>1
  <1> QED
    BY <1>2, <1>3

LEMMA MaxIsGreatest ==
  ASSUME NEW T \in SUBSET Nat, T # {}, NEW b \in Nat, \A y \in T : y <= b
  PROVE  Max(T) \in T /\ \A y \in T : y <= Max(T)
  <1>1. PICK x \in T : \A y \in T : x >= y
    BY Greatest
  <1> QED
    BY <1>1 DEF Max

LEMMA MinIsSmallest ==
  ASSUME NEW T \in SUBSET Nat, T # {}
  PROVE  Min(T) \in T /\ \A y \in T : Min(T) <= y
  <1>1. PICK x \in T : \A y \in T : x <= y
    BY Smallest
  <1> QED
    BY <1>1 DEF Min

\* The element of rank n of a finite set of numbers.
LEMMA Ranks ==
  ASSUME NEW I \in SUBSET Nat, IsFiniteSet(I)
  PROVE  /\ \A i \in I : Cardinality({j \in I : j <= i}) \in 1..Cardinality(I)
         /\ \A i, k \in I : i < k => Cardinality({j \in I : j <= i}) < Cardinality({j \in I : j <= k})
         /\ \A n \in 1..Cardinality(I) : \E i \in I : Cardinality({j \in I : j <= i}) = n
  <1> DEFINE Upto(i) == {j \in I : j <= i}
             rank == [i \in I |-> Cardinality(Upto(i))]
  <1>0. Cardinality(I) \in Nat
    BY FS_CardinalityType
  <1>1. ASSUME NEW i \in I
        PROVE  IsFiniteSet(Upto(i)) /\ Cardinality(Upto(i)) \in 1..Cardinality(I)
    <2>1. IsFiniteSet(Upto(i)) /\ Cardinality(Upto(i)) <= Cardinality(I)
      BY FS_Subset
    <2>2. Cardinality(Upto(i)) \in Nat /\ Cardinality(Upto(i)) # 0
      <3>1. Upto(i) # {}
        OBVIOUS
      <3> HIDE DEF Upto
      <3> QED
        BY <2>1, <3>1, FS_EmptySet, FS_CardinalityType
    <2> QED
      BY <1>0, <2>1, <2>2
  <1>2. ASSUME NEW i \in I, NEW k \in I, i < k
        PROVE  Cardinality(Upto(i)) < Cardinality(Upto(k))
    <2>1. Upto(i) \in SUBSET Upto(k) /\ Upto(i) # Upto(k)
      <3>1. k \in Upto(k) /\ k \notin Upto(i)
        BY <1>2
      <3>2. \A j \in I : j <= i => j <= k
        BY <1>2, \A j \in I : j \in Nat
      <3>3. Upto(i) \in SUBSET Upto(k)
        BY <3>2
      <3> QED
        BY <3>1, <3>3
    <2>2. Cardinality(Upto(i)) <= Cardinality(Upto(k)) /\ Cardinality(Upto(i)) # Cardinality(Upto(k))
      <3> HIDE DEF Upto
      <3> QED
        BY <2>1, <1>1, FS_Subset
    <2> HIDE DEF Upto
    <2> QED
      BY <1>1, <2>2, <1>0
  <1>3. \A n \in 1..Cardinality(I) : \E i \in I : Cardinality(Upto(i)) = n
    <2> HIDE DEF Upto
    <2>1. rank \in Injection(I, 1..Cardinality(I))
      <3>1. rank \in [I -> 1..Cardinality(I)]
        BY <1>1
      <3>2. \A i, k \in I : rank[i] = rank[k] => i = k
        BY <1>1, <1>2, <1>0
      <3> QED
        BY <3>1, <3>2 DEF Injection, IsInjective
    <2>2. IsFiniteSet(1..Cardinality(I)) /\ Cardinality(1..Cardinality(I)) = Cardinality(I)
      BY <1>0, FS_Interval
    <2>3. rank \in Surjection(I, 1..Cardinality(I))
      BY <2>1, <2>2, FS_Injection
    <2>4. \A n \in 1..Cardinality(I) : \E i \in I : rank[i] = n
      BY <2>3 DEF Surjection
    <2> QED
      BY <2>4
  <1> QED
    BY <1>1, <1>2, <1>3

\* The places that a filter keeps, in order: each from a place of its own.
LEMMA FilteredPlaces ==
  ASSUME NEW S, NEW list \in Seq(S), NEW I \in SUBSET DOMAIN list
  PROVE  /\ Filtered(list, I) \in Seq(S) /\ Len(Filtered(list, I)) = Cardinality(I)
         /\ Cardinality(I) <= Len(list)
         /\ \E place \in [DOMAIN Filtered(list, I) -> I] :
               /\ \A n \in DOMAIN Filtered(list, I) : Filtered(list, I)[n] = list[place[n]]
               /\ \A m, n \in DOMAIN Filtered(list, I) : m < n => place[m] < place[n]
               /\ \A i \in I : \E n \in DOMAIN Filtered(list, I) : place[n] = i
  <1> DEFINE rank(i) == Cardinality({j \in I : j <= i})
             N == Cardinality(I)
             place == [n \in 1..N |-> CHOOSE i \in I : rank(i) = n]
  <1>1. I \in SUBSET Nat /\ IsFiniteSet(I) /\ N \in Nat /\ N <= Len(list)
    <2>1. DOMAIN list = 1..Len(list) /\ Len(list) \in Nat
      OBVIOUS
    <2>2. \A n \in Nat : IsFiniteSet(1..n) /\ Cardinality(1..n) = n
      BY FS_Interval
    <2> QED
      BY <2>1, <2>2, FS_Subset, FS_CardinalityType
  <1>2. /\ \A i \in I : rank(i) \in 1..N
        /\ \A i, k \in I : i < k => rank(i) < rank(k)
        /\ \A n \in 1..N : \E i \in I : rank(i) = n
    BY <1>1, Ranks
  <1>3. Filtered(list, I) = [n \in 1..N |-> list[place[n]]]
    BY DEF Filtered
  <1> HIDE DEF rank, N
  <1>4. \A n \in 1..N : place[n] \in I /\ rank(place[n]) = n
    BY <1>2
  <1>5. place \in [1..N -> I]
    BY <1>4
  <1>6. \A n \in 1..N : list[place[n]] \in S
    BY <1>4
  <1> HIDE DEF place
  <1>7. Filtered(list, I) \in Seq(S) /\ Len(Filtered(list, I)) = N /\ DOMAIN Filtered(list, I) = 1..N
    BY <1>1, <1>3, <1>6
  <1>a. \A i \in I : i \in Nat
    BY <1>1
  <1>b. \A i, k \in I : rank(i) = rank(k) => i = k
    <2>1. \A i, k \in I : i < k \/ k < i \/ i = k
      BY <1>a
    <2>2. \A i \in I : rank(i) \in Nat
      BY <1>1, <1>2
    <2> QED
      BY <2>1, <2>2, <1>2
  <1>c. \A i, k \in I : rank(i) < rank(k) => i < k
    <2>1. \A i, k \in I : i < k \/ k < i \/ i = k
      BY <1>a
    <2>2. \A i \in I : rank(i) \in Nat
      BY <1>1, <1>2
    <2> QED
      BY <2>1, <2>2, <1>2
  <1>8. \A m, n \in 1..N : m < n => place[m] < place[n]
    BY <1>c, <1>4
  <1>9. \A i \in I : place[rank(i)] = i
    BY <1>2, <1>b, <1>4
  <1>10. \A n \in 1..N : Filtered(list, I)[n] = list[place[n]]
    BY <1>3
  <1>11. \A i \in I : \E n \in 1..N : place[n] = i
    BY <1>2, <1>9
  <1>12. /\ \A n \in DOMAIN Filtered(list, I) : Filtered(list, I)[n] = list[place[n]]
         /\ \A m, n \in DOMAIN Filtered(list, I) : m < n => place[m] < place[n]
         /\ \A i \in I : \E n \in DOMAIN Filtered(list, I) : place[n] = i
         /\ place \in [DOMAIN Filtered(list, I) -> I]
    BY <1>5, <1>7, <1>8, <1>10, <1>11
  <1> QED
    BY <1>1, <1>7, <1>12 DEF N

-----------------------------------------------------------------------------
(* The lists as sets. *)

LEMMA Appended ==
  ASSUME NEW S, NEW list \in Seq(S), NEW r \in S
  PROVE  /\ Append(list, r) \in Seq(S)
         /\ DOMAIN Append(list, r) = DOMAIN list \cup {Len(list) + 1}
         /\ Len(list) + 1 \notin DOMAIN list
         /\ Append(list, r)[Len(list) + 1] = r
         /\ \A i \in DOMAIN list : Append(list, r)[i] = list[i]
         /\ \A i \in DOMAIN list : i \in Nat /\ i < Len(list) + 1
  OBVIOUS

LEMMA EmptyList ==
  ASSUME NEW S, NEW list \in Seq(S)
  PROVE  list = <<>> <=> TracksOf(list) = {}
  <1>1. Len(list) \in Nat /\ DOMAIN list = 1..Len(list)
    OBVIOUS
  <1>2. CASE Len(list) = 0
    <2>1. list = <<>> /\ DOMAIN list = {}
      BY <1>1, <1>2
    <2> QED
      BY <2>1 DEF TracksOf
  <1>3. CASE Len(list) # 0
    <2>1. 1 \in DOMAIN list /\ list # <<>>
      BY <1>1, <1>3
    <2> QED
      BY <2>1 DEF TracksOf
  <1> QED
    BY <1>2, <1>3

LEMMA AppendedTracks ==
  ASSUME NEW S, NEW list \in Seq(S), NEW r \in S, NEW x
  PROVE  TracksWith(Append(list, r), x) =
             TracksWith(list, x) \cup (IF r.status = x THEN {r.track} ELSE {})
  <1> DEFINE next == Append(list, r)
             n == Len(list) + 1
  <1>1. /\ DOMAIN next = DOMAIN list \cup {n} /\ next[n] = r
        /\ \A i \in DOMAIN list : next[i] = list[i]
    BY Appended
  <1> HIDE DEF next, n
  <1>2. ASSUME NEW t
        PROVE  t \in TracksWith(next, x) <=>
               t \in TracksWith(list, x) \cup (IF r.status = x THEN {r.track} ELSE {})
    <2>1. t \in TracksWith(next, x) <=>
              \E i \in DOMAIN next : next[i].status = x /\ next[i].track = t
      BY DEF TracksWith
    <2>2. t \in TracksWith(list, x) <=>
              \E i \in DOMAIN list : list[i].status = x /\ list[i].track = t
      BY DEF TracksWith
    <2> QED
      BY <2>1, <2>2, <1>1
  <1>3. TracksWith(next, x) =
             TracksWith(list, x) \cup (IF r.status = x THEN {r.track} ELSE {})
    BY <1>2
  <1> QED
    BY <1>3 DEF next

LEMMA FilteredTracks ==
  ASSUME NEW S, NEW list \in Seq(S), NEW I \in SUBSET DOMAIN list, NEW x, NEW t
  PROVE  t \in TracksWith(Filtered(list, I), x) <=> \E i \in I : list[i].status = x /\ list[i].track = t
  <1>0. PICK next : next = Filtered(list, I)
    OBVIOUS
  <1>1. PICK place \in [DOMAIN next -> I] :
           /\ \A n \in DOMAIN next : next[n] = list[place[n]]
           /\ \A i \in I : \E n \in DOMAIN next : place[n] = i
    BY <1>0, FilteredPlaces
  <1>2. t \in TracksWith(next, x) <=> \E i \in DOMAIN next : next[i].status = x /\ next[i].track = t
    BY DEF TracksWith
  <1>3. t \in TracksWith(next, x) <=> \E i \in I : list[i].status = x /\ list[i].track = t
    BY <1>1, <1>2
  <1> QED
    BY <1>0, <1>3

LEMMA FilteredOrder ==
  ASSUME NEW S, NEW list \in Seq(S), NEW I \in SUBSET DOMAIN list, NEW next, next = Filtered(list, I)
  PROVE  \E place : /\ \A n \in DOMAIN next : place[n] \in I /\ next[n] = list[place[n]]
                    /\ \A m, n \in DOMAIN next : m < n => place[m] < place[n]
  <1>1. PICK place \in [DOMAIN next -> I] :
           /\ \A n \in DOMAIN next : next[n] = list[place[n]]
           /\ \A m, n \in DOMAIN next : m < n => place[m] < place[n]
           /\ \A i \in I : \E n \in DOMAIN next : place[n] = i
    BY FilteredPlaces
  <1>2. \A n \in DOMAIN next : place[n] \in I /\ next[n] = list[place[n]]
    BY <1>1
  <1> QED
    BY <1>1, <1>2

\* What a filter leaves has the tracks and options that it keeps, once each.
LEMMA FilteredFields ==
  ASSUME NEW S, NEW list \in Seq(S), NEW I \in SUBSET DOMAIN list
  PROVE  /\ TracksOf(Filtered(list, I)) = {list[i].track : i \in I}
         /\ OptionsOf(Filtered(list, I)) = {list[i].option : i \in I}
         /\ AnnouncedOf(Filtered(list, I)) = {list[i].track : i \in {j \in I : list[j].announced}}
         /\ Distinct(list) => Distinct(Filtered(list, I))
         /\ OneTrackEach(list) => OneTrackEach(Filtered(list, I))
  <1>0. PICK next : next = Filtered(list, I)
    OBVIOUS
  <1>a. next \in Seq(S)
    BY <1>0, FilteredPlaces
  <1>1. PICK place \in [DOMAIN next -> I] :
           /\ \A n \in DOMAIN next : next[n] = list[place[n]]
           /\ \A m, n \in DOMAIN next : m < n => place[m] < place[n]
           /\ \A i \in I : \E n \in DOMAIN next : place[n] = i
    BY <1>0, FilteredPlaces
  <1>2. \A m, n \in DOMAIN next : place[m] = place[n] => m = n
    <2>1. DOMAIN next \in SUBSET Nat /\ I \in SUBSET Nat
      BY <1>a
    <2>2. \A m, n \in DOMAIN next : m < n \/ n < m \/ m = n
      BY <2>1
    <2>3. \A n \in DOMAIN next : place[n] \in Nat
      BY <2>1
    <2> QED
      BY <1>1, <2>2, <2>3
  <1>3. \A n \in DOMAIN next : place[n] \in DOMAIN list
    OBVIOUS
  <1>4. Distinct(list) => Distinct(next)
    BY <1>1, <1>2, <1>3 DEF Distinct
  <1>5. OneTrackEach(list) => OneTrackEach(next)
    BY <1>1, <1>2, <1>3 DEF OneTrackEach
  <1>6. ASSUME NEW t
        PROVE  /\ t \in TracksOf(next) <=> t \in {list[i].track : i \in I}
               /\ t \in OptionsOf(next) <=> t \in {list[i].option : i \in I}
               /\ t \in AnnouncedOf(next) <=> t \in {list[i].track : i \in {j \in I : list[j].announced}}
    <2>1. /\ t \in TracksOf(next) <=> \E i \in DOMAIN next : next[i].track = t
          /\ t \in OptionsOf(next) <=> \E i \in DOMAIN next : next[i].option = t
          /\ t \in AnnouncedOf(next) <=> \E i \in DOMAIN next : next[i].announced /\ next[i].track = t
      BY DEF TracksOf, OptionsOf, AnnouncedOf
    <2> QED
      BY <2>1, <1>1
  <1>7. /\ TracksOf(next) = {list[i].track : i \in I} /\ OptionsOf(next) = {list[i].option : i \in I}
        /\ AnnouncedOf(next) = {list[i].track : i \in {j \in I : list[j].announced}}
    BY <1>6
  <1> QED
    BY <1>0, <1>4, <1>5, <1>7

LEMMA AppendedFields ==
  ASSUME NEW S, NEW list \in Seq(S), NEW r \in S
  PROVE  /\ TracksOf(Append(list, r)) = TracksOf(list) \cup {r.track}
         /\ OptionsOf(Append(list, r)) = OptionsOf(list) \cup {r.option}
         /\ AnnouncedOf(Append(list, r)) = AnnouncedOf(list) \cup (IF r.announced THEN {r.track} ELSE {})
         /\ Distinct(list) /\ r.track \notin TracksOf(list) /\ r.option \notin OptionsOf(list)
                => Distinct(Append(list, r))
         /\ OneTrackEach(list) /\ r.track \notin TracksOf(list) => OneTrackEach(Append(list, r))
  <1> DEFINE next == Append(list, r)
             n == Len(list) + 1
  <1>1. /\ DOMAIN next = DOMAIN list \cup {n} /\ next[n] = r
        /\ \A i \in DOMAIN list : next[i] = list[i]
    BY Appended
  <1> HIDE DEF next, n
  <1>2. Distinct(list) /\ r.track \notin TracksOf(list) /\ r.option \notin OptionsOf(list) => Distinct(next)
    BY <1>1 DEF Distinct, TracksOf, OptionsOf
  <1>3. OneTrackEach(list) /\ r.track \notin TracksOf(list) => OneTrackEach(next)
    BY <1>1 DEF OneTrackEach, TracksOf
  <1>4. ASSUME NEW t
        PROVE  /\ t \in TracksOf(next) <=> t \in TracksOf(list) \cup {r.track}
               /\ t \in OptionsOf(next) <=> t \in OptionsOf(list) \cup {r.option}
               /\ t \in AnnouncedOf(next) <=> t \in AnnouncedOf(list) \cup (IF r.announced THEN {r.track} ELSE {})
    <2>1. /\ t \in TracksOf(next) <=> \E i \in DOMAIN next : next[i].track = t
          /\ t \in OptionsOf(next) <=> \E i \in DOMAIN next : next[i].option = t
          /\ t \in AnnouncedOf(next) <=> \E i \in DOMAIN next : next[i].announced /\ next[i].track = t
      BY DEF TracksOf, OptionsOf, AnnouncedOf
    <2>2. /\ t \in TracksOf(list) <=> \E i \in DOMAIN list : list[i].track = t
          /\ t \in OptionsOf(list) <=> \E i \in DOMAIN list : list[i].option = t
          /\ t \in AnnouncedOf(list) <=> \E i \in DOMAIN list : list[i].announced /\ list[i].track = t
      BY DEF TracksOf, OptionsOf, AnnouncedOf
    <2> QED
      BY <2>1, <2>2, <1>1
  <1>5. /\ TracksOf(next) = TracksOf(list) \cup {r.track} /\ OptionsOf(next) = OptionsOf(list) \cup {r.option}
        /\ AnnouncedOf(next) = AnnouncedOf(list) \cup (IF r.announced THEN {r.track} ELSE {})
    BY <1>4
  <1> QED
    BY <1>2, <1>3, <1>5 DEF next
-----------------------------------------------------------------------------
(* What the operations do to the publications. *)

LEMMA PubsViews ==
  ASSUME pubs \in Seq(Publications)
  PROVE  /\ Active = Negotiating \cup Muting \cup Audible /\ InPubs = Active \cup Stopping
         /\ InPubs \in SUBSET Tracks /\ Unused = (1..NumOptions) \ Used
         /\ \A t : Position(t) # {} <=> t \in InPubs
         /\ pubs = <<>> <=> InPubs = {}
  <1>1. \A i \in DOMAIN pubs : pubs[i] \in Publications
    OBVIOUS
  <1>2. \A i \in DOMAIN pubs : pubs[i].track \in Tracks /\ pubs[i].status \in Statuses
    BY <1>1 DEF Publications
  <1>3. Active = Negotiating \cup Muting \cup Audible
    BY <1>2 DEF Active, IsActive, Negotiating, Muting, Audible, TracksWith, Statuses
  <1>4. InPubs = Active \cup Stopping
    BY DEF Active, IsActive, Stopping, TracksWith, InPubs, TracksOf
  <1>5. pubs = <<>> <=> InPubs = {}
    BY EmptyList DEF InPubs
  <1> QED
    BY <1>2, <1>3, <1>4, <1>5 DEF InPubs, TracksOf, Unused, Used, OptionsOf, Position

LEMMA PubsViewsNext ==
  ASSUME pubs' \in Seq(Publications)
  PROVE  Active' = Negotiating' \cup Muting' \cup Audible' /\ InPubs' = Active' \cup Stopping'
  <1>1. \A i \in DOMAIN pubs' : pubs'[i] \in Publications
    OBVIOUS
  <1>2. \A i \in DOMAIN pubs' : pubs'[i].track \in Tracks /\ pubs'[i].status \in Statuses
    BY <1>1 DEF Publications
  <1>3. Active' = Negotiating' \cup Muting' \cup Audible'
    BY <1>2 DEF Active, IsActive, Negotiating, Muting, Audible, TracksWith, Statuses
  <1>4. InPubs' = Active' \cup Stopping'
    BY DEF Active, IsActive, Stopping, TracksWith, InPubs, TracksOf
  <1> QED
    BY <1>3, <1>4

\* A track has one publication, so one status and one option.
LEMMA OneStatus ==
  ASSUME pubs \in Seq(Publications), Distinct(pubs)
  PROVE  /\ Negotiating \cap Muting = {} /\ Negotiating \cap Audible = {} /\ Negotiating \cap Stopping = {}
         /\ Muting \cap Audible = {} /\ Muting \cap Stopping = {} /\ Audible \cap Stopping = {}
         /\ \A t \in InPubs : \E i \in DOMAIN pubs :
                Position(t) = {i} /\ StatusOf(t) = pubs[i].status /\ OptionOf(t) = pubs[i].option
  <1>1. \A i, j \in DOMAIN pubs : pubs[i].track = pubs[j].track => i = j
    BY DEF Distinct
  <1>2. \A t \in InPubs : \E i \in DOMAIN pubs :
                Position(t) = {i} /\ StatusOf(t) = pubs[i].status /\ OptionOf(t) = pubs[i].option
    <2> SUFFICES ASSUME NEW t \in InPubs
                 PROVE  \E i \in DOMAIN pubs : Position(t) = {i} /\ StatusOf(t) = pubs[i].status
                                               /\ OptionOf(t) = pubs[i].option
      OBVIOUS
    <2>1. PICK i \in DOMAIN pubs : pubs[i].track = t
      BY DEF InPubs, TracksOf
    <2>2. Position(t) = {i}
      BY <1>1, <2>1 DEF Position
    <2>3. (CHOOSE j \in Position(t) : TRUE) = i
      BY <2>2
    <2> QED
      BY <2>2, <2>3 DEF StatusOf, OptionOf
  <1> QED
    BY <1>1, <1>2 DEF Negotiating, Muting, Audible, Stopping, TracksWith

LEMMA PubsBegun ==
  ASSUME pubs \in Seq(Publications), Distinct(pubs),
         NEW t \in Tracks \ InPubs, NEW o \in (1..NumOptions) \ Used,
         NEW s \in {"PendingPublishNegotiation", "PendingPublishMute"},
         pubs' = Begun(t, o, s)
  PROVE  /\ pubs' \in Seq(Publications) /\ Distinct(pubs)'
         /\ InPubs' = InPubs \cup {t} /\ Used' = Used \cup {o}
         /\ Active' = Active \cup {t} /\ Audible' = Audible /\ Stopping' = Stopping
         /\ Negotiating' = IF s = "PendingPublishNegotiation" THEN Negotiating \cup {t} ELSE Negotiating
         /\ Muting' = IF s = "PendingPublishMute" THEN Muting \cup {t} ELSE Muting
  <1> DEFINE r == [track |-> t, status |-> s, option |-> o]
  <1>1. r \in Publications /\ r.track = t /\ r.status = s /\ r.option = o
    BY DEF Publications, Statuses
  <1> HIDE DEF r
  <1>2. pubs' = Append(pubs, r)
    BY DEF Begun, r
  <1>3. \A x : TracksWith(pubs', x) = IF s = x THEN TracksWith(pubs, x) \cup {t} ELSE TracksWith(pubs, x)
    <2>1. \A x : TracksWith(pubs', x) = TracksWith(pubs, x) \cup (IF r.status = x THEN {r.track} ELSE {})
      BY <1>1, <1>2, AppendedTracks
    <2> QED
      BY <2>1, <1>1
  <1>4. /\ TracksOf(pubs') = TracksOf(pubs) \cup {t} /\ OptionsOf(pubs') = OptionsOf(pubs) \cup {o}
        /\ Distinct(pubs')
    <2>1. t \notin TracksOf(pubs) /\ o \notin OptionsOf(pubs)
      BY DEF InPubs, Used
    <2> QED
      BY <1>1, <1>2, <2>1, AppendedFields
  <1>5. pubs' \in Seq(Publications)
    BY <1>1, <1>2
  <1>6. /\ Audible' = Audible /\ Stopping' = Stopping
        /\ Negotiating' = IF s = "PendingPublishNegotiation" THEN Negotiating \cup {t} ELSE Negotiating
        /\ Muting' = IF s = "PendingPublishMute" THEN Muting \cup {t} ELSE Muting
    BY <1>3 DEF Negotiating, Muting, Audible, Stopping
  <1>7. InPubs' = InPubs \cup {t} /\ Used' = Used \cup {o} /\ Distinct(pubs)'
    BY <1>4 DEF InPubs, Used, Distinct
  <1>8. Active' = Active \cup {t}
    BY <1>5, <1>6, PubsViews, PubsViewsNext
  <1> QED
    BY <1>5, <1>6, <1>7, <1>8

\* The status of a track changes in its place.
LEMMA PubsMarked ==
  ASSUME pubs \in Seq(Publications), Distinct(pubs),
         NEW t \in InPubs, NEW s \in Statuses, pubs' = WithStatus(t, s)
  PROVE  /\ pubs' \in Seq(Publications) /\ Distinct(pubs)' /\ InPubs' = InPubs /\ Used' = Used
         /\ Negotiating' = IF s = "PendingPublishNegotiation" THEN Negotiating \cup {t} ELSE Negotiating \ {t}
         /\ Muting' = IF s = "PendingPublishMute" THEN Muting \cup {t} ELSE Muting \ {t}
         /\ Audible' = IF s = "Published" THEN Audible \cup {t} ELSE Audible \ {t}
         /\ Stopping' = IF s = "PendingStopMute" THEN Stopping \cup {t} ELSE Stopping \ {t}
         /\ Active' = IF s = "PendingStopMute" THEN Active \ {t} ELSE Active \cup {t}
  <1>1. \A i \in DOMAIN pubs : pubs[i] \in Publications
    OBVIOUS
  <1>2. DOMAIN pubs' = DOMAIN pubs
    BY DEF WithStatus
  <1>3. \A i \in DOMAIN pubs : /\ pubs'[i] \in Publications
                               /\ pubs'[i].track = pubs[i].track /\ pubs'[i].option = pubs[i].option
                               /\ pubs'[i].status = IF pubs[i].track = t THEN s ELSE pubs[i].status
    BY <1>1 DEF WithStatus, Publications
  <1>4. pubs' \in Seq(Publications)
    <2>1. Len(pubs) \in Nat /\ DOMAIN pubs = 1..Len(pubs)
      OBVIOUS
    <2>2. pubs' = [i \in 1..Len(pubs) |-> IF pubs[i].track = t THEN [pubs[i] EXCEPT !.status = s] ELSE pubs[i]]
      BY <2>1 DEF WithStatus
    <2> QED
      BY <2>1, <2>2, <1>3
  <1>5. Distinct(pubs)'
    BY <1>2, <1>3 DEF Distinct
  <1>6. PICK k \in DOMAIN pubs : pubs[k].track = t
    BY DEF InPubs, TracksOf
  <1>7. ASSUME NEW x, NEW u
        PROVE  u \in TracksWith(pubs', x) <=> IF u = t THEN x = s ELSE u \in TracksWith(pubs, x)
    <2>1. u \in TracksWith(pubs', x) <=> \E i \in DOMAIN pubs : pubs'[i].status = x /\ pubs'[i].track = u
      BY <1>2 DEF TracksWith
    <2>2. u \in TracksWith(pubs, x) <=> \E i \in DOMAIN pubs : pubs[i].status = x /\ pubs[i].track = u
      BY DEF TracksWith
    <2> QED
      BY <2>1, <2>2, <1>3, <1>6
  <1>8. /\ Negotiating' = IF s = "PendingPublishNegotiation" THEN Negotiating \cup {t} ELSE Negotiating \ {t}
        /\ Muting' = IF s = "PendingPublishMute" THEN Muting \cup {t} ELSE Muting \ {t}
        /\ Audible' = IF s = "Published" THEN Audible \cup {t} ELSE Audible \ {t}
        /\ Stopping' = IF s = "PendingStopMute" THEN Stopping \cup {t} ELSE Stopping \ {t}
    BY <1>7 DEF Negotiating, Muting, Audible, Stopping
  <1>9. \A u : (u \in InPubs' <=> u \in InPubs) /\ (u \in Used' <=> u \in Used)
    BY <1>2, <1>3 DEF InPubs, Used, TracksOf, OptionsOf
  <1>10. Active' = IF s = "PendingStopMute" THEN Active \ {t} ELSE Active \cup {t}
    BY <1>4, <1>8, PubsViews, PubsViewsNext DEF Statuses
  <1> QED
    BY <1>4, <1>5, <1>8, <1>9, <1>10
\* A publication is removed.
LEMMA PubsWithout ==
  ASSUME pubs \in Seq(Publications), Distinct(pubs), NEW t \in InPubs, pubs' = Without(t)
  PROVE  /\ pubs' \in Seq(Publications) /\ Distinct(pubs)'
         /\ InPubs' = InPubs \ {t} /\ Used' = Used \ {OptionOf(t)} /\ OptionOf(t) \in Used
         /\ Negotiating' = Negotiating \ {t} /\ Muting' = Muting \ {t} /\ Audible' = Audible \ {t}
         /\ Stopping' = Stopping \ {t} /\ Active' = Active \ {t}
  <1>1. PICK k \in DOMAIN pubs : Position(t) = {k} /\ OptionOf(t) = pubs[k].option
    BY OneStatus
  <1>2. pubs[k].track = t
    BY <1>1 DEF Position
  <1> DEFINE I == DOMAIN pubs \ {k}
  <1>3. pubs' = Filtered(pubs, I) /\ I \in SUBSET DOMAIN pubs
    BY <1>1 DEF Without
  <1>4. \A i \in DOMAIN pubs : i # k <=> pubs[i].track # t
    BY <1>2 DEF Distinct
  <1>5. \A i \in DOMAIN pubs : i # k <=> pubs[i].option # OptionOf(t)
    BY <1>1 DEF Distinct
  <1>6. pubs' \in Seq(Publications)
    BY <1>3, FilteredPlaces
  <1>7. /\ TracksOf(pubs') = {pubs[i].track : i \in I} /\ OptionsOf(pubs') = {pubs[i].option : i \in I}
        /\ Distinct(pubs')
    BY <1>3, FilteredFields
  <1>8. \A x, u : u \in TracksWith(pubs', x) <=> \E i \in I : pubs[i].status = x /\ pubs[i].track = u
    BY <1>3, FilteredTracks
  <1>9. \A x : TracksWith(pubs', x) = TracksWith(pubs, x) \ {t}
    <2> SUFFICES ASSUME NEW x, NEW u
                 PROVE  u \in TracksWith(pubs', x) <=> u \in TracksWith(pubs, x) \ {t}
      OBVIOUS
    <2>1. u \in TracksWith(pubs', x) <=> \E i \in I : pubs[i].status = x /\ pubs[i].track = u
      BY <1>8
    <2>2. u \in TracksWith(pubs, x) <=> \E i \in DOMAIN pubs : pubs[i].status = x /\ pubs[i].track = u
      BY DEF TracksWith
    <2> QED
      BY <2>1, <2>2, <1>4
  <1>10. /\ InPubs' = InPubs \ {t} /\ Used' = Used \ {OptionOf(t)} /\ OptionOf(t) \in Used
    <2>1. \A u : u \in InPubs' <=> u \in InPubs \ {t}
      BY <1>7, <1>4 DEF InPubs, TracksOf
    <2>2. \A o : o \in Used' <=> o \in Used \ {OptionOf(t)}
      BY <1>7, <1>5 DEF Used, OptionsOf
    <2> QED
      BY <2>1, <2>2, <1>1 DEF Used, OptionsOf
  <1>11. /\ Negotiating' = Negotiating \ {t} /\ Muting' = Muting \ {t} /\ Audible' = Audible \ {t}
         /\ Stopping' = Stopping \ {t}
    BY <1>9 DEF Negotiating, Muting, Audible, Stopping
  <1>12. Active' = Active \ {t}
    BY <1>6, <1>11, PubsViews, PubsViewsNext
  <1>13. Distinct(pubs)'
    BY <1>7 DEF Distinct
  <1> QED
    BY <1>6, <1>10, <1>11, <1>12, <1>13

\* The active publications stay.
LEMMA PubsLeft ==
  ASSUME pubs \in Seq(Publications), Distinct(pubs), pubs' = Left
  PROVE  /\ pubs' \in Seq(Publications) /\ Distinct(pubs)'
         /\ InPubs' = Active /\ Used' \subseteq Used /\ Active' = Active /\ Negotiating' = Negotiating
         /\ Muting' = Muting /\ Audible' = Audible /\ Stopping' = {}
         /\ Len(Left) = Len(pubs) <=> Stopping = {}
  <1> DEFINE I == {i \in DOMAIN pubs : IsActive(pubs[i].status)}
  <1>1. pubs' = Filtered(pubs, I) /\ I \in SUBSET DOMAIN pubs
    BY DEF Left
  <1>2. pubs' \in Seq(Publications) /\ Len(pubs') = Cardinality(I)
    BY <1>1, FilteredPlaces
  <1>3. TracksOf(pubs') = {pubs[i].track : i \in I} /\ OptionsOf(pubs') = {pubs[i].option : i \in I}
        /\ Distinct(pubs')
    BY <1>1, FilteredFields
  <1>4. \A x, u : u \in TracksWith(pubs', x) <=> \E i \in I : pubs[i].status = x /\ pubs[i].track = u
    BY <1>1, FilteredTracks
  <1>5. ASSUME NEW x, NEW u
        PROVE  u \in TracksWith(pubs', x) <=> IsActive(x) /\ u \in TracksWith(pubs, x)
    <2>1. u \in TracksWith(pubs', x) <=> \E i \in I : pubs[i].status = x /\ pubs[i].track = u
      BY <1>4
    <2>2. u \in TracksWith(pubs, x) <=> \E i \in DOMAIN pubs : pubs[i].status = x /\ pubs[i].track = u
      BY DEF TracksWith
    <2> QED
      BY <2>1, <2>2
  <1>6. /\ Negotiating' = Negotiating /\ Muting' = Muting /\ Audible' = Audible /\ Stopping' = {}
    <2>1. \A u : /\ u \in Negotiating' <=> u \in Negotiating
                 /\ u \in Muting' <=> u \in Muting
                 /\ u \in Audible' <=> u \in Audible
                 /\ u \notin Stopping'
      BY <1>5 DEF Negotiating, Muting, Audible, Stopping, IsActive
    <2> QED
      BY <2>1
  <1>7. Active' = Active /\ InPubs' = Active
    BY <1>2, <1>6, PubsViews, PubsViewsNext
  <1>8. Used' \subseteq Used
    BY <1>3 DEF Used, OptionsOf
  <1>9. Len(Left) = Len(pubs) <=> Stopping = {}
    <2>1. Len(pubs) \in Nat /\ DOMAIN pubs = 1..Len(pubs) /\ Len(Left) = Cardinality(I)
      BY <1>1, <1>2
    <2>2. \A n \in Nat : IsFiniteSet(1..n) /\ Cardinality(1..n) = n
      BY FS_Interval
    <2>3. IsFiniteSet(DOMAIN pubs) /\ Cardinality(DOMAIN pubs) = Len(pubs)
      BY <2>1, <2>2
    <2>4. Cardinality(DOMAIN pubs) = Cardinality(I) <=> DOMAIN pubs = I
      BY <1>1, <2>3, FS_Subset
    <2>5. DOMAIN pubs = I <=> Stopping = {}
      BY DEF Stopping, TracksWith, IsActive
    <2> QED
      BY <2>1, <2>3, <2>4, <2>5
  <1>10. Distinct(pubs)'
    BY <1>3 DEF Distinct
  <1> QED
    BY <1>2, <1>6, <1>7, <1>8, <1>9, <1>10

\* Every active publication is published.
LEMMA PubsSettled ==
  ASSUME pubs \in Seq(Publications), Distinct(pubs), pubs' = AllPublished
  PROVE  /\ pubs' \in Seq(Publications) /\ Distinct(pubs)' /\ InPubs' = InPubs /\ Used' = Used
         /\ Active' = Active /\ Negotiating' = {} /\ Muting' = {} /\ Audible' = Active
         /\ Stopping' = Stopping
  <1>1. \A i \in DOMAIN pubs : pubs[i] \in Publications
    OBVIOUS
  <1>2. DOMAIN pubs' = DOMAIN pubs
    BY DEF AllPublished
  <1>3. \A i \in DOMAIN pubs :
            /\ pubs'[i] \in Publications
            /\ pubs'[i].track = pubs[i].track /\ pubs'[i].option = pubs[i].option
            /\ pubs'[i].status = IF IsActive(pubs[i].status) THEN "Published" ELSE "PendingStopMute"
    BY <1>1 DEF AllPublished, Publications, Statuses, IsActive
  <1>4. pubs' \in Seq(Publications)
    <2>1. Len(pubs) \in Nat /\ DOMAIN pubs = 1..Len(pubs)
      OBVIOUS
    <2>2. pubs' = [i \in 1..Len(pubs) |-> IF IsActive(pubs[i].status)
                      THEN [pubs[i] EXCEPT !.status = "Published"] ELSE pubs[i]]
      BY <2>1 DEF AllPublished
    <2> QED
      BY <2>1, <2>2, <1>3
  <1>5. Distinct(pubs)'
    BY <1>2, <1>3 DEF Distinct
  <1>6. ASSUME NEW x, NEW u
        PROVE  u \in TracksWith(pubs', x) <=> \/ x = "Published" /\ u \in Active
                                              \/ x = "PendingStopMute" /\ u \in Stopping
    <2>1. u \in TracksWith(pubs', x) <=> \E i \in DOMAIN pubs : pubs'[i].status = x /\ pubs'[i].track = u
      BY <1>2 DEF TracksWith
    <2>2. u \in Active <=> \E i \in DOMAIN pubs : IsActive(pubs[i].status) /\ pubs[i].track = u
      BY DEF Active
    <2>3. u \in Stopping <=> \E i \in DOMAIN pubs : ~IsActive(pubs[i].status) /\ pubs[i].track = u
      BY DEF Stopping, TracksWith, IsActive
    <2> QED
      BY <2>1, <2>2, <2>3, <1>3
  <1>7. Negotiating' = {} /\ Muting' = {} /\ Audible' = Active /\ Stopping' = Stopping
    <2>1. \A u : u \notin Negotiating' /\ u \notin Muting'
      BY <1>6 DEF Negotiating, Muting
    <2>2. \A u : (u \in Audible' <=> u \in Active) /\ (u \in Stopping' <=> u \in Stopping)
      BY <1>6 DEF Audible, Stopping
    <2> QED
      BY <2>1, <2>2
  <1>8. \A u : (u \in InPubs' <=> u \in InPubs) /\ (u \in Used' <=> u \in Used)
    BY <1>2, <1>3 DEF InPubs, Used, TracksOf, OptionsOf
  <1>9. Active' = Active
    BY <1>4, <1>7, PubsViewsNext
  <1> QED
    BY <1>4, <1>5, <1>7, <1>8, <1>9

\* There are no more publications than options.
LEMMA NoMoreThanOptions ==
  ASSUME pubs \in Seq(Publications), Distinct(pubs), NumOptions \in Nat
  PROVE  Len(pubs) \in Nat /\ DOMAIN pubs = 1..Len(pubs) /\ Len(pubs) <= NumOptions
  <1> DEFINE option == [i \in DOMAIN pubs |-> pubs[i].option]
  <1>1. Len(pubs) \in Nat /\ DOMAIN pubs = 1..Len(pubs)
    OBVIOUS
  <1>2. \A i \in DOMAIN pubs : pubs[i].option \in 1..NumOptions
    <2>1. \A i \in DOMAIN pubs : pubs[i] \in Publications
      OBVIOUS
    <2> QED
      BY <2>1 DEF Publications
  <1>3. option \in Injection(DOMAIN pubs, 1..NumOptions)
    BY <1>2 DEF Distinct, Injection, IsInjective
  <1>4. \A n \in Nat : IsFiniteSet(1..n) /\ Cardinality(1..n) = n
    BY FS_Interval
  <1>5. Cardinality(DOMAIN pubs) <= Cardinality(1..NumOptions)
    BY <1>3, <1>4, FS_Injection
  <1> QED
    BY <1>1, <1>4, <1>5

\* The options are assigned anew.
LEMMA PubsRefreshed ==
  ASSUME pubs \in Seq(Publications), Distinct(pubs), NumOptions \in Nat, pubs' = Refreshed
  PROVE  /\ pubs' \in Seq(Publications) /\ Distinct(pubs)' /\ InPubs' = InPubs
         /\ Active' = Active /\ Negotiating' = Negotiating /\ Muting' = Muting /\ Audible' = Audible
         /\ Stopping' = Stopping
  <1>1. \A i \in DOMAIN pubs : pubs[i] \in Publications
    OBVIOUS
  <1>2. DOMAIN pubs' = DOMAIN pubs
    BY DEF Refreshed
  <1>a. Len(pubs) \in Nat /\ DOMAIN pubs = 1..Len(pubs) /\ Len(pubs) <= NumOptions
    BY NoMoreThanOptions
  <1>3. \A i \in DOMAIN pubs : /\ pubs'[i] \in Publications /\ pubs'[i].option = i
                               /\ pubs'[i].track = pubs[i].track /\ pubs'[i].status = pubs[i].status
    <2>1. \A i \in DOMAIN pubs : i \in 1..NumOptions
      BY <1>a
    <2> QED
      BY <1>1, <2>1 DEF Refreshed, Publications
  <1>4. pubs' \in Seq(Publications)
    <2>1. pubs' = [i \in 1..Len(pubs) |-> [pubs[i] EXCEPT !.option = i]]
      BY <1>a DEF Refreshed
    <2> QED
      BY <2>1, <1>3, <1>a
  <1>5. Distinct(pubs)'
    BY <1>2, <1>3 DEF Distinct
  <1>6. ASSUME NEW x, NEW u
        PROVE  u \in TracksWith(pubs', x) <=> u \in TracksWith(pubs, x)
    BY <1>2, <1>3 DEF TracksWith
  <1>b. \A x : TracksWith(pubs', x) = TracksWith(pubs, x)
    <2> SUFFICES ASSUME NEW x PROVE TracksWith(pubs', x) = TracksWith(pubs, x)
      OBVIOUS
    <2>1. \A u : u \in TracksWith(pubs', x) <=> u \in TracksWith(pubs, x)
      BY <1>6
    <2> QED
      BY <2>1
  <1>7. Negotiating' = Negotiating /\ Muting' = Muting /\ Audible' = Audible /\ Stopping' = Stopping
    BY <1>b DEF Negotiating, Muting, Audible, Stopping
  <1>8. \A u : u \in InPubs' <=> u \in InPubs
    BY <1>2, <1>3 DEF InPubs, TracksOf
  <1>9. Active' = Active
    BY <1>4, <1>7, PubsViews, PubsViewsNext
  <1> QED
    BY <1>4, <1>5, <1>7, <1>8, <1>9

LEMMA PubsUnchanged ==
  ASSUME pubs' = pubs
  PROVE  /\ Negotiating' = Negotiating /\ Muting' = Muting /\ Audible' = Audible /\ Stopping' = Stopping
         /\ InPubs' = InPubs /\ Used' = Used /\ Active' = Active
         /\ Distinct(pubs) => Distinct(pubs)'
  BY DEF Negotiating, Muting, Audible, Stopping, InPubs, Used, Active, Distinct

LEMMA PubsCleared ==
  ASSUME pubs' = <<>>
  PROVE  /\ pubs' \in Seq(Publications) /\ Distinct(pubs)'
         /\ Negotiating' = {} /\ Muting' = {} /\ Audible' = {} /\ Stopping' = {}
         /\ InPubs' = {} /\ Used' = {} /\ Active' = {}
  <1>1. DOMAIN pubs' = {}
    OBVIOUS
  <1> QED
    BY <1>1 DEF Negotiating, Muting, Audible, Stopping, InPubs, Used, Active, Distinct,
                TracksOf, OptionsOf, TracksWith
-----------------------------------------------------------------------------
(* What the operations do to the senders and to the retired tracks. *)

LEMMA SendersViews ==
  ASSUME senders \in Seq(Senders)
  PROVE  /\ Heard \subseteq Sending /\ Sending \in SUBSET Tracks
         /\ \A t : SenderOf(t) # {} <=> t \in Sending
         /\ \A t : t \in Heard <=> \E k \in SenderOf(t) : senders[k].announced
         /\ senders = <<>> <=> Sending = {}
  <1>1. \A k \in DOMAIN senders : senders[k] \in Senders
    OBVIOUS
  <1>2. \A k \in DOMAIN senders : senders[k].track \in Tracks
    BY <1>1 DEF Senders
  <1>3. senders = <<>> <=> Sending = {}
    BY EmptyList DEF Sending
  <1> QED
    BY <1>2, <1>3 DEF Heard, Sending, SenderOf, TracksOf, AnnouncedOf

LEMMA RetiredViews ==
  ASSUME retired \in Seq(Retirements)
  PROVE  /\ \A t : IsRetired(t) <=> t \in Retired
         /\ \A o : RetiredFor(o) # {} <=> o \in RetiredOptions
         /\ Stays <=> Retired \cap Sending # {}
         /\ Retired \cap Sending = {} => KeptOptions = {}
         /\ KeptOptions \subseteq RetiredOptions
  BY DEF Retired, RetiredOptions, TracksOf, OptionsOf, IsRetired, RetiredFor, Stays, Sending, SenderOf,
         KeptOptions

LEMMA SendersUnchanged ==
  ASSUME senders' = senders
  PROVE  /\ Sending' = Sending /\ Heard' = Heard /\ (OneSenderEach => OneSenderEach')
         /\ retired' = retired => KeptOptions' = KeptOptions
  BY DEF Sending, Heard, OneSenderEach, OneTrackEach, KeptOptions

LEMMA RetiredUnchanged ==
  ASSUME retired' = retired
  PROVE  /\ Retired' = Retired /\ RetiredOptions' = RetiredOptions
         /\ Sending' \cap Retired \subseteq Sending => KeptOptions' \subseteq KeptOptions
  <1>1. Retired' = Retired /\ RetiredOptions' = RetiredOptions
    BY DEF Retired, RetiredOptions
  <1>2. \A i \in DOMAIN retired : retired[i].track \in Retired
    BY DEF Retired, TracksOf
  <1>3. Sending' \cap Retired \subseteq Sending => KeptOptions' \subseteq KeptOptions
    BY <1>2 DEF KeptOptions
  <1> QED
    BY <1>1, <1>3

LEMMA SendersCleared ==
  ASSUME senders' = <<>>
  PROVE  /\ senders' \in Seq(Senders) /\ Sending' = {} /\ Heard' = {} /\ OneSenderEach'
         /\ KeptOptions' = {}
  <1>1. DOMAIN senders' = {}
    OBVIOUS
  <1> QED
    BY <1>1 DEF Sending, Heard, OneSenderEach, OneTrackEach, TracksOf, AnnouncedOf, KeptOptions

LEMMA SendersJoined ==
  ASSUME senders \in Seq(Senders), NEW t \in Tracks, senders' = WithSender(t)
  PROVE  /\ senders' \in Seq(Senders) /\ Sending' = Sending \cup {t} /\ Heard' = Heard
         /\ OneSenderEach /\ t \notin Sending => OneSenderEach'
  <1> DEFINE r == [track |-> t, announced |-> FALSE]
  <1>1. r \in Senders /\ r.track = t /\ r.announced = FALSE
    BY DEF Senders
  <1> HIDE DEF r
  <1>2. senders' = Append(senders, r)
    BY DEF WithSender, r
  <1>3. /\ TracksOf(senders') = TracksOf(senders) \cup {t} /\ AnnouncedOf(senders') = AnnouncedOf(senders)
        /\ OneTrackEach(senders) /\ t \notin TracksOf(senders) => OneTrackEach(senders')
    <2>1. /\ TracksOf(senders') = TracksOf(senders) \cup {t}
          /\ AnnouncedOf(senders') = AnnouncedOf(senders) \cup (IF r.announced THEN {r.track} ELSE {})
          /\ OneTrackEach(senders) /\ t \notin TracksOf(senders) => OneTrackEach(senders')
      BY <1>1, <1>2, AppendedFields
    <2>2. AnnouncedOf(senders') = AnnouncedOf(senders)
      BY <2>1, <1>1
    <2> QED
      BY <2>1, <2>2
  <1>4. senders' \in Seq(Senders)
    BY <1>1, <1>2
  <1> QED
    BY <1>3, <1>4 DEF Sending, Heard, OneSenderEach, OneTrackEach

LEMMA SendersWithout ==
  ASSUME senders \in Seq(Senders), NEW t, senders' = WithoutSender(t)
  PROVE  /\ senders' \in Seq(Senders) /\ Sending' = Sending \ {t} /\ Heard' = Heard \ {t}
         /\ OneSenderEach => OneSenderEach'
  <1> DEFINE I == DOMAIN senders \ SenderOf(t)
  <1>1. senders' = Filtered(senders, I) /\ I \in SUBSET DOMAIN senders
    BY DEF WithoutSender
  <1>2. senders' \in Seq(Senders)
    BY <1>1, FilteredPlaces
  <1>3. /\ TracksOf(senders') = {senders[i].track : i \in I}
        /\ AnnouncedOf(senders') = {senders[i].track : i \in {j \in I : senders[j].announced}}
        /\ OneTrackEach(senders) => OneTrackEach(senders')
    BY <1>1, FilteredFields
  <1>4. \A i \in DOMAIN senders : i \in I <=> senders[i].track # t
    BY DEF SenderOf
  <1>5. \A u : u \in Sending' <=> u \in Sending \ {t}
    BY <1>1, <1>3, <1>4 DEF Sending, TracksOf
  <1>6. \A u : u \in Heard' <=> u \in Heard \ {t}
    BY <1>1, <1>3, <1>4 DEF Heard, AnnouncedOf
  <1>7. OneSenderEach => OneSenderEach'
    BY <1>3 DEF OneSenderEach, OneTrackEach
  <1> QED
    BY <1>2, <1>5, <1>6, <1>7

\* A negotiation announces the senders of the active tracks.
LEMMA SendersAnnounced ==
  ASSUME NEW all \in Seq(Senders), senders' = Announced(all)
  PROVE  /\ senders' \in Seq(Senders) /\ Sending' = TracksOf(all)
         /\ Heard' = AnnouncedOf(all) \cup (TracksOf(all) \cap Active)
         /\ OneTrackEach(all) => OneSenderEach'
  <1>1. \A i \in DOMAIN all : all[i] \in Senders
    OBVIOUS
  <1>2. DOMAIN senders' = DOMAIN all
    BY DEF Announced
  <1>3. \A i \in DOMAIN all :
            /\ senders'[i] \in Senders /\ senders'[i].track = all[i].track
            /\ senders'[i].announced <=> all[i].announced \/ all[i].track \in Active
    BY <1>1 DEF Announced, Senders
  <1>4. senders' \in Seq(Senders)
    <2>1. Len(all) \in Nat /\ DOMAIN all = 1..Len(all)
      OBVIOUS
    <2>2. senders' = [i \in 1..Len(all) |-> IF all[i].track \in Active
                          THEN [all[i] EXCEPT !.announced = TRUE] ELSE all[i]]
      BY <2>1 DEF Announced
    <2> QED
      BY <2>1, <2>2, <1>3
  <1>5. \A u : u \in Sending' <=> u \in TracksOf(all)
    BY <1>2, <1>3 DEF Sending, TracksOf
  <1>6. \A u : u \in Heard' <=> u \in AnnouncedOf(all) \cup (TracksOf(all) \cap Active)
    BY <1>2, <1>3 DEF Heard, TracksOf, AnnouncedOf
  <1>7. OneTrackEach(all) => OneSenderEach'
    BY <1>2, <1>3 DEF OneSenderEach, OneTrackEach
  <1> QED
    BY <1>4, <1>5, <1>6, <1>7

\* A sender changes its track.
LEMMA SendersTaken ==
  ASSUME senders \in Seq(Senders), NEW k \in DOMAIN senders, NEW t \in Tracks,
         senders' = [senders EXCEPT ![k].track = t]
  PROVE  /\ senders' \in Seq(Senders)
         /\ OneSenderEach /\ t \notin Sending =>
               /\ OneSenderEach'
               /\ Sending' = (Sending \ {senders[k].track}) \cup {t}
               /\ senders[k].track \in Heard => Heard' = (Heard \ {senders[k].track}) \cup {t}
  <1>1. \A i \in DOMAIN senders : senders[i] \in Senders
    OBVIOUS
  <1>2. DOMAIN senders' = DOMAIN senders
    OBVIOUS
  <1>3. \A i \in DOMAIN senders :
            /\ senders'[i] \in Senders
            /\ senders'[i].track = IF i = k THEN t ELSE senders[i].track
            /\ senders'[i].announced = senders[i].announced
    BY <1>1 DEF Senders
  <1>4. senders' \in Seq(Senders)
    <2>1. Len(senders) \in Nat /\ DOMAIN senders = 1..Len(senders)
      OBVIOUS
    <2>2. senders' = [i \in 1..Len(senders) |-> senders'[i]]
      BY <2>1
    <2> QED
      BY <2>1, <2>2, <1>3
  <1>5. ASSUME OneSenderEach, t \notin Sending
        PROVE  /\ OneSenderEach'
               /\ Sending' = (Sending \ {senders[k].track}) \cup {t}
               /\ senders[k].track \in Heard => Heard' = (Heard \ {senders[k].track}) \cup {t}
    <2>1. \A i \in DOMAIN senders : senders[i].track # t
      BY <1>5 DEF Sending, TracksOf
    <2>2. \A i \in DOMAIN senders : senders[i].track = senders[k].track <=> i = k
      BY <1>5 DEF OneSenderEach, OneTrackEach
    <2>3. OneSenderEach'
      BY <1>2, <1>3, <1>5, <2>1 DEF OneSenderEach, OneTrackEach
    <2>4. \A u : u \in Sending' <=> u \in (Sending \ {senders[k].track}) \cup {t}
      BY <1>2, <1>3, <2>2 DEF Sending, TracksOf
    <2>5. senders[k].track \in Heard => senders[k].announced
      BY <2>2 DEF Heard, AnnouncedOf
    <2>6. senders[k].announced => \A u : u \in Heard' <=> u \in (Heard \ {senders[k].track}) \cup {t}
      BY <1>2, <1>3, <2>2 DEF Heard, AnnouncedOf
    <2> QED
      BY <2>3, <2>4, <2>5, <2>6
  <1> QED
    BY <1>4, <1>5
\* The senders that a restore adds to those of the connection.
Restored == senders \o [i \in DOMAIN Missing |-> [track |-> Missing[i].track, announced |-> FALSE]]

LEMMA Concatenated ==
  ASSUME NEW S, NEW list \in Seq(S), NEW more \in Seq(S)
  PROVE  /\ list \o more \in Seq(S)
         /\ \A i \in DOMAIN list : i \in DOMAIN (list \o more) /\ (list \o more)[i] = list[i]
         /\ \A j \in DOMAIN more : Len(list) + j \in DOMAIN (list \o more)
                                   /\ (list \o more)[Len(list) + j] = more[j]
         /\ \A k \in DOMAIN (list \o more) :
                k \in DOMAIN list \/ \E j \in DOMAIN more : k = Len(list) + j
  <1>1. /\ Len(list) \in Nat /\ DOMAIN list = 1..Len(list)
        /\ Len(more) \in Nat /\ DOMAIN more = 1..Len(more)
    OBVIOUS
  <1>2. list \o more \in Seq(S) /\ Len(list \o more) = Len(list) + Len(more)
    OBVIOUS
  <1>3. DOMAIN (list \o more) = 1..(Len(list) + Len(more))
    BY <1>1, <1>2
  <1>4. \A i \in 1..(Len(list) + Len(more)) :
            (list \o more)[i] = IF i <= Len(list) THEN list[i] ELSE more[i - Len(list)]
    BY <1>1
  <1>5. \A i \in DOMAIN list : i \in DOMAIN (list \o more) /\ (list \o more)[i] = list[i]
    BY <1>1, <1>3, <1>4
  <1>6. \A j \in DOMAIN more : Len(list) + j \in DOMAIN (list \o more)
                               /\ (list \o more)[Len(list) + j] = more[j]
    BY <1>1, <1>3, <1>4
  <1>7. ASSUME NEW k \in DOMAIN (list \o more), k \notin DOMAIN list
        PROVE  \E j \in DOMAIN more : k = Len(list) + j
    <2>1. k - Len(list) \in DOMAIN more /\ k = Len(list) + (k - Len(list))
      BY <1>1, <1>3, <1>7
    <2> QED
      BY <2>1
  <1> QED
    BY <1>2, <1>5, <1>6, <1>7

LEMMA SendersRestored ==
  ASSUME senders \in Seq(Senders), pubs \in Seq(Publications), Distinct(pubs)
  PROVE  /\ Restored \in Seq(Senders) /\ TracksOf(Restored) = Sending \cup Active
         /\ AnnouncedOf(Restored) = Heard
         /\ OneSenderEach => OneTrackEach(Restored)
  <1> DEFINE I == {i \in DOMAIN pubs : IsActive(pubs[i].status) /\ SenderOf(pubs[i].track) = {}}
             more == [i \in DOMAIN Missing |-> [track |-> Missing[i].track, announced |-> FALSE]]
  <1>1. Missing = Filtered(pubs, I) /\ I \in SUBSET DOMAIN pubs
    BY DEF Missing
  <1>a. \A i : i \in I <=> i \in DOMAIN pubs /\ IsActive(pubs[i].status) /\ SenderOf(pubs[i].track) = {}
    OBVIOUS
  <1> HIDE DEF I
  <1>2. Missing \in Seq(Publications)
    BY <1>1, FilteredPlaces
  <1>3. /\ TracksOf(Missing) = {pubs[i].track : i \in I} /\ Distinct(Missing)
    BY <1>1, FilteredFields
  <1>4. TracksOf(Missing) = Active \ Sending
    <2>1. \A i \in DOMAIN pubs : i \in I <=> IsActive(pubs[i].status) /\ pubs[i].track \notin Sending
      BY <1>a, SendersViews
    <2>2. \A u : u \in Active <=> \E i \in DOMAIN pubs : IsActive(pubs[i].status) /\ pubs[i].track = u
      BY DEF Active
    <2>3. \A u : u \in TracksOf(Missing) <=> \E i \in I : pubs[i].track = u
      BY <1>3
    <2>4. \A u : u \in TracksOf(Missing) <=> u \in Active \ Sending
      BY <2>1, <2>2, <2>3, <1>1
    <2> QED
      BY <2>4
  <1>5. /\ DOMAIN more = DOMAIN Missing
        /\ \A i \in DOMAIN more : more[i].track = Missing[i].track /\ more[i].announced = FALSE
    OBVIOUS
  <1>6. more \in Seq(Senders)
    <2>1. Len(Missing) \in Nat /\ DOMAIN Missing = 1..Len(Missing)
      BY <1>2
    <2>2. \A i \in DOMAIN Missing : Missing[i] \in Publications
      BY <1>2
    <2>3. \A i \in DOMAIN Missing : [track |-> Missing[i].track, announced |-> FALSE] \in Senders
      BY <2>2 DEF Publications, Senders
    <2>4. more = [i \in 1..Len(Missing) |-> [track |-> Missing[i].track, announced |-> FALSE]]
      BY <2>1
    <2> QED
      BY <2>1, <2>3, <2>4
  <1>7. Restored = senders \o more
    BY DEF Restored
  <1> HIDE DEF more
  <1>8. TracksOf(more) = Active \ Sending /\ OneTrackEach(more)
    <2>1. \A u : u \in TracksOf(more) <=> u \in TracksOf(Missing)
      BY <1>5 DEF TracksOf
    <2>2. OneTrackEach(more)
      BY <1>3, <1>5 DEF OneTrackEach, Distinct
    <2> QED
      BY <2>1, <2>2, <1>4
  <1>9. /\ Restored \in Seq(Senders)
        /\ \A i \in DOMAIN senders : i \in DOMAIN Restored /\ Restored[i] = senders[i]
        /\ \A j \in DOMAIN more : Len(senders) + j \in DOMAIN Restored /\ Restored[Len(senders) + j] = more[j]
        /\ \A k \in DOMAIN Restored : k \in DOMAIN senders \/ \E j \in DOMAIN more : k = Len(senders) + j
    BY <1>6, <1>7, Concatenated
  <1>10. \A u : u \in TracksOf(Restored) <=> u \in Sending \cup TracksOf(more)
    BY <1>9 DEF TracksOf, Sending
  <1>11. \A u : u \in AnnouncedOf(Restored) <=> u \in Heard
    BY <1>5, <1>9 DEF AnnouncedOf, Heard
  <1>12. OneSenderEach => OneTrackEach(Restored)
    <2> SUFFICES ASSUME OneSenderEach, NEW k \in DOMAIN Restored, NEW l \in DOMAIN Restored,
                        Restored[k].track = Restored[l].track
                 PROVE  k = l
      BY DEF OneTrackEach
    <2>1. \A i \in DOMAIN senders : senders[i].track \in Sending
      BY DEF Sending, TracksOf
    <2>2. \A j \in DOMAIN more : more[j].track \notin Sending
      BY <1>8 DEF TracksOf
    <2>3. CASE k \in DOMAIN senders /\ l \in DOMAIN senders
      BY <2>3, <1>9 DEF OneSenderEach, OneTrackEach
    <2>4. CASE k \notin DOMAIN senders /\ l \notin DOMAIN senders
      BY <2>4, <1>8, <1>9 DEF OneTrackEach
    <2>5. CASE ~(k \in DOMAIN senders <=> l \in DOMAIN senders)
      BY <2>1, <2>2, <2>5, <1>9
    <2> QED
      BY <2>3, <2>4, <2>5
  <1> QED
    BY <1>8, <1>9, <1>10, <1>11, <1>12

\* The latest retired track of an option is taken.
LEMMA RetiredTaken ==
  ASSUME retired \in Seq(Retirements), NEW k \in DOMAIN retired,
         NEW I \in SUBSET DOMAIN retired, \A i \in DOMAIN retired : i \in I <=> i # k,
         retired' = Filtered(retired, I)
  PROVE  /\ retired' \in Seq(Retirements) /\ Retired' \subseteq Retired
         /\ OneTrackEach(retired) => OneTrackEach(retired)' /\ Retired' = Retired \ {retired[k].track}
         /\ Latest /\ Sending' \cap Retired' \subseteq Sending => Latest' /\ KeptOptions' \subseteq KeptOptions
         /\ Latest /\ Sending' \cap Retired' \subseteq Sending
            /\ (\A j \in DOMAIN retired : retired[j].option = retired[k].option => j <= k)
            => retired[k].option \notin KeptOptions'
  <1>0. \A i : i \in I <=> i \in DOMAIN retired /\ i # k
    OBVIOUS
  <1>1. /\ retired' \in Seq(Retirements) /\ TracksOf(retired') = {retired[i].track : i \in I}
        /\ OneTrackEach(retired) => OneTrackEach(retired')
    BY FilteredPlaces, FilteredFields
  <1>2. PICK place : /\ \A n \in DOMAIN retired' : place[n] \in I /\ retired'[n] = retired[place[n]]
                     /\ \A m, n \in DOMAIN retired' : m < n => place[m] < place[n]
    BY FilteredOrder
  <1>3. (\A n \in DOMAIN retired' : n \in Nat) /\ (\A i \in DOMAIN retired : i \in Nat)
    BY <1>1
  <1>4. \A n \in DOMAIN retired' : place[n] \in DOMAIN retired /\ place[n] # k
    BY <1>0, <1>2
  <1>5. Retired' \subseteq Retired
    BY <1>0, <1>1 DEF Retired, TracksOf
  <1>6. OneTrackEach(retired) => OneTrackEach(retired)' /\ Retired' = Retired \ {retired[k].track}
    <2>1. OneTrackEach(retired) => \A u : u \in TracksOf(retired') <=> u \in Retired \ {retired[k].track}
      BY <1>0, <1>1 DEF Retired, TracksOf, OneTrackEach
    <2> QED
      BY <1>1, <2>1 DEF Retired, OneTrackEach
  <1>7. ASSUME Sending' \cap Retired' \subseteq Sending
        PROVE  \A n \in DOMAIN retired' : retired'[n].track \in Sending' => retired[place[n]].track \in Sending
    <2>1. \A n \in DOMAIN retired' : retired'[n].track \in Retired'
      BY DEF Retired, TracksOf
    <2> QED
      BY <1>2, <1>7, <2>1
  <1>8. ASSUME Latest, Sending' \cap Retired' \subseteq Sending
        PROVE  Latest' /\ KeptOptions' \subseteq KeptOptions
    <2>1. ASSUME NEW m \in DOMAIN retired', NEW n \in DOMAIN retired', retired'[m].track \in Sending',
                 retired'[m].option = retired'[n].option
          PROVE  n <= m
      <3>1. place[n] <= place[m]
        BY <1>2, <1>4, <1>7, <1>8, <2>1 DEF Latest
      <3>2. m \in Nat /\ n \in Nat /\ place[m] \in Nat /\ place[n] \in Nat
        BY <1>3, <1>4
      <3>3. m < n => place[m] < place[n]
        BY <1>2
      <3> QED
        BY <3>1, <3>2, <3>3
    <2>2. KeptOptions' \subseteq KeptOptions
      <3>1. \A o \in KeptOptions' : \E n \in DOMAIN retired' : retired'[n].option = o /\ retired'[n].track \in Sending'
        BY DEF KeptOptions
      <3>2. \A i \in DOMAIN retired : retired[i].track \in Sending => retired[i].option \in KeptOptions
        BY DEF KeptOptions
      <3>3. \A n \in DOMAIN retired' : retired'[n].track \in Sending' =>
                /\ place[n] \in DOMAIN retired /\ retired[place[n]].track \in Sending
                /\ retired'[n].option = retired[place[n]].option
        BY <1>2, <1>4, <1>7, <1>8
      <3>4. ASSUME NEW o \in KeptOptions' PROVE o \in KeptOptions
        <4>1. PICK n \in DOMAIN retired' : retired'[n].option = o /\ retired'[n].track \in Sending'
          BY <3>1
        <4> QED
          BY <3>2, <3>3, <4>1
      <3> QED
        BY <3>4
    <2> QED
      BY <2>1, <2>2 DEF Latest
  <1>9. ASSUME Latest, Sending' \cap Retired' \subseteq Sending,
               \A j \in DOMAIN retired : retired[j].option = retired[k].option => j <= k
        PROVE  retired[k].option \notin KeptOptions'
    <2> SUFFICES ASSUME NEW n \in DOMAIN retired', retired'[n].track \in Sending',
                        retired'[n].option = retired[k].option
                 PROVE  FALSE
      BY DEF KeptOptions
    <2>1. retired[place[n]].track \in Sending /\ retired[place[n]].option = retired[k].option
      BY <1>2, <1>7, <1>9
    <2>2. k <= place[n] /\ place[n] <= k
      BY <1>4, <1>9, <2>1 DEF Latest
    <2>3. k \in Nat /\ place[n] \in Nat /\ place[n] # k
      BY <1>3, <1>4
    <2> QED
      BY <2>2, <2>3
  <1> QED
    BY <1>1, <1>5, <1>6, <1>8, <1>9

\* A track is retired; it is the latest of its option, which no other kept sender has.
LEMMA RetiredAppended ==
  ASSUME retired \in Seq(Retirements), NEW t \in Tracks, NEW o \in 1..NumOptions,
         retired' = Append(retired, [track |-> t, option |-> o]), Sending' = Sending
  PROVE  /\ retired' \in Seq(Retirements) /\ Retired' = Retired \cup {t}
         /\ OneTrackEach(retired) /\ t \notin Retired => OneTrackEach(retired)'
         /\ KeptOptions' \subseteq KeptOptions \cup {o}
         /\ Latest /\ o \notin KeptOptions => Latest'
  <1> DEFINE r == [track |-> t, option |-> o]
             n == Len(retired) + 1
  <1>1. r \in Retirements /\ r.track = t /\ r.option = o
    BY DEF Retirements
  <1> HIDE DEF r
  <1>2. retired' = Append(retired, r)
    BY DEF r
  <1>3. /\ retired' \in Seq(Retirements)
        /\ DOMAIN retired' = DOMAIN retired \cup {n} /\ n \notin DOMAIN retired /\ retired'[n] = r
        /\ \A i \in DOMAIN retired : retired'[i] = retired[i]
        /\ \A i \in DOMAIN retired : i \in Nat /\ i < n
    BY <1>1, <1>2, Appended
  <1>4. n \in Nat
    OBVIOUS
  <1> HIDE DEF n
  <1>5. Retired' = Retired \cup {t} /\ (OneTrackEach(retired) /\ t \notin Retired => OneTrackEach(retired)')
    BY <1>1, <1>2, AppendedFields DEF Retired, OneTrackEach
  <1>6. KeptOptions' \subseteq KeptOptions \cup {o}
    BY <1>1, <1>3 DEF KeptOptions
  <1>7. ASSUME Latest, o \notin KeptOptions, NEW i \in DOMAIN retired', NEW j \in DOMAIN retired',
               retired'[i].track \in Sending', retired'[i].option = retired'[j].option
        PROVE  j <= i
    <2>1. CASE i = n
      BY <1>3, <1>4, <2>1
    <2>2. CASE i # n
      <3>1. i \in DOMAIN retired /\ retired[i].track \in Sending /\ retired[i].option # o
        BY <1>3, <1>7, <2>2 DEF KeptOptions
      <3>2. j \in DOMAIN retired
        BY <1>1, <1>3, <1>7, <3>1
      <3> QED
        BY <1>3, <1>7, <3>1, <3>2 DEF Latest
    <2> QED
      BY <2>1, <2>2
  <1>8. Latest /\ o \notin KeptOptions => Latest'
    BY <1>7 DEF Latest
  <1> QED
    BY <1>3, <1>5, <1>6, <1>8
-----------------------------------------------------------------------------
(* What the steps of a call do to the calls. *)


LEMMA CallFields ==
  ASSUME NEW r \in Calls
  PROVE  /\ r.at \in Places /\ r.track \in Tracks \cup {None} /\ r.option \in 0..NumOptions
         /\ r.conn \in 0..(Swaps + 1) /\ r.to \in BOOLEAN /\ r.tracks \in SUBSET Tracks
  BY DEF Calls

LEMMA IdleIsCall == ASSUME PubBounds PROVE IdleCall \in Calls
  BY DEF PubBounds, IdleCall, Calls, Places

LEMMA CallReplaced ==
  ASSUME CallsTyped, conn' = conn, conn \in Nat,
         NEW c \in Procs, NEW r \in Calls, r.conn <= conn, call' = [call EXCEPT ![c] = r]
  PROVE  CallsTyped' /\ call'[c] = r /\ (\A q \in Procs : q # c => call'[q] = call[q])
  <1>1. call' \in [Procs -> Calls] /\ call'[c] = r /\ (\A q \in Procs : q # c => call'[q] = call[q])
    BY DEF CallsTyped
  <1>2. \A p \in Procs : call[p].conn \in Nat
    BY DEF CallsTyped, Calls
  <1>3. \A p \in Procs : call'[p].conn <= conn'
    BY <1>1, <1>2 DEF CallsTyped
  <1> QED
    BY <1>1, <1>3 DEF CallsTyped

LEMMA CallMoved ==
  ASSUME CallsTyped, conn' = conn, conn \in Nat, NEW c \in Procs, NEW place \in Places, Go(c, place)
  PROVE  /\ CallsTyped' /\ (\A q \in Procs : q # c => call'[q] = call[q]) /\ call'[c].at = place /\ call'[c].track = call[c].track
         /\ call'[c].option = call[c].option /\ call'[c].conn = call[c].conn
         /\ call'[c].to = call[c].to /\ call'[c].tracks = call[c].tracks
  <1> DEFINE r == [call[c] EXCEPT !.at = place]
  <1>1. call[c] \in Calls /\ call[c].conn <= conn
    BY DEF CallsTyped
  <1>2. /\ r \in Calls /\ r.at = place /\ r.track = call[c].track /\ r.option = call[c].option
        /\ r.conn = call[c].conn /\ r.to = call[c].to /\ r.tracks = call[c].tracks
    BY <1>1 DEF Calls
  <1>3. call' = [call EXCEPT ![c] = r]
    BY DEF Go
  <1> HIDE DEF r
  <1>4. CallsTyped' /\ call'[c] = r /\ (\A q \in Procs : q # c => call'[q] = call[q])
    BY <1>1, <1>2, <1>3, CallReplaced
  <1> QED
    BY <1>2, <1>4

LEMMA CallReturns ==
  ASSUME PubBounds, CallsTyped, conn' = conn, conn \in Nat, NEW c \in Procs, Return(c)
  PROVE  /\ CallsTyped' /\ (\A q \in Procs : q # c => call'[q] = call[q]) /\ call'[c].at \in {"idle", "list"}
         /\ call'[c].at = "list" <=> c = Revoker /\ call[c].tracks # {}
         /\ call'[c].tracks = IF c = Revoker THEN call[c].tracks ELSE {}
  <1> DEFINE r == IF c = Revoker /\ call[c].tracks # {} THEN [call[c] EXCEPT !.at = "list"] ELSE IdleCall
  <1>1. call[c] \in Calls /\ call[c].conn <= conn
    BY DEF CallsTyped
  <1>2. IdleCall \in Calls /\ IdleCall.at = "idle" /\ IdleCall.conn = 0 /\ IdleCall.tracks = {}
    BY IdleIsCall DEF IdleCall
  <1>3. /\ r \in Calls /\ r.conn <= conn /\ r.at \in {"idle", "list"}
        /\ r.at = "list" <=> c = Revoker /\ call[c].tracks # {}
        /\ r.tracks = IF c = Revoker THEN call[c].tracks ELSE {}
    <2>1. CASE c = Revoker /\ call[c].tracks # {}
      BY <1>1, <2>1 DEF Calls, Places
    <2>2. CASE ~(c = Revoker /\ call[c].tracks # {})
      BY <1>2, <2>2
    <2> QED
      BY <2>1, <2>2
  <1>4. call' = [call EXCEPT ![c] = r]
    BY <1>1 DEF Return
  <1> HIDE DEF r
  <1>5. CallsTyped' /\ call'[c] = r /\ (\A q \in Procs : q # c => call'[q] = call[q])
    BY <1>1, <1>3, <1>4, CallReplaced
  <1> QED
    BY <1>3, <1>5

LEMMA CallIdles ==
  ASSUME PubBounds, CallsTyped, conn' = conn, conn \in Nat, NEW c \in Procs,
         call' = [call EXCEPT ![c] = IdleCall]
  PROVE  CallsTyped' /\ (\A q \in Procs : q # c => call'[q] = call[q]) /\ call'[c].at = "idle" /\ call'[c].tracks = {}
  <1>1. IdleCall \in Calls /\ IdleCall.at = "idle" /\ IdleCall.conn = 0 /\ IdleCall.tracks = {}
    BY IdleIsCall DEF IdleCall
  <1>2. IdleCall.conn <= conn
    BY <1>1
  <1>3. CallsTyped' /\ call'[c] = IdleCall /\ (\A q \in Procs : q # c => call'[q] = call[q])
    BY <1>1, <1>2, CallReplaced
  <1> QED
    BY <1>1, <1>3

\* The holder of the lock is alone.
LEMMA HolderIsAlone ==
  ASSUME PubBounds, HolderInv, NEW c \in Procs, call[c].at \in Holding
  PROVE  /\ media = c /\ restoring \notin {"sync", "stops"}
         /\ \A q \in Procs : q # c => call[q].at \notin Holding
  BY DEF PubBounds, HolderInv

LEMMA NobodyHolds ==
  ASSUME PubBounds, HolderInv, media \in {None, Restore}
  PROVE  /\ \A q \in Procs : call[q].at \notin Holding
         /\ Taking = {}
  <1>1. \A q \in Procs : call[q].at \notin Holding
    BY DEF PubBounds, HolderInv
  <1> QED
    BY <1>1 DEF Taking, Holding, Beginning

\* The tracks of the calls between the sender and the publication.
LEMMA TakingOfHolder ==
  ASSUME NEW c \in Procs, \A q \in Procs : q # c => call[q].at \notin Holding
  PROVE  Taking = IF call[c].at \in {"register", "added"} THEN {call[c].track} ELSE {}
  BY DEF Taking, Holding, Beginning

LEMMA TakingOfHolderNext ==
  ASSUME NEW c \in Procs, \A q \in Procs : q # c => call'[q].at \notin Holding
  PROVE  Taking' = IF call'[c].at \in {"register", "added"} THEN {call'[c].track} ELSE {}
  BY DEF Taking, Holding, Beginning
-----------------------------------------------------------------------------
(* Steps that leave the lists, the link and the holder of the lock alone. *)

SameHolders ==
    \A q \in Procs : call[q].at \in Holding \/ call'[q].at \in Holding => call'[q] = call[q]
RevokerPlaced ==
    /\ call[Revoker].at \in {"idle", "list", "stop", "stopMute"}
    /\ call[Revoker].at = "idle" => call[Revoker].tracks = {}
TracksTyped ==
    \A q \in Procs : call[q].at \notin {"idle", "list", "mute", "answer"} => call[q].track \in Tracks

LEMMA QuietStep ==
  ASSUME PubInv, UNCHANGED <<pubs, retired, senders, conn, connected, notify, restoring>>,
         UNCHANGED <<held, due, astray, media, stopped>>,
         SameHolders, TracksTyped', RevokerPlaced'
  PROVE  ListsInv' /\ HolderInv' /\ KnowsInv' /\ PacingInv' /\ SendersInv' /\ AnnouncedInv'
  <1>1. /\ Negotiating' = Negotiating /\ Muting' = Muting /\ Audible' = Audible /\ Stopping' = Stopping
        /\ InPubs' = InPubs /\ Used' = Used /\ Active' = Active /\ (Distinct(pubs) => Distinct(pubs)')
    BY PubsUnchanged
  <1>2. /\ Sending' = Sending /\ Heard' = Heard /\ (OneSenderEach => OneSenderEach')
        /\ KeptOptions' = KeptOptions /\ Retired' = Retired /\ RetiredOptions' = RetiredOptions
    BY SendersUnchanged, RetiredUnchanged
  <1>3. Taking' = Taking
    BY DEF SameHolders, Taking, Holding, Beginning
  <1>4. ListsInv'
    BY <1>1, <1>2 DEF PubInv, ListsInv
  <1>5. HolderInv'
    BY DEF PubInv, HolderInv, SameHolders, RevokerPlaced
  <1>6. KnowsInv'
    <2> SUFFICES ASSUME NEW q \in Procs
                 PROVE  KnowsInv!(q)'
      BY DEF KnowsInv
    <2>1. CASE call[q].at \in Holding \/ call'[q].at \in Holding
      <3>1. call'[q] = call[q]
        BY <2>1 DEF SameHolders
      <3> QED
        BY <3>1, <1>1, <1>2 DEF PubInv, KnowsInv, Current
    <2>2. CASE call'[q].at \notin Holding
      BY <2>2 DEF TracksTyped, Holding, Beginning
    <2> QED
      BY <2>1, <2>2
  <1>7. PacingInv'
    BY <1>1 DEF PubInv, PacingInv, SameHolders, Holding
  <1>8. OneTrackEach(retired)' = OneTrackEach(retired) /\ Latest' = Latest
    BY <1>2 DEF OneTrackEach, Latest
  <1>9. SendersInv'
    <2>1. CallsApart => CallsApart'
      BY <1>2 DEF CallsApart, SameHolders, Holding
    <2>2. Known => Known'
      BY <1>1, <1>2, <1>3 DEF Known
    <2>3. RetiredApart => RetiredApart'
      BY <1>1, <1>2, <1>8 DEF RetiredApart
    <2> QED
      BY <1>2, <2>1, <2>2, <2>3 DEF PubInv, SendersInv
  <1>10. AnnouncedInv'
    BY <1>1, <1>2 DEF PubInv, AnnouncedInv, SameHolders, Holding, Beginning
  <1> QED
    BY <1>4, <1>5, <1>6, <1>7, <1>9, <1>10

\* Neither the capability nor the Revoker is touched.
LEMMA RevokerUntouched ==
  ASSUME RevokeInv, capable' = capable, restoring' = restoring,
         call'[Revoker] = call[Revoker], Active' \subseteq Active,
         \A q \in Procs : call'[q].at \in Beginning => call[q].at \in Beginning
  PROVE  RevokeInv'
  <1>1. ToStop' = ToStop
    BY DEF ToStop
  <1> QED
    BY <1>1 DEF RevokeInv

\* What the SFU was told is not touched.
LEMMA SfuUntouched ==
  ASSUME SfuKnowsInv, UNCHANGED <<restoring, sfuMuted, conn>>, listed => listed',
         muted' = muted, doubt => doubt', Audible' \subseteq Audible,
         \A q \in Procs : call'[q].at = "answer" <=> call[q].at = "answer",
         \A q \in Procs : call'[q].at = "answer" => call'[q] = call[q],
         \A q \in Procs : call'[q].at = "unmute" /\ Current(q)' => listed' \/ (call[q].at = "unmute" /\ Current(q))
  PROVE  SfuKnowsInv'
  <1>1. Answering' = Answering
    BY DEF Answering
  <1>2. \A q \in Procs : Answering = {q} => call[q].at = "answer"
    BY DEF Answering
  <1>3. \A q \in Procs : call'[q].at = "answer" => (Current(q)' <=> Current(q)) /\ call'[q].to = call[q].to
    BY DEF Current
  <1>4. \A q \in Procs : Answering' = {q} /\ ~doubt' /\ restoring' \in {"none", "stops"} =>
               IF Current(q)' THEN call'[q].to => Audible' \subseteq muted' ELSE Audible' = {}
    BY <1>1, <1>2, <1>3 DEF SfuKnowsInv
  <1>5. ~doubt' /\ restoring' \in {"none", "stops"} =>
            (Answering' = {} /\ ~(Audible' \subseteq muted') => ~sfuMuted' /\ listed')
    BY <1>1 DEF SfuKnowsInv
  <1>6. ~doubt' => \A q \in Procs : call'[q].at = "unmute" /\ Current(q)' => listed'
    BY DEF SfuKnowsInv
  <1> QED
    BY <1>4, <1>5, <1>6 DEF SfuKnowsInv
-----------------------------------------------------------------------------
(* The beginning of a call. *)

LEMMA TypesGiveViews ==
  ASSUME PubTyped
  PROVE  /\ pubs \in Seq(Publications) /\ senders \in Seq(Senders) /\ retired \in Seq(Retirements)
         /\ conn \in Nat /\ CallsTyped
  BY DEF PubTyped

LEMMA LinkIsNumber ==
  ASSUME PubBounds, PubTyped
  PROVE  conn \in Nat /\ conn \in 0..(Swaps + 1) /\ conn <= conn
  BY DEF PubBounds, PubTyped

LEMMA CallerIsNotRevoker ==
  ASSUME PubBounds, NEW c \in Callers
  PROVE  c \in Procs /\ c # Revoker /\ Revoker \in Procs
  BY DEF PubBounds, Procs

\* A call of the user begins, from idle to a place without the lock.
LEMMA CallBegins ==
  ASSUME PubBounds, PubInv, NEW c \in Callers, call[c].at = "idle",
         NEW r \in Calls, r.at \in {"publish", "stop", "mute"}, r.conn = 0,
         r.at # "mute" => r.track \in Tracks,
         call' = [call EXCEPT ![c] = r],
         UNCHANGED <<media, lists, link, flags, capable, told, astray, due, doubt>>
  PROVE  PubInv'
  <1>1. c \in Procs /\ c # Revoker /\ Revoker \in Procs
    BY CallerIsNotRevoker
  <1>2. CallsTyped' /\ call'[c] = r /\ (\A q \in Procs : q # c => call'[q] = call[q])
    <2>1. conn \in Nat /\ r.conn <= conn /\ CallsTyped /\ conn' = conn
      BY TypesGiveViews DEF PubInv, link
    <2> QED
      BY <1>1, <2>1, CallReplaced
  <1>3. PubTyped'
    BY <1>2 DEF PubInv, PubTyped, lists, link, flags, told
  <1>4. SameHolders /\ TracksTyped' /\ RevokerPlaced'
    BY <1>1, <1>2 DEF SameHolders, Holding, Beginning, TracksTyped, RevokerPlaced, PubInv, KnowsInv, HolderInv
  <1>5. ListsInv' /\ HolderInv' /\ KnowsInv' /\ PacingInv' /\ SendersInv' /\ AnnouncedInv'
    BY <1>4, QuietStep DEF lists, link, flags
  <1>6. Active' = Active /\ Audible' = Audible
    BY PubsUnchanged DEF lists
  <1>7. RevokeInv'
    BY <1>1, <1>2, <1>6, RevokerUntouched DEF PubInv, link, Beginning
  <1>8. SfuKnowsInv'
    <2>1. \A q \in Procs : Current(q)' /\ q # c => Current(q)
      BY <1>2 DEF Current, link
    <2> QED
      BY <1>2, <1>6, <2>1, SfuUntouched DEF PubInv, link, flags, told
  <1> QED
    BY <1>3, <1>5, <1>7, <1>8 DEF PubInv

LEMMA PublishBeginsStep ==
  ASSUME PubBounds, PubInv, NEW c \in Callers, NEW t \in Tracks, PublishBegins(c, t)
  PROVE  PubInv'
  <1> DEFINE r == [IdleCall EXCEPT !.at = "publish", !.track = t]
  <1>1. r \in Calls /\ r.at = "publish" /\ r.track \in Tracks /\ r.conn = 0
    BY IdleIsCall DEF Calls, Places, IdleCall
  <1>2. call[c].at = "idle" /\ call' = [call EXCEPT ![c] = r]
        /\ UNCHANGED <<media, lists, link, flags, capable, told, astray, due, doubt>>
    BY DEF PublishBegins
  <1> HIDE DEF r
  <1> QED
    BY <1>1, <1>2, CallBegins

LEMMA StopBeginsStep ==
  ASSUME PubBounds, PubInv, NEW c \in Callers, NEW t \in Tracks, StopBegins(c, t)
  PROVE  PubInv'
  <1> DEFINE r == [IdleCall EXCEPT !.at = "stop", !.track = t]
  <1>1. r \in Calls /\ r.at = "stop" /\ r.track \in Tracks /\ r.conn = 0
    BY IdleIsCall DEF Calls, Places, IdleCall
  <1>2. call[c].at = "idle" /\ call' = [call EXCEPT ![c] = r]
        /\ UNCHANGED <<media, lists, link, flags, capable, told, astray, due, doubt>>
    BY DEF StopBegins
  <1> HIDE DEF r
  <1> QED
    BY <1>1, <1>2, CallBegins

LEMMA MuteBeginsStep ==
  ASSUME PubBounds, PubInv, NEW c \in Callers, NEW to \in BOOLEAN, MuteBegins(c, to)
  PROVE  PubInv'
  <1> DEFINE r == [IdleCall EXCEPT !.at = "mute", !.to = to]
  <1>1. r \in Calls /\ r.at = "mute" /\ r.conn = 0
    BY IdleIsCall DEF Calls, Places, IdleCall
  <1>2. call[c].at = "idle" /\ call' = [call EXCEPT ![c] = r]
        /\ UNCHANGED <<media, lists, link, flags, capable, told, astray, due, doubt>>
    BY DEF MuteBegins
  <1> HIDE DEF r
  <1> QED
    BY <1>1, <1>2, CallBegins

\* The future of a call is dropped: the lock is free again, what the call has done stays.
LEMMA CallDropped ==
  ASSUME PubBounds, PubInv, NEW c \in Callers, call[c].at \notin {"idle", "mute", "answer"},
         call' = [call EXCEPT ![c] = IdleCall],
         media' = IF media = c THEN None ELSE media,
         astray' \in BOOLEAN, astray \/ call[c].at \in {"register", "added"} => astray',
         UNCHANGED <<lists, link, flags, capable, told, due, doubt>>
  PROVE  PubInv'
  <1>1. c \in Procs /\ c # Revoker /\ Revoker \in Procs
    BY CallerIsNotRevoker
  <1>2. CallsTyped' /\ (\A q \in Procs : q # c => call'[q] = call[q]) /\ call'[c].at = "idle"
    <2>1. conn \in Nat /\ CallsTyped /\ conn' = conn
      BY TypesGiveViews DEF PubInv, link
    <2> QED
      BY <1>1, <2>1, CallIdles
  <1>3. PubTyped'
    BY <1>2 DEF PubInv, PubTyped, lists, link, flags, told
  <1>4. HolderInv'
    BY <1>1, <1>2 DEF PubInv, HolderInv, PubBounds, Holding, Beginning, link
  <1>5. /\ Negotiating' = Negotiating /\ Muting' = Muting /\ Audible' = Audible /\ Stopping' = Stopping
        /\ InPubs' = InPubs /\ Used' = Used /\ Active' = Active /\ (Distinct(pubs) => Distinct(pubs)')
    BY PubsUnchanged DEF lists
  <1>6. /\ Sending' = Sending /\ Heard' = Heard /\ (OneSenderEach => OneSenderEach')
        /\ KeptOptions' = KeptOptions /\ Retired' = Retired /\ RetiredOptions' = RetiredOptions
    BY SendersUnchanged, RetiredUnchanged DEF lists
  <1>7. ListsInv'
    BY <1>5, <1>6 DEF PubInv, ListsInv, flags
  <1>8. KnowsInv'
    <2> SUFFICES ASSUME NEW q \in Procs, q # c
                 PROVE  KnowsInv!(q)'
      BY <1>2 DEF KnowsInv, Holding, Beginning
    <2>1. call'[q] = call[q]
      BY <1>2
    <2> QED
      BY <2>1, <1>5, <1>6 DEF PubInv, KnowsInv, Current, lists, link, flags
  <1>9. RevokeInv'
    BY <1>1, <1>2, <1>5, RevokerUntouched DEF PubInv, link, Beginning
  <1>10. PacingInv'
    BY <1>2, <1>5 DEF PubInv, PacingInv, link, flags
  <1>11. SendersInv'
    <2> SUFFICES ASSUME ~astray'
                 PROVE  OneSenderEach' /\ Known' /\ RetiredApart' /\ CallsApart'
      BY DEF SendersInv
    <2>1. ~astray /\ call[c].at \notin {"register", "added"}
      OBVIOUS
    <2>2. OneSenderEach /\ Known /\ RetiredApart /\ CallsApart
      BY <2>1 DEF PubInv, SendersInv
    <2>3. Taking' = Taking
      BY <1>2, <2>1 DEF Taking
    <2>4. OneTrackEach(retired)' = OneTrackEach(retired) /\ Latest' = Latest
      BY <1>6 DEF OneTrackEach, Latest, lists
    <2>5. CallsApart'
      BY <1>2, <1>6, <2>2 DEF CallsApart, Beginning
    <2> QED
      BY <1>5, <1>6, <2>2, <2>3, <2>4, <2>5 DEF Known, RetiredApart
  <1>12. AnnouncedInv'
    BY <1>2, <1>5, <1>6 DEF PubInv, AnnouncedInv, link
  <1>13. SfuKnowsInv'
    <2>1. \A q \in Procs : Current(q)' /\ q # c => Current(q)
      BY <1>2 DEF Current, link
    <2> QED
      BY <1>2, <1>5, <2>1, SfuUntouched DEF PubInv, link, flags, told
  <1> QED
    BY <1>3, <1>4, <1>7, <1>8, <1>9, <1>10, <1>11, <1>12, <1>13 DEF PubInv

LEMMA PublishDroppedStep ==
  ASSUME PubBounds, PubInv, NEW c \in Callers, PublishDropped(c)
  PROVE  PubInv'
  <1>1. astray \in BOOLEAN
    BY DEF PubInv, PubTyped
  <1>2. astray' \in BOOLEAN /\ (astray \/ call[c].at \in {"register", "added"} => astray')
    BY <1>1 DEF PublishDropped
  <1> QED
    BY <1>2, CallDropped DEF PublishDropped

LEMMA StopDroppedStep ==
  ASSUME PubBounds, PubInv, NEW c \in Callers, StopDropped(c)
  PROVE  PubInv'
  <1>1. astray \in BOOLEAN
    BY DEF PubInv, PubTyped
  <1>2. astray' \in BOOLEAN /\ (astray \/ call[c].at \in {"register", "added"} => astray')
    BY <1>1 DEF StopDropped
  <1> QED
    BY <1>2, CallDropped DEF StopDropped
-----------------------------------------------------------------------------
(* The steps without the lock, and those that take it. *)

LEMMA MuteSetsStep ==
  ASSUME PubBounds, PubInv, NEW c \in Callers, MuteSets(c)
  PROVE  PubInv'
  <1>1. c \in Procs /\ c # Revoker /\ Revoker \in Procs
    BY CallerIsNotRevoker
  <1>2. conn \in Nat /\ CallsTyped /\ conn' = conn /\ call[c] \in Calls /\ pubs \in Seq(Publications)
    BY <1>1, TypesGiveViews DEF PubInv, MuteSets, link, CallsTyped
  <1>3. Active' = Active /\ Audible' = Audible /\ Audible \subseteq Active /\ Active \in SUBSET Tracks
    BY <1>2, PubsUnchanged, PubsViews DEF MuteSets, lists
  <1>4. CASE Return(c) /\ UNCHANGED muted
    <2>1. CallsTyped' /\ (\A q \in Procs : q # c => call'[q] = call[q]) /\ call'[c].at = "idle"
      BY <1>1, <1>2, <1>4, CallReturns
    <2>2. PubTyped'
      BY <2>1, <1>4 DEF PubInv, PubTyped, MuteSets, lists, link, told
    <2>3. SameHolders /\ TracksTyped' /\ RevokerPlaced'
      BY <1>1, <2>1 DEF SameHolders, Holding, Beginning, TracksTyped, RevokerPlaced, PubInv, KnowsInv,
                        HolderInv, MuteSets
    <2>4. ListsInv' /\ HolderInv' /\ KnowsInv' /\ PacingInv' /\ SendersInv' /\ AnnouncedInv'
      BY <2>3, QuietStep DEF MuteSets, lists, link
    <2>5. RevokeInv'
      BY <1>1, <1>3, <2>1, RevokerUntouched DEF PubInv, MuteSets, link, Beginning
    <2>6. SfuKnowsInv'
      <3>1. \A q \in Procs : Current(q)' /\ q # c => Current(q)
        BY <2>1 DEF Current, MuteSets, link
      <3> QED
        BY <1>3, <1>4, <2>1, <3>1, SfuUntouched DEF PubInv, MuteSets, link, told
    <2> QED
      BY <2>2, <2>4, <2>5, <2>6 DEF PubInv
  <1>5. CASE /\ muted' = IF call[c].to THEN muted \cup Active ELSE muted \ Active
             /\ call' = [call EXCEPT ![c].at = "answer", ![c].conn = conn, ![c].tracks = Active]
    <2> DEFINE r == [call[c] EXCEPT !.at = "answer", !.conn = conn, !.tracks = Active]
    <2>1. r \in Calls /\ r.at = "answer" /\ r.conn = conn /\ r.to = call[c].to
      BY <1>2, <1>3, LinkIsNumber DEF Calls, Places, PubInv
    <2>2. call' = [call EXCEPT ![c] = r]
      BY <1>5
    <2> HIDE DEF r
    <2>3. CallsTyped' /\ (\A q \in Procs : q # c => call'[q] = call[q]) /\ call'[c] = r
      <3>1. r.conn <= conn
        BY <2>1, LinkIsNumber DEF PubInv
      <3> QED
        BY <1>1, <1>2, <2>1, <2>2, <3>1, CallReplaced
    <2>4. PubTyped'
      BY <2>3, <1>3, <1>5 DEF PubInv, PubTyped, MuteSets, lists, link, told
    <2>5. SameHolders /\ TracksTyped' /\ RevokerPlaced'
      BY <1>1, <2>1, <2>3 DEF SameHolders, Holding, Beginning, TracksTyped, RevokerPlaced, PubInv, KnowsInv,
                        HolderInv, MuteSets
    <2>6. ListsInv' /\ HolderInv' /\ KnowsInv' /\ PacingInv' /\ SendersInv' /\ AnnouncedInv'
      BY <2>5, QuietStep DEF MuteSets, lists, link
    <2>7. RevokeInv'
      BY <1>1, <1>3, <2>1, <2>3, RevokerUntouched DEF PubInv, MuteSets, link, Beginning
    <2>8. SfuKnowsInv'
      <3>1. Answering' = Answering \cup {c} /\ c \notin Answering
        BY <1>1, <2>1, <2>3 DEF Answering, MuteSets
      <3>2. \A q : Answering' = {q} => q = c
        BY <3>1
      <3>3. Answering' # {}
        BY <3>1
      <3>4. Current(c)' /\ (call'[c].to => Audible' \subseteq muted')
        BY <1>2, <1>3, <1>5, <2>1, <2>3 DEF Current
      <3>5. \A q \in Procs : call'[q].at = "unmute" /\ Current(q)' => call[q].at = "unmute" /\ Current(q)
        BY <1>2, <2>1, <2>3 DEF Current
      <3> QED
        BY <3>2, <3>3, <3>4, <3>5 DEF PubInv, SfuKnowsInv, MuteSets, told
    <2> QED
      BY <2>4, <2>6, <2>7, <2>8 DEF PubInv
  <1> QED
    BY <1>4, <1>5 DEF MuteSets

LEMMA PermissionStep ==
  ASSUME PubBounds, PubInv, PermissionUpdated
  PROVE  PubInv'
  <1>1. Revoker \in Procs /\ capable \in BOOLEAN /\ call[Revoker].tracks = {}
    BY DEF Procs, PubInv, PubTyped, HolderInv, PermissionUpdated
  <1>2. conn \in Nat /\ CallsTyped /\ conn' = conn
    BY TypesGiveViews DEF PubInv, PermissionUpdated, link
  <1>3. /\ CallsTyped' /\ (\A q \in Procs : q # Revoker => call'[q] = call[q])
        /\ call'[Revoker].tracks = {} /\ call'[Revoker].at = IF capable THEN "list" ELSE "idle"
    <2>1. CASE capable
      <3>1. Go(Revoker, "list") /\ "list" \in Places
        BY <2>1 DEF PermissionUpdated, Places
      <3> QED
        BY <1>1, <1>2, <2>1, <3>1, CallMoved
    <2>2. CASE ~capable
      <3>1. call' = call /\ call[Revoker].at = "idle"
        BY <2>2 DEF PermissionUpdated
      <3> QED
        BY <1>1, <1>2, <2>2, <3>1 DEF CallsTyped
    <2> QED
      BY <2>1, <2>2
  <1>4. PubTyped'
    BY <1>1, <1>3 DEF PubInv, PubTyped, PermissionUpdated, lists, link, flags, told
  <1>5. SameHolders /\ TracksTyped' /\ RevokerPlaced'
    BY <1>1, <1>3 DEF SameHolders, Holding, Beginning, TracksTyped, RevokerPlaced, PubInv, KnowsInv,
                      HolderInv, PermissionUpdated
  <1>6. ListsInv' /\ HolderInv' /\ KnowsInv' /\ PacingInv' /\ SendersInv' /\ AnnouncedInv'
    BY <1>5, QuietStep DEF PermissionUpdated, lists, link, flags
  <1>7. RevokeInv'
    BY <1>1, <1>3 DEF RevokeInv, PermissionUpdated
  <1>8. SfuKnowsInv'
    <2>1. \A q \in Procs : Current(q)' /\ q # Revoker => Current(q)
      BY <1>3 DEF Current, PermissionUpdated, link
    <2>2. Audible' = Audible
      BY PubsUnchanged DEF PermissionUpdated, lists
    <2> QED
      BY <1>3, <2>1, <2>2, SfuUntouched DEF PubInv, PermissionUpdated, link, flags, told
  <1> QED
    BY <1>4, <1>6, <1>7, <1>8 DEF PubInv

LEMMA RevokerListsStep ==
  ASSUME PubBounds, PubInv, RevokerLists
  PROVE  PubInv'
  <1>1. Revoker \in Procs /\ call[Revoker].at = "list" /\ call[Revoker] \in Calls
    BY DEF Procs, PubInv, PubTyped, CallsTyped, RevokerLists
  <1>2. /\ conn \in Nat /\ CallsTyped /\ conn' = conn /\ pubs \in Seq(Publications)
        /\ call[Revoker].conn <= conn
    BY <1>1, TypesGiveViews DEF PubInv, CallsTyped, RevokerLists, link
  <1>3. Active' = Active /\ Audible' = Audible /\ Active \in SUBSET Tracks
    BY <1>2, PubsUnchanged, PubsViews DEF RevokerLists, lists
  <1>4. /\ CallsTyped' /\ (\A q \in Procs : q # Revoker => call'[q] = call[q])
        /\ call'[Revoker].at \in {"idle", "list", "stop"}
        /\ call'[Revoker].at = "stop" => call'[Revoker].track \in Tracks
        /\ call'[Revoker].at = "idle" => call'[Revoker].tracks = {}
        /\ RevokeInv'
    <2>1. CASE call[Revoker].tracks = {} /\ Active = {}
      <3>1. call' = [call EXCEPT ![Revoker] = IdleCall] /\ media = None
        BY <2>1 DEF RevokerLists
      <3>2. /\ CallsTyped' /\ (\A q \in Procs : q # Revoker => call'[q] = call[q])
            /\ call'[Revoker].at = "idle" /\ call'[Revoker].tracks = {}
        BY <1>1, <1>2, <3>1, CallIdles
      <3>3. \A q \in Procs : call'[q].at \notin Beginning
        BY <3>1, <3>2, NobodyHolds DEF PubInv, Beginning, Holding
      <3>4. RevokeInv'
        BY <1>3, <2>1, <3>3 DEF RevokeInv
      <3> QED
        BY <3>2, <3>4
    <2>2. CASE call[Revoker].tracks = {} /\ Active # {}
      <3> DEFINE r == [call[Revoker] EXCEPT !.tracks = Active]
      <3>1. r \in Calls /\ r.at = "list" /\ r.tracks = Active /\ r.conn <= conn
        BY <1>1, <1>2, <1>3 DEF Calls
      <3>2. call' = [call EXCEPT ![Revoker] = r] /\ media = None
        BY <2>2 DEF RevokerLists
      <3> HIDE DEF r
      <3>3. CallsTyped' /\ (\A q \in Procs : q # Revoker => call'[q] = call[q]) /\ call'[Revoker] = r
        BY <1>1, <1>2, <3>1, <3>2, CallReplaced
      <3>4. \A q \in Procs : call'[q].at \notin Beginning
        BY <3>1, <3>2, <3>3, NobodyHolds DEF PubInv, Beginning, Holding
      <3>5. RevokeInv'
        BY <1>3, <3>1, <3>3, <3>4 DEF RevokeInv, ToStop
      <3> QED
        BY <3>1, <3>3, <3>5
    <2>3. CASE call[Revoker].tracks # {}
      <3>1. PICK t \in call[Revoker].tracks :
                call' = [call EXCEPT ![Revoker].at = "stop", ![Revoker].track = t,
                                     ![Revoker].tracks = @ \ {t}]
        BY <2>3 DEF RevokerLists
      <3> DEFINE r == [call[Revoker] EXCEPT !.at = "stop", !.track = t,
                                            !.tracks = call[Revoker].tracks \ {t}]
      <3>2. t \in Tracks
        BY <1>1 DEF Calls
      <3>3. /\ r \in Calls /\ r.at = "stop" /\ r.track = t /\ r.conn <= conn
            /\ r.tracks = call[Revoker].tracks \ {t}
        BY <1>1, <1>2, <3>2 DEF Calls, Places
      <3>4. call' = [call EXCEPT ![Revoker] = r]
        BY <3>1
      <3> HIDE DEF r
      <3>5. CallsTyped' /\ (\A q \in Procs : q # Revoker => call'[q] = call[q]) /\ call'[Revoker] = r
        BY <1>1, <1>2, <3>3, <3>4, CallReplaced
      <3>6. ToStop' = ToStop
        BY <1>1, <3>3, <3>5 DEF ToStop
      <3>7. RevokeInv'
        BY <1>1, <1>3, <2>3, <3>3, <3>5, <3>6 DEF PubInv, RevokeInv, RevokerLists, link, Beginning
      <3> QED
        BY <3>2, <3>3, <3>5, <3>7
    <2> QED
      BY <2>1, <2>2, <2>3
  <1>5. PubTyped'
    BY <1>4 DEF PubInv, PubTyped, RevokerLists, lists, link, flags, told
  <1>6. SameHolders /\ TracksTyped' /\ RevokerPlaced'
    BY <1>1, <1>4 DEF SameHolders, Holding, Beginning, TracksTyped, RevokerPlaced, PubInv, KnowsInv,
                      HolderInv
  <1>7. ListsInv' /\ HolderInv' /\ KnowsInv' /\ PacingInv' /\ SendersInv' /\ AnnouncedInv'
    BY <1>6, QuietStep DEF RevokerLists, lists, link, flags
  <1>8. SfuKnowsInv'
    <2>1. \A q \in Procs : Current(q)' /\ q # Revoker => Current(q)
      BY <1>4 DEF Current, RevokerLists, link
    <2> QED
      BY <1>1, <1>3, <1>4, <2>1, SfuUntouched DEF PubInv, RevokerLists, link, flags, told
  <1> QED
    BY <1>4, <1>5, <1>7, <1>8 DEF PubInv
LEMMA PlanFits ==
  ASSUME PubBounds, PubTyped, ListsInv, NEW t \in Tracks, PublishPlan(t).at # "idle"
  PROVE  LET plan == PublishPlan(t) IN
         /\ capable /\ plan.at \in {"negotiate", "announce", "replace", "add"} /\ plan.option \in 1..NumOptions
         /\ plan.at = "negotiate" => t \in Negotiating
         /\ plan.at = "announce" => t \in Muting
         /\ plan.at \in {"replace", "add"} => t \notin InPubs /\ plan.option \in (1..NumOptions) \ Used
         /\ plan.at = "replace" => plan.option \in RetiredOptions
         /\ plan.at = "add" => plan.option \notin RetiredOptions
  <1>1. /\ pubs \in Seq(Publications) /\ Distinct(pubs) /\ retired \in Seq(Retirements)
        /\ Unused = (1..NumOptions) \ Used
        /\ Position(t) # {} <=> t \in InPubs
        /\ \A o : RetiredFor(o) # {} <=> o \in RetiredOptions
    BY PubsViews, RetiredViews DEF PubTyped, ListsInv
  <1>2. capable
    BY DEF PublishPlan, MayPublish
  <1>3. CASE Position(t) # {}
    <2>1. PICK i \in DOMAIN pubs : Position(t) = {i} /\ StatusOf(t) = pubs[i].status
                                   /\ OptionOf(t) = pubs[i].option
      BY <1>1, <1>3, OneStatus
    <2>2. pubs[i].track = t /\ pubs[i] \in Publications
      BY <1>1, <2>1 DEF Position
    <2>3. OptionOf(t) \in 1..NumOptions
      BY <2>1, <2>2 DEF Publications
    <2>4. /\ StatusOf(t) = "PendingPublishNegotiation" => t \in Negotiating
          /\ StatusOf(t) = "PendingPublishMute" => t \in Muting
      BY <2>1, <2>2 DEF Negotiating, Muting, TracksWith
    <2>5. PublishPlan(t) = [at |-> CASE StatusOf(t) = "PendingPublishNegotiation" -> "negotiate"
                                     [] StatusOf(t) = "PendingPublishMute" -> "announce"
                                     [] OTHER -> "idle", option |-> OptionOf(t)]
      BY <1>2, <1>3 DEF PublishPlan, MayPublish
    <2>6. CASE StatusOf(t) = "PendingPublishNegotiation"
      <3>1. PublishPlan(t).at = "negotiate" /\ PublishPlan(t).option = OptionOf(t)
        BY <2>5, <2>6
      <3> QED
        BY <1>2, <2>3, <2>4, <2>6, <3>1
    <2>7. CASE StatusOf(t) = "PendingPublishMute"
      <3>1. PublishPlan(t).at = "announce" /\ PublishPlan(t).option = OptionOf(t)
        BY <2>5, <2>7
      <3> QED
        BY <1>2, <2>3, <2>4, <2>7, <3>1
    <2>8. CASE StatusOf(t) \notin {"PendingPublishNegotiation", "PendingPublishMute"}
      BY <2>5, <2>8
    <2> QED
      BY <2>6, <2>7, <2>8
  <1>4. CASE Position(t) = {}
    <2> DEFINE option == Min(Unused)
    <2>1. Unused # {}
      BY <1>2, <1>4 DEF PublishPlan, MayPublish
    <2>2. option \in Unused
      <3>1. Unused \in SUBSET Nat
        BY <1>1 DEF PubBounds
      <3> QED
        BY <2>1, <3>1, MinIsSmallest
    <2>3. PublishPlan(t) = [at |-> IF Layered(t, option) THEN "idle"
                                   ELSE IF RetiredFor(option) # {} THEN "replace" ELSE "add",
                            option |-> option]
      BY <1>2, <1>4, <2>1 DEF PublishPlan, MayPublish
    <2> HIDE DEF option
    <2>4. PublishPlan(t).option = option /\ PublishPlan(t).at = IF RetiredFor(option) # {} THEN "replace" ELSE "add"
      BY <2>3
    <2> QED
      BY <1>1, <1>2, <1>4, <2>2, <2>4
  <1> QED
    BY <1>3, <1>4

LEMMA PublishLocksStep ==
  ASSUME PubBounds, PubInv, NEW c \in Callers, PublishLocks(c)
  PROVE  PubInv'
  <1> DEFINE t == call[c].track
             plan == PublishPlan(t)
  <1>1. c \in Procs /\ c # Revoker /\ Revoker \in Procs
    BY CallerIsNotRevoker
  <1>2. /\ conn \in Nat /\ CallsTyped /\ conn' = conn /\ call[c] \in Calls
        /\ media = None /\ t \in Tracks
        /\ UNCHANGED <<lists, link, flags, capable, told, due, doubt>>
    BY <1>1, TypesGiveViews DEF PubInv, PublishLocks, link, CallsTyped, KnowsInv
  <1>3. Active' = Active /\ Audible' = Audible
    BY <1>2, PubsUnchanged DEF lists
  <1>4. CASE plan.at = "idle"
    <2>0. Return(c) /\ UNCHANGED <<media, astray>>
      BY <1>4 DEF PublishLocks
    <2>1. CallsTyped' /\ (\A q \in Procs : q # c => call'[q] = call[q]) /\ call'[c].at = "idle"
      BY <1>1, <1>2, <2>0, CallReturns
    <2>2. PubTyped'
      BY <1>2, <2>0, <2>1 DEF PubInv, PubTyped, lists, link, flags, told
    <2>3. SameHolders /\ TracksTyped' /\ RevokerPlaced'
      BY <1>1, <2>1 DEF SameHolders, Holding, Beginning, TracksTyped, RevokerPlaced, PubInv, KnowsInv,
                        HolderInv, PublishLocks
    <2>4. ListsInv' /\ HolderInv' /\ KnowsInv' /\ PacingInv' /\ SendersInv' /\ AnnouncedInv'
      BY <1>2, <2>0, <2>3, QuietStep DEF lists, link, flags
    <2>5. RevokeInv'
      BY <1>1, <1>2, <1>3, <2>1, RevokerUntouched DEF PubInv, link, Beginning
    <2>6. SfuKnowsInv'
      <3>1. \A q \in Procs : Current(q)' /\ q # c => Current(q)
        BY <1>2, <2>1 DEF Current
      <3>2. call[c].at = "publish"
        BY DEF PublishLocks
      <3> QED
        BY <1>2, <1>3, <2>1, <3>1, <3>2, SfuUntouched DEF PubInv, link, told, flags
    <2> QED
      BY <2>2, <2>4, <2>5, <2>6 DEF PubInv
  <1>5. CASE plan.at # "idle"
    <2> DEFINE r == [call[c] EXCEPT !.at = plan.at, !.option = plan.option, !.conn = conn]
    <2>0. media' = c /\ call' = [call EXCEPT ![c] = r] /\ astray' = (astray \/ IsRetired(t))
      BY <1>5 DEF PublishLocks
    <2>1. /\ capable /\ plan.at \in {"negotiate", "announce", "replace", "add"} /\ plan.option \in 1..NumOptions
          /\ plan.at = "negotiate" => t \in Negotiating
          /\ plan.at = "announce" => t \in Muting
          /\ plan.at \in {"replace", "add"} => t \notin InPubs /\ plan.option \in (1..NumOptions) \ Used
          /\ plan.at = "replace" => plan.option \in RetiredOptions
          /\ plan.at = "add" => plan.option \notin RetiredOptions
      BY <1>2, <1>5, PlanFits DEF PubInv
    <2>a. plan.at \in Places /\ plan.option \in 0..NumOptions /\ conn \in 0..(Swaps + 1) /\ conn <= conn
      BY <2>1, LinkIsNumber DEF PubBounds, PubInv, Places
    <2> HIDE DEF plan
    <2>2. r \in Calls /\ r.at = plan.at /\ r.option = plan.option /\ r.conn = conn /\ r.track = t
      BY <1>2, <2>a DEF Calls
    <2> HIDE DEF r, t
    <2>3. CallsTyped' /\ (\A q \in Procs : q # c => call'[q] = call[q]) /\ call'[c] = r
      BY <1>1, <1>2, <2>0, <2>2, <2>a, CallReplaced
    <2>4. \A q \in Procs : call[q].at \notin Holding
      BY <1>2, NobodyHolds DEF PubInv
    <2>b. r.at \in Holding /\ r.at \notin {"idle", "list", "answer", "unmute", "stop", "register", "added"}
      BY <2>1, <2>2 DEF Holding, Beginning
    <2>5. retired \in Seq(Retirements) /\ (IsRetired(t) <=> t \in Retired) /\ KeptOptions \subseteq RetiredOptions
          /\ astray \in BOOLEAN
      BY RetiredViews DEF PubInv, PubTyped
    <2>6. PubTyped'
      BY <1>1, <1>2, <2>0, <2>3, <2>5 DEF PubInv, PubTyped, lists, link, flags, told
    <2>7. HolderInv'
      BY <1>1, <1>2, <2>0, <2>3, <2>4, <2>b DEF PubInv, HolderInv, PubBounds, link
    <2>8. /\ Negotiating' = Negotiating /\ Muting' = Muting /\ Audible' = Audible /\ Stopping' = Stopping
          /\ InPubs' = InPubs /\ Used' = Used /\ Active' = Active /\ (Distinct(pubs) => Distinct(pubs)')
          /\ Sending' = Sending /\ Heard' = Heard /\ (OneSenderEach => OneSenderEach')
          /\ KeptOptions' = KeptOptions /\ Retired' = Retired /\ RetiredOptions' = RetiredOptions
      BY <1>2, PubsUnchanged, SendersUnchanged, RetiredUnchanged DEF lists
    <2>9. ListsInv'
      BY <1>2, <2>8 DEF PubInv, ListsInv, flags
    <2>10. KnowsInv'
      <3>1. ASSUME NEW q \in Procs, q # c
            PROVE  KnowsInv!(q)'
        BY <2>3, <2>4, <3>1 DEF PubInv, KnowsInv, Holding, Beginning
      <3>2. KnowsInv!(c)'
        BY <1>2, <2>1, <2>2, <2>3, <2>8 DEF Current, Beginning, t
      <3> QED
        BY <3>1, <3>2 DEF KnowsInv
    <2>11. RevokeInv'
      BY <1>2, <2>1 DEF RevokeInv
    <2>12. PacingInv'
      BY <1>2, <2>0, <2>3, <2>5, <2>8, <2>b DEF PubInv, PacingInv, link, flags
    <2>13. SendersInv'
      <3> SUFFICES ASSUME ~astray'
                   PROVE  OneSenderEach' /\ Known' /\ RetiredApart' /\ CallsApart'
        BY DEF SendersInv
      <3>1. ~astray /\ t \notin Retired
        BY <2>0, <2>5
      <3>2. OneSenderEach /\ Known /\ RetiredApart /\ CallsApart
        BY <3>1 DEF PubInv, SendersInv
      <3>3. Taking' = Taking
        BY <2>3, <2>4, <2>b DEF Taking, Holding, Beginning
      <3>4. OneTrackEach(retired)' = OneTrackEach(retired) /\ Latest' = Latest
        BY <1>2, <2>8 DEF OneTrackEach, Latest, lists
      <3>5. CallsApart'
        BY <2>1, <2>2, <2>3, <2>4, <2>5, <2>8, <3>1 DEF CallsApart, Holding, Beginning
      <3> QED
        BY <2>8, <3>2, <3>3, <3>4, <3>5 DEF Known, RetiredApart
    <2>14. AnnouncedInv'
      BY <1>2, <2>0, <2>3, <2>5, <2>8, <2>b DEF PubInv, AnnouncedInv, link
    <2>15. SfuKnowsInv'
      <3>1. \A q \in Procs : Current(q)' /\ q # c => Current(q)
        BY <1>2, <2>3 DEF Current
      <3>2. call[c].at = "publish"
        BY DEF PublishLocks
      <3> QED
        BY <1>2, <1>3, <2>3, <2>b, <3>1, <3>2, SfuUntouched DEF PubInv, link, told, flags
    <2> QED
      BY <2>6, <2>7, <2>9, <2>10, <2>11, <2>12, <2>13, <2>14, <2>15 DEF PubInv
  <1> QED
    BY <1>4, <1>5
-----------------------------------------------------------------------------
(* What the SFU is told. *)

\* A request that crosses no other.
LEMMA NotCrossed ==
  ASSUME NEW c \in Procs, Crosses(c), doubt \in BOOLEAN, ~doubt',
         call[c].at \in {"unmute", "stopMute", "answer"}
  PROVE  /\ ~doubt /\ restoring \notin {"sync", "stops"}
         /\ \A q \in Procs : q # c => call[q].at # "answer"
         /\ call[c].at = "answer" => \A q \in Procs : q # c => call[q].at \notin {"unmute", "stopMute"}
  <1>1. doubt' = (doubt \/ restoring \in {"sync", "stops"}
                    \/ \E q \in Telling \ {c} : "answer" \in {call[c].at, call[q].at})
    BY DEF Crosses
  <1>2. ~doubt /\ restoring \notin {"sync", "stops"}
        /\ \A q \in Telling \ {c} : call[q].at # "answer" /\ call[c].at # "answer"
    BY <1>1
  <1> QED
    BY <1>2 DEF Telling

LEMMA MuteAnswersStep ==
  ASSUME PubBounds, PubInv, NEW c \in Callers, MuteAnswers(c)
  PROVE  PubInv'
  <1>1. c \in Procs /\ c # Revoker /\ Revoker \in Procs
    BY CallerIsNotRevoker
  <1>2. /\ conn \in Nat /\ CallsTyped /\ conn' = conn /\ call[c] \in Calls /\ call[c].at = "answer"
        /\ call' = [call EXCEPT ![c] = IdleCall] /\ doubt \in BOOLEAN
        /\ UNCHANGED <<media, lists, link, stopped, held, capable, astray, due>>
    BY <1>1, TypesGiveViews DEF PubInv, PubTyped, MuteAnswers, link, CallsTyped
  <1>3. CallsTyped' /\ (\A q \in Procs : q # c => call'[q] = call[q]) /\ call'[c].at = "idle"
    BY <1>1, <1>2, CallIdles
  <1>4. call[c].to \in BOOLEAN /\ call[c].tracks \in SUBSET Tracks
    BY <1>2, CallFields
  <1>5. PubTyped'
    <2>1. muted' \in SUBSET Tracks /\ sfuMuted' \in BOOLEAN /\ listed' \in BOOLEAN /\ doubt' \in BOOLEAN
      BY <1>4 DEF PubInv, PubTyped, MuteAnswers, Crosses
    <2> QED
      BY <1>2, <1>3, <2>1 DEF PubInv, PubTyped, lists, link
  <1>6. SameHolders /\ TracksTyped' /\ RevokerPlaced'
    BY <1>1, <1>2, <1>3 DEF SameHolders, Holding, Beginning, TracksTyped, RevokerPlaced, PubInv, KnowsInv,
                      HolderInv
  <1>7. ListsInv' /\ HolderInv' /\ KnowsInv' /\ PacingInv' /\ SendersInv' /\ AnnouncedInv'
    BY <1>2, <1>6, QuietStep DEF lists, link
  <1>8. Active' = Active /\ Audible' = Audible
    BY <1>2, PubsUnchanged DEF lists
  <1>9. RevokeInv'
    BY <1>1, <1>2, <1>3, <1>8, RevokerUntouched DEF PubInv, link, Beginning
  <1>10. SfuKnowsInv'
    <2> SUFFICES ASSUME ~doubt'
                 PROVE  SfuKnowsInv'
      BY DEF SfuKnowsInv
    <2>1. /\ Crosses(c) /\ UNCHANGED muted
          /\ sfuMuted' = IF Current(c) THEN call[c].to ELSE sfuMuted
          /\ listed' = IF Current(c) THEN ~call[c].to ELSE listed
      BY DEF MuteAnswers
    <2>2. /\ ~doubt /\ restoring \notin {"sync", "stops"}
          /\ \A q \in Procs : q # c => call[q].at # "answer"
          /\ \A q \in Procs : q # c => call[q].at \notin {"unmute", "stopMute"}
      BY <1>1, <1>2, <2>1, NotCrossed
    <2>3. Answering = {c} /\ \A q \in Procs : call'[q].at \notin {"answer", "unmute"}
      BY <1>1, <1>2, <1>3, <2>2 DEF Answering
    <2>4. Answering' = {}
      BY <2>3 DEF Answering
    <2>5. restoring \in {"none", "stops"} =>
              IF Current(c) THEN call[c].to => Audible \subseteq muted ELSE Audible = {}
      BY <1>1, <2>2, <2>3 DEF PubInv, SfuKnowsInv
    <2>6. restoring' = restoring
      BY <1>2 DEF link
    <2> QED
      BY <1>4, <1>8, <2>1, <2>3, <2>4, <2>5, <2>6 DEF SfuKnowsInv
  <1> QED
    BY <1>5, <1>7, <1>9, <1>10 DEF PubInv

-----------------------------------------------------------------------------
(* The holder of the lock. *)

LEMMA HolderFacts ==
  ASSUME PubBounds, PubInv, NEW c \in Procs, call[c].at \in Holding
  PROVE  /\ media = c /\ restoring \notin {"sync", "stops"}
         /\ \A q \in Procs : q # c => call[q].at \notin Holding
         /\ conn \in Nat /\ CallsTyped /\ call[c] \in Calls /\ call[c].track \in Tracks
         /\ pubs \in Seq(Publications) /\ senders \in Seq(Senders) /\ retired \in Seq(Retirements)
         /\ Distinct(pubs) /\ astray \in BOOLEAN
  <1>1. media = c /\ restoring \notin {"sync", "stops"} /\ \A q \in Procs : q # c => call[q].at \notin Holding
    BY HolderIsAlone DEF PubInv
  <1>2. call[c].track \in Tracks
    BY DEF PubInv, KnowsInv, Holding, Beginning
  <1> QED
    BY <1>1, <1>2, TypesGiveViews DEF PubInv, PubTyped, CallsTyped, ListsInv

\* A holder keeps the lock or frees it; nobody else is concerned.
LEMMA HolderMoves ==
  ASSUME PubBounds, PubInv, NEW c \in Procs, call[c].at \in Holding,
         UNCHANGED <<restoring, due>>,
         \A q \in Procs : q # c => call'[q] = call[q],
         \/ call'[c].at \in Holding /\ media' = media
         \/ call'[c].at \notin Holding /\ media' = None,
         c = Revoker => /\ call'[c].at \in {"idle", "list"}
                        /\ call'[c].at = "idle" => call'[c].tracks = {},
         call'[c].at \notin {"idle", "list", "mute", "answer"} => KnowsInv!(c)'
  PROVE  HolderInv' /\ KnowsInv'
  <1>1. media = c /\ restoring \notin {"sync", "stops"} /\ \A q \in Procs : q # c => call[q].at \notin Holding
    BY HolderFacts
  <1>2. HolderInv'
    <2>1. \A p \in Procs : call'[p].at \in Holding <=> media' = p
      BY <1>1 DEF PubBounds
    <2>2. media' = Restore <=> restoring' \in {"sync", "stops"}
      BY <1>1 DEF PubBounds
    <2>3. restoring' = "swapped" => due'
      BY DEF PubInv, HolderInv
    <2>4. /\ call'[Revoker].at \in {"idle", "list", "stop", "stopMute"}
          /\ call'[Revoker].at = "idle" => call'[Revoker].tracks = {}
      BY DEF PubInv, HolderInv, Procs
    <2> QED
      BY <2>1, <2>2, <2>3, <2>4 DEF HolderInv
  <1>3. ASSUME NEW q \in Procs, q # c
        PROVE  KnowsInv!(q)'
    BY <1>1, <1>3 DEF PubInv, KnowsInv, Holding, Beginning
  <1>4. KnowsInv!(c)'
    BY DEF Holding, Beginning
  <1> QED
    BY <1>2, <1>3, <1>4 DEF KnowsInv
-----------------------------------------------------------------------------
(* publish, with the lock held. *)

\* What the steps of a caller with the lock leave to be shown.
LEMMA PublishReturns ==
  ASSUME PubBounds, PubInv, NEW c \in Callers, call[c].at \in Holding, Return(c), Unlock,
         UNCHANGED <<conn, restoring, due>>
  PROVE  /\ CallsTyped' /\ (\A q \in Procs : q # c => call'[q] = call[q]) /\ call'[c].at = "idle"
         /\ HolderInv' /\ KnowsInv'
  <1>1. c \in Procs /\ c # Revoker
    BY CallerIsNotRevoker
  <1>2. CallsTyped /\ conn \in Nat /\ conn' = conn
    BY <1>1, HolderFacts
  <1>3. /\ CallsTyped' /\ (\A q \in Procs : q # c => call'[q] = call[q]) /\ call'[c].at = "idle"
    BY <1>1, <1>2, CallReturns
  <1>4. call'[c].at \notin Holding /\ media' = None
    BY <1>3 DEF Holding, Beginning, Unlock
  <1>5. HolderInv' /\ KnowsInv'
    BY <1>1, <1>3, <1>4, HolderMoves
  <1> QED
    BY <1>3, <1>5

\* The next place of a holder.
LEMMA PublishMoves ==
  ASSUME PubBounds, PubInv, NEW c \in Callers, call[c].at \in Holding,
         NEW place \in Holding, Go(c, place), UNCHANGED <<conn, restoring, due, media>>
  PROVE  /\ CallsTyped' /\ (\A q \in Procs : q # c => call'[q] = call[q])
         /\ call'[c].at = place /\ call'[c].track = call[c].track /\ call'[c].option = call[c].option
         /\ call'[c].conn = call[c].conn /\ (Current(c)' <=> Current(c)) /\ call'[c].track \in Tracks
         /\ KnowsInv!(c)' => HolderInv' /\ KnowsInv'
  <1>1. c \in Procs /\ c # Revoker
    BY CallerIsNotRevoker
  <1>2. CallsTyped /\ conn \in Nat /\ conn' = conn /\ call[c].track \in Tracks
    BY <1>1, HolderFacts
  <1>3. place \in Places
    BY DEF Holding, Beginning, Places
  <1>4. /\ CallsTyped' /\ (\A q \in Procs : q # c => call'[q] = call[q])
        /\ call'[c].at = place /\ call'[c].track = call[c].track /\ call'[c].option = call[c].option
        /\ call'[c].conn = call[c].conn
    BY <1>1, <1>2, <1>3, CallMoved
  <1>5. Current(c)' <=> Current(c)
    BY <1>4 DEF Current
  <1>6. KnowsInv!(c)' => HolderInv' /\ KnowsInv'
    <2>1. UNCHANGED <<restoring, due>> /\ media' = media
      OBVIOUS
    <2> QED
      BY <1>1, <1>4, <2>1, HolderMoves
  <1> QED
    BY <1>2, <1>4, <1>5, <1>6

\* A caller with the lock: the revocation. A publication can only be new.
LEMMA HolderRevokes ==
  ASSUME PubBounds, PubInv, NEW c \in Callers, call[c].at \in Holding,
         UNCHANGED <<capable, restoring>>, \A q \in Procs : q # c => call'[q] = call[q],
         call'[c].at \in Beginning => call[c].at \in Beginning,
         Active' \subseteq Active \/ call[c].at \in Beginning
  PROVE  RevokeInv'
  <1>1. c \in Procs /\ c # Revoker /\ Revoker \in Procs
    BY CallerIsNotRevoker
  <1>2. call'[Revoker] = call[Revoker]
    BY <1>1
  <1>3. ToStop' = ToStop
    BY <1>2 DEF ToStop
  <1>4. CASE Active' \subseteq Active
    BY <1>1, <1>2, <1>4, RevokerUntouched DEF PubInv
  <1>5. CASE call[c].at \in Beginning
    BY <1>1, <1>2, <1>3, <1>5 DEF PubInv, RevokeInv
  <1> QED
    BY <1>4, <1>5

LEMMA PublishRegistersStep ==
  ASSUME PubBounds, PubInv, NEW c \in Callers, PublishRegisters(c)
  PROVE  PubInv'
  <1> DEFINE t == call[c].track
             o == call[c].option
  <1>1. c \in Procs /\ c # Revoker
    BY CallerIsNotRevoker
  <1>2. /\ call[c].at = "register" /\ call[c].at \in Holding /\ call[c].at \in Beginning
        /\ pubs' = Begun(t, o, "PendingPublishMute") /\ held' = held \cup {t} /\ Go(c, "announce")
        /\ UNCHANGED <<media, retired, senders, link, stopped, muted, capable, told, astray, due, doubt>>
    BY DEF PublishRegisters, Holding, Beginning
  <1>3. /\ media = c /\ \A q \in Procs : q # c => call[q].at \notin Holding
        /\ pubs \in Seq(Publications) /\ senders \in Seq(Senders) /\ retired \in Seq(Retirements)
        /\ Distinct(pubs) /\ astray \in BOOLEAN /\ restoring \notin {"sync", "stops"}
    BY <1>1, <1>2, HolderFacts
  <1>4. t \in Tracks \ InPubs /\ o \in (1..NumOptions) \ Used
    BY <1>1, <1>2, HolderFacts DEF PubInv, KnowsInv
  <1> HIDE DEF t, o
  <1>5. /\ pubs' \in Seq(Publications) /\ Distinct(pubs)'
        /\ InPubs' = InPubs \cup {t} /\ Used' = Used \cup {o}
        /\ Active' = Active \cup {t} /\ Audible' = Audible /\ Stopping' = Stopping
        /\ Negotiating' = Negotiating /\ Muting' = Muting \cup {t}
    BY <1>2, <1>3, <1>4, PubsBegun
  <1>6. /\ Sending' = Sending /\ Heard' = Heard /\ (OneSenderEach => OneSenderEach')
        /\ KeptOptions' = KeptOptions /\ Retired' = Retired /\ RetiredOptions' = RetiredOptions
    BY <1>2, SendersUnchanged, RetiredUnchanged
  <1>7. /\ CallsTyped' /\ (\A q \in Procs : q # c => call'[q] = call[q]) /\ call'[c].at = "announce"
        /\ call'[c].track = t /\ (Current(c)' <=> Current(c)) /\ (KnowsInv!(c)' => HolderInv' /\ KnowsInv')
    BY <1>2, PublishMoves DEF link, Holding, t
  <1>8. PubTyped'
    <2>1. held' \in SUBSET Tracks
      BY <1>2, <1>4 DEF PubInv, PubTyped
    <2> QED
      BY <1>2, <1>5, <1>7, <2>1 DEF PubInv, PubTyped, link, told
  <1>9. HolderInv' /\ KnowsInv'
    <2>1. KnowsInv!(c)'
      BY <1>1, <1>2, <1>4, <1>5, <1>7 DEF PubInv, KnowsInv, Beginning, link
    <2> QED
      BY <1>7, <2>1
  <1>10. ListsInv'
    BY <1>2, <1>5, <1>6 DEF PubInv, ListsInv
  <1>11. RevokeInv'
    BY <1>2, <1>7, HolderRevokes DEF link, Beginning
  <1>12. PacingInv'
    <2>1. t \notin Audible
      BY <1>3, <1>4, PubsViews
    <2> QED
      BY <1>2, <1>3, <1>5, <1>7, <2>1 DEF PubInv, PacingInv, link, Holding
  <1>13. SendersInv'
    <2> SUFFICES ASSUME ~astray
                 PROVE  OneSenderEach' /\ Known' /\ RetiredApart' /\ CallsApart'
      BY <1>2 DEF SendersInv
    <2>1. OneSenderEach /\ Known /\ RetiredApart /\ CallsApart
      BY DEF PubInv, SendersInv
    <2>2. t \notin Retired /\ o \notin KeptOptions
      BY <1>1, <1>2, <2>1 DEF CallsApart, t, o
    <2>3. OneTrackEach(retired)' = OneTrackEach(retired) /\ Latest' = Latest
      BY <1>2, <1>6 DEF OneTrackEach, Latest
    <2>4. Taking = {t} /\ Taking' = {}
      BY <1>1, <1>2, <1>3, <1>7, TakingOfHolder, TakingOfHolderNext DEF t
    <2>5. CallsApart'
      BY <1>3, <1>7 DEF CallsApart, Holding, Beginning
    <2> QED
      BY <1>5, <1>6, <2>1, <2>2, <2>3, <2>4, <2>5 DEF Known, RetiredApart
  <1>14. AnnouncedInv'
    <2> SUFFICES ASSUME ~astray, ~due
                 PROVE  AnnouncedInv'
      BY <1>2 DEF AnnouncedInv
    <2>1. t \in Heard /\ t \in Sending
      BY <1>1, <1>2, <1>3, SendersViews DEF PubInv, AnnouncedInv, t
    <2>2. Active \subseteq Sending /\ Muting \cup Audible \subseteq Heard /\ restoring' # "sync"
      BY <1>2, <1>3 DEF PubInv, AnnouncedInv, link
    <2>3. \A q \in Procs : call'[q].at \notin {"register", "added"}
      BY <1>3, <1>7 DEF Holding, Beginning
    <2> QED
      BY <1>5, <1>6, <2>1, <2>2, <2>3 DEF AnnouncedInv
  <1>15. SfuKnowsInv'
    BY <1>2, <1>5, <1>7, SfuUntouched DEF PubInv, link, told, Current
  <1> QED
    BY <1>8, <1>9, <1>10, <1>11, <1>12, <1>13, <1>14, <1>15 DEF PubInv
LEMMA PublishAddsStep ==
  ASSUME PubBounds, PubInv, NEW c \in Callers, PublishAdds(c)
  PROVE  PubInv'
  <1> DEFINE t == call[c].track
             o == call[c].option
  <1>1. c \in Procs /\ c # Revoker
    BY CallerIsNotRevoker
  <1>2. /\ call[c].at = "add" /\ call[c].at \in Holding /\ call[c].at \in Beginning
        /\ senders' = (IF Current(c) THEN WithSender(t) ELSE senders) /\ Go(c, "added")
        /\ UNCHANGED <<media, pubs, retired, link, flags, capable, told, astray, due, doubt>>
    BY DEF PublishAdds, Holding, Beginning
  <1>3. /\ media = c /\ \A q \in Procs : q # c => call[q].at \notin Holding
        /\ pubs \in Seq(Publications) /\ senders \in Seq(Senders) /\ retired \in Seq(Retirements)
        /\ Distinct(pubs) /\ astray \in BOOLEAN /\ restoring \notin {"sync", "stops"}
    BY <1>1, <1>2, HolderFacts
  <1>4. /\ t \in Tracks \ InPubs /\ o \in (1..NumOptions) \ Used
        /\ ~Current(c) => senders = <<>> /\ restoring = "swapped" /\ ~connected
    BY <1>1, <1>2, HolderFacts DEF PubInv, KnowsInv
  <1> HIDE DEF t, o
  <1>5. /\ Negotiating' = Negotiating /\ Muting' = Muting /\ Audible' = Audible /\ Stopping' = Stopping
        /\ InPubs' = InPubs /\ Used' = Used /\ Active' = Active /\ (Distinct(pubs) => Distinct(pubs)')
        /\ Retired' = Retired /\ RetiredOptions' = RetiredOptions
    BY <1>2, PubsUnchanged, RetiredUnchanged
  <1>6. /\ CallsTyped' /\ (\A q \in Procs : q # c => call'[q] = call[q]) /\ call'[c].at = "added"
        /\ call'[c].track = t /\ call'[c].option = o /\ (Current(c)' <=> Current(c))
        /\ (KnowsInv!(c)' => HolderInv' /\ KnowsInv')
    BY <1>2, PublishMoves DEF link, Holding, Beginning, t, o
  <1>7. /\ senders' \in Seq(Senders) /\ Sending' = (IF Current(c) THEN Sending \cup {t} ELSE Sending)
        /\ Heard' = Heard /\ (OneSenderEach /\ t \notin Sending => OneSenderEach')
    BY <1>2, <1>3, <1>4, SendersJoined, SendersUnchanged
  <1>8. PubTyped'
    BY <1>2, <1>6, <1>7 DEF PubInv, PubTyped, link, told, flags
  <1>9. HolderInv' /\ KnowsInv'
    <2>1. KnowsInv!(c)'
      BY <1>2, <1>4, <1>5, <1>6 DEF Beginning, link
    <2> QED
      BY <1>6, <2>1
  <1>10. ListsInv'
    BY <1>2, <1>5 DEF PubInv, ListsInv, flags
  <1>11. RevokeInv'
    BY <1>2, <1>5, <1>6, HolderRevokes DEF link
  <1>12. PacingInv'
    BY <1>2, <1>3, <1>5, <1>6 DEF PubInv, PacingInv, link, flags, Holding
  <1>13. SendersInv'
    <2> SUFFICES ASSUME ~astray
                 PROVE  OneSenderEach' /\ Known' /\ RetiredApart' /\ CallsApart'
      BY <1>2 DEF SendersInv
    <2>1. OneSenderEach /\ Known /\ RetiredApart /\ CallsApart
      BY DEF PubInv, SendersInv
    <2>2. t \notin Retired /\ o \notin KeptOptions
      BY <1>1, <1>2, <2>1 DEF CallsApart, t, o
    <2>3. Taking = {} /\ Taking' = {t}
      BY <1>1, <1>2, <1>3, <1>6, TakingOfHolder, TakingOfHolderNext DEF t
    <2>4. t \notin Sending
      BY <1>4, <2>1, <2>2, <2>3 DEF Known
    <2>5. KeptOptions' \subseteq KeptOptions
      BY <1>2, <1>7, <2>2, RetiredUnchanged
    <2>6. CallsApart'
      BY <1>3, <1>5, <1>6, <2>2, <2>5 DEF CallsApart, Holding, Beginning
    <2>7. Latest' /\ OneTrackEach(retired)'
      <3>1. \A i \in DOMAIN retired : retired[i].track \in Retired
        BY DEF Retired, TracksOf
      <3> QED
        BY <1>2, <1>7, <2>1, <2>2, <3>1 DEF Latest, OneTrackEach, RetiredApart
    <2>8. RetiredApart'
      BY <1>5, <1>7, <2>1, <2>2, <2>5, <2>7 DEF RetiredApart
    <2> QED
      BY <1>5, <1>7, <2>1, <2>3, <2>4, <2>6, <2>8 DEF Known
  <1>14. AnnouncedInv'
    <2> SUFFICES ASSUME ~astray, ~due
                 PROVE  AnnouncedInv'
      BY <1>2 DEF AnnouncedInv
    <2>1. Current(c)
      BY <1>4 DEF PubInv, HolderInv
    <2>2. Active \subseteq Sending /\ Muting \cup Audible \subseteq Heard /\ restoring' # "sync"
      BY <1>2, <1>3 DEF PubInv, AnnouncedInv, link
    <2>3. \A q \in Procs : call'[q].at \in {"register", "added"} => q = c
      BY <1>3, <1>6 DEF Holding, Beginning
    <2> QED
      BY <1>5, <1>6, <1>7, <2>1, <2>2, <2>3 DEF AnnouncedInv
  <1>15. SfuKnowsInv'
    BY <1>2, <1>5, <1>6, SfuUntouched DEF PubInv, link, told, flags, Current
  <1> QED
    BY <1>8, <1>9, <1>10, <1>11, <1>12, <1>13, <1>14, <1>15 DEF PubInv

LEMMA PublishAddedStep ==
  ASSUME PubBounds, PubInv, NEW c \in Callers, PublishAdded(c)
  PROVE  PubInv'
  <1> DEFINE t == call[c].track
             o == call[c].option
  <1>1. c \in Procs /\ c # Revoker
    BY CallerIsNotRevoker
  <1>2. /\ call[c].at = "added" /\ call[c].at \in Holding /\ call[c].at \in Beginning
        /\ UNCHANGED <<retired, link, stopped, muted, capable, told, astray, due, doubt>>
    BY DEF PublishAdded, Holding, Beginning
  <1>3. /\ media = c /\ \A q \in Procs : q # c => call[q].at \notin Holding
        /\ pubs \in Seq(Publications) /\ senders \in Seq(Senders) /\ retired \in Seq(Retirements)
        /\ Distinct(pubs) /\ astray \in BOOLEAN /\ restoring \notin {"sync", "stops"}
    BY <1>1, <1>2, HolderFacts
  <1>4. /\ t \in Tracks \ InPubs /\ o \in (1..NumOptions) \ Used
        /\ ~Current(c) => senders = <<>> /\ restoring = "swapped" /\ ~connected
    BY <1>1, <1>2, HolderFacts DEF PubInv, KnowsInv
  <1>5. Retired' = Retired /\ RetiredOptions' = RetiredOptions
    BY <1>2, RetiredUnchanged
  <1>6. Taking = {t}
    BY <1>1, <1>2, <1>3, TakingOfHolder
  <1>7. CASE /\ pubs' = Begun(t, o, "PendingPublishNegotiation") /\ held' = held \cup {t}
             /\ Go(c, "negotiate") /\ UNCHANGED <<due, senders, media>>
    <2> HIDE DEF t, o
    <2>1. /\ pubs' \in Seq(Publications) /\ Distinct(pubs)'
          /\ InPubs' = InPubs \cup {t} /\ Used' = Used \cup {o}
          /\ Active' = Active \cup {t} /\ Audible' = Audible /\ Stopping' = Stopping
          /\ Negotiating' = Negotiating \cup {t} /\ Muting' = Muting
      BY <1>3, <1>4, <1>7, PubsBegun
    <2>2. /\ Sending' = Sending /\ Heard' = Heard /\ (OneSenderEach => OneSenderEach')
          /\ KeptOptions' = KeptOptions
      BY <1>2, <1>7, SendersUnchanged
    <2>3. /\ CallsTyped' /\ (\A q \in Procs : q # c => call'[q] = call[q]) /\ call'[c].at = "negotiate"
          /\ call'[c].track = t /\ (Current(c)' <=> Current(c)) /\ (KnowsInv!(c)' => HolderInv' /\ KnowsInv')
      BY <1>2, <1>7, PublishMoves DEF link, Holding, t
    <2>4. PubTyped'
      <3>1. held' \in SUBSET Tracks
        BY <1>4, <1>7 DEF PubInv, PubTyped
      <3> QED
        BY <1>2, <1>7, <2>1, <2>3, <3>1 DEF PubInv, PubTyped, link, told
    <2>5. HolderInv' /\ KnowsInv'
      <3>1. KnowsInv!(c)'
        BY <1>2, <1>4, <1>7, <2>1, <2>3 DEF Beginning, link
      <3> QED
        BY <2>3, <3>1
    <2>6. ListsInv'
      BY <1>2, <1>5, <2>1 DEF PubInv, ListsInv
    <2>7. RevokeInv'
      BY <1>2, <2>3, HolderRevokes DEF link, Beginning
    <2>8. PacingInv'
      <3>1. t \notin Audible
        BY <1>3, <1>4, PubsViews
      <3> QED
        BY <1>2, <1>3, <1>7, <2>1, <2>3, <3>1 DEF PubInv, PacingInv, link, Holding
    <2>9. SendersInv'
      <3> SUFFICES ASSUME ~astray
                   PROVE  OneSenderEach' /\ Known' /\ RetiredApart' /\ CallsApart'
        BY <1>2 DEF SendersInv
      <3>1. OneSenderEach /\ Known /\ RetiredApart /\ CallsApart
        BY DEF PubInv, SendersInv
      <3>2. t \notin Retired /\ o \notin KeptOptions
        BY <1>1, <1>2, <3>1 DEF CallsApart, t, o
      <3>3. OneTrackEach(retired)' = OneTrackEach(retired) /\ Latest' = Latest
        BY <1>2, <2>2 DEF OneTrackEach, Latest
      <3>4. CallsApart'
        BY <1>3, <2>3 DEF CallsApart, Holding, Beginning
      <3> QED
        BY <1>5, <1>6, <2>1, <2>2, <3>1, <3>2, <3>3, <3>4 DEF Known, RetiredApart
    <2>10. AnnouncedInv'
      <3> SUFFICES ASSUME ~astray, ~due
                   PROVE  AnnouncedInv'
        BY <1>2, <1>7 DEF AnnouncedInv
      <3>1. t \in Sending /\ Active \subseteq Sending /\ Muting \cup Audible \subseteq Heard /\ restoring' # "sync"
        BY <1>1, <1>2, <1>3 DEF PubInv, AnnouncedInv, link, t
      <3>2. \A q \in Procs : call'[q].at \notin {"register", "added"}
        BY <1>3, <2>3 DEF Holding, Beginning
      <3> QED
        BY <2>1, <2>2, <3>1, <3>2 DEF AnnouncedInv
    <2>11. SfuKnowsInv'
      BY <1>2, <2>1, <2>3, SfuUntouched DEF PubInv, link, told, Current
    <2> QED
      BY <2>4, <2>5, <2>6, <2>7, <2>8, <2>9, <2>10, <2>11 DEF PubInv
  <1>8. CASE /\ Return(c) /\ Unlock /\ UNCHANGED <<pubs, held>>
             /\ senders' = IF Current(c) THEN WithoutSender(t) ELSE senders
    <2> HIDE DEF t, o
    <2>1. /\ Negotiating' = Negotiating /\ Muting' = Muting /\ Audible' = Audible /\ Stopping' = Stopping
          /\ InPubs' = InPubs /\ Used' = Used /\ Active' = Active /\ (Distinct(pubs) => Distinct(pubs)')
      BY <1>8, PubsUnchanged
    <2>2. /\ senders' \in Seq(Senders) /\ Sending' = Sending \ {t} /\ Heard' = Heard \ {t}
          /\ OneSenderEach => OneSenderEach'
      <3>1. CASE Current(c)
        BY <1>3, <1>8, <3>1, SendersWithout
      <3>2. CASE ~Current(c)
        BY <1>3, <1>4, <1>8, <3>2, SendersUnchanged, SendersViews
      <3> QED
        BY <3>1, <3>2
    <2>3. /\ CallsTyped' /\ (\A q \in Procs : q # c => call'[q] = call[q]) /\ call'[c].at = "idle"
          /\ HolderInv' /\ KnowsInv'
      BY <1>2, <1>8, PublishReturns DEF link
    <2>4. PubTyped'
      BY <1>2, <1>8, <2>2, <2>3 DEF PubInv, PubTyped, link, told, Unlock
    <2>5. ListsInv'
      BY <1>2, <1>5, <2>1 DEF PubInv, ListsInv
    <2>6. RevokeInv'
      BY <1>2, <2>1, <2>3, HolderRevokes DEF link, Beginning
    <2>7. PacingInv'
      BY <1>2, <1>3, <1>8, <2>1, <2>3 DEF PubInv, PacingInv, link, Holding
    <2>8. SendersInv'
      <3> SUFFICES ASSUME ~astray
                   PROVE  OneSenderEach' /\ Known' /\ RetiredApart' /\ CallsApart'
        BY <1>2 DEF SendersInv
      <3>1. OneSenderEach /\ Known /\ RetiredApart /\ CallsApart
        BY DEF PubInv, SendersInv
      <3>2. KeptOptions' \subseteq KeptOptions
        BY <1>2, <2>2, RetiredUnchanged
      <3>3. OneTrackEach(retired)' /\ Latest'
        BY <1>2, <2>2, <3>1 DEF OneTrackEach, Latest, RetiredApart
      <3>4. CallsApart'
        BY <1>3, <2>3 DEF CallsApart, Holding, Beginning
      <3> QED
        BY <1>5, <1>6, <2>1, <2>2, <3>1, <3>2, <3>3, <3>4 DEF Known, RetiredApart
    <2>9. AnnouncedInv'
      <3> SUFFICES ASSUME ~astray, ~due
                   PROVE  AnnouncedInv'
        BY <1>2 DEF AnnouncedInv
      <3>1. Active \subseteq Sending /\ Muting \cup Audible \subseteq Heard /\ restoring' # "sync"
        BY <1>2, <1>3 DEF PubInv, AnnouncedInv, link
      <3>2. \A q \in Procs : call'[q].at \notin {"register", "added"}
        BY <1>3, <2>3 DEF Holding, Beginning
      <3>3. t \notin Active \cup Muting \cup Audible
        BY <1>3, <1>4, PubsViews
      <3> QED
        BY <2>1, <2>2, <3>1, <3>2, <3>3 DEF AnnouncedInv
    <2>10. SfuKnowsInv'
      BY <1>2, <2>1, <2>3, SfuUntouched DEF PubInv, link, told, Current
    <2> QED
      BY <2>3, <2>4, <2>5, <2>6, <2>7, <2>8, <2>9, <2>10 DEF PubInv
  <1>9. \/ /\ pubs' = Begun(t, o, "PendingPublishNegotiation") /\ held' = held \cup {t}
           /\ Go(c, "negotiate") /\ UNCHANGED <<due, senders, media>>
        \/ /\ Return(c) /\ Unlock /\ UNCHANGED <<pubs, held>>
           /\ senders' = IF Current(c) THEN WithoutSender(t) ELSE senders
    BY DEF PublishAdded
  <1> QED
    BY <1>7, <1>8, <1>9
LEMMA PublishAnnouncesStep ==
  ASSUME PubBounds, PubInv, NEW c \in Callers, PublishAnnounces(c)
  PROVE  PubInv'
  <1> DEFINE t == call[c].track
  <1>1. c \in Procs /\ c # Revoker
    BY CallerIsNotRevoker
  <1>2. /\ call[c].at = "announce" /\ call[c].at \in Holding /\ Go(c, "unmute")
        /\ IF Current(c) THEN listed' = TRUE /\ held' = HeldStill(t) ELSE UNCHANGED <<listed, held>>
        /\ UNCHANGED <<media, lists, link, stopped, muted, capable, sfuMuted, astray, due, doubt>>
    BY DEF PublishAnnounces, Holding, Beginning
  <1>3. /\ media = c /\ \A q \in Procs : q # c => call[q].at \notin Holding
        /\ pubs \in Seq(Publications) /\ senders \in Seq(Senders) /\ retired \in Seq(Retirements)
        /\ Distinct(pubs) /\ astray \in BOOLEAN /\ restoring \notin {"sync", "stops"}
    BY <1>1, <1>2, HolderFacts
  <1>4. /\ t \in Muting /\ t \in Tracks
        /\ ~Current(c) => senders = <<>> /\ restoring = "swapped" /\ ~connected
    BY <1>1, <1>2, HolderFacts DEF PubInv, KnowsInv
  <1> HIDE DEF t
  <1>5. /\ Negotiating' = Negotiating /\ Muting' = Muting /\ Audible' = Audible /\ Stopping' = Stopping
        /\ InPubs' = InPubs /\ Used' = Used /\ Active' = Active /\ (Distinct(pubs) => Distinct(pubs)')
        /\ Sending' = Sending /\ Heard' = Heard /\ (OneSenderEach => OneSenderEach')
        /\ KeptOptions' = KeptOptions /\ Retired' = Retired /\ RetiredOptions' = RetiredOptions
    BY <1>2, PubsUnchanged, SendersUnchanged, RetiredUnchanged DEF lists
  <1>6. /\ CallsTyped' /\ (\A q \in Procs : q # c => call'[q] = call[q]) /\ call'[c].at = "unmute"
        /\ call'[c].track = t /\ (Current(c)' <=> Current(c)) /\ (KnowsInv!(c)' => HolderInv' /\ KnowsInv')
    BY <1>2, PublishMoves DEF link, Holding, t
  <1>7. held' \subseteq held /\ (connected => t \notin held') /\ listed' \in BOOLEAN /\ (listed => listed')
    <2>1. CASE Current(c)
      BY <1>2, <2>1 DEF HeldStill
    <2>2. CASE ~Current(c)
      BY <1>2, <1>4, <2>2 DEF PubInv, PubTyped
    <2> QED
      BY <2>1, <2>2
  <1>8. PubTyped'
    <2>1. held' \in SUBSET Tracks
      BY <1>7 DEF PubInv, PubTyped
    <2> QED
      BY <1>2, <1>6, <1>7, <2>1 DEF PubInv, PubTyped, link, lists
  <1>9. HolderInv' /\ KnowsInv'
    <2>1. KnowsInv!(c)'
      BY <1>2, <1>4, <1>5, <1>6 DEF Beginning, link, lists
    <2> QED
      BY <1>6, <2>1
  <1>10. ListsInv'
    BY <1>2, <1>5 DEF PubInv, ListsInv
  <1>11. RevokeInv'
    BY <1>2, <1>5, <1>6, HolderRevokes DEF link, Beginning
  <1>12. PacingInv'
    <2>1. \A q \in Procs : call'[q].at = "unmute" => q = c
      BY <1>3, <1>6 DEF Holding
    <2> QED
      BY <1>2, <1>5, <1>6, <1>7, <2>1 DEF PubInv, PacingInv, link
  <1>13. SendersInv'
    <2> SUFFICES ASSUME ~astray
                 PROVE  OneSenderEach' /\ Known' /\ RetiredApart' /\ CallsApart'
      BY <1>2 DEF SendersInv
    <2>1. OneSenderEach /\ Known /\ RetiredApart /\ CallsApart
      BY DEF PubInv, SendersInv
    <2>2. Taking' = {} /\ Taking = {}
      BY <1>1, <1>2, <1>3, <1>6, TakingOfHolder, TakingOfHolderNext
    <2>3. OneTrackEach(retired)' = OneTrackEach(retired) /\ Latest' = Latest
      BY <1>2, <1>5 DEF OneTrackEach, Latest, lists
    <2>4. CallsApart'
      BY <1>3, <1>6 DEF CallsApart, Holding, Beginning
    <2> QED
      BY <1>5, <2>1, <2>2, <2>3, <2>4 DEF Known, RetiredApart
  <1>14. AnnouncedInv'
    <2>1. \A q \in Procs : call'[q].at \notin {"register", "added"}
      BY <1>3, <1>6 DEF Holding, Beginning
    <2> QED
      BY <1>2, <1>5, <2>1 DEF PubInv, AnnouncedInv, link
  <1>15. SfuKnowsInv'
    <2>1. \A q \in Procs : call'[q].at = "unmute" /\ Current(q)' => listed'
      BY <1>2, <1>3, <1>6 DEF Holding
    <2> QED
      BY <1>2, <1>5, <1>6, <1>7, <2>1, SfuUntouched DEF PubInv, link, Current
  <1> QED
    BY <1>8, <1>9, <1>10, <1>11, <1>12, <1>13, <1>14, <1>15 DEF PubInv

LEMMA PublishUnmutesStep ==
  ASSUME PubBounds, PubInv, NEW c \in Callers, PublishUnmutes(c)
  PROVE  PubInv'
  <1> DEFINE t == call[c].track
  <1>1. c \in Procs /\ c # Revoker
    BY CallerIsNotRevoker
  <1>2. /\ call[c].at = "unmute" /\ call[c].at \in Holding /\ Return(c) /\ Unlock /\ Crosses(c)
        /\ UNCHANGED <<retired, senders, link, flags, capable, listed, astray, due>>
    BY DEF PublishUnmutes, Holding, Beginning
  <1>3. /\ media = c /\ \A q \in Procs : q # c => call[q].at \notin Holding
        /\ pubs \in Seq(Publications) /\ senders \in Seq(Senders) /\ retired \in Seq(Retirements)
        /\ Distinct(pubs) /\ astray \in BOOLEAN /\ restoring \notin {"sync", "stops"}
    BY <1>1, <1>2, HolderFacts
  <1>4. /\ t \in Muting /\ t \in Tracks
        /\ ~Current(c) => senders = <<>> /\ restoring = "swapped" /\ ~connected
    BY <1>1, <1>2, HolderFacts DEF PubInv, KnowsInv
  <1>5. \/ /\ sfuMuted' = (IF Current(c) THEN FALSE ELSE sfuMuted) /\ pubs' = WithStatus(t, "Published")
        \/ UNCHANGED <<sfuMuted, pubs>>
    BY DEF PublishUnmutes
  <1> HIDE DEF t
  <1>6. /\ pubs' \in Seq(Publications) /\ Distinct(pubs)' /\ InPubs' = InPubs /\ Used' = Used
        /\ Negotiating' = Negotiating /\ Stopping' = Stopping /\ Active' = Active
        /\ Muting' \cup Audible' = Muting \cup Audible
        /\ Audible' = Audible \/ (Audible' = Audible \cup {t} /\ sfuMuted' = IF Current(c) THEN FALSE ELSE sfuMuted)
    <2>1. CASE pubs' = WithStatus(t, "Published") /\ sfuMuted' = IF Current(c) THEN FALSE ELSE sfuMuted
      <3>1. t \in InPubs /\ "Published" \in Statuses /\ t \in Active
        BY <1>3, <1>4, PubsViews DEF Statuses
      <3>2. t \notin Negotiating /\ t \notin Stopping
        BY <1>3, <1>4, OneStatus
      <3>3. /\ pubs' \in Seq(Publications) /\ Distinct(pubs)' /\ InPubs' = InPubs /\ Used' = Used
            /\ Negotiating' = Negotiating \ {t} /\ Muting' = Muting \ {t} /\ Audible' = Audible \cup {t}
            /\ Stopping' = Stopping \ {t} /\ Active' = Active \cup {t}
        BY <1>3, <2>1, <3>1, PubsMarked
      <3> QED
        BY <1>4, <2>1, <3>1, <3>2, <3>3
    <2>2. CASE pubs' = pubs
      BY <1>3, <2>2, PubsUnchanged
    <2> QED
      BY <1>5, <2>1, <2>2
  <1>7. /\ Sending' = Sending /\ Heard' = Heard /\ (OneSenderEach => OneSenderEach')
        /\ KeptOptions' = KeptOptions /\ Retired' = Retired /\ RetiredOptions' = RetiredOptions
    BY <1>2, SendersUnchanged, RetiredUnchanged
  <1>8. /\ CallsTyped' /\ (\A q \in Procs : q # c => call'[q] = call[q]) /\ call'[c].at = "idle"
        /\ HolderInv' /\ KnowsInv'
    BY <1>2, PublishReturns DEF link
  <1>9. PubTyped'
    <2>1. sfuMuted' \in BOOLEAN /\ doubt' \in BOOLEAN
      BY <1>2, <1>5 DEF PubInv, PubTyped, Crosses
    <2> QED
      BY <1>2, <1>6, <1>8, <2>1 DEF PubInv, PubTyped, link, flags, Unlock
  <1>10. ListsInv'
    BY <1>2, <1>6, <1>7 DEF PubInv, ListsInv, flags
  <1>11. RevokeInv'
    BY <1>2, <1>6, <1>8, HolderRevokes DEF link, Beginning
  <1>12. PacingInv'
    <2>1. \A q \in Procs : call'[q].at # "unmute"
      BY <1>3, <1>8 DEF Holding
    <2>2. connected /\ ~notify /\ ~astray => Audible \cap held = {} /\ t \notin held
      BY <1>1, <1>2 DEF PubInv, PacingInv, t
    <2> QED
      BY <1>2, <1>6, <2>1, <2>2 DEF PacingInv, link, flags
  <1>13. SendersInv'
    <2> SUFFICES ASSUME ~astray
                 PROVE  OneSenderEach' /\ Known' /\ RetiredApart' /\ CallsApart'
      BY <1>2 DEF SendersInv
    <2>1. OneSenderEach /\ Known /\ RetiredApart /\ CallsApart
      BY DEF PubInv, SendersInv
    <2>2. Taking' = {} /\ Taking = {}
      BY <1>1, <1>2, <1>3, <1>8, TakingOfHolder, TakingOfHolderNext
    <2>3. OneTrackEach(retired)' = OneTrackEach(retired) /\ Latest' = Latest
      BY <1>2, <1>7 DEF OneTrackEach, Latest
    <2>4. CallsApart'
      BY <1>3, <1>8 DEF CallsApart, Holding, Beginning
    <2> QED
      BY <1>6, <1>7, <2>1, <2>2, <2>3, <2>4 DEF Known, RetiredApart
  <1>14. AnnouncedInv'
    <2>1. \A q \in Procs : call'[q].at \notin {"register", "added"}
      BY <1>3, <1>8 DEF Holding, Beginning
    <2> QED
      BY <1>2, <1>6, <1>7, <2>1 DEF PubInv, AnnouncedInv, link
  <1>15. SfuKnowsInv'
    <2> SUFFICES ASSUME ~doubt'
                 PROVE  SfuKnowsInv'
      BY DEF SfuKnowsInv
    <2>1. ~doubt /\ \A q \in Procs : call[q].at # "answer" /\ call'[q].at \notin {"answer", "unmute"}
      <3>1. doubt \in BOOLEAN
        BY DEF PubInv, PubTyped
      <3>2. ~doubt /\ \A q \in Procs : q # c => call[q].at # "answer"
        BY <1>1, <1>2, <3>1, NotCrossed
      <3> QED
        BY <1>2, <1>3, <1>8, <3>2 DEF Holding
    <2>2. Answering = {} /\ Answering' = {}
      BY <2>1 DEF Answering
    <2>3. restoring \in {"none", "stops"} => Current(c)
      BY <1>4
    <2>4. Current(c) => listed
      BY <1>1, <1>2, <2>1 DEF PubInv, SfuKnowsInv
    <2>5. restoring' = restoring /\ muted' = muted /\ listed' = listed
      BY <1>2 DEF link, flags
    <2>6. ~(Audible \subseteq muted) /\ restoring \in {"none", "stops"} => ~sfuMuted /\ listed
      BY <2>1, <2>2 DEF PubInv, SfuKnowsInv
    <2>7. ~(Audible' \subseteq muted) /\ restoring \in {"none", "stops"} => ~sfuMuted' /\ listed
      <3>1. CASE sfuMuted' = IF Current(c) THEN FALSE ELSE sfuMuted
        BY <2>3, <2>4, <3>1
      <3>2. CASE Audible' = Audible /\ sfuMuted' = sfuMuted
        BY <2>6, <3>2
      <3>3. CASE UNCHANGED <<sfuMuted, pubs>>
        BY <3>3, <3>2, PubsUnchanged
      <3> QED
        BY <1>5, <3>1, <3>3
    <2> QED
      BY <2>1, <2>2, <2>5, <2>7 DEF SfuKnowsInv
  <1> QED
    BY <1>8, <1>9, <1>10, <1>11, <1>12, <1>13, <1>14, <1>15 DEF PubInv
\* The retired track that a publish replaces is the latest of its option.
LEMMA LatestRetired ==
  ASSUME retired \in Seq(Retirements), NEW o \in RetiredOptions
  PROVE  LET k == Max(RetiredFor(o)) IN
         /\ k \in DOMAIN retired /\ retired[k].option = o
         /\ \A j \in DOMAIN retired : retired[j].option = o => j <= k
  <1>1. RetiredFor(o) # {} /\ RetiredFor(o) \in SUBSET Nat
    BY RetiredViews DEF RetiredFor
  <1>2. Len(retired) \in Nat /\ \A y \in RetiredFor(o) : y <= Len(retired)
    BY DEF RetiredFor
  <1>3. Max(RetiredFor(o)) \in RetiredFor(o) /\ \A y \in RetiredFor(o) : y <= Max(RetiredFor(o))
    BY <1>1, <1>2, MaxIsGreatest
  <1> QED
    BY <1>3 DEF RetiredFor

LEMMA PublishReplacesStep ==
  ASSUME PubBounds, PubInv, NEW c \in Callers, PublishReplaces(c)
  PROVE  PubInv'
  <1> DEFINE t == call[c].track
             o == call[c].option
             k == Max(RetiredFor(o))
             u == retired[k].track
             mine == IF Current(c) THEN SenderOf(u) ELSE {}
             I == DOMAIN retired \ {k}
  <1>1. c \in Procs /\ c # Revoker
    BY CallerIsNotRevoker
  <1>2. /\ call[c].at = "replace" /\ call[c].at \in Holding /\ call[c].at \in Beginning
        /\ UNCHANGED <<pubs, link, flags, capable, told, astray, due, doubt>>
    BY DEF PublishReplaces, Holding, Beginning
  <1>3. /\ media = c /\ \A q \in Procs : q # c => call[q].at \notin Holding
        /\ pubs \in Seq(Publications) /\ senders \in Seq(Senders) /\ retired \in Seq(Retirements)
        /\ Distinct(pubs) /\ astray \in BOOLEAN /\ restoring \notin {"sync", "stops"}
    BY <1>1, <1>2, HolderFacts
  <1>4. /\ t \in Tracks \ InPubs /\ o \in (1..NumOptions) \ Used /\ o \in RetiredOptions
        /\ ~Current(c) => senders = <<>> /\ restoring = "swapped" /\ ~connected
    BY <1>1, <1>2, HolderFacts DEF PubInv, KnowsInv
  <1>5. k \in DOMAIN retired /\ retired[k].option = o /\ \A j \in DOMAIN retired : retired[j].option = o => j <= k
    BY <1>3, <1>4, LatestRetired
  <1>6. u \in Retired /\ u \in Tracks
    <2>1. retired[k] \in Retirements
      BY <1>3, <1>5
    <2> HIDE DEF k
    <2> QED
      BY <1>5, <2>1 DEF Retired, TracksOf, Retirements
  <1>a. I \in SUBSET DOMAIN retired /\ \A i \in DOMAIN retired : i \in I <=> i # k
    OBVIOUS
  <1>7. \/ /\ mine # {} /\ senders' = [senders EXCEPT ![Min(mine)].track = t]
           /\ retired' = Filtered(retired, I) /\ Go(c, "register") /\ UNCHANGED media
        \/ /\ mine = {} /\ retired' = Filtered(retired, I) /\ Go(c, "add") /\ UNCHANGED <<senders, media>>
        \/ Return(c) /\ Unlock /\ UNCHANGED <<senders, retired>>
    BY DEF PublishReplaces
  <1> HIDE DEF k, I, t, o
  <1>8. /\ Negotiating' = Negotiating /\ Muting' = Muting /\ Audible' = Audible /\ Stopping' = Stopping
        /\ InPubs' = InPubs /\ Used' = Used /\ Active' = Active /\ (Distinct(pubs) => Distinct(pubs)')
    BY <1>2, PubsUnchanged
  <1>9. ~astray => /\ OneSenderEach /\ Known /\ RetiredApart /\ CallsApart /\ t \notin Retired /\ t \notin Sending
                   /\ Taking = {}
    <2> SUFFICES ASSUME ~astray
                 PROVE  /\ OneSenderEach /\ Known /\ RetiredApart /\ CallsApart /\ t \notin Retired
                        /\ t \notin Sending /\ Taking = {}
      OBVIOUS
    <2>1. OneSenderEach /\ Known /\ RetiredApart /\ CallsApart
      BY DEF PubInv, SendersInv
    <2>2. t \notin Retired
      BY <1>1, <1>2, <2>1 DEF CallsApart, t
    <2>3. Taking = {}
      BY <1>1, <1>2, <1>3, TakingOfHolder
    <2> QED
      BY <1>4, <2>1, <2>2, <2>3 DEF Known
  \* In each case of the first two the call goes on with what the lists have become.
  <1>10. ASSUME NEW place \in {"register", "add"}, Go(c, place), UNCHANGED media,
                retired' = Filtered(retired, I), senders' \in Seq(Senders),
                ~Current(c) => senders' = senders,
                ~astray => OneSenderEach' /\ Sending' \cap Retired' \subseteq Sending,
                ~astray => Sending' \subseteq InPubs \cup (Retired \ {u}) \cup (IF place = "register" THEN {t} ELSE {}),
                ~astray => (Retired \ {u}) \cap Sending' \subseteq Heard',
                ~astray => Sending \ {u} \subseteq Sending' /\ Heard \ {u} \subseteq Heard',
                ~astray /\ place = "register" => t \in Heard'
         PROVE  PubInv'
    <2>1. /\ CallsTyped' /\ (\A q \in Procs : q # c => call'[q] = call[q]) /\ call'[c].at = place
          /\ call'[c].track = t /\ call'[c].option = o /\ (Current(c)' <=> Current(c))
          /\ (KnowsInv!(c)' => HolderInv' /\ KnowsInv')
      <3>1. place \in Holding
        BY DEF Holding, Beginning
      <3> QED
        BY <1>2, <1>10, <3>1, PublishMoves DEF link, t, o
    <2>2. /\ retired' \in Seq(Retirements) /\ Retired' \subseteq Retired
          /\ ~astray => /\ OneTrackEach(retired)' /\ Retired' = Retired \ {u} /\ Latest'
                        /\ KeptOptions' \subseteq KeptOptions /\ o \notin KeptOptions'
      BY <1>3, <1>5, <1>a, <1>9, <1>10, RetiredTaken DEF RetiredApart
    <2>3. PubTyped'
      BY <1>2, <1>10, <2>1, <2>2 DEF PubInv, PubTyped, link, told, flags
    <2>4. HolderInv' /\ KnowsInv'
      <3>1. KnowsInv!(c)'
        BY <1>2, <1>4, <1>8, <1>10, <2>1 DEF Beginning, link
      <3> QED
        BY <2>1, <3>1
    <2>5. ListsInv'
      BY <1>2, <1>3, <1>8, <2>2 DEF PubInv, ListsInv, flags
    <2>6. RevokeInv'
      BY <1>2, <1>8, <2>1, HolderRevokes DEF link
    <2>7. PacingInv'
      BY <1>2, <1>3, <1>8, <2>1 DEF PubInv, PacingInv, link, flags, Holding
    <2>8. SendersInv'
      <3> SUFFICES ASSUME ~astray
                   PROVE  OneSenderEach' /\ Known' /\ RetiredApart' /\ CallsApart'
        BY <1>2 DEF SendersInv
      <3>1. Taking' = IF place = "register" THEN {t} ELSE {}
        <4>1. \A q \in Procs : q # c => call'[q].at \notin Holding
          BY <1>3, <2>1
        <4>2. Taking' = IF call'[c].at \in {"register", "added"} THEN {call'[c].track} ELSE {}
          BY <1>1, <4>1, TakingOfHolderNext
        <4> QED
          BY <2>1, <4>2
      <3>2. Known'
        BY <1>8, <1>10, <2>2, <3>1 DEF Known
      <3>3. RetiredApart'
        BY <1>8, <1>9, <1>10, <2>2 DEF RetiredApart
      <3>4. CallsApart'
        BY <1>3, <1>9, <2>1, <2>2 DEF CallsApart, Holding, Beginning
      <3> QED
        BY <1>10, <3>2, <3>3, <3>4
    <2>9. AnnouncedInv'
      <3> SUFFICES ASSUME ~astray, ~due
                   PROVE  AnnouncedInv'
        BY <1>2 DEF AnnouncedInv
      <3>1. Active \subseteq Sending /\ Muting \cup Audible \subseteq Heard /\ restoring' # "sync"
        BY <1>2, <1>3 DEF PubInv, AnnouncedInv, link
      <3>2. u \notin InPubs /\ u \notin Active /\ u \notin Muting \cup Audible
        BY <1>3, <1>6, <1>9, PubsViews DEF RetiredApart
      <3>3. \A q \in Procs : /\ call'[q].at = "register" => q = c /\ place = "register"
                             /\ call'[q].at # "added"
        BY <1>3, <2>1 DEF Holding, Beginning
      <3>4. \A q \in Procs : call'[q].at = "register" => call'[q].track \in Heard'
        BY <1>10, <2>1, <3>3
      <3> QED
        BY <1>8, <1>10, <3>1, <3>2, <3>3, <3>4 DEF AnnouncedInv
    <2>10. SfuKnowsInv'
      BY <1>2, <1>8, <1>10, <2>1, SfuUntouched DEF PubInv, link, told, flags, Current
    <2> QED
      BY <2>3, <2>4, <2>5, <2>6, <2>7, <2>8, <2>9, <2>10 DEF PubInv
  <1>11. CASE /\ mine # {} /\ senders' = [senders EXCEPT ![Min(mine)].track = t]
              /\ retired' = Filtered(retired, I) /\ Go(c, "register") /\ UNCHANGED media
    <2>1. Current(c) /\ mine = SenderOf(u)
      BY <1>11
    <2>2. Min(mine) \in DOMAIN senders /\ senders[Min(mine)].track = u
      <3>1. mine \in SUBSET Nat
        BY <1>3, <2>1 DEF SenderOf
      <3>2. Min(mine) \in mine
        BY <1>11, <3>1, MinIsSmallest
      <3> QED
        BY <2>1, <3>2 DEF SenderOf
    <2> DEFINE n == Min(mine)
    <2> HIDE DEF n
    <2>3. n \in DOMAIN senders /\ senders[n].track = u /\ senders' = [senders EXCEPT ![n].track = t]
      BY <1>11, <2>2 DEF n
    <2>4. /\ senders' \in Seq(Senders)
          /\ OneSenderEach /\ t \notin Sending =>
               /\ OneSenderEach' /\ Sending' = (Sending \ {u}) \cup {t}
               /\ u \in Heard => Heard' = (Heard \ {u}) \cup {t}
      BY <1>3, <1>4, <2>3, SendersTaken
    <2>5. ~astray => /\ OneSenderEach' /\ Sending' = (Sending \ {u}) \cup {t} /\ Heard' = (Heard \ {u}) \cup {t}
                     /\ t \notin Retired
      <3>1. u \in Sending
        BY <2>3 DEF Sending, TracksOf
      <3> QED
        BY <1>6, <1>9, <2>4, <3>1 DEF RetiredApart
    <2>6. Retired' \subseteq Retired
      BY <1>3, <1>5, <1>a, <1>11, RetiredTaken
    <2>7. ~astray => Sending \subseteq InPubs \cup Retired /\ Retired \cap Sending \subseteq Heard
      BY <1>9 DEF Known, RetiredApart
    <2> HIDE DEF mine, u
    <2>8. ~astray => OneSenderEach' /\ Sending' \cap Retired' \subseteq Sending
      BY <2>5, <2>6
    <2>9. ~astray => /\ Sending' \subseteq InPubs \cup (Retired \ {u}) \cup {t}
                     /\ (Retired \ {u}) \cap Sending' \subseteq Heard'
                     /\ Sending \ {u} \subseteq Sending' /\ Heard \ {u} \subseteq Heard' /\ t \in Heard'
      BY <2>5, <2>7
    <2> QED
      BY <1>10, <1>11, <2>1, <2>4, <2>8, <2>9
  <1>12. CASE /\ mine = {} /\ retired' = Filtered(retired, I) /\ Go(c, "add") /\ UNCHANGED <<senders, media>>
    <2>1. u \notin Sending
      <3>1. CASE Current(c)
        BY <1>3, <1>12, <3>1, SendersViews
      <3>2. CASE ~Current(c)
        BY <1>3, <1>4, <3>2, SendersViews
      <3> QED
        BY <3>1, <3>2
    <2>2. Sending' = Sending /\ Heard' = Heard /\ (OneSenderEach => OneSenderEach')
      BY <1>12, SendersUnchanged
    <2>3. ~astray => Sending \subseteq InPubs \cup Retired /\ Retired \cap Sending \subseteq Heard /\ OneSenderEach
      BY <1>9 DEF Known, RetiredApart
    <2> HIDE DEF mine, u
    <2>4. ~astray => /\ OneSenderEach' /\ Sending' \cap Retired' \subseteq Sending
                     /\ Sending' \subseteq InPubs \cup (Retired \ {u})
                     /\ (Retired \ {u}) \cap Sending' \subseteq Heard'
                     /\ Sending \ {u} \subseteq Sending' /\ Heard \ {u} \subseteq Heard'
      BY <2>1, <2>2, <2>3
    <2> QED
      BY <1>3, <1>10, <1>12, <2>4
  <1>13. CASE Return(c) /\ Unlock /\ UNCHANGED <<senders, retired>>
    <2>1. /\ CallsTyped' /\ (\A q \in Procs : q # c => call'[q] = call[q]) /\ call'[c].at = "idle"
          /\ HolderInv' /\ KnowsInv'
      BY <1>2, <1>13, PublishReturns DEF link
    <2>2. /\ Sending' = Sending /\ Heard' = Heard /\ (OneSenderEach => OneSenderEach')
          /\ KeptOptions' = KeptOptions /\ Retired' = Retired /\ RetiredOptions' = RetiredOptions
      BY <1>13, SendersUnchanged, RetiredUnchanged
    <2>3. PubTyped'
      BY <1>2, <1>13, <2>1 DEF PubInv, PubTyped, link, told, flags, Unlock
    <2>4. ListsInv'
      BY <1>2, <1>3, <1>8, <2>2 DEF PubInv, ListsInv, flags
    <2>5. RevokeInv'
      BY <1>2, <1>8, <2>1, HolderRevokes DEF link, Beginning
    <2>6. PacingInv'
      BY <1>2, <1>3, <1>8, <2>1 DEF PubInv, PacingInv, link, flags, Holding
    <2>7. SendersInv'
      <3> SUFFICES ASSUME ~astray
                   PROVE  OneSenderEach' /\ Known' /\ RetiredApart' /\ CallsApart'
        BY <1>2 DEF SendersInv
      <3>1. Taking' = {}
        BY <1>1, <1>3, <2>1, TakingOfHolderNext
      <3>2. OneTrackEach(retired)' = OneTrackEach(retired) /\ Latest' = Latest
        BY <1>13, <2>2 DEF OneTrackEach, Latest
      <3>3. CallsApart'
        BY <1>3, <2>1 DEF CallsApart, Holding, Beginning
      <3> QED
        BY <1>8, <1>9, <2>2, <3>1, <3>2, <3>3 DEF Known, RetiredApart
    <2>8. AnnouncedInv'
      <3>1. \A q \in Procs : call'[q].at \notin {"register", "added"}
        BY <1>3, <2>1 DEF Holding, Beginning
      <3> QED
        BY <1>2, <1>8, <2>2, <3>1 DEF PubInv, AnnouncedInv, link
    <2>9. SfuKnowsInv'
      BY <1>2, <1>8, <2>1, SfuUntouched DEF PubInv, link, told, flags, Current
    <2> QED
      BY <2>1, <2>3, <2>4, <2>5, <2>6, <2>7, <2>8, <2>9 DEF PubInv
  <1> QED
    BY <1>7, <1>11, <1>12, <1>13
LEMMA PublishNegotiatesStep ==
  ASSUME PubBounds, PubInv, NEW c \in Callers, PublishNegotiates(c)
  PROVE  PubInv'
  <1> DEFINE t == call[c].track
  <1>1. c \in Procs /\ c # Revoker
    BY CallerIsNotRevoker
  <1>2. /\ call[c].at = "negotiate" /\ call[c].at \in Holding
        /\ UNCHANGED <<retired, link, stopped, muted, capable, told, astray, due, doubt>>
    BY DEF PublishNegotiates, Holding, Beginning
  <1>3. /\ media = c /\ \A q \in Procs : q # c => call[q].at \notin Holding
        /\ pubs \in Seq(Publications) /\ senders \in Seq(Senders) /\ retired \in Seq(Retirements)
        /\ Distinct(pubs) /\ astray \in BOOLEAN /\ restoring \notin {"sync", "stops"}
    BY <1>1, <1>2, HolderFacts
  <1>4. /\ t \in Negotiating /\ t \in Tracks
        /\ ~Current(c) => senders = <<>> /\ restoring = "swapped" /\ ~connected
    BY <1>1, <1>2, HolderFacts DEF PubInv, KnowsInv
  <1>5. /\ t \in InPubs /\ t \in Active /\ t \notin Audible /\ t \notin Muting /\ t \notin Stopping
        /\ Muting \cup Audible \subseteq Active
    BY <1>3, <1>4, PubsViews, OneStatus
  <1>6. \/ /\ senders' = (IF Current(c) THEN Announced(senders) ELSE senders)
           /\ pubs' = WithStatus(t, "PendingPublishMute") /\ Go(c, "announce") /\ UNCHANGED <<media, held>>
        \/ /\ Return(c) /\ Unlock
           /\ \/ /\ senders' = (IF Current(c) THEN WithoutSender(t) ELSE senders)
                 /\ pubs' = Without(t) /\ held' = held \ {t}
              \/ UNCHANGED <<senders, pubs, held>>
    BY DEF PublishNegotiates, RolledBack
  <1> HIDE DEF t
  <1>7. Retired' = Retired /\ RetiredOptions' = RetiredOptions
    BY <1>2, RetiredUnchanged
  <1>8. ~astray => /\ OneSenderEach /\ Known /\ RetiredApart /\ CallsApart /\ t \notin Retired /\ Taking = {}
                   /\ (~due => Active \subseteq Sending /\ Muting \cup Audible \subseteq Heard /\ Current(c))
    <2>1. Taking = {}
      BY <1>1, <1>2, <1>3, TakingOfHolder
    <2>2. ~due => Current(c)
      BY <1>4 DEF PubInv, HolderInv
    <2> QED
      BY <1>5, <2>1, <2>2 DEF PubInv, SendersInv, AnnouncedInv, RetiredApart
  \* What is common to the cases.
  <1>9. ASSUME /\ CallsTyped' /\ (\A q \in Procs : q # c => call'[q] = call[q])
               /\ call'[c].at \in {"announce", "idle"} /\ HolderInv' /\ KnowsInv',
               media' \in {media, None},
               pubs' \in Seq(Publications) /\ Distinct(pubs)' /\ Audible' = Audible /\ Used' \subseteq Used,
               Active' \subseteq Active /\ InPubs' \subseteq InPubs, held' \subseteq held,
               Active' \cup (InPubs \ InPubs') = Active,
               Muting' \subseteq Muting \cup {t} /\ (t \in Muting' /\ ~astray /\ ~due => t \in Heard'),
               senders' \in Seq(Senders) /\ (OneSenderEach => OneSenderEach'),
               Sending' = Sending \ (InPubs \ InPubs'),
               Heard \ (InPubs \ InPubs') \subseteq Heard'
        PROVE  PubInv'
    <2>1. PubTyped'
      <3>1. held' \in SUBSET Tracks
        BY <1>9 DEF PubInv, PubTyped
      <3> QED
        BY <1>2, <1>9, <3>1 DEF PubInv, PubTyped, link, told
    <2>2. ListsInv'
      BY <1>2, <1>7, <1>9 DEF PubInv, ListsInv
    <2>3. RevokeInv'
      BY <1>2, <1>9, HolderRevokes DEF link, Beginning
    <2>4. PacingInv'
      BY <1>2, <1>3, <1>9 DEF PubInv, PacingInv, link, Holding
    <2>5. SendersInv'
      <3> SUFFICES ASSUME ~astray
                   PROVE  OneSenderEach' /\ Known' /\ RetiredApart' /\ CallsApart'
        BY <1>2 DEF SendersInv
      <3>1. Taking' = {}
        BY <1>1, <1>3, <1>9, TakingOfHolderNext
      <3>2. KeptOptions' \subseteq KeptOptions
        BY <1>2, <1>9, RetiredUnchanged
      <3>3. OneTrackEach(retired)' /\ Latest'
        BY <1>2, <1>8, <1>9 DEF OneTrackEach, Latest, RetiredApart
      <3>4. CallsApart'
        BY <1>3, <1>9 DEF CallsApart, Holding, Beginning
      <3>5. Known'
        BY <1>7, <1>8, <1>9, <3>1 DEF Known
      <3>6. RetiredApart'
        BY <1>7, <1>8, <1>9, <3>2, <3>3 DEF RetiredApart
      <3> QED
        BY <1>8, <1>9, <3>4, <3>5, <3>6
    <2>6. AnnouncedInv'
      <3> SUFFICES ASSUME ~astray, ~due
                   PROVE  AnnouncedInv'
        BY <1>2 DEF AnnouncedInv
      <3>1. \A q \in Procs : call'[q].at \notin {"register", "added"}
        BY <1>3, <1>9 DEF Holding, Beginning
      <3>2. Active' \cup Muting' \cup Audible' \subseteq InPubs'
        BY <1>9, PubsViewsNext
      <3>3. Active' \subseteq Sending'
        BY <1>8, <1>9, <3>2
      <3>4. Muting' \cup Audible' \subseteq Heard'
        BY <1>8, <1>9, <3>2
      <3>5. restoring' # "sync"
        BY <1>2, <1>3 DEF link
      <3> QED
        BY <3>1, <3>3, <3>4, <3>5 DEF AnnouncedInv
    <2>7. SfuKnowsInv'
      BY <1>2, <1>9, SfuUntouched DEF PubInv, link, told, Current
    <2> QED
      BY <1>9, <2>1, <2>2, <2>3, <2>4, <2>5, <2>6, <2>7 DEF PubInv
  <1>10. CASE /\ senders' = (IF Current(c) THEN Announced(senders) ELSE senders)
              /\ pubs' = WithStatus(t, "PendingPublishMute") /\ Go(c, "announce") /\ UNCHANGED <<media, held>>
    <2>1. /\ pubs' \in Seq(Publications) /\ Distinct(pubs)' /\ InPubs' = InPubs /\ Used' = Used
          /\ Muting' = Muting \cup {t} /\ Audible' = Audible \ {t} /\ Active' = Active \cup {t}
      <3>1. "PendingPublishMute" \in Statuses
        BY DEF Statuses
      <3> QED
        BY <1>3, <1>5, <1>10, <3>1, PubsMarked
    <2>2. /\ senders' \in Seq(Senders) /\ Sending' = Sending
          /\ Heard' = (IF Current(c) THEN Heard \cup (Sending \cap Active) ELSE Heard)
          /\ OneSenderEach => OneSenderEach'
      <3>1. CASE Current(c)
        BY <1>3, <1>10, <3>1, SendersAnnounced DEF Sending, Heard, OneSenderEach
      <3>2. CASE ~Current(c)
        BY <1>3, <1>10, <3>2, SendersUnchanged
      <3> QED
        BY <3>1, <3>2
    <2>3. /\ CallsTyped' /\ (\A q \in Procs : q # c => call'[q] = call[q]) /\ call'[c].at = "announce"
          /\ call'[c].track = t /\ (Current(c)' <=> Current(c)) /\ (KnowsInv!(c)' => HolderInv' /\ KnowsInv')
      BY <1>2, <1>10, PublishMoves DEF link, Holding, t
    <2>4. KnowsInv!(c)'
      BY <1>2, <1>4, <1>10, <2>1, <2>3 DEF Beginning, link
    <2>5. ~astray /\ ~due => t \in Heard'
      BY <1>5, <1>8, <2>2
    <2> QED
      BY <1>5, <1>9, <1>10, <2>1, <2>2, <2>3, <2>4, <2>5
  <1>11. CASE /\ Return(c) /\ Unlock
              /\ senders' = (IF Current(c) THEN WithoutSender(t) ELSE senders)
              /\ pubs' = Without(t) /\ held' = held \ {t}
    <2>1. /\ pubs' \in Seq(Publications) /\ Distinct(pubs)'
          /\ InPubs' = InPubs \ {t} /\ Used' = Used \ {OptionOf(t)}
          /\ Muting' = Muting \ {t} /\ Audible' = Audible \ {t} /\ Active' = Active \ {t}
      BY <1>3, <1>5, <1>11, PubsWithout
    <2>2. /\ senders' \in Seq(Senders) /\ Sending' = Sending \ {t} /\ Heard' = Heard \ {t}
          /\ OneSenderEach => OneSenderEach'
      <3>1. CASE Current(c)
        BY <1>3, <1>11, <3>1, SendersWithout
      <3>2. CASE ~Current(c)
        BY <1>3, <1>4, <1>11, <3>2, SendersUnchanged, SendersViews
      <3> QED
        BY <3>1, <3>2
    <2>3. /\ CallsTyped' /\ (\A q \in Procs : q # c => call'[q] = call[q]) /\ call'[c].at = "idle"
          /\ HolderInv' /\ KnowsInv'
      BY <1>2, <1>11, PublishReturns DEF link
    <2>4. InPubs \ InPubs' = {t}
      BY <1>5, <2>1
    <2>5. media' = None
      BY <1>11 DEF Unlock
    <2> QED
      BY <1>5, <1>9, <1>11, <2>1, <2>2, <2>3, <2>4, <2>5
  <1>12. CASE Return(c) /\ Unlock /\ UNCHANGED <<senders, pubs, held>>
    <2>1. /\ Muting' = Muting /\ Audible' = Audible /\ InPubs' = InPubs /\ Used' = Used
          /\ Active' = Active /\ (Distinct(pubs) => Distinct(pubs)')
          /\ Sending' = Sending /\ Heard' = Heard /\ (OneSenderEach => OneSenderEach')
      BY <1>12, PubsUnchanged, SendersUnchanged
    <2>2. /\ CallsTyped' /\ (\A q \in Procs : q # c => call'[q] = call[q]) /\ call'[c].at = "idle"
          /\ HolderInv' /\ KnowsInv'
      BY <1>2, <1>12, PublishReturns DEF link
    <2>3. media' = None /\ pubs' \in Seq(Publications) /\ senders' \in Seq(Senders)
      BY <1>3, <1>12 DEF Unlock
    <2> QED
      BY <1>3, <1>5, <1>9, <1>12, <2>1, <2>2, <2>3
  <1> QED
    BY <1>6, <1>10, <1>11, <1>12
-----------------------------------------------------------------------------
(* stop_publish, by a caller or by the event task. *)

LEMMA StopLocksStep ==
  ASSUME PubBounds, PubInv, NEW p \in Procs, StopLocks(p)
  PROVE  PubInv'
  <1> DEFINE t == call[p].track
  <1>1. /\ call[p].at = "stop" /\ media = None /\ Revoker \in Procs
        /\ UNCHANGED <<retired, senders, link, muted, held, capable, told, astray, due, doubt>>
    BY DEF StopLocks, Procs
  <1>2. /\ conn \in Nat /\ CallsTyped /\ conn' = conn /\ call[p] \in Calls /\ t \in Tracks
        /\ pubs \in Seq(Publications) /\ Distinct(pubs)
    BY <1>1, TypesGiveViews DEF PubInv, link, CallsTyped, KnowsInv, ListsInv
  <1>3. (Position(t) # {} <=> t \in InPubs) /\ Active \subseteq InPubs
    BY <1>2, PubsViews
  <1>4. CASE Position(t) = {}
    <2>0. Return(p) /\ UNCHANGED <<media, pubs, stopped>>
      BY <1>4 DEF StopLocks
    <2>1. /\ CallsTyped' /\ (\A q \in Procs : q # p => call'[q] = call[q]) /\ call'[p].at \in {"idle", "list"}
          /\ call'[p].at = "list" <=> p = Revoker /\ call[p].tracks # {}
          /\ call'[p].tracks = IF p = Revoker THEN call[p].tracks ELSE {}
      BY <1>2, <2>0, CallReturns
    <2>2. PubTyped'
      BY <1>1, <2>0, <2>1 DEF PubInv, PubTyped, link, told
    <2>3. SameHolders /\ TracksTyped' /\ RevokerPlaced'
      <3>1. RevokerPlaced'
        BY <1>1, <2>1 DEF RevokerPlaced, PubInv, HolderInv
      <3> QED
        BY <1>1, <2>1, <3>1 DEF SameHolders, Holding, Beginning, TracksTyped, PubInv, KnowsInv
    <2>4. ListsInv' /\ HolderInv' /\ KnowsInv' /\ PacingInv' /\ SendersInv' /\ AnnouncedInv'
      BY <1>1, <2>0, <2>3, QuietStep DEF link
    <2>5. Active' = Active /\ Audible' = Audible
      BY <2>0, PubsUnchanged
    <2>6. RevokeInv'
      <3>1. CASE p # Revoker
        BY <1>1, <2>1, <2>5, <3>1, RevokerUntouched DEF PubInv, link, Beginning
      <3>2. CASE p = Revoker
        <4>1. ToStop = call[p].tracks \cup {t} /\ ToStop' = call[p].tracks
          BY <1>1, <2>1, <3>2 DEF ToStop
        <4>2. Active \subseteq ToStop => Active' \subseteq ToStop'
          BY <1>3, <1>4, <2>5, <4>1
        <4>3. \A q \in Procs : call'[q].at \in Beginning => call[q].at \in Beginning
          BY <2>1 DEF Beginning
        <4> QED
          BY <1>1, <3>2, <4>2, <4>3 DEF PubInv, RevokeInv, link
      <3> QED
        BY <3>1, <3>2
    <2>7. SfuKnowsInv'
      <3>1. \A q \in Procs : Current(q)' /\ q # p => Current(q)
        BY <1>2, <2>1 DEF Current
      <3> QED
        BY <1>1, <2>1, <2>5, <3>1, SfuUntouched DEF PubInv, link, told
    <2> QED
      BY <2>2, <2>4, <2>6, <2>7 DEF PubInv
  <1>5. CASE Position(t) # {}
    <2> DEFINE r == [call[p] EXCEPT !.at = "stopMute", !.conn = conn, !.to = LastActive(t)]
    <2>0. /\ media' = p /\ pubs' = WithStatus(t, "PendingStopMute") /\ stopped' = stopped \cup {t}
          /\ call' = [call EXCEPT ![p] = r]
      BY <1>5 DEF StopLocks
    <2>a. "stopMute" \in Places /\ LastActive(t) \in BOOLEAN /\ conn \in 0..(Swaps + 1) /\ conn <= conn
      BY LinkIsNumber DEF PubInv, Places, LastActive
    <2>1. /\ r \in Calls /\ r.at = "stopMute" /\ r.conn = conn /\ r.track = t /\ (r.to <=> LastActive(t))
          /\ r.tracks = call[p].tracks
      BY <1>2, <2>a DEF Calls
    <2> HIDE DEF r, t
    <2>2. CallsTyped' /\ (\A q \in Procs : q # p => call'[q] = call[q]) /\ call'[p] = r
      BY <1>2, <2>0, <2>1, <2>a, CallReplaced
    <2>3. \A q \in Procs : call[q].at \notin Holding
      BY <1>1, NobodyHolds DEF PubInv
    <2>4. r.at \in Holding
      BY <2>1 DEF Holding
    <2>5. /\ pubs' \in Seq(Publications) /\ Distinct(pubs)' /\ InPubs' = InPubs /\ Used' = Used
          /\ Negotiating' = Negotiating \ {t} /\ Muting' = Muting \ {t} /\ Audible' = Audible \ {t}
          /\ Stopping' = Stopping \cup {t} /\ Active' = Active \ {t}
      <3>1. t \in InPubs /\ "PendingStopMute" \in Statuses
        BY <1>3, <1>5 DEF Statuses
      <3> QED
        BY <1>2, <2>0, <3>1, PubsMarked
    <2>6. /\ Sending' = Sending /\ Heard' = Heard /\ (OneSenderEach => OneSenderEach')
          /\ KeptOptions' = KeptOptions /\ Retired' = Retired /\ RetiredOptions' = RetiredOptions
      BY <1>1, SendersUnchanged, RetiredUnchanged
    <2>7. PubTyped'
      <3>1. stopped' \in SUBSET Tracks
        BY <1>2, <2>0 DEF PubInv, PubTyped
      <3> QED
        BY <1>1, <2>0, <2>2, <2>5, <3>1 DEF PubInv, PubTyped, link, told
    <2>8. HolderInv'
      <3>1. /\ call'[Revoker].at \in {"idle", "list", "stop", "stopMute"}
            /\ call'[Revoker].at = "idle" => call'[Revoker].tracks = {}
        BY <1>1, <2>1, <2>2 DEF PubInv, HolderInv
      <3>2. \A q \in Procs : call'[q].at \in Holding <=> media' = q
        BY <2>0, <2>2, <2>3, <2>4
      <3>3. (media' = Restore <=> restoring' \in {"sync", "stops"}) /\ (restoring' = "swapped" => due')
        BY <1>1, <2>0 DEF PubInv, HolderInv, PubBounds, link
      <3> QED
        BY <3>1, <3>2, <3>3 DEF HolderInv
    <2>9. ListsInv'
      BY <2>0, <2>5, <2>6 DEF PubInv, ListsInv
    <2>10. KnowsInv'
      <3>1. ASSUME NEW q \in Procs, q # p
            PROVE  KnowsInv!(q)'
        BY <2>2, <2>3, <3>1 DEF PubInv, KnowsInv, Holding, Beginning
      <3>2. KnowsInv!(p)'
        BY <1>2, <2>0, <2>1, <2>2, <2>5 DEF Current, Beginning, LastActive
      <3> QED
        BY <3>1, <3>2 DEF KnowsInv
    <2>11. RevokeInv'
      <3>1. CASE p # Revoker
        BY <1>1, <2>1, <2>2, <2>5, <3>1, RevokerUntouched DEF PubInv, link, Beginning
      <3>2. CASE p = Revoker
        <4>1. ToStop = call[p].tracks \cup {t} /\ ToStop' = call[p].tracks
          BY <1>1, <2>1, <2>2, <3>2 DEF ToStop, t
        <4>2. Active \subseteq ToStop => Active' \subseteq ToStop'
          BY <2>5, <4>1
        <4>3. \A q \in Procs : call'[q].at \in Beginning => call[q].at \in Beginning
          BY <2>1, <2>2 DEF Beginning
        <4> QED
          BY <1>1, <3>2, <4>2, <4>3 DEF PubInv, RevokeInv, link
      <3> QED
        BY <3>1, <3>2
    <2>12. PacingInv'
      <3>1. \A q \in Procs : call'[q].at # "unmute"
        BY <2>1, <2>2, <2>3 DEF Holding
      <3> QED
        BY <1>1, <2>5, <3>1 DEF PubInv, PacingInv, link
    <2>13. SendersInv'
      <3> SUFFICES ASSUME ~astray
                   PROVE  OneSenderEach' /\ Known' /\ RetiredApart' /\ CallsApart'
        BY <1>1 DEF SendersInv
      <3>1. OneSenderEach /\ Known /\ RetiredApart /\ CallsApart
        BY DEF PubInv, SendersInv
      <3>2. Taking = {}
        BY <1>1, NobodyHolds DEF PubInv
      <3>3. OneTrackEach(retired)' = OneTrackEach(retired) /\ Latest' = Latest
        BY <1>1, <2>6 DEF OneTrackEach, Latest
      <3>4. CallsApart'
        BY <2>1, <2>2, <2>3 DEF CallsApart, Holding, Beginning
      <3> QED
        BY <2>5, <2>6, <3>1, <3>2, <3>3, <3>4 DEF Known, RetiredApart
    <2>14. AnnouncedInv'
      <3>1. \A q \in Procs : call'[q].at \notin {"register", "added"}
        BY <2>1, <2>2, <2>3 DEF Holding, Beginning
      <3>2. restoring' = restoring /\ astray' = astray /\ due' = due
        BY <1>1 DEF link
      <3> QED
        BY <2>5, <2>6, <3>1, <3>2 DEF PubInv, AnnouncedInv
    <2>15. SfuKnowsInv'
      <3>1. \A q \in Procs : Current(q)' /\ q # p => Current(q)
        BY <1>2, <2>2 DEF Current
      <3>2. call[p].at = "stop"
        BY <1>1
      <3> QED
        BY <1>1, <2>1, <2>2, <2>5, <3>1, <3>2, SfuUntouched DEF PubInv, link, told
    <2> QED
      BY <2>7, <2>8, <2>9, <2>10, <2>11, <2>12, <2>13, <2>14, <2>15 DEF PubInv
  <1> QED
    BY <1>4, <1>5

LEMMA StopMutesStep ==
  ASSUME PubBounds, PubInv, NEW p \in Procs, StopMutes(p)
  PROVE  PubInv'
  <1> DEFINE t == call[p].track
             o == OptionOf(t)
  <1>1. /\ call[p].at = "stopMute" /\ call[p].at \in Holding /\ Return(p) /\ Unlock /\ Crosses(p)
        /\ UNCHANGED <<senders, link, stopped, muted, capable, due>> /\ Revoker \in Procs
    BY DEF StopMutes, Holding, Procs
  <1>2. /\ media = p /\ (\A q \in Procs : q # p => call[q].at \notin Holding)
        /\ pubs \in Seq(Publications) /\ senders \in Seq(Senders) /\ retired \in Seq(Retirements)
        /\ Distinct(pubs) /\ astray \in BOOLEAN /\ restoring \notin {"sync", "stops"}
        /\ CallsTyped /\ conn \in Nat /\ conn' = conn /\ t \in Tracks
    BY <1>1, HolderFacts DEF link
  <1>3. /\ t \in Stopping /\ t \in stopped /\ (call[p].to => Active = {})
        /\ ~Current(p) => senders = <<>> /\ restoring = "swapped" /\ ~connected
    BY <1>1 DEF PubInv, KnowsInv
  <1>4. t \in InPubs /\ t \notin Negotiating /\ t \notin Muting /\ t \notin Audible /\ t \notin Active
    <2>1. t \in InPubs /\ Active = Negotiating \cup Muting \cup Audible
      BY <1>2, <1>3, PubsViews
    <2>2. t \notin Negotiating /\ t \notin Muting /\ t \notin Audible
      BY <1>2, <1>3, OneStatus
    <2> QED
      BY <2>1, <2>2
  <1>5. \/ /\ sfuMuted' = (IF Current(p) THEN call[p].to ELSE sfuMuted)
           /\ listed' = (listed /\ ~(Current(p) /\ call[p].to))
           /\ retired' = Append(retired, [track |-> t, option |-> o])
           /\ pubs' = Without(t) /\ held' = held \ {t}
           /\ astray' = (astray \/ \E k \in SenderOf(t) : ~senders[k].announced)
        \/ UNCHANGED <<sfuMuted, listed, retired, pubs, held, astray>>
    BY DEF StopMutes
  <1>6. /\ CallsTyped' /\ (\A q \in Procs : q # p => call'[q] = call[q]) /\ call'[p].at \in {"idle", "list"}
        /\ call'[p].at = "list" <=> p = Revoker /\ call[p].tracks # {}
        /\ call'[p].tracks = IF p = Revoker THEN call[p].tracks ELSE {}
    BY <1>1, <1>2, CallReturns
  <1>7. HolderInv' /\ KnowsInv'
    <2>1. call'[p].at \notin Holding /\ media' = None /\ UNCHANGED <<restoring, due>>
      BY <1>1, <1>6 DEF Holding, Beginning, Unlock, link
    <2>2. p = Revoker => call'[p].at \in {"idle", "list"} /\ (call'[p].at = "idle" => call'[p].tracks = {})
      BY <1>6
    <2> QED
      BY <1>1, <1>6, <2>1, <2>2, HolderMoves
  <1>8. Sending' = Sending /\ Heard' = Heard /\ (OneSenderEach => OneSenderEach')
    BY <1>1, SendersUnchanged
  <1>9. (\A q \in Procs : call'[q].at \notin Holding) /\ Taking = {} /\ Taking' = {}
    <2>1. \A q \in Procs : call'[q].at \notin Holding
      BY <1>2, <1>6 DEF Holding, Beginning
    <2> QED
      BY <1>1, <1>2, <2>1 DEF Taking, Holding, Beginning
  <1> HIDE DEF t, o
  \* In both cases the active publications are left as they are.
  <1>10. ASSUME /\ pubs' \in Seq(Publications) /\ Distinct(pubs)' /\ Active' = Active /\ Muting' = Muting
                /\ Audible' = Audible,
                retired' \in Seq(Retirements), Retired' \subseteq stopped,
                held' \subseteq held, astray' \in BOOLEAN, astray => astray',
                sfuMuted' \in BOOLEAN, listed' \in BOOLEAN,
                ~astray' => Known' /\ RetiredApart',
                SfuKnowsInv'
         PROVE  PubInv'
    <2>1. PubTyped'
      <3>1. held' \in SUBSET Tracks /\ doubt' \in BOOLEAN
        BY <1>1, <1>10 DEF PubInv, PubTyped, Crosses
      <3> QED
        BY <1>1, <1>6, <1>10, <3>1 DEF PubInv, PubTyped, link, Unlock
    <2>2. ListsInv'
      BY <1>1, <1>10 DEF ListsInv
    <2>3. RevokeInv'
      <3>1. \A q \in Procs : call'[q].at \notin Beginning
        BY <1>9 DEF Holding
      <3>2. CASE p # Revoker
        BY <1>1, <1>6, <1>10, <3>1, <3>2, RevokerUntouched DEF PubInv, link
      <3>3. CASE p = Revoker
        <4>1. ToStop = call[p].tracks /\ ToStop' = call[p].tracks
          BY <1>1, <1>6, <3>3 DEF ToStop
        <4> QED
          BY <1>1, <1>10, <3>1, <3>3, <4>1 DEF PubInv, RevokeInv, link
      <3> QED
        BY <3>2, <3>3
    <2>4. PacingInv'
      BY <1>1, <1>9, <1>10 DEF PubInv, PacingInv, link, Holding
    <2>5. SendersInv'
      <3>1. ~astray' => OneSenderEach'
        BY <1>8, <1>10 DEF PubInv, SendersInv
      <3>2. CallsApart'
        BY <1>9 DEF CallsApart, Holding
      <3> QED
        BY <1>10, <3>1, <3>2 DEF SendersInv
    <2>6. AnnouncedInv'
      <3>1. \A q \in Procs : call'[q].at \notin {"register", "added"}
        BY <1>9 DEF Holding, Beginning
      <3>2. restoring' = restoring /\ due' = due
        BY <1>1 DEF link
      <3> QED
        BY <1>8, <1>10, <3>1, <3>2 DEF PubInv, AnnouncedInv
    <2> QED
      BY <1>7, <1>10, <2>1, <2>2, <2>3, <2>4, <2>5, <2>6 DEF PubInv
  <1>11. \A q \in Procs : Current(q)' /\ q # p => Current(q)
    BY <1>2, <1>6 DEF Current
  <1>a. doubt => doubt'
    BY <1>1 DEF Crosses
  <1>12. CASE UNCHANGED <<sfuMuted, listed, retired, pubs, held, astray>>
    <2>1. /\ Muting' = Muting /\ Audible' = Audible /\ Active' = Active /\ (Distinct(pubs) => Distinct(pubs)')
          /\ InPubs' = InPubs /\ Used' = Used
      BY <1>12, PubsUnchanged
    <2>2. KeptOptions' = KeptOptions /\ Retired' = Retired
      BY <1>1, <1>12, SendersUnchanged, RetiredUnchanged
    <2>3. SfuKnowsInv'
      BY <1>1, <1>6, <1>11, <1>12, <1>a, <2>1, SfuUntouched DEF PubInv, link
    <2>4. ~astray' => Known' /\ RetiredApart'
      <3>1. OneTrackEach(retired)' = OneTrackEach(retired) /\ Latest' = Latest
        BY <1>8, <1>12 DEF OneTrackEach, Latest
      <3>2. ~astray' => Known /\ RetiredApart
        BY <1>12 DEF PubInv, SendersInv
      <3> QED
        BY <1>8, <1>9, <2>1, <2>2, <3>1, <3>2 DEF Known, RetiredApart
    <2>5. Retired' \subseteq stopped /\ sfuMuted' \in BOOLEAN /\ listed' \in BOOLEAN
      BY <1>12, <2>2 DEF PubInv, PubTyped, ListsInv
    <2> QED
      BY <1>2, <1>10, <1>12, <2>1, <2>3, <2>4, <2>5
  <1>13. CASE /\ sfuMuted' = (IF Current(p) THEN call[p].to ELSE sfuMuted)
              /\ listed' = (listed /\ ~(Current(p) /\ call[p].to))
              /\ retired' = Append(retired, [track |-> t, option |-> o])
              /\ pubs' = Without(t) /\ held' = held \ {t}
              /\ astray' = (astray \/ \E k \in SenderOf(t) : ~senders[k].announced)
    <2>1. /\ pubs' \in Seq(Publications) /\ Distinct(pubs)'
          /\ InPubs' = InPubs \ {t} /\ Used' = Used \ {o} /\ o \in Used
          /\ Muting' = Muting /\ Audible' = Audible /\ Active' = Active
      <3>1. /\ pubs' \in Seq(Publications) /\ Distinct(pubs)'
            /\ InPubs' = InPubs \ {t} /\ Used' = Used \ {o} /\ o \in Used
            /\ Muting' = Muting \ {t} /\ Audible' = Audible \ {t} /\ Active' = Active \ {t}
        BY <1>2, <1>4, <1>13, PubsWithout DEF o
      <3> QED
        BY <1>4, <3>1
    <2>2. o \in 1..NumOptions
      <3>1. \A i \in DOMAIN pubs : pubs[i] \in Publications
        BY <1>2
      <3> QED
        BY <2>1, <3>1 DEF Used, OptionsOf, Publications
    <2>3. /\ retired' \in Seq(Retirements) /\ Retired' = Retired \cup {t}
          /\ OneTrackEach(retired) /\ t \notin Retired => OneTrackEach(retired)'
          /\ KeptOptions' \subseteq KeptOptions \cup {o}
          /\ Latest /\ o \notin KeptOptions => Latest'
      BY <1>2, <1>8, <1>13, <2>2, RetiredAppended
    <2>4. Retired' \subseteq stopped
      BY <1>3, <2>3 DEF PubInv, ListsInv
    <2>5. astray' \in BOOLEAN /\ (astray => astray') /\ sfuMuted' \in BOOLEAN /\ listed' \in BOOLEAN
      <3>1. call[p] \in Calls /\ sfuMuted \in BOOLEAN /\ listed \in BOOLEAN
        BY <1>2 DEF CallsTyped, PubInv, PubTyped
      <3> QED
        BY <1>13, <3>1, CallFields
    <2>6. ~astray' => Known' /\ RetiredApart'
      <3> SUFFICES ASSUME ~astray'
                   PROVE  Known' /\ RetiredApart'
        OBVIOUS
      <3>1. ~astray /\ \A k \in SenderOf(t) : senders[k].announced
        BY <1>13
      <3>2. Known /\ RetiredApart
        BY <3>1 DEF PubInv, SendersInv
      <3>3. t \in Sending => t \in Heard
        BY <1>2, <3>1, SendersViews
      <3>4. t \notin Retired /\ o \notin KeptOptions
        BY <1>4, <2>1, <3>2 DEF RetiredApart
      <3>5. OneTrackEach(retired)' /\ Latest'
        BY <2>3, <3>2, <3>4 DEF RetiredApart
      <3>6. Known'
        BY <1>8, <1>9, <2>1, <2>3, <3>2 DEF Known
      <3>7. RetiredApart'
        BY <1>8, <2>1, <2>3, <3>2, <3>3, <3>5 DEF RetiredApart
      <3> QED
        BY <3>6, <3>7
    <2>7. SfuKnowsInv'
      <3> SUFFICES ASSUME ~doubt'
                   PROVE  SfuKnowsInv'
        BY DEF SfuKnowsInv
      <3>1. doubt \in BOOLEAN
        BY DEF PubInv, PubTyped
      <3>2. ~doubt /\ \A q \in Procs : q # p => call[q].at # "answer"
        BY <1>1, <3>1, NotCrossed
      <3>3. \A q \in Procs : call[q].at # "answer" /\ call'[q].at \notin {"answer", "unmute"}
        BY <1>1, <1>6, <1>9, <3>2 DEF Holding
      <3>4. Answering = {} /\ Answering' = {}
        BY <3>3 DEF Answering
      <3>5. restoring' = restoring /\ muted' = muted
        BY <1>1 DEF link
      <3>6. restoring \in {"none", "stops"} => Current(p)
        BY <1>3
      <3>7. call[p].to => Audible = {}
        BY <1>2, <1>3, PubsViews
      <3>8. restoring \in {"none", "stops"} /\ ~(Audible \subseteq muted) => ~sfuMuted /\ listed
        BY <3>2, <3>4 DEF PubInv, SfuKnowsInv
      <3>9. call[p].to \in BOOLEAN
        BY <1>2, CallFields DEF CallsTyped
      <3>10. restoring \in {"none", "stops"} /\ ~(Audible \subseteq muted) => ~sfuMuted' /\ listed'
        BY <1>13, <3>6, <3>7, <3>8, <3>9
      <3> QED
        BY <2>1, <3>3, <3>4, <3>5, <3>10 DEF SfuKnowsInv
    <2>8. held' \subseteq held
      BY <1>13
    <2> QED
      BY <1>10, <2>1, <2>3, <2>4, <2>5, <2>6, <2>7, <2>8
  <1> QED
    BY <1>5, <1>12, <1>13
-----------------------------------------------------------------------------
(* The events and the reconnect. *)

\* While nobody holds the lock the calls know nothing of the lists.
LEMMA CallsWait ==
  ASSUME PubBounds, PubInv, call' = call, conn' = conn, media \in {None, Restore},
         media' \in {None, Restore}, media' = Restore <=> restoring' \in {"sync", "stops"},
         restoring' = "swapped" => due'
  PROVE  /\ CallsTyped' /\ HolderInv' /\ KnowsInv' /\ CallsApart' /\ Taking = {} /\ Taking' = {}
         /\ \A q \in Procs : call'[q].at \notin Holding /\ call'[q].at \notin Beginning
         /\ \A q \in Procs : call'[q].at \notin {"register", "added", "unmute"}
         /\ Answering' = Answering /\ \A q \in Procs : Current(q)' <=> Current(q)
  <1>1. (\A q \in Procs : call[q].at \notin Holding) /\ Taking = {}
    BY NobodyHolds DEF PubInv
  <1>2. /\ \A q \in Procs : call'[q].at \notin Holding /\ call'[q].at \notin Beginning
        /\ \A q \in Procs : call'[q].at \notin {"register", "added", "unmute"}
    BY <1>1 DEF Holding, Beginning
  <1>3. CallsTyped'
    BY DEF CallsTyped, PubInv, PubTyped
  <1>4. HolderInv'
    BY <1>1, <1>2 DEF HolderInv, PubInv, PubBounds
  <1>5. KnowsInv'
    BY <1>2 DEF KnowsInv, PubInv, Holding, Beginning
  <1>6. CallsApart'
    BY <1>2 DEF CallsApart
  <1>7. Taking' = {}
    BY <1>2 DEF Taking
  <1>8. Answering' = Answering /\ \A q \in Procs : Current(q)' <=> Current(q)
    BY DEF Answering, Current
  <1> QED
    BY <1>1, <1>2, <1>3, <1>4, <1>5, <1>6, <1>7, <1>8

\* The revoker goes on, or has nothing to do.
LEMMA RevokerWaits ==
  ASSUME PubInv, capable' = capable, restoring # "swapped", call' = call, Active' \subseteq Active
  PROVE  RevokeInv'
  BY DEF PubInv, RevokeInv, ToStop

LEMMA OptionsChangeStep ==
  ASSUME PubBounds, PubInv, OptionsChange
  PROVE  PubInv'
  <1>1. /\ media = None /\ pubs' = Refreshed /\ astray' = (astray \/ Stays)
        /\ senders' \in {senders, Announced(senders)}
        /\ UNCHANGED <<media, retired, link, flags, capable, told, call, due, doubt>>
    BY DEF OptionsChange
  <1>2. /\ pubs \in Seq(Publications) /\ senders \in Seq(Senders) /\ retired \in Seq(Retirements)
        /\ Distinct(pubs) /\ NumOptions \in Nat /\ astray \in BOOLEAN /\ restoring \notin {"sync", "stops"}
    BY <1>1 DEF PubInv, PubTyped, ListsInv, HolderInv, PubBounds
  <1>3. /\ pubs' \in Seq(Publications) /\ Distinct(pubs)' /\ InPubs' = InPubs
        /\ Active' = Active /\ Negotiating' = Negotiating /\ Muting' = Muting /\ Audible' = Audible
        /\ Stopping' = Stopping
    BY <1>1, <1>2, PubsRefreshed
  <1>4. /\ senders' \in Seq(Senders) /\ Sending' = Sending /\ Heard \subseteq Heard'
        /\ OneSenderEach => OneSenderEach'
    <2>1. CASE senders' = senders
      BY <1>2, <2>1, SendersUnchanged
    <2>2. CASE senders' = Announced(senders)
      BY <1>2, <2>2, SendersAnnounced DEF Sending, Heard, OneSenderEach
    <2> QED
      BY <1>1, <2>1, <2>2
  <1>5. Retired' = Retired /\ KeptOptions' \subseteq KeptOptions
    BY <1>1, <1>4, RetiredUnchanged
  <1>6. /\ CallsTyped' /\ HolderInv' /\ KnowsInv' /\ CallsApart' /\ Taking = {} /\ Taking' = {}
        /\ \A q \in Procs : call'[q].at \notin {"register", "added", "unmute"}
        /\ Answering' = Answering /\ \A q \in Procs : Current(q)' <=> Current(q)
    <2>1. restoring' = restoring /\ conn' = conn /\ call' = call /\ due' = due
      BY <1>1 DEF link
    <2>2. (media' = Restore <=> restoring' \in {"sync", "stops"}) /\ (restoring' = "swapped" => due')
      BY <1>1, <1>2, <2>1 DEF PubInv, HolderInv, PubBounds
    <2> QED
      BY <1>1, <2>1, <2>2, CallsWait
  <1>7. PubTyped'
    BY <1>1, <1>2, <1>3, <1>4, <1>6 DEF PubInv, PubTyped, link, flags, told, Stays
  <1>8. ListsInv'
    BY <1>1, <1>3, <1>5 DEF PubInv, ListsInv, flags
  <1>9. RevokeInv'
    <2>1. call'[Revoker] = call[Revoker] /\ restoring' = restoring /\ capable' = capable
      BY <1>1 DEF link
    <2>2. \A q \in Procs : call'[q].at \in Beginning => call[q].at \in Beginning
      BY <1>1
    <2> QED
      BY <1>3, <2>1, <2>2, RevokerUntouched DEF PubInv
  <1>10. PacingInv'
    BY <1>1, <1>2, <1>3, <1>6 DEF PubInv, PacingInv, link, flags
  <1>11. SendersInv'
    <2> SUFFICES ASSUME ~astray'
                 PROVE  OneSenderEach' /\ Known' /\ RetiredApart' /\ CallsApart'
      BY DEF SendersInv
    <2>1. ~astray /\ Retired \cap Sending = {} /\ KeptOptions = {}
      BY <1>1, <1>2, RetiredViews
    <2>2. OneSenderEach /\ Known /\ RetiredApart
      BY <2>1 DEF PubInv, SendersInv
    <2>3. OneTrackEach(retired)' /\ Latest'
      BY <1>1, <1>4, <2>2 DEF OneTrackEach, Latest, RetiredApart
    <2> QED
      BY <1>3, <1>4, <1>5, <1>6, <2>1, <2>2, <2>3 DEF Known, RetiredApart
  <1>12. AnnouncedInv'
    BY <1>1, <1>2, <1>3, <1>4, <1>6 DEF PubInv, AnnouncedInv, link
  <1>13. SfuKnowsInv'
    BY <1>1, <1>3, <1>6, SfuUntouched DEF PubInv, link, flags, told
  <1> QED
    BY <1>6, <1>7, <1>8, <1>9, <1>10, <1>11, <1>12, <1>13 DEF PubInv

\* Steps that leave the lists and the calls alone.
LEMMA ListsStay ==
  ASSUME PubInv, UNCHANGED <<lists, call, stopped, astray>>
  PROVE  /\ Negotiating' = Negotiating /\ Muting' = Muting /\ Audible' = Audible /\ Stopping' = Stopping
         /\ InPubs' = InPubs /\ Used' = Used /\ Active' = Active
         /\ Sending' = Sending /\ Heard' = Heard /\ Retired' = Retired /\ RetiredOptions' = RetiredOptions
         /\ ListsInv' /\ SendersInv'
  <1>1. /\ Negotiating' = Negotiating /\ Muting' = Muting /\ Audible' = Audible /\ Stopping' = Stopping
        /\ InPubs' = InPubs /\ Used' = Used /\ Active' = Active /\ (Distinct(pubs) => Distinct(pubs)')
    BY PubsUnchanged DEF lists
  <1>2. /\ Sending' = Sending /\ Heard' = Heard /\ (OneSenderEach => OneSenderEach')
        /\ KeptOptions' = KeptOptions /\ Retired' = Retired /\ RetiredOptions' = RetiredOptions
    BY SendersUnchanged, RetiredUnchanged DEF lists
  <1>3. ListsInv'
    BY <1>1, <1>2 DEF PubInv, ListsInv
  <1>4. Taking' = Taking /\ (CallsApart => CallsApart')
    BY <1>2 DEF Taking, CallsApart
  <1>5. OneTrackEach(retired)' = OneTrackEach(retired) /\ Latest' = Latest
    BY <1>2 DEF OneTrackEach, Latest, lists
  <1>6. (Known => Known') /\ (RetiredApart => RetiredApart')
    BY <1>1, <1>2, <1>4, <1>5 DEF Known, RetiredApart
  <1>7. SendersInv'
    BY <1>2, <1>4, <1>6 DEF PubInv, SendersInv
  <1> QED
    BY <1>1, <1>2, <1>3, <1>7

LEMMA PublisherConnectsStep ==
  ASSUME PubBounds, PubInv, PublisherConnects
  PROVE  PubInv'
  <1>1. /\ senders # <<>> /\ connected' = TRUE /\ notify' = TRUE
        /\ UNCHANGED <<media, lists, conn, restoring, flags, capable, told, call, astray, due, doubt>>
    BY DEF PublisherConnects
  <1>2. /\ Negotiating' = Negotiating /\ Muting' = Muting /\ Audible' = Audible /\ Stopping' = Stopping
        /\ InPubs' = InPubs /\ Used' = Used /\ Active' = Active
        /\ Sending' = Sending /\ Heard' = Heard /\ Retired' = Retired /\ RetiredOptions' = RetiredOptions
        /\ ListsInv' /\ SendersInv'
    BY <1>1, ListsStay DEF flags
  <1>3. PubTyped'
    BY <1>1 DEF PubInv, PubTyped, lists, flags, told, CallsTyped
  <1>4. HolderInv'
    BY <1>1 DEF PubInv, HolderInv
  <1>5. KnowsInv'
    BY <1>1, <1>2 DEF PubInv, KnowsInv, Current, lists, flags
  <1>6. RevokeInv'
    BY <1>1, <1>2, RevokerUntouched DEF PubInv
  <1>7. PacingInv'
    BY <1>1 DEF PacingInv
  <1>8. AnnouncedInv'
    BY <1>1, <1>2 DEF PubInv, AnnouncedInv
  <1>9. SfuKnowsInv'
    BY <1>1, <1>2, SfuUntouched DEF PubInv, flags, told, Current
  <1> QED
    BY <1>2, <1>3, <1>4, <1>5, <1>6, <1>7, <1>8, <1>9 DEF PubInv

LEMMA PacingStartsStep ==
  ASSUME PubBounds, PubInv, PacingStarts
  PROVE  PubInv'
  <1>1. /\ media = None /\ notify' = FALSE /\ held' = (IF connected THEN held \ Active ELSE held)
        /\ UNCHANGED <<media, lists, conn, connected, restoring, stopped, muted, capable, told, call,
                       astray, due, doubt>>
    BY DEF PacingStarts
  <1>2. /\ Negotiating' = Negotiating /\ Muting' = Muting /\ Audible' = Audible /\ Stopping' = Stopping
        /\ InPubs' = InPubs /\ Used' = Used /\ Active' = Active
        /\ Sending' = Sending /\ Heard' = Heard /\ Retired' = Retired /\ RetiredOptions' = RetiredOptions
        /\ ListsInv' /\ SendersInv'
    BY <1>1, ListsStay
  <1>3. PubTyped'
    <2>1. held' \in SUBSET Tracks
      BY <1>1 DEF PubInv, PubTyped
    <2> QED
      BY <1>1, <2>1 DEF PubInv, PubTyped, lists, told, CallsTyped
  <1>4. HolderInv' /\ KnowsInv' /\ \A q \in Procs : call'[q].at \notin {"register", "added", "unmute"}
    <2>1. /\ media' = Restore <=> restoring' \in {"sync", "stops"}
          /\ restoring' = "swapped" => due'
      BY <1>1 DEF PubInv, HolderInv
    <2> QED
      BY <1>1, <2>1, CallsWait
  <1>5. RevokeInv'
    BY <1>1, <1>2, RevokerUntouched DEF PubInv
  <1>6. PacingInv'
    <2>1. Audible \subseteq Active
      BY PubsViews DEF PubInv, PubTyped
    <2> QED
      BY <1>1, <1>2, <1>4, <2>1 DEF PacingInv
  <1>7. AnnouncedInv'
    BY <1>1, <1>2 DEF PubInv, AnnouncedInv
  <1>8. SfuKnowsInv'
    BY <1>1, <1>2, SfuUntouched DEF PubInv, told, Current
  <1> QED
    BY <1>2, <1>3, <1>4, <1>5, <1>6, <1>7, <1>8 DEF PubInv

LEMMA SwapStep ==
  ASSUME PubBounds, PubInv, Swap
  PROVE  PubInv'
  <1>1. /\ restoring \in {"none", "failed"} /\ conn <= Swaps
        /\ conn' = conn + 1 /\ senders' = <<>> /\ connected' = FALSE /\ capable' \in BOOLEAN
        /\ sfuMuted' = TRUE /\ listed' = FALSE /\ restoring' = "swapped" /\ due' = TRUE
        /\ UNCHANGED <<media, pubs, retired, notify, flags, call, astray, doubt>>
    BY DEF Swap
  <1>2. /\ Negotiating' = Negotiating /\ Muting' = Muting /\ Audible' = Audible /\ Stopping' = Stopping
        /\ InPubs' = InPubs /\ Used' = Used /\ Active' = Active /\ (Distinct(pubs) => Distinct(pubs)')
        /\ Retired' = Retired /\ RetiredOptions' = RetiredOptions
    BY <1>1, PubsUnchanged, RetiredUnchanged
  <1>3. /\ senders' \in Seq(Senders) /\ Sending' = {} /\ Heard' = {} /\ OneSenderEach'
        /\ KeptOptions' = {}
    BY <1>1, SendersCleared
  <1>4. conn \in Nat /\ conn' \in 1..(Swaps + 1) /\ \A q \in Procs : call[q].conn \in Nat /\ call[q].conn <= conn
    BY <1>1 DEF PubBounds, PubInv, PubTyped, CallsTyped, Calls
  <1>5. CallsTyped' /\ \A q \in Procs : ~Current(q)'
    BY <1>1, <1>4 DEF CallsTyped, PubInv, PubTyped, Current
  <1>6. PubTyped'
    BY <1>1, <1>3, <1>4, <1>5 DEF PubInv, PubTyped, flags
  <1>7. ListsInv'
    BY <1>1, <1>2 DEF PubInv, ListsInv, flags
  <1>8. HolderInv'
    BY <1>1 DEF PubInv, HolderInv
  <1>9. KnowsInv'
    BY <1>1, <1>2 DEF PubInv, KnowsInv, flags
  <1>10. RevokeInv' /\ PacingInv' /\ AnnouncedInv'
    BY <1>1 DEF RevokeInv, PacingInv, AnnouncedInv
  <1>11. SendersInv'
    <2>1. Known'
      BY <1>3 DEF Known
    <2>2. Latest' /\ (OneTrackEach(retired) => OneTrackEach(retired)')
      BY <1>1, <1>3 DEF Latest, OneTrackEach
    <2>3. RetiredApart => RetiredApart'
      BY <1>2, <1>3, <2>2 DEF RetiredApart
    <2>4. CallsApart => CallsApart'
      BY <1>1, <1>2, <1>3 DEF CallsApart
    <2> QED
      BY <1>1, <1>3, <2>1, <2>3, <2>4 DEF PubInv, SendersInv
  <1>12. SfuKnowsInv'
    BY <1>1, <1>5 DEF SfuKnowsInv
  <1> QED
    BY <1>6, <1>7, <1>8, <1>9, <1>10, <1>11, <1>12 DEF PubInv

LEMMA FastBeginsStep ==
  ASSUME PubBounds, PubInv, FastBegins
  PROVE  PubInv'
  <1>1. /\ restoring \in {"none", "failed"} /\ restoring' = "fast"
        /\ UNCHANGED <<media, lists, conn, connected, notify, flags, capable, told, call, astray, due, doubt>>
    BY DEF FastBegins
  <1>2. /\ Negotiating' = Negotiating /\ Muting' = Muting /\ Audible' = Audible /\ Stopping' = Stopping
        /\ InPubs' = InPubs /\ Used' = Used /\ Active' = Active
        /\ Sending' = Sending /\ Heard' = Heard /\ Retired' = Retired /\ RetiredOptions' = RetiredOptions
        /\ ListsInv' /\ SendersInv'
    BY <1>1, ListsStay DEF flags
  <1>3. PubTyped'
    BY <1>1 DEF PubInv, PubTyped, lists, flags, told, CallsTyped
  <1>4. HolderInv'
    BY <1>1 DEF PubInv, HolderInv
  <1>5. KnowsInv'
    BY <1>1, <1>2 DEF PubInv, KnowsInv, Current, lists, flags
  <1>6. RevokeInv'
    BY <1>1, <1>2, RevokerWaits
  <1>7. PacingInv'
    BY <1>1, <1>2 DEF PubInv, PacingInv, flags
  <1>8. AnnouncedInv'
    BY <1>1, <1>2 DEF PubInv, AnnouncedInv
  <1>9. SfuKnowsInv'
    BY <1>1 DEF PubInv, SfuKnowsInv, told, Current
  <1> QED
    BY <1>2, <1>3, <1>4, <1>5, <1>6, <1>7, <1>8, <1>9 DEF PubInv

LEMMA FastRestartsStep ==
  ASSUME PubBounds, PubInv, FastRestarts
  PROVE  PubInv'
  <1>1. /\ restoring = "fast" /\ media = None /\ media' = Restore
        /\ senders' = Announced(senders) /\ connected' = (connected /\ Active = {})
        /\ restoring' = (IF Active = {} THEN "stops" ELSE "sync")
        /\ UNCHANGED <<pubs, retired, conn, notify, flags, capable, told, call, astray, due, doubt>>
    BY DEF FastRestarts
  <1>2. /\ Negotiating' = Negotiating /\ Muting' = Muting /\ Audible' = Audible /\ Stopping' = Stopping
        /\ InPubs' = InPubs /\ Used' = Used /\ Active' = Active /\ (Distinct(pubs) => Distinct(pubs)')
        /\ Retired' = Retired /\ RetiredOptions' = RetiredOptions
    BY <1>1, PubsUnchanged, RetiredUnchanged
  <1>3. /\ senders' \in Seq(Senders) /\ Sending' = Sending /\ Heard' = Heard \cup (Sending \cap Active)
        /\ OneSenderEach => OneSenderEach'
    BY <1>1, SendersAnnounced DEF Sending, Heard, OneSenderEach, PubInv, PubTyped
  <1>4. KeptOptions' \subseteq KeptOptions
    BY <1>1, <1>3, RetiredUnchanged
  <1>5. /\ CallsTyped' /\ HolderInv' /\ KnowsInv' /\ CallsApart' /\ Taking = {} /\ Taking' = {}
        /\ \A q \in Procs : call'[q].at \notin {"register", "added", "unmute"}
        /\ Answering' = Answering /\ \A q \in Procs : Current(q)' <=> Current(q)
    <2>1. (media' = Restore <=> restoring' \in {"sync", "stops"}) /\ (restoring' = "swapped" => due')
      BY <1>1
    <2> QED
      BY <1>1, <2>1, CallsWait
  <1>6. PubTyped'
    BY <1>1, <1>3, <1>5 DEF PubInv, PubTyped, flags, told, Procs
  <1>7. ListsInv'
    BY <1>1, <1>2 DEF PubInv, ListsInv, flags
  <1>8. RevokeInv'
    BY <1>1, <1>2, RevokerWaits
  <1>9. Audible \subseteq Active
    BY PubsViews DEF PubInv, PubTyped
  <1>10. PacingInv'
    BY <1>1, <1>2, <1>5, <1>9 DEF PubInv, PacingInv, flags
  <1>11. SendersInv'
    <2>1. Known => Known'
      BY <1>2, <1>3, <1>5 DEF Known
    <2>2. RetiredApart => OneTrackEach(retired)' /\ Latest'
      BY <1>1, <1>3 DEF OneTrackEach, Latest, RetiredApart
    <2>3. RetiredApart => RetiredApart'
      BY <1>2, <1>3, <1>4, <2>2 DEF RetiredApart
    <2> QED
      BY <1>1, <1>3, <1>5, <2>1, <2>3 DEF PubInv, SendersInv
  <1>12. AnnouncedInv'
    BY <1>1, <1>2, <1>3, <1>5 DEF PubInv, AnnouncedInv
  <1>13. SfuKnowsInv'
    <2>1. restoring' = "stops" => Audible' = {}
      BY <1>1, <1>2, <1>9
    <2>2. restoring' # "none"
      BY <1>1
    <2> QED
      BY <1>5, <2>1, <2>2 DEF SfuKnowsInv
  <1> QED
    BY <1>5, <1>6, <1>7, <1>8, <1>10, <1>11, <1>12, <1>13 DEF PubInv

LEMMA RestoreFailsStep ==
  ASSUME PubBounds, PubInv, RestoreFails
  PROVE  PubInv'
  <1>1. /\ restoring \in {"fast", "sync", "stops"} /\ restoring' = "failed"
        /\ media' = (IF media = Restore THEN None ELSE media)
        /\ UNCHANGED <<lists, conn, connected, notify, flags, capable, told, call, astray, due, doubt>>
    BY DEF RestoreFails
  <1>2. /\ Negotiating' = Negotiating /\ Muting' = Muting /\ Audible' = Audible /\ Stopping' = Stopping
        /\ InPubs' = InPubs /\ Used' = Used /\ Active' = Active
        /\ Sending' = Sending /\ Heard' = Heard /\ Retired' = Retired /\ RetiredOptions' = RetiredOptions
        /\ ListsInv' /\ SendersInv'
    BY <1>1, ListsStay DEF flags
  <1>3. PubTyped'
    BY <1>1 DEF PubInv, PubTyped, lists, flags, told, CallsTyped
  <1>4. HolderInv'
    <2>1. \A q \in Procs : media = q <=> media' = q
      BY <1>1 DEF PubBounds
    <2>2. media' # Restore
      BY <1>1 DEF PubBounds
    <2> QED
      BY <1>1, <2>1, <2>2 DEF PubInv, HolderInv
  <1>5. KnowsInv'
    BY <1>1, <1>2 DEF PubInv, KnowsInv, Current, lists, flags
  <1>6. RevokeInv'
    BY <1>1, <1>2, RevokerWaits
  <1>7. PacingInv'
    BY <1>1, <1>2 DEF PubInv, PacingInv, flags
  <1>8. AnnouncedInv'
    BY <1>1, <1>2 DEF PubInv, AnnouncedInv
  <1>9. SfuKnowsInv'
    BY <1>1 DEF PubInv, SfuKnowsInv, told, Current
  <1> QED
    BY <1>2, <1>3, <1>4, <1>5, <1>6, <1>7, <1>8, <1>9 DEF PubInv
LEMMA RestoreSyncsStep ==
  ASSUME PubBounds, PubInv, RestoreSyncs
  PROVE  PubInv'
  <1>1. /\ restoring = "sync" /\ restoring' = "stops"
        /\ sfuMuted' = (Active \subseteq muted) /\ listed' = ~(Active \subseteq muted)
        /\ pubs' = AllPublished
        /\ astray' = (astray \/ (connected /\ ~notify /\ Active \cap held # {}))
        /\ doubt' = (doubt \/ \E p \in Procs : call[p].at = "answer")
        /\ UNCHANGED <<media, retired, senders, conn, connected, notify, flags, capable, call, due>>
    BY DEF RestoreSyncs
  <1>2. /\ pubs \in Seq(Publications) /\ Distinct(pubs) /\ media = Restore
        /\ astray \in BOOLEAN /\ doubt \in BOOLEAN
    BY <1>1 DEF PubInv, PubTyped, ListsInv, HolderInv
  <1>3. /\ pubs' \in Seq(Publications) /\ Distinct(pubs)' /\ InPubs' = InPubs /\ Used' = Used
        /\ Active' = Active /\ Negotiating' = {} /\ Muting' = {} /\ Audible' = Active
        /\ Stopping' = Stopping
    BY <1>1, <1>2, PubsSettled
  <1>4. /\ Sending' = Sending /\ Heard' = Heard /\ (OneSenderEach => OneSenderEach')
        /\ KeptOptions' = KeptOptions /\ Retired' = Retired /\ RetiredOptions' = RetiredOptions
    BY <1>1, SendersUnchanged, RetiredUnchanged
  <1>5. /\ CallsTyped' /\ HolderInv' /\ KnowsInv' /\ CallsApart' /\ Taking = {} /\ Taking' = {}
        /\ \A q \in Procs : call'[q].at \notin {"register", "added", "unmute"}
        /\ Answering' = Answering
    BY <1>1, <1>2, CallsWait
  <1>6. PubTyped'
    BY <1>1, <1>2, <1>3, <1>5 DEF PubInv, PubTyped, flags
  <1>7. ListsInv'
    BY <1>1, <1>3, <1>4 DEF PubInv, ListsInv, flags
  <1>8. RevokeInv'
    BY <1>1, <1>3, RevokerWaits
  <1>9. PacingInv'
    BY <1>1, <1>2, <1>3, <1>5 DEF PacingInv, flags
  <1>10. SendersInv'
    <2>1. astray => astray'
      BY <1>1
    <2>2. Known => Known'
      BY <1>3, <1>4, <1>5 DEF Known
    <2>3. OneTrackEach(retired)' = OneTrackEach(retired) /\ Latest' = Latest
      BY <1>1, <1>4 DEF OneTrackEach, Latest
    <2>4. RetiredApart => RetiredApart'
      BY <1>3, <1>4, <2>3 DEF RetiredApart
    <2> QED
      BY <1>4, <1>5, <2>1, <2>2, <2>4 DEF PubInv, SendersInv
  <1>11. AnnouncedInv'
    <2>1. ~astray' => ~astray
      BY <1>1, <1>2
    <2> QED
      BY <1>1, <1>3, <1>4, <1>5, <2>1 DEF PubInv, AnnouncedInv
  <1>12. SfuKnowsInv'
    <2>1. ~doubt' => Answering' = {}
      BY <1>1, <1>2, <1>5 DEF Answering
    <2> QED
      BY <1>1, <1>3, <1>5, <2>1 DEF SfuKnowsInv, flags
  <1> QED
    BY <1>5, <1>6, <1>7, <1>8, <1>9, <1>10, <1>11, <1>12 DEF PubInv

LEMMA RestoreStopsStep ==
  ASSUME PubBounds, PubInv, RestoreStops
  PROVE  PubInv'
  <1> DEFINE none == Len(Left) = Len(pubs)
  <1>1. /\ restoring = "stops" /\ restoring' = "none" /\ media' = None
        /\ sfuMuted' = (IF none THEN sfuMuted ELSE Active = {})
        /\ listed' = (listed /\ (none \/ Active # {}))
        /\ pubs' = Left /\ held' \in SUBSET held
        /\ astray' = (astray \/ \E i \in DOMAIN pubs :
                            ~IsActive(pubs[i].status) /\ SenderOf(pubs[i].track) # {})
        /\ doubt' = (doubt \/ \E p \in Procs : call[p].at = "answer")
        /\ UNCHANGED <<due, retired, senders, conn, connected, notify, stopped, muted, capable, call>>
    BY DEF RestoreStops, Unlock
  <1>2. /\ pubs \in Seq(Publications) /\ senders \in Seq(Senders) /\ Distinct(pubs) /\ media = Restore
        /\ astray \in BOOLEAN /\ doubt \in BOOLEAN /\ listed \in BOOLEAN /\ sfuMuted \in BOOLEAN
    BY <1>1 DEF PubInv, PubTyped, ListsInv, HolderInv
  <1>3. /\ pubs' \in Seq(Publications) /\ Distinct(pubs)'
        /\ InPubs' = Active /\ Used' \subseteq Used /\ Active' = Active /\ Negotiating' = Negotiating
        /\ Muting' = Muting /\ Audible' = Audible /\ Stopping' = {}
    BY <1>1, <1>2, PubsLeft
  <1> HIDE DEF none
  <1>4. /\ Sending' = Sending /\ Heard' = Heard /\ (OneSenderEach => OneSenderEach')
        /\ KeptOptions' = KeptOptions /\ Retired' = Retired /\ RetiredOptions' = RetiredOptions
    BY <1>1, SendersUnchanged, RetiredUnchanged
  <1>5. /\ CallsTyped' /\ HolderInv' /\ KnowsInv' /\ CallsApart' /\ Taking = {} /\ Taking' = {}
        /\ \A q \in Procs : call'[q].at \notin {"register", "added", "unmute"}
        /\ Answering' = Answering
    <2>1. (media' = Restore <=> restoring' \in {"sync", "stops"}) /\ (restoring' = "swapped" => due')
      BY <1>1 DEF PubBounds
    <2> QED
      BY <1>1, <1>2, <2>1, CallsWait
  <1>6. InPubs = Active \cup Stopping /\ Audible \subseteq Active
    BY <1>2, PubsViews
  <1>7. PubTyped'
    <2>1. held' \in SUBSET Tracks /\ sfuMuted' \in BOOLEAN /\ listed' \in BOOLEAN
      BY <1>1, <1>2 DEF PubInv, PubTyped
    <2> QED
      BY <1>1, <1>2, <1>3, <1>5, <2>1 DEF PubInv, PubTyped
  <1>8. ListsInv'
    BY <1>1, <1>3, <1>4 DEF PubInv, ListsInv
  <1>9. RevokeInv'
    BY <1>1, <1>3, RevokerWaits
  <1>10. PacingInv'
    <2>1. ~astray' => ~astray
      BY <1>1, <1>2
    <2> QED
      BY <1>1, <1>2, <1>3, <1>5, <2>1 DEF PubInv, PacingInv
  <1>11. SendersInv'
    <2> SUFFICES ASSUME ~astray'
                 PROVE  OneSenderEach' /\ Known' /\ RetiredApart' /\ CallsApart'
      BY DEF SendersInv
    <2>1. ~astray /\ \A i \in DOMAIN pubs : ~IsActive(pubs[i].status) => SenderOf(pubs[i].track) = {}
      BY <1>1, <1>2
    <2>2. Stopping \cap Sending = {}
      <3>1. \A t \in Stopping : SenderOf(t) = {}
        BY <2>1 DEF Stopping, TracksWith, IsActive
      <3> QED
        BY <1>2, <3>1, SendersViews
    <2>3. OneSenderEach /\ Known /\ RetiredApart
      BY <2>1 DEF PubInv, SendersInv
    <2>4. Known'
      BY <1>3, <1>4, <1>5, <1>6, <2>2, <2>3 DEF Known
    <2>5. OneTrackEach(retired)' = OneTrackEach(retired) /\ Latest' = Latest
      BY <1>1, <1>4 DEF OneTrackEach, Latest
    <2>6. RetiredApart'
      BY <1>3, <1>4, <1>6, <2>3, <2>5 DEF RetiredApart
    <2> QED
      BY <1>4, <1>5, <2>3, <2>4, <2>6
  <1>12. AnnouncedInv'
    <2>1. ~astray' => ~astray
      BY <1>1, <1>2
    <2> QED
      BY <1>1, <1>3, <1>4, <1>5, <2>1 DEF PubInv, AnnouncedInv
  <1>13. SfuKnowsInv'
    <2> SUFFICES ASSUME ~doubt'
                 PROVE  SfuKnowsInv'
      BY DEF SfuKnowsInv
    <2>1. ~doubt /\ Answering = {} /\ Answering' = {}
      BY <1>1, <1>2, <1>5 DEF Answering
    <2>2. ~(Audible \subseteq muted) => ~sfuMuted /\ listed
      BY <1>1, <2>1 DEF PubInv, SfuKnowsInv
    <2>3. ~(Audible \subseteq muted) => ~sfuMuted' /\ listed'
      BY <1>1, <1>6, <2>2
    <2> QED
      BY <1>1, <1>3, <1>5, <2>1, <2>3 DEF SfuKnowsInv
  <1> QED
    BY <1>5, <1>7, <1>8, <1>9, <1>10, <1>11, <1>12, <1>13 DEF PubInv

LEMMA RestoreAddsStep ==
  ASSUME PubBounds, PubInv, RestoreAdds
  PROVE  PubInv'
  <1>1. /\ restoring = "swapped" /\ media = None
        /\ stopped' = (IF capable THEN stopped ELSE stopped \cup {pubs[i].track : i \in DOMAIN pubs})
        /\ astray' = (astray \/ Stays \/ \E i \in DOMAIN pubs : ~capable /\ SenderOf(pubs[i].track) # {})
        /\ UNCHANGED <<retired, conn, connected, notify, muted, held, capable, told, call, doubt>>
    BY DEF RestoreAdds
  <1>2. \/ /\ Allowed = <<>> /\ pubs' = Allowed /\ restoring' = "none" /\ due' = FALSE
           /\ UNCHANGED <<media, senders>>
        \/ /\ Allowed # <<>> /\ pubs' = Refreshed /\ media' = Restore /\ senders' = Announced(Restored)
           /\ restoring' = (IF Active = {} THEN "stops" ELSE "sync") /\ due' = FALSE
        \/ /\ Allowed # <<>> /\ pubs' = Refreshed /\ senders' \in {senders, Restored}
           /\ restoring' = "failed" /\ UNCHANGED <<media, due>>
    BY DEF RestoreAdds, Restored
  <1>3. /\ pubs \in Seq(Publications) /\ senders \in Seq(Senders) /\ retired \in Seq(Retirements)
        /\ Distinct(pubs) /\ NumOptions \in Nat /\ due /\ capable \in BOOLEAN
        /\ astray \in BOOLEAN /\ doubt \in BOOLEAN /\ stopped \in SUBSET Tracks
    BY <1>1 DEF PubInv, PubTyped, ListsInv, HolderInv, PubBounds
  <1>4. InPubs = Active \cup Stopping /\ Audible \subseteq Active /\ InPubs \in SUBSET Tracks
        /\ (pubs = <<>> <=> InPubs = {})
    BY <1>3, PubsViews
  <1>5. stopped' \in SUBSET Tracks /\ stopped \subseteq stopped'
    BY <1>1, <1>3, <1>4 DEF InPubs, TracksOf
  <1>6. /\ ~astray' => ~astray /\ Retired \cap Sending = {} /\ (~capable => InPubs \cap Sending = {})
        /\ astray' \in BOOLEAN
    <2>1. (Stays <=> Retired \cap Sending # {}) /\ \A t : SenderOf(t) # {} <=> t \in Sending
      BY <1>3, RetiredViews, SendersViews
    <2>2. (\E i \in DOMAIN pubs : ~capable /\ SenderOf(pubs[i].track) # {})
              <=> (~capable /\ InPubs \cap Sending # {})
      BY <2>1 DEF InPubs, TracksOf
    <2>3. Stays \in BOOLEAN
      BY DEF Stays
    <2> QED
      BY <1>1, <1>3, <2>1, <2>2, <2>3
  <1>7. ~astray' => /\ Sending \subseteq InPubs \cup Retired /\ Retired \cap InPubs = {} /\ OneTrackEach(retired)
                    /\ OneSenderEach
    <2>1. Taking = {}
      BY <1>1, NobodyHolds DEF PubInv
    <2> QED
      BY <1>6, <2>1 DEF PubInv, SendersInv, Known, RetiredApart
  \* What is common to the outcomes.
  <1>8. ASSUME media' \in {None, Restore}, media' = Restore <=> restoring' \in {"sync", "stops"},
               restoring' \in {"none", "stops", "sync", "failed"}, due' \in BOOLEAN,
               pubs' \in Seq(Publications) /\ Distinct(pubs)' /\ Active' \subseteq Active /\ InPubs' \subseteq InPubs,
               Audible' \subseteq Audible, Muting' \cup Audible' \subseteq Active',
               senders' \in Seq(Senders),
               capable \/ Active' = {},
               ~astray' => /\ OneSenderEach' /\ Sending' \subseteq InPubs' \cup (Sending \cap Retired)
                           /\ ~due' => Active' \subseteq Heard' /\ Heard' \subseteq Sending',
               restoring' \in {"none", "stops"} => Active' = {}
        PROVE  PubInv'
    <2>1. /\ CallsTyped' /\ HolderInv' /\ KnowsInv' /\ CallsApart' /\ Taking = {} /\ Taking' = {}
          /\ \A q \in Procs : call'[q].at \notin Holding /\ call'[q].at \notin Beginning
          /\ \A q \in Procs : call'[q].at \notin {"register", "added", "unmute"}
      <3>1. restoring' # "swapped"
        BY <1>8
      <3> QED
        BY <1>1, <1>8, <3>1, CallsWait
    <2>2. PubTyped'
      BY <1>1, <1>5, <1>6, <1>8, <2>1 DEF PubInv, PubTyped, told
    <2>3. Retired' = Retired
      BY <1>1, RetiredUnchanged
    <2>4. ListsInv'
      BY <1>5, <1>8, <2>3 DEF PubInv, ListsInv
    <2>5. RevokeInv'
      BY <1>1, <1>8, <2>1 DEF RevokeInv
    <2>6. PacingInv'
      BY <1>1, <1>6, <1>8, <2>1 DEF PubInv, PacingInv
    <2>7. SendersInv'
      <3> SUFFICES ASSUME ~astray'
                   PROVE  OneSenderEach' /\ Known' /\ RetiredApart' /\ CallsApart'
        BY DEF SendersInv
      <3>1. Retired' \cap Sending' = {} /\ Retired' \cap InPubs' = {}
        BY <1>6, <1>7, <1>8, <2>3
      <3>2. KeptOptions' = {} /\ Latest'
        BY <3>1 DEF KeptOptions, Latest, Retired, TracksOf
      <3>3. OneTrackEach(retired)'
        BY <1>1, <1>7 DEF OneTrackEach
      <3>4. Known'
        BY <1>6, <1>8 DEF Known
      <3>5. RetiredApart'
        BY <3>1, <3>2, <3>3 DEF RetiredApart
      <3> QED
        BY <1>8, <2>1, <3>4, <3>5
    <2>8. AnnouncedInv'
      BY <1>8, <2>1 DEF AnnouncedInv
    <2>9. SfuKnowsInv'
      <3>1. restoring' \in {"none", "stops"} => Audible' = {}
        BY <1>8
      <3> QED
        BY <2>1, <3>1 DEF SfuKnowsInv
    <2> QED
      BY <2>1, <2>2, <2>4, <2>5, <2>6, <2>7, <2>8, <2>9 DEF PubInv
  <1>9. CASE /\ Allowed = <<>> /\ pubs' = Allowed /\ restoring' = "none" /\ due' = FALSE
             /\ UNCHANGED <<media, senders>>
    <2>1. /\ pubs' \in Seq(Publications) /\ Distinct(pubs)'
          /\ Muting' = {} /\ Audible' = {} /\ InPubs' = {} /\ Active' = {}
      BY <1>9, PubsCleared
    <2>2. Sending' = Sending /\ Heard' = Heard /\ (OneSenderEach => OneSenderEach')
      BY <1>9, SendersUnchanged
    <2>3. capable => InPubs = {}
      BY <1>4, <1>9 DEF Allowed
    <2>4. ~astray' => Sending = {}
      BY <1>6, <1>7, <2>3
    <2>5. media' = None /\ None # Restore /\ senders' \in Seq(Senders)
      BY <1>1, <1>3, <1>9 DEF PubBounds
    <2>6. ~astray' => /\ OneSenderEach' /\ Sending' \subseteq InPubs' \cup (Sending \cap Retired)
                      /\ Active' \subseteq Heard' /\ Heard' \subseteq Sending'
      BY <1>3, <1>7, <2>1, <2>2, <2>4, SendersViews
    <2> QED
      BY <1>8, <1>9, <2>1, <2>5, <2>6
  <1>10. ASSUME Allowed # <<>>, pubs' = Refreshed
         PROVE  /\ capable /\ pubs' \in Seq(Publications) /\ Distinct(pubs)' /\ InPubs' = InPubs
                /\ Active' = Active /\ Audible' = Audible /\ Muting' \cup Audible' \subseteq Active'
    <2>1. /\ pubs' \in Seq(Publications) /\ Distinct(pubs)' /\ InPubs' = InPubs
          /\ Active' = Active /\ Negotiating' = Negotiating /\ Muting' = Muting /\ Audible' = Audible
      BY <1>3, <1>10, PubsRefreshed
    <2>2. capable
      BY <1>10 DEF Allowed
    <2> QED
      BY <2>1, <2>2, PubsViewsNext
  <1>11. /\ Restored \in Seq(Senders) /\ TracksOf(Restored) = Sending \cup Active
         /\ AnnouncedOf(Restored) = Heard
         /\ OneSenderEach => OneTrackEach(Restored)
    BY <1>3, SendersRestored
  <1>12. CASE /\ Allowed # <<>> /\ pubs' = Refreshed /\ media' = Restore /\ senders' = Announced(Restored)
              /\ restoring' = (IF Active = {} THEN "stops" ELSE "sync") /\ due' = FALSE
    <2>1. /\ senders' \in Seq(Senders) /\ Sending' = Sending \cup Active
          /\ Heard' = Heard \cup ((Sending \cup Active) \cap Active)
          /\ OneSenderEach => OneSenderEach'
      BY <1>11, <1>12, SendersAnnounced
    <2>2. Heard \subseteq Sending
      BY <1>3, SendersViews
    <2>3. ~astray' => /\ OneSenderEach' /\ Sending' \subseteq InPubs \cup (Sending \cap Retired)
                      /\ Active \subseteq Heard' /\ Heard' \subseteq Sending'
      BY <1>4, <1>7, <2>1, <2>2
    <2> QED
      BY <1>8, <1>10, <1>12, <2>1, <2>3
  <1>13. CASE /\ Allowed # <<>> /\ pubs' = Refreshed /\ senders' \in {senders, Restored}
              /\ restoring' = "failed" /\ UNCHANGED <<media, due>>
    <2>1. senders' \in Seq(Senders) /\ Sending' \subseteq Sending \cup Active /\ (OneSenderEach => OneSenderEach')
      <3>1. CASE senders' = senders
        BY <1>3, <3>1, SendersUnchanged
      <3>2. CASE senders' = Restored
        <4>1. Sending' = TracksOf(Restored) /\ OneSenderEach' = OneTrackEach(Restored)
          BY <3>2 DEF Sending, TracksOf, OneSenderEach, OneTrackEach
        <4> QED
          BY <1>11, <3>2, <4>1
      <3> QED
        BY <1>13, <3>1, <3>2
    <2>2. ~astray' => OneSenderEach' /\ Sending' \subseteq InPubs \cup (Sending \cap Retired)
      BY <1>4, <1>7, <2>1
    <2>3. media' = None /\ None # Restore /\ due' = TRUE
      BY <1>1, <1>3, <1>13 DEF PubBounds, PubInv, PubTyped
    <2> QED
      BY <1>8, <1>10, <1>13, <2>1, <2>2, <2>3
  <1> QED
    BY <1>2, <1>9, <1>12, <1>13
-----------------------------------------------------------------------------
(* The invariant is inductive. *)

LEMMA PubInvInit ==
  ASSUME PubBounds, Init
  PROVE  PubInv
  <1>1. /\ media = None /\ pubs = <<>> /\ retired = <<>> /\ senders = <<>> /\ conn = 1
        /\ connected = FALSE /\ notify = FALSE /\ restoring = "none" /\ capable = TRUE
        /\ stopped = {} /\ muted = {} /\ held = {} /\ sfuMuted = TRUE /\ listed = FALSE
        /\ astray = FALSE /\ due = FALSE /\ doubt = FALSE
    BY DEF Init
  <1>2. IdleCall \in Calls /\ IdleCall.at = "idle" /\ IdleCall.tracks = {} /\ IdleCall.conn = 0
    BY IdleIsCall DEF IdleCall
  <1>3. /\ call \in [Procs -> Calls]
        /\ \A p \in Procs : call[p].at = "idle" /\ call[p].tracks = {} /\ call[p].conn = 0
    BY <1>2 DEF Init
  <1>4. Swaps \in Nat /\ Revoker \in Procs /\ NumOptions \in Nat
    BY DEF PubBounds, Procs
  <1>5. PubTyped
    <2>1. CallsTyped
      BY <1>1, <1>3 DEF CallsTyped
    <2>2. pubs \in Seq(Publications) /\ retired \in Seq(Retirements) /\ senders \in Seq(Senders)
      BY <1>1
    <2>3. conn \in 1..(Swaps + 1)
      BY <1>1, <1>4
    <2> QED
      BY <1>1, <2>1, <2>2, <2>3 DEF PubTyped
  <1>6. /\ InPubs = {} /\ Used = {} /\ Active = {} /\ Audible = {} /\ Muting = {}
        /\ Sending = {} /\ Heard = {} /\ Retired = {} /\ KeptOptions = {}
        /\ Distinct(pubs) /\ OneTrackEach(senders) /\ OneTrackEach(retired) /\ Latest
    BY <1>1 DEF InPubs, Used, Active, Audible, Muting, TracksOf, OptionsOf, TracksWith, Sending, Heard, AnnouncedOf,
                Retired, KeptOptions, Distinct, OneTrackEach, Latest
  <1>7. ListsInv /\ HolderInv /\ RevokeInv /\ PacingInv
    BY <1>1, <1>3, <1>4, <1>6, PubBounds
       DEF ListsInv, HolderInv, RevokeInv, PacingInv, Holding, Beginning, PubBounds
  <1>8. KnowsInv
    BY <1>3 DEF KnowsInv, Holding, Beginning
  <1>9. SendersInv
    BY <1>3, <1>6 DEF SendersInv, OneSenderEach, Known, RetiredApart, CallsApart, Beginning
  <1>10. AnnouncedInv
    BY <1>1, <1>3, <1>6 DEF AnnouncedInv
  <1>11. SfuKnowsInv
    BY <1>1, <1>3, <1>6 DEF SfuKnowsInv, Answering
  <1> QED
    BY <1>5, <1>7, <1>8, <1>9, <1>10, <1>11 DEF PubInv

LEMMA PubInvStutters ==
  ASSUME PubInv, UNCHANGED vars
  PROVE  PubInv'
  <1>1. /\ UNCHANGED <<media, pubs, retired, senders, conn, connected, notify, restoring>>
        /\ UNCHANGED <<stopped, muted, held, capable, sfuMuted, listed, call, astray, due, doubt>>
    BY DEF vars, lists, link, flags, told
  <1>2. PubTyped' /\ ListsInv' /\ HolderInv' /\ RevokeInv' /\ PacingInv'
    BY <1>1 DEF PubInv, PubTyped, CallsTyped, ListsInv, HolderInv, RevokeInv, PacingInv, Distinct, Retired, TracksOf,
                ToStop, Active, Audible, TracksWith
  <1>a. /\ Negotiating' = Negotiating /\ Muting' = Muting /\ Audible' = Audible /\ Stopping' = Stopping
        /\ InPubs' = InPubs /\ Used' = Used /\ Active' = Active
        /\ Sending' = Sending /\ Heard' = Heard /\ (OneSenderEach => OneSenderEach') /\ KeptOptions' = KeptOptions
        /\ Retired' = Retired /\ RetiredOptions' = RetiredOptions
    BY <1>1, PubsUnchanged, SendersUnchanged, RetiredUnchanged
  <1>b. Taking' = Taking /\ Answering' = Answering /\ (Latest => Latest')
        /\ (OneTrackEach(retired) => OneTrackEach(retired)') /\ \A p : Current(p)' <=> Current(p)
    BY <1>1, <1>a DEF Taking, Answering, Latest, OneTrackEach, Current
  <1>3. KnowsInv'
    BY <1>1, <1>a, <1>b DEF PubInv, KnowsInv
  <1>4. SendersInv'
    BY <1>1, <1>a, <1>b DEF PubInv, SendersInv, Known, RetiredApart, CallsApart
  <1>5. AnnouncedInv' /\ SfuKnowsInv'
    BY <1>1, <1>a, <1>b DEF PubInv, AnnouncedInv, SfuKnowsInv
  <1> QED
    BY <1>2, <1>3, <1>4, <1>5 DEF PubInv

LEMMA PubInvStep ==
  ASSUME PubBounds, PubInv, [Next]_vars
  PROVE  PubInv'
  <1>1. ASSUME NEW c \in Callers, NEW t \in Tracks, PublishBegins(c, t) \/ StopBegins(c, t)
        PROVE  PubInv'
    BY <1>1, PublishBeginsStep, StopBeginsStep
  <1>2. ASSUME NEW c \in Callers, PublishStep(c)
        PROVE  PubInv'
    BY <1>2, PublishLocksStep, PublishReplacesStep, PublishRegistersStep, PublishAddsStep, PublishAddedStep,
       PublishNegotiatesStep, PublishAnnouncesStep, PublishUnmutesStep DEF PublishStep
  <1>3. ASSUME NEW c \in Callers, PublishDropped(c) \/ StopDropped(c)
        PROVE  PubInv'
    BY <1>3, PublishDroppedStep, StopDroppedStep
  <1>4. ASSUME NEW c \in Callers, (\E to \in BOOLEAN : MuteBegins(c, to)) \/ MuteSets(c) \/ MuteAnswers(c)
        PROVE  PubInv'
    BY <1>4, MuteBeginsStep, MuteSetsStep, MuteAnswersStep
  <1>5. ASSUME NEW p \in Procs, StopLocks(p) \/ StopMutes(p)
        PROVE  PubInv'
    BY <1>5, StopLocksStep, StopMutesStep
  <1>6. CASE PermissionUpdated \/ RevokerLists \/ OptionsChange \/ PublisherConnects \/ PacingStarts
    BY <1>6, PermissionStep, RevokerListsStep, OptionsChangeStep, PublisherConnectsStep, PacingStartsStep
  <1>7. CASE Swap \/ RestoreAdds \/ FastBegins \/ FastRestarts \/ RestoreSyncs \/ RestoreStops \/ RestoreFails
    BY <1>7, SwapStep, RestoreAddsStep, FastBeginsStep, FastRestartsStep, RestoreSyncsStep, RestoreStopsStep,
       RestoreFailsStep
  <1>8. CASE UNCHANGED vars
    BY <1>8, PubInvStutters
  <1> QED
    BY <1>1, <1>2, <1>3, <1>4, <1>5, <1>6, <1>7, <1>8 DEF Next

-----------------------------------------------------------------------------
(* What it gives. *)

LEMMA PubInvGivesTypes == ASSUME PubInv PROVE TypeOK
  <1>1. pubs \in Seq(Publications) /\ retired \in Seq(Retirements) /\ CallsTyped
    BY DEF PubInv, PubTyped
  <1>2. \A i \in DOMAIN pubs : pubs[i].track \in Tracks /\ pubs[i].status \in Statuses
                               /\ pubs[i].option \in 1..NumOptions
    <2>1. \A i \in DOMAIN pubs : pubs[i] \in Publications
      BY <1>1
    <2> QED
      BY <2>1 DEF Publications
  <1>3. \A i, j \in DOMAIN pubs : i # j => pubs[i].track # pubs[j].track /\ pubs[i].option # pubs[j].option
    BY DEF PubInv, ListsInv, Distinct
  <1>4. \A i \in DOMAIN retired : retired[i].track \in stopped
    BY DEF PubInv, ListsInv, Retired, TracksOf
  <1>5. \A p \in Procs : call[p].at \in Places
    BY <1>1, CallFields DEF CallsTyped
  <1> QED
    BY <1>2, <1>3, <1>4, <1>5 DEF PubInv, PubTyped, TypeOK

LEMMA PubInvGivesRevoked == ASSUME PubBounds, PubInv PROVE RevokedIsStopped
  <1> SUFFICES ASSUME Quiet, ~capable PROVE Active = {}
    BY DEF RevokedIsStopped
  <1>1. Revoker \in Procs /\ call[Revoker].at = "idle" /\ restoring = "none"
    BY DEF Quiet, Procs
  <1>2. ToStop = {}
    BY <1>1 DEF ToStop, PubInv, HolderInv
  <1> QED
    BY <1>1, <1>2 DEF PubInv, RevokeInv

LEMMA PubInvGivesHold == ASSUME PubInv PROVE HoldEnds
  <1> SUFFICES ASSUME connected, ~notify, ~astray,
                      NEW i \in DOMAIN pubs, pubs[i].status = "Published"
               PROVE  pubs[i].track \notin held
    BY DEF HoldEnds
  <1>1. pubs[i].track \in Audible
    BY DEF Audible, TracksWith
  <1> QED
    BY <1>1 DEF PubInv, PacingInv

LEMMA PubInvGivesHeard == ASSUME PubInv PROVE PublishedIsHeard
  <1> SUFFICES ASSUME Quiet, NEW i \in DOMAIN pubs, pubs[i].status = "Published"
               PROVE  /\ ~due /\ ~astray => \E k \in SenderOf(pubs[i].track) : senders[k].announced
                      /\ ~doubt /\ pubs[i].track \notin muted => ~sfuMuted /\ listed
    BY DEF PublishedIsHeard
  <1>1. pubs[i].track \in Audible
    BY DEF Audible, TracksWith
  <1>2. ~due /\ ~astray => pubs[i].track \in Heard
    BY <1>1 DEF PubInv, AnnouncedInv
  <1>3. senders \in Seq(Senders)
    BY DEF PubInv, PubTyped
  <1>4. Answering = {} /\ restoring = "none"
    BY DEF Quiet, Answering
  <1>5. ~doubt /\ pubs[i].track \notin muted => ~sfuMuted /\ listed
    BY <1>1, <1>4 DEF PubInv, SfuKnowsInv
  <1> QED
    BY <1>2, <1>3, <1>5, SendersViews

\* The option of a sender is that of the publication, the retired track or the
\* call that knows it.
Owns(t, o) ==
    \/ \E i \in DOMAIN pubs : pubs[i].track = t /\ pubs[i].option = o
    \/ \E i \in DOMAIN retired : retired[i].track = t /\ retired[i].option = o
    \/ \E p \in Procs : call[p].at \in {"register", "added"} /\ call[p].track = t /\ call[p].option = o

LEMMA EachOwnsAnOption ==
  ASSUME PubBounds, PubInv, ~astray, NEW t \in Sending
  PROVE  \E o \in 1..NumOptions : Owns(t, o)
  <1>1. t \in InPubs \cup Retired \cup Taking
    BY DEF PubInv, SendersInv, Known
  <1>2. CASE t \in InPubs
    <2>1. PICK i \in DOMAIN pubs : pubs[i].track = t
      BY <1>2 DEF InPubs, TracksOf
    <2>2. pubs[i].option \in 1..NumOptions
      BY PubInvGivesTypes DEF TypeOK
    <2> QED
      BY <2>1, <2>2 DEF Owns
  <1>3. CASE t \in Retired
    <2>1. PICK i \in DOMAIN retired : retired[i].track = t
      BY <1>3 DEF Retired, TracksOf
    <2>2. retired[i] \in Retirements
      BY DEF PubInv, PubTyped
    <2> QED
      BY <2>1, <2>2 DEF Owns, Retirements
  <1>4. CASE t \in Taking
    <2>1. PICK p \in Procs : call[p].at \in {"register", "added"} /\ call[p].track = t
      BY <1>4 DEF Taking
    <2>2. call[p].option \in 1..NumOptions
      BY <2>1 DEF PubInv, KnowsInv, Beginning
    <2> QED
      BY <2>1, <2>2 DEF Owns
  <1> QED
    BY <1>1, <1>2, <1>3, <1>4

LEMMA OwnsItAlone ==
  ASSUME PubBounds, PubInv, ~astray, NEW t \in Sending, NEW u \in Sending, NEW o, Owns(t, o), Owns(u, o)
  PROVE  t = u
  <1> DEFINE Publishes(x) == \E i \in DOMAIN pubs : pubs[i].track = x /\ pubs[i].option = o
             Retires(x) == \E i \in DOMAIN retired : retired[i].track = x /\ retired[i].option = o
             Takes(x) == \E p \in Procs : /\ call[p].at \in {"register", "added"}
                                          /\ call[p].track = x /\ call[p].option = o
  <1>1. \A x : Publishes(x) => o \in Used
    BY DEF Used, OptionsOf
  <1>2. \A x \in Sending : Retires(x) => o \in KeptOptions
    BY DEF KeptOptions
  <1>3. \A x : Takes(x) => o \notin Used /\ o \notin KeptOptions
    BY DEF PubInv, KnowsInv, SendersInv, CallsApart, Beginning
  <1>4. KeptOptions \cap Used = {}
    BY DEF PubInv, SendersInv, RetiredApart
  <1>5. Publishes(t) /\ Publishes(u) => t = u
    BY DEF PubInv, ListsInv, Distinct
  <1>6. Retires(t) /\ Retires(u) => t = u
    <2> SUFFICES ASSUME NEW i \in DOMAIN retired, NEW j \in DOMAIN retired,
                        retired[i].track = t, retired[j].track = u, retired[i].option = o, retired[j].option = o
                 PROVE  i = j
      OBVIOUS
    <2>1. i <= j /\ j <= i
      BY DEF PubInv, SendersInv, RetiredApart, Latest
    <2>2. i \in Nat /\ j \in Nat
      BY DEF PubInv, PubTyped
    <2> QED
      BY <2>1, <2>2
  <1>7. Takes(t) /\ Takes(u) => t = u
    BY HolderIsAlone DEF PubInv, Holding, Beginning
  <1>8. (Publishes(t) \/ Retires(t) \/ Takes(t)) /\ (Publishes(u) \/ Retires(u) \/ Takes(u))
    BY DEF Owns
  <1> HIDE DEF Publishes, Retires, Takes
  <1> QED
    BY <1>1, <1>2, <1>3, <1>4, <1>5, <1>6, <1>7, <1>8

LEMMA PubInvGivesReuse == ASSUME PubBounds, PubInv PROVE KeptSenderIsReused
  <1> SUFFICES ASSUME ~astray PROVE Len(senders) <= NumOptions
    BY DEF KeptSenderIsReused
  <1> DEFINE option == [k \in DOMAIN senders |-> CHOOSE o \in 1..NumOptions : Owns(senders[k].track, o)]
  <1>1. Len(senders) \in Nat /\ DOMAIN senders = 1..Len(senders)
    BY DEF PubInv, PubTyped
  <1>2. \A k \in DOMAIN senders : senders[k].track \in Sending
    BY DEF Sending, TracksOf
  <1>3. \A k \in DOMAIN senders : option[k] \in 1..NumOptions /\ Owns(senders[k].track, option[k])
    BY <1>2, EachOwnsAnOption
  <1>4. option \in [DOMAIN senders -> 1..NumOptions]
    BY <1>3
  <1> HIDE DEF option
  <1>5. \A k, l \in DOMAIN senders : option[k] = option[l] => k = l
    <2>1. ASSUME NEW k \in DOMAIN senders, NEW l \in DOMAIN senders, option[k] = option[l]
          PROVE  senders[k].track = senders[l].track
      BY <1>2, <1>3, <2>1, OwnsItAlone
    <2> QED
      BY <2>1 DEF PubInv, SendersInv, OneSenderEach, OneTrackEach
  <1>6. option \in Injection(DOMAIN senders, 1..NumOptions)
    BY <1>4, <1>5 DEF Injection, IsInjective
  <1>7. \A n \in Nat : IsFiniteSet(1..n) /\ Cardinality(1..n) = n
    BY FS_Interval
  <1>8. NumOptions \in Nat
    BY DEF PubBounds
  <1>9. Cardinality(DOMAIN senders) <= Cardinality(1..NumOptions)
    BY <1>1, <1>6, <1>7, <1>8, FS_Injection
  <1> QED
    BY <1>1, <1>7, <1>8, <1>9
-----------------------------------------------------------------------------
(* The suite of the runs. *)

LEMMA SuiteRunsPublication == Suite => Init /\ [][Next]_vars
  <1>1. SuiteInit => Init
    BY DEF SuiteInit
  <1>2. [SuiteNext]_<<part, vars, tracing, coordinatorVars, peerVars, sfuLinking, showing>> => [Next]_vars
    BY DEF SuiteNext
  <1> QED
    BY <1>1, <1>2, PTL DEF Suite

LEMMA SuiteRunsSocket == Suite => SocketInit /\ [][SocketNext]_coordinatorVars
  <1>1. SuiteInit => SocketInit
    BY DEF SuiteInit
  <1>2. [SuiteNext]_<<part, vars, tracing, coordinatorVars, peerVars, sfuLinking, showing>>
        => [SocketNext]_coordinatorVars
    BY DEF SuiteNext
  <1> QED
    BY <1>1, <1>2, PTL DEF Suite

LEMMA SuiteRunsPeer == Suite => PeerInit /\ [][PeerNext]_peerVars
  <1>1. SuiteInit => PeerInit
    BY DEF SuiteInit
  <1>2. [SuiteNext]_<<part, vars, tracing, coordinatorVars, peerVars, sfuLinking, showing>> => [PeerNext]_peerVars
    BY DEF SuiteNext
  <1> QED
    BY <1>1, <1>2, PTL DEF Suite

\* Each join begins one generation and its leave ends it with another.
SocketCounted == epoch \in Nat /\ epoch <= 2 * MaxJoins /\ (joined => epoch <= 2 * MaxJoins - 1)

LEMMA SocketCountedStep ==
  ASSUME MaxJoins \in Nat, SocketCounted, [SocketNext]_coordinatorVars
  PROVE  SocketCounted'
  <1>1. ASSUME NEW s \in Sockets, JoinOpens(s)
        PROVE  SocketCounted'
    BY <1>1 DEF JoinOpens, SocketCounted
  <1>2. CASE Leaves
    BY <1>2 DEF Leaves, SocketCounted
  <1>3. ASSUME epoch' = epoch, (joined' => joined)
        PROVE  SocketCounted'
    BY <1>3 DEF SocketCounted
  <1>4. ASSUME NEW s \in Sockets,
               \/ RejoinOpens(s) \/ Connects(s) \/ ShakeEnds(s) \/ Stores(s) \/ Spawns(s)
               \/ Keeps(s) \/ SocketCloses(s) \/ PingFails(s) \/ TaskEnds(s) \/ JoinFails(s)
               \/ \E f \in Frames : Shakes(s, f)
        PROVE  epoch' = epoch /\ (joined' => joined)
    BY <1>4 DEF RejoinOpens, Connects, ShakeEnds, Stores, Spawns, Keeps, SocketCloses, PingFails, TaskEnds, JoinFails,
                Shakes
  <1>5. CASE LeaveStops \/ UNCHANGED coordinatorVars
    BY <1>3, <1>5 DEF LeaveStops, coordinatorVars
  <1> QED
    BY <1>1, <1>2, <1>3, <1>4, <1>5 DEF SocketNext

LEMMA SocketInvGivesTypes == ASSUME MaxJoins \in Nat, SocketInv, SocketCounted PROVE SocketTypeOK
  <1>1. epoch \in 0..(2 * MaxJoins) /\ connectionId.gen \in 0..epoch /\ kept \subseteq Sockets
    BY DEF SocketInv, SocketTyped, SocketCounted
  <1>2. \A s \in Sockets : socket[s] \in SocketStates
    BY DEF SocketInv, SocketTyped
  <1> QED
    BY <1>1, <1>2 DEF SocketTypeOK, SocketStates, SocketPlaces

PeerCounted ==
    /\ trickled \in Nat /\ trickled <= MaxCandidates /\ offered \in Nat /\ offered <= MaxOffers
    /\ answering \subseteq Conns

LEMMA PeerCountedStep ==
  ASSUME MaxConns \in Nat \ {0}, MaxCandidates \in Nat, MaxOffers \in Nat,
         CandidatesInv, PeerCounted, [PeerNext]_peerVars
  PROVE  PeerCounted'
  <1>1. negotiating.at # "free" => negotiating.conn \in Conns
    BY DEF CandidatesInv, TaskHolds
  <1>2. ASSUME NEW c \in Conns, NEW kind, SfuAsks(c, kind)
        PROVE  PeerCounted'
    BY <1>2 DEF SfuAsks, PeerCounted
  <1>3. ASSUME NEW c \in Conns, NEW p \in Peers, SfuTrickles(c, p)
        PROVE  PeerCounted'
    BY <1>3 DEF SfuTrickles, PeerCounted
  <1>4. CASE NegotiationBegins
    BY <1>4 DEF NegotiationBegins, PeerCounted
  <1>5. CASE SfuAnswers
    BY <1>1, <1>5 DEF SfuAnswers, PeerCounted
  <1>6. ASSUME UNCHANGED <<trickled, offered, answering>>
        PROVE  PeerCounted'
    BY <1>6 DEF PeerCounted
  <1>7. ASSUME NEW c \in Conns,
               \/ \E kind \in {"options", "restart"} : LoopNegotiates(c, kind)
               \/ LoopTakesCandidate(c) \/ LoopAdds(c) \/ LoopTakesOffer(c) \/ LoopFlushes(c)
               \/ LoopGives(c) \/ LoopAnswers(c) \/ FastReopens(c) \/ TearsDown(c)
        PROVE  UNCHANGED <<trickled, offered, answering>>
    BY <1>7 DEF LoopNegotiates, LoopTakesCandidate, LoopAdds, LoopTakesOffer, LoopFlushes, LoopGives,
                LoopAnswers, FastReopens, TearsDown
  <1>8. CASE \/ NegotiationFails \/ AppliesAnswer \/ FlushPublisherIce \/ FlushGives \/ PublishIsDropped
             \/ Replaces \/ UNCHANGED peerVars
    BY <1>6, <1>8 DEF NegotiationFails, AppliesAnswer, FlushPublisherIce, FlushGives, PublishIsDropped,
                      Replaces, peerVars
  <1> QED
    BY <1>2, <1>3, <1>4, <1>5, <1>6, <1>7, <1>8 DEF PeerNext

LEMMA CandidatesInvGivesTypes ==
  ASSUME MaxCandidates \in Nat, MaxOffers \in Nat, CandidatesInv, PeerCounted
  PROVE  PeerTypeOK
  <1>1. \A c \in Conns : loop[c].at \in LoopPlaces
    BY DEF CandidatesInv, PeerTyped, Loops
  <1>2. active \in Conns /\ negotiating.at \in {"free", "offer", "sent", "flush", "give"}
    BY DEF CandidatesInv, PeerTyped, Negotiations
  <1>3. trickled \in 0..MaxCandidates /\ offered \in 0..MaxOffers /\ answering \subseteq Conns
    BY DEF PeerCounted
  <1> QED
    BY <1>1, <1>2, <1>3, Zenon DEF PeerTypeOK, LoopPlaces

\* The bounds of the coordinator's sockets and of the negotiation.
LinkBounds ==
    /\ MaxSockets \in Nat /\ MaxJoins \in Nat
    /\ MaxConns \in Nat \ {0} /\ MaxCandidates \in Nat /\ MaxOffers \in Nat

-----------------------------------------------------------------------------

\* A publisher never has more senders than publish options: whoever publishes
\* while a stop has kept the sender of an option takes that sender over, in
\* any interleaving with stops, dropped futures, failures and reconnects
\* (publish.rs:222-223).  And the variables of the three parts keep their types.
THEOREM SendersAreNeverMoreThanOptions ==
  ASSUME PubBounds, LinkBounds
  PROVE  Suite => []SendersAreReused
  <1> USE DEF LinkBounds
  <1>1. Init => PubInv
    BY PubInvInit
  <1>2. PubInv /\ [Next]_vars => PubInv'
    BY PubInvStep
  <1>3. SocketInit => SocketInv /\ SocketCounted
    <2>1. SocketInit => SocketInv
      BY SocketInvInit
    <2>2. SocketInit => SocketCounted
      BY LinkBounds DEF SocketInit, SocketCounted
    <2> QED
      BY <2>1, <2>2
  <1>4. SocketInv /\ SocketCounted /\ [SocketNext]_coordinatorVars => SocketInv' /\ SocketCounted'
    BY SocketInvStep, SocketCountedStep
  <1>5. PeerInit => CandidatesInv /\ PeerCounted
    <2>1. PeerInit => CandidatesInv
      BY CandidatesInit
    <2>2. PeerInit => PeerCounted
      BY LinkBounds DEF PeerInit, PeerCounted
    <2> QED
      BY <2>1, <2>2
  <1>6. CandidatesInv /\ PeerCounted /\ [PeerNext]_peerVars => CandidatesInv' /\ PeerCounted'
    BY CandidatesStep, PeerCountedStep
  <1>7. PubInv /\ SocketInv /\ SocketCounted /\ CandidatesInv /\ PeerCounted => SendersAreReused
    BY PubInvGivesTypes, PubInvGivesReuse, SocketInvGivesTypes, CandidatesInvGivesTypes DEF SendersAreReused
  <1> QED
    BY <1>1, <1>2, <1>3, <1>4, <1>5, <1>6, <1>7, SuiteRunsPublication, SuiteRunsSocket, SuiteRunsPeer, PTL

\* Once every call has ended nothing is published without the permission, also
\* when the event that revoked it came while a publish had passed its check, a
\* stop had failed or a reconnect was restoring the tracks.
THEOREM NothingIsPublishedOnceRevoked ==
  ASSUME PubBounds
  PROVE  Suite => []RevokedIsStopped
  <1>1. Init => PubInv
    BY PubInvInit
  <1>2. PubInv /\ [Next]_vars => PubInv'
    BY PubInvStep
  <1>3. PubInv => RevokedIsStopped
    BY PubInvGivesRevoked
  <1> QED
    BY <1>1, <1>2, <1>3, SuiteRunsPublication, PTL

\* A new audio track is not held for ever: neither the publish nor the callback
\* of the connection can leave that to the other one.
THEOREM HoldEndsOnceConnected ==
  ASSUME PubBounds
  PROVE  Suite => []HoldEnds
  <1>1. Init => PubInv
    BY PubInvInit
  <1>2. PubInv /\ [Next]_vars => PubInv'
    BY PubInvStep
  <1>3. PubInv => HoldEnds
    BY PubInvGivesHold
  <1> QED
    BY <1>1, <1>2, <1>3, SuiteRunsPublication, PTL

\* What is published has an announced sender in the current connection, and what
\* the SFU and the list of the local participant say of the kind fits it.
THEOREM WhatIsPublishedIsHeard ==
  ASSUME PubBounds
  PROVE  Suite => []PublishedIsHeard
  <1>1. Init => PubInv
    BY PubInvInit
  <1>2. PubInv /\ [Next]_vars => PubInv'
    BY PubInvStep
  <1>3. PubInv => PublishedIsHeard
    BY PubInvGivesHeard
  <1> QED
    BY <1>1, <1>2, <1>3, SuiteRunsPublication, PTL
=============================================================================
