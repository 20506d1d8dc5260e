--------------------------- MODULE RequestProofs ----------------------------
(***************************************************************************)
(* The theorems about what a client asks of the coordinator, one section   *)
(* for each module: the join loop (alone, and as a part of the suite), the *)
(* limiter of the rejoins, the HTTP client and the user tokens.            *)
(***************************************************************************)
EXTENDS MCRequests, FiniteSetTheorems, SequenceTheorems, WellFoundedInduction, TLAPS

-----------------------------------------------------------------------------
(* The join loop: what holds of a join for every retry budget and every    *)
(* set of edges.                                                           *)

Retry == IF refreshed THEN 1 ELSE 0

\* Every request is an attempt of the for loop, or the one with a refreshed token.
Accounted ==
    /\ at = "request" => requests = attempt + Retry
    /\ at = "refresh" => requests = attempt + 1 /\ ~refreshed
    /\ at \notin {"request", "refresh"} => requests = attempt + 1 + Retry

\* The count of attempts does not depend on how the failures are spread over edges.
Counts ==
    /\ at \in {"request", "failed", "refresh", "joined", "error"}
    /\ attempt \in 0..Budget - 1
    /\ refreshed \in BOOLEAN
    /\ requests \in 0..Budget + 2
    /\ Accounted

LEMMA BudgetIsPositive == Budget \in Nat /\ Budget >= 1
  BY RetriesAssumption DEF Budget

LEMMA RetryValues ==
  /\ refreshed = FALSE => Retry = 0
  /\ refreshed = TRUE => Retry = 1
  BY Zenon DEF Retry

LEMMA CountsInit == Init => Counts
  <1> SUFFICES ASSUME Init PROVE Counts
    OBVIOUS
  <1>1. at = "request" /\ attempt = 0 /\ requests = 0 /\ refreshed \in BOOLEAN
    BY DEF Init
  <1>2. Retry = 0
    BY RetryValues DEF Init
  <1> QED
    BY <1>1, <1>2, BudgetIsPositive DEF Counts, Accounted

LEMMA CountsStep == Counts /\ [Next]_vars => Counts'
  <1> SUFFICES ASSUME Counts, [Next]_vars PROVE Counts'
    OBVIOUS
  <1> USE BudgetIsPositive DEF Counts, Accounted
  <1>0. Retry \in {0, 1}
    BY RetryValues
  <1>1. CASE JoinOnceSucceeds
    <2>1. Retry' = Retry
      BY <1>1 DEF JoinOnceSucceeds, Retry
    <2> QED
      BY <1>0, <1>1, <2>1 DEF JoinOnceSucceeds, Requested
  <1>2. CASE JoinOnceFails
    <2>1. PICK k \in Kind : at' = IF RetriesExpired(k) THEN "refresh" ELSE "failed"
      BY <1>2 DEF JoinOnceFails
    <2>2. /\ at = "request" /\ Requested
          /\ UNCHANGED <<attempt, refreshed>>
      BY <1>2 DEF JoinOnceFails
    <2>3. Retry' = Retry
      BY <2>2 DEF Retry
    <2>4. CASE RetriesExpired(k)
      <3>1. Retry = 0 /\ ~refreshed'
        BY <2>2, <2>4, RetryValues DEF RetriesExpired
      <3> QED
        BY <2>1, <2>2, <2>3, <2>4, <3>1 DEF Requested
    <2>5. CASE ~RetriesExpired(k)
      BY <1>0, <2>1, <2>2, <2>3, <2>5 DEF Requested
    <2> QED
      BY <2>4, <2>5
  <1>3. CASE TokenRefreshed
    <2>1. at = "refresh" /\ UNCHANGED <<attempt, requests>>
      BY <1>3 DEF TokenRefreshed
    <2>2. CASE at' = "request" /\ refreshed' = TRUE
      <3>1. Retry' = 1
        BY <2>2 DEF Retry
      <3> QED
        BY <2>1, <2>2, <3>1
    <2>3. CASE at' = "error" /\ UNCHANGED refreshed
      <3>1. Retry' = Retry /\ Retry = 0
        BY <2>1, <2>3, RetryValues DEF Retry
      <3> QED
        BY <2>1, <2>3, <3>1
    <2> QED
      BY <1>3, <2>2, <2>3 DEF TokenRefreshed
  <1>4. CASE Evaluated
    <2>1. Retry' = Retry /\ UNCHANGED <<refreshed, requests>>
      BY <1>4 DEF Evaluated, Retry
    <2>2. \/ at' = "error" /\ UNCHANGED attempt
          \/ at' = "request" /\ attempt' = attempt + 1 /\ attempt + 1 < Budget
      BY <1>4 DEF Evaluated, LastAttempt
    <2>3. at = "failed"
      BY <1>4 DEF Evaluated
    <2>4. requests = attempt + 1 + Retry
      BY <2>3
    <2>5. CASE at' = "error" /\ UNCHANGED attempt
      BY <1>0, <2>1, <2>4, <2>5
    <2>6. CASE at' = "request" /\ attempt' = attempt + 1 /\ attempt + 1 < Budget
      <3>1. requests' = requests /\ Retry' = Retry /\ refreshed' = refreshed
        BY <2>1
      <3>2. requests = attempt' + Retry'
        BY <2>4, <2>6, <3>1
      <3> QED
        BY <1>0, <2>6, <3>1, <3>2
    <2> QED
      BY <2>2, <2>5, <2>6
  <1>5. CASE UNCHANGED vars
    <2>1. Retry' = Retry
      BY <1>5 DEF vars, Retry
    <2> QED
      BY <1>5, <2>1 DEF vars
  <1> QED
    BY <1>1, <1>2, <1>3, <1>4, <1>5 DEF Next

\* A join asks at most max_join_retries times, and once more when a token was
\* refreshed, for every budget (join_loop).
THEOREM RequestsAreBounded == Spec => []RequestBudget
  <1>1. Counts => RequestBudget
    BY BudgetIsPositive DEF Counts, Accounted, Retry, RequestBudget
  <1> QED
    BY <1>1, CountsInit, CountsStep, PTL DEF Spec

\* While the join goes on, the list names every edge that failed twice, once, and
\* the edge that the next request is said to migrate from.
EdgesAreKnown ==
    /\ \A e \in Edges : edgeFailures[e] >= 2 => Contains(confirmed, e)
    /\ \A i, k \in DOMAIN confirmed : i # k => confirmed[i] # confirmed[k]
    /\ migratingFrom # NoEdge => Contains(confirmed, migratingFrom)

EdgesInv == Counts /\ TypeOK /\ (at # "error" => EdgesAreKnown)

LEMMA EdgesInit == Init => EdgesInv
  <1> SUFFICES ASSUME Init PROVE EdgesInv
    OBVIOUS
  <1>1. Counts
    BY CountsInit
  <1>2. TypeOK
    BY <1>1 DEF Init, TypeOK, Counts, Kind
  <1>3. EdgesAreKnown
    BY DEF Init, EdgesAreKnown
  <1> QED
    BY <1>1, <1>2, <1>3 DEF EdgesInv

LEMMA CountedTyped ==
  ASSUME TypeOK
  PROVE  /\ Counted \in [Edges -> Nat]
         /\ \A e \in Edges : Counted[e] # edgeFailures[e] => e = Edge /\ Edge # NoEdge
         /\ Edge # NoEdge => Edge \in Edges /\ Failures = Counted[Edge]
  BY EdgesAssumption DEF TypeOK, Counted, Edge, Failures

\* The edge goes to the end of the list if it is not on it.
LEMMA ListedOnce ==
  ASSUME EdgesInv, at = "failed", Edge # NoEdge,
         confirmed' = IF Contains(confirmed, Edge) THEN confirmed ELSE Append(confirmed, Edge)
  PROVE  /\ confirmed' \in Seq(Edges)
         /\ Contains(confirmed', Edge)
         /\ \A e \in Edges : Contains(confirmed, e) => Contains(confirmed', e)
         /\ \A i, k \in DOMAIN confirmed' : i # k => confirmed'[i] # confirmed'[k]
  <1>1. confirmed \in Seq(Edges) /\ Edge \in Edges /\ EdgesAreKnown
    BY CountedTyped DEF EdgesInv, TypeOK
  <1>2. CASE Contains(confirmed, Edge)
    BY <1>1, <1>2 DEF EdgesAreKnown
  <1>3. CASE ~Contains(confirmed, Edge)
    <2> DEFINE n == Len(confirmed)
    <2>1. n \in Nat /\ \A i \in 1..n : confirmed[i] # Edge
      BY <1>1, <1>3 DEF Contains
    <2>2. /\ confirmed' \in Seq(Edges) /\ Len(confirmed') = n + 1
          /\ confirmed'[n + 1] = Edge
          /\ \A i \in 1..n : confirmed'[i] = confirmed[i]
          /\ DOMAIN confirmed' = 1..(n + 1) /\ DOMAIN confirmed = 1..n
      BY <1>1, <1>3
    <2> HIDE DEF n
    <2>3. Contains(confirmed', Edge)
      <3>1. n + 1 \in 1..Len(confirmed')
        BY <2>1, <2>2
      <3> QED
        BY <2>2, <3>1 DEF Contains
    <2>4. ASSUME NEW e \in Edges, Contains(confirmed, e) PROVE Contains(confirmed', e)
      <3>1. PICK i \in 1..n : confirmed[i] = e
        BY <2>4 DEF Contains, n
      <3>2. i \in 1..Len(confirmed') /\ confirmed'[i] = e
        BY <2>1, <2>2, <3>1
      <3> QED
        BY <3>2 DEF Contains
    <2>5. ASSUME NEW i \in 1..(n + 1), NEW k \in 1..(n + 1), i # k
          PROVE  confirmed'[i] # confirmed'[k]
      <3>1. i \in 1..n \/ i = n + 1
        BY <2>1
      <3>2. k \in 1..n \/ k = n + 1
        BY <2>1
      <3>3. \A x, y \in 1..n : x # y => confirmed[x] # confirmed[y]
        BY <1>1, <2>2 DEF EdgesAreKnown
      <3> QED
        BY <2>1, <2>2, <2>5, <3>1, <3>2, <3>3
    <2> QED
      BY <2>2, <2>3, <2>4, <2>5
  <1> QED
    BY <1>2, <1>3

LEMMA EvaluatedKeepsEdges ==
  ASSUME EdgesInv, Counts', Evaluated
  PROVE  EdgesInv'
  <1>1. /\ at = "failed" /\ edgeFailures' = Counted
        /\ UNCHANGED <<refreshed, failure, requests>>
    BY DEF Evaluated
  <1>2. CASE at' = "error" /\ UNCHANGED <<attempt, confirmed, migratingFrom>>
    <2>1. TypeOK'
      BY <1>1, <1>2, CountedTyped DEF EdgesInv, TypeOK
    <2> QED
      BY <1>2, <2>1 DEF EdgesInv
  <1>3. CASE /\ at' = "request" /\ attempt' = attempt + 1
             /\ IF SwitchesSfu /\ Edge # NoEdge
                THEN /\ migratingFrom' = Edge
                     /\ confirmed' = IF Contains(confirmed, Edge) THEN confirmed
                                     ELSE Append(confirmed, Edge)
                ELSE UNCHANGED <<confirmed, migratingFrom>>
    <2>1. attempt' \in 0..Budget - 1
      BY DEF Counts
    <2>2. CASE SwitchesSfu /\ Edge # NoEdge
      <3>1. /\ confirmed' \in Seq(Edges)
            /\ Contains(confirmed', Edge)
            /\ \A e \in Edges : Contains(confirmed, e) => Contains(confirmed', e)
            /\ \A i, k \in DOMAIN confirmed' : i # k => confirmed'[i] # confirmed'[k]
        BY <1>1, <1>3, <2>2, ListedOnce
      <3>2. migratingFrom' = Edge /\ Edge \in Edges
        BY <1>3, <2>2, CountedTyped DEF EdgesInv
      <3>3. TypeOK'
        BY <1>1, <1>3, <2>1, <3>1, <3>2, CountedTyped DEF EdgesInv, TypeOK
      <3>4. \A e \in Edges : edgeFailures'[e] >= 2 => Contains(confirmed', e)
        BY <1>1, <3>1, CountedTyped DEF EdgesInv, EdgesAreKnown
      <3>5. EdgesAreKnown'
        BY <3>1, <3>2, <3>4 DEF EdgesAreKnown
      <3> QED
        BY <3>3, <3>5 DEF EdgesInv
    <2>3. CASE ~(SwitchesSfu /\ Edge # NoEdge)
      <3>1. UNCHANGED <<confirmed, migratingFrom>>
        BY <1>3, <2>3
      <3>2. TypeOK'
        BY <1>1, <1>3, <2>1, <3>1, CountedTyped DEF EdgesInv, TypeOK
      <3>3. ASSUME NEW e \in Edges, Counted[e] >= 2 PROVE Contains(confirmed, e)
        <4>1. CASE e = Edge /\ Edge # NoEdge
          BY <2>3, <3>3, <4>1, CountedTyped DEF EdgesInv, SwitchesSfu
        <4>2. CASE ~(e = Edge /\ Edge # NoEdge)
          BY <1>1, <3>3, <4>2, CountedTyped DEF EdgesInv, EdgesAreKnown
        <4> QED
          BY <4>1, <4>2
      <3>4. EdgesAreKnown'
        BY <1>1, <3>1, <3>3 DEF EdgesInv, EdgesAreKnown
      <3> QED
        BY <3>2, <3>4 DEF EdgesInv
    <2> QED
      BY <2>2, <2>3
  <1> QED
    BY <1>2, <1>3 DEF Evaluated

LEMMA EdgesStep == EdgesInv /\ [Next]_vars => EdgesInv'
  <1> SUFFICES ASSUME EdgesInv, [Next]_vars PROVE EdgesInv'
    OBVIOUS
  <1>1. Counts'
    BY CountsStep DEF EdgesInv
  <1>2. at' \in {"request", "failed", "refresh", "joined", "error"} /\ attempt' \in 0..Budget - 1
        /\ refreshed' \in BOOLEAN /\ requests' \in 0..Budget + 2
    BY <1>1 DEF Counts
  <1>3. CASE JoinOnceSucceeds \/ TokenRefreshed \/ UNCHANGED vars
    <2>1. UNCHANGED <<edgeFailures, confirmed, migratingFrom, failure>> /\ (at = "error" => at' = "error")
      BY <1>3 DEF JoinOnceSucceeds, TokenRefreshed, vars
    <2> QED
      BY <1>1, <1>2, <2>1 DEF EdgesInv, TypeOK, EdgesAreKnown
  <1>4. CASE JoinOnceFails
    <2>1. /\ UNCHANGED <<edgeFailures, confirmed, migratingFrom>> /\ at = "request"
          /\ failure' \in [kind : Kind, edge : Edges \cup {NoEdge}]
      BY <1>4 DEF JoinOnceFails
    <2> QED
      BY <1>1, <1>2, <2>1 DEF EdgesInv, TypeOK, EdgesAreKnown
  <1>5. CASE Evaluated
    BY <1>1, <1>5, EvaluatedKeepsEdges
  <1> QED
    BY <1>3, <1>4, <1>5 DEF Next

-----------------------------------------------------------------------------
(* The limiter of the rejoins implements its promise, for every limit,     *)
(* every window and every sequence of calls: the registrations that it     *)
(* forgot had all left the window.                                         *)

\* What REJOIN_RATE_LIMIT and REJOIN_RATE_WINDOW are in the code.
LimiterBounds == Limit \in Nat /\ Window \in Nat

Forgotten == Len(accepted) - Len(events)

\* The inductive invariant: the deque is the end of all the registrations, which
\* are in the order of time, and those before it are old.
DequeInv ==
    /\ now \in Nat /\ events \in Seq(Nat) /\ accepted \in Seq(Nat)
    /\ Len(events) <= Len(accepted)
    /\ \A i \in 1..Len(events) : events[i] = accepted[Forgotten + i]
    /\ \A i \in 1..Forgotten : Old(accepted[i])
    /\ \A i, j \in 1..Len(accepted) : i <= j => accepted[i] <= accepted[j]
    /\ \A i \in 1..Len(accepted) : accepted[i] <= now

-----------------------------------------------------------------------------

LEMMA LeastOf ==
  ASSUME NEW T, T \subseteq Nat, T # {}
  PROVE  \E x \in T : \A y \in T : x <= y
  <1> DEFINE R == OpToRel(<, Nat)
  <1>1. IsWellFoundedOn(R, Nat)
    BY NatLessThanWellFounded
  <1>2. \A x, y \in Nat : y < x => <<y, x>> \in R
    BY DEF OpToRel
  <1> HIDE DEF R
  <1>3. PICK x \in T : \A y \in T : ~ (<<y, x>> \in R)
    BY <1>1, WFMin
  <1>4. ASSUME NEW y \in T PROVE x <= y
    <2>1. x \in Nat /\ y \in Nat /\ ~(y < x)
      BY <1>2, <1>3
    <2> QED
      BY <2>1
  <1> QED
    BY <1>4

\* The call evicts exactly the old registrations, as time orders the deque.
LEMMA EvictsTheOld ==
  ASSUME LimiterBounds, DequeInv
  PROVE  \E m \in 1..(Len(events) + 1) :
            /\ Evicted = SubSeq(events, m, Len(events))
            /\ \A i \in 1..Len(events) : Old(events[i]) <=> i < m
  <1> DEFINE n == Len(events)
             kept == {i \in 1..(n + 1) : i = n + 1 \/ ~Old(events[i])}
             front == {i \in DOMAIN events : \A k \in 1..i : Old(events[k])}
  <1>1. n \in Nat /\ DOMAIN events = 1..n /\ Len(accepted) \in Nat /\ Forgotten \in Nat
    BY DEF DequeInv, Forgotten
  <1>2. kept \subseteq Nat /\ n + 1 \in kept
    BY <1>1
  <1>3. PICK m \in kept : \A i \in kept : m <= i
    BY <1>2, LeastOf
  <1>4. m \in 1..(n + 1) /\ \A i \in 1..n : i < m => Old(events[i])
    BY <1>1, <1>3
  <1>5. ASSUME NEW i \in 1..n, i >= m PROVE ~Old(events[i])
    <2>1. m \in 1..n /\ ~Old(events[m])
      BY <1>1, <1>3, <1>5
    <2>2. Forgotten + m \in 1..Len(accepted) /\ Forgotten + i \in 1..Len(accepted) /\ Forgotten + m <= Forgotten + i
      BY <1>1, <1>5, <2>1 DEF Forgotten
    <2>3. events[m] = accepted[Forgotten + m] /\ events[i] = accepted[Forgotten + i]
      BY <2>1 DEF DequeInv
    <2>4. accepted[Forgotten + m] <= accepted[Forgotten + i]
      BY <2>2 DEF DequeInv
    <2>5. events[m] \in Nat /\ events[i] \in Nat /\ now \in Nat /\ Window \in Nat
      BY <1>1, <2>1 DEF DequeInv, LimiterBounds
    <2> QED
      BY <2>1, <2>3, <2>4, <2>5 DEF Old
  <1>6. front = 1..(m - 1)
    <2>1. ASSUME NEW i \in front PROVE i \in 1..(m - 1)
      <3>1. i \in 1..n /\ Old(events[i])
        BY <1>1, <2>1
      <3> QED
        BY <1>1, <1>4, <1>5, <3>1
    <2>2. ASSUME NEW i \in 1..(m - 1) PROVE i \in front
      BY <1>1, <1>4, <2>2
    <2> QED
      BY <2>1, <2>2
  <1>7. Cardinality(front) = m - 1
    <2>1. m - 1 \in Nat /\ 1 \in Int /\ m - 1 \in Int
      BY <1>1, <1>4
    <2>2. Cardinality(1..(m - 1)) = m - 1
      BY <2>1, FS_Interval
    <2> QED
      BY <1>6, <2>2
  <1>8. Evicted = SubSeq(events, m, n)
    <2>1. Evicted = SubSeq(events, 1 + Cardinality(front), n)
      BY DEF Evicted
    <2>2. 1 + (m - 1) = m
      BY <1>1, <1>4
    <2> QED
      BY <1>7, <2>1, <2>2
  <1> QED
    BY <1>1, <1>4, <1>5, <1>8

\* What is left is as many as the registrations of the trailing window.
LEMMA CountsTheWindow ==
  ASSUME LimiterBounds, DequeInv
  PROVE  Len(Evicted) = Cardinality(Promise!InWindow(now))
  <1>1. PICK m \in 1..(Len(events) + 1) : /\ Evicted = SubSeq(events, m, Len(events))
                                          /\ \A i \in 1..Len(events) : Old(events[i]) <=> i < m
    BY EvictsTheOld
  <1>2. Len(events) \in Nat /\ Len(accepted) \in Nat /\ Forgotten \in Nat /\ m \in Nat
        /\ Forgotten + Len(events) = Len(accepted)
    BY DEF DequeInv, Forgotten
  <1>3. Len(Evicted) = Len(events) - m + 1
    <2>a. events \in Seq(Nat)
      BY DEF DequeInv
    <2>1. ASSUME NEW i \in m..Len(events) PROVE events[i] \in Nat
      <3>1. i \in 1..Len(events)
        BY <1>2
      <3> QED
        BY <2>a, <3>1
    <2> QED
      BY <1>1, <1>2, <2>1, SubSeqProperties
  <1>4. Promise!InWindow(now) = (Forgotten + m)..Len(accepted)
    <2>1. ASSUME NEW i \in 1..Len(accepted)
          PROVE  i \in Promise!InWindow(now) <=> i >= Forgotten + m
      <3>1. accepted[i] \in Nat /\ accepted[i] <= now /\ now \in Nat
        BY DEF DequeInv
      <3>2. i \in Promise!InWindow(now) <=> ~Old(accepted[i])
        BY <1>2, <3>1 DEF Promise!InWindow, Old, LimiterBounds, DequeInv
      <3>3. CASE i <= Forgotten
        BY <1>2, <3>2, <3>3 DEF DequeInv
      <3>4. CASE i > Forgotten
        <4>1. i - Forgotten \in 1..Len(events) /\ Forgotten + (i - Forgotten) = i
          BY <1>2, <3>4
        <4>2. events[i - Forgotten] = accepted[i]
          BY <4>1 DEF DequeInv
        <4> QED
          BY <1>1, <1>2, <3>2, <4>1, <4>2
      <3> QED
        BY <1>2, <3>3, <3>4
    <2>2. Promise!InWindow(now) \subseteq 1..Len(accepted)
      BY <1>2 DEF Promise!InWindow, DequeInv
    <2>3. \A i \in (Forgotten + m)..Len(accepted) : i \in 1..Len(accepted) /\ i >= Forgotten + m
      BY <1>2
    <2>4. ASSUME NEW i \in Promise!InWindow(now) PROVE i \in (Forgotten + m)..Len(accepted)
      <3>1. i \in 1..Len(accepted) /\ i >= Forgotten + m
        BY <2>1, <2>2
      <3> QED
        BY <1>2, <3>1
    <2> QED
      BY <2>1, <2>3, <2>4
  <1>5. Forgotten + m \in Int /\ Len(accepted) \in Int
    BY <1>2
  <1>6. Cardinality((Forgotten + m)..Len(accepted)) =
            IF Forgotten + m > Len(accepted) THEN 0 ELSE Len(accepted) - (Forgotten + m) + 1
    BY <1>5, FS_Interval
  <1> QED
    BY <1>2, <1>3, <1>4, <1>6

LEMMA DequeInit == ASSUME LimiterInit PROVE DequeInv
  BY DEF LimiterInit, DequeInv, Forgotten

LEMMA TickKeepsInv ==
  ASSUME LimiterBounds, DequeInv, Tick
  PROVE  DequeInv'
  <1>1. now \in Nat /\ now' = now + 1 /\ UNCHANGED <<events, accepted>>
    BY DEF Tick, DequeInv
  <1>2. \A i \in 1..Len(accepted) : accepted[i] \in Nat /\ accepted[i] <= now
    BY DEF DequeInv
  <1>3. \A i \in 1..Forgotten : i \in 1..Len(accepted)
    BY DEF DequeInv, Forgotten
  <1>4. ASSUME NEW i \in 1..Forgotten PROVE Old(accepted[i])'
    <2>1. now - accepted[i] >= Window /\ accepted[i] \in Nat
      BY <1>2, <1>3 DEF DequeInv, Old
    <2>2. now' - accepted'[i] >= Window
      BY <1>1, <2>1 DEF LimiterBounds
    <2> QED
      BY <1>1, <2>2 DEF Old
  <1>5. \A i \in 1..Len(accepted) : accepted'[i] <= now'
    BY <1>1, <1>2
  <1>6. Forgotten' = Forgotten
    BY <1>1 DEF Forgotten
  <1> QED
    BY <1>1, <1>4, <1>5, <1>6 DEF DequeInv

LEMMA RegisterKeepsInv ==
  ASSUME LimiterBounds, DequeInv, TryRegister
  PROVE  DequeInv'
  <1> DEFINE n == Len(events)
             all == Len(accepted)
  <1>1. PICK m \in 1..(n + 1) : /\ Evicted = SubSeq(events, m, n)
                                /\ \A i \in 1..n : Old(events[i]) <=> i < m
    BY EvictsTheOld
  <1>2. n \in Nat /\ all \in Nat /\ n <= all /\ m \in Nat /\ Forgotten = all - n /\ now \in Nat
    BY DEF DequeInv, Forgotten
  <1>3. /\ Evicted \in Seq(Nat) /\ Len(Evicted) = n - m + 1
        /\ \A i \in 1..(n - m + 1) : Evicted[i] = events[m + i - 1]
    <2>a. events \in Seq(Nat)
      BY DEF DequeInv
    <2>1. ASSUME NEW i \in m..n PROVE events[i] \in Nat
      BY <1>2, <2>a
    <2> QED
      BY <1>1, <1>2, <2>1, SubSeqProperties
  <1>4. \A i \in 1..(n - m + 1) : Evicted[i] = accepted[(all - (n - m + 1)) + i]
    <2>1. ASSUME NEW i \in 1..(n - m + 1)
          PROVE  Evicted[i] = accepted[(all - (n - m + 1)) + i]
      <3>1. m + i - 1 \in 1..n /\ Forgotten + (m + i - 1) = (all - (n - m + 1)) + i
        BY <1>2
      <3> QED
        BY <1>3, <3>1 DEF DequeInv
    <2> QED
      BY <2>1
  <1>5. \A i \in 1..(all - (n - m + 1)) : Old(accepted[i])
    <2>1. ASSUME NEW i \in 1..(all - (n - m + 1)) PROVE Old(accepted[i])
      <3>1. CASE i <= Forgotten
        BY <1>2, <3>1 DEF DequeInv
      <3>2. CASE i > Forgotten
        <4>1. i - Forgotten \in 1..n /\ i - Forgotten < m /\ Forgotten + (i - Forgotten) = i
          BY <1>2, <3>2
        <4>2. events[i - Forgotten] = accepted[i]
          BY <4>1 DEF DequeInv
        <4> QED
          BY <1>1, <4>1, <4>2
      <3> QED
        BY <1>2, <3>1, <3>2
    <2> QED
      BY <2>1
  <1>6. now' = now
    BY DEF TryRegister
  <1>7. CASE allowed'
    <2>1. events' = Append(Evicted, now) /\ accepted' = Append(accepted, now)
      BY <1>7 DEF TryRegister
    <2>2. /\ events' \in Seq(Nat) /\ Len(events') = n - m + 2
          /\ \A i \in 1..(n - m + 1) : events'[i] = Evicted[i]
          /\ events'[n - m + 2] = now
      <3>1. Evicted \in Seq(Nat) /\ now \in Nat
        BY <1>2, <1>3
      <3>2. /\ Append(Evicted, now) \in Seq(Nat) /\ Len(Append(Evicted, now)) = Len(Evicted) + 1
            /\ \A i \in 1..Len(Evicted) : Append(Evicted, now)[i] = Evicted[i]
            /\ Append(Evicted, now)[Len(Evicted) + 1] = now
        BY <3>1, AppendProperties
      <3>3. Len(Evicted) = n - m + 1 /\ Len(Evicted) + 1 = n - m + 2
        BY <1>2, <1>3
      <3> QED
        BY <2>1, <3>2, <3>3
    <2>3. /\ accepted' \in Seq(Nat) /\ Len(accepted') = all + 1 /\ accepted'[all + 1] = now
          /\ \A i \in 1..all : accepted'[i] = accepted[i]
      BY <1>2, <2>1 DEF DequeInv
    <2>4. Forgotten' = all - (n - m + 1)
      BY <1>2, <2>2, <2>3 DEF Forgotten
    <2>5. ASSUME NEW i \in 1..Len(events') PROVE events'[i] = accepted'[Forgotten' + i]
      <3>1. CASE i = n - m + 2
        <4>1. Forgotten' + i = all + 1
          BY <1>2, <2>4, <3>1
        <4> QED
          BY <2>2, <2>3, <3>1, <4>1
      <3>2. CASE i # n - m + 2
        <4>a. i \in 1..(n - m + 1)
          <5>1. i \in 1..(n - m + 2)
            BY <2>2
          <5> QED
            BY <1>2, <3>2, <5>1
        <4>b. (all - (n - m + 1)) + i \in 1..all
          BY <1>2, <4>a
        <4>1. i \in 1..(n - m + 1) /\ Forgotten' + i \in 1..all
          BY <2>4, <4>a, <4>b
        <4>2. events'[i] = Evicted[i]
          BY <2>2, <4>1
        <4>3. accepted'[Forgotten' + i] = accepted[Forgotten' + i]
          BY <2>3, <4>1
        <4>4. Evicted[i] = accepted[Forgotten' + i]
          BY <1>2, <1>4, <2>4, <4>1
        <4> QED
          BY <4>2, <4>3, <4>4
      <3> QED
        BY <3>1, <3>2
    <2>6. ASSUME NEW i \in 1..Forgotten' PROVE Old(accepted[i])'
      <3>1. i \in 1..all
        BY <1>2, <2>4
      <3> QED
        BY <1>5, <1>6, <2>3, <2>4, <3>1 DEF Old
    <2>7. ASSUME NEW i \in 1..Len(accepted') PROVE accepted'[i] <= now'
      <3>1. \A k \in 1..all : accepted[k] <= now
        BY DEF DequeInv
      <3>2. i = all + 1 \/ i \in 1..all
        BY <1>2, <2>3, <2>7
      <3> QED
        BY <1>2, <1>6, <2>3, <3>1, <3>2
    <2>8. ASSUME NEW i \in 1..Len(accepted'), NEW j \in 1..Len(accepted'), i <= j
          PROVE  accepted'[i] <= accepted'[j]
      <3>1. CASE j = all + 1
        BY <1>6, <2>3, <2>7, <3>1
      <3>2. CASE j # all + 1
        <4>1. i \in 1..all /\ j \in 1..all
          BY <1>2, <2>3, <2>8, <3>2
        <4> QED
          BY <2>3, <2>8, <4>1 DEF DequeInv
      <3> QED
        BY <3>1, <3>2
    <2>9. Len(events') <= Len(accepted')
      BY <1>2, <2>2, <2>3
    <2> QED
      BY <1>2, <1>6, <2>2, <2>3, <2>5, <2>6, <2>7, <2>8, <2>9 DEF DequeInv
  <1>8. CASE ~allowed'
    <2>1. events' = Evicted /\ accepted' = accepted
      BY <1>8 DEF TryRegister
    <2>2. Forgotten' = all - (n - m + 1) /\ Len(events') <= Len(accepted')
      <3>1. Len(events') = n - m + 1 /\ Len(accepted') = all
        BY <1>3, <2>1
      <3> QED
        BY <1>2, <3>1 DEF Forgotten
    <2>3. \A i \in 1..Forgotten' : Old(accepted[i])'
      BY <1>5, <1>6, <2>1, <2>2 DEF Old
    <2>4. \A i \in 1..Len(events') : events'[i] = accepted'[Forgotten' + i]
      BY <1>3, <1>4, <2>1, <2>2
    <2> QED
      BY <1>3, <1>6, <2>1, <2>2, <2>3, <2>4 DEF DequeInv
  <1> QED
    BY <1>7, <1>8

LEMMA DequeStep == ASSUME LimiterBounds, DequeInv, [LimiterNext]_limiterVars PROVE DequeInv'
  <1>1. CASE UNCHANGED limiterVars
    BY <1>1 DEF limiterVars, DequeInv, Forgotten, Old
  <1> QED
    BY <1>1, TickKeepsInv, RegisterKeepsInv DEF LimiterNext

LEMMA SameCount == ASSUME NEW S PROVE Promise!Cardinality(S) = Cardinality(S)
  BY DEF Promise!Cardinality, Cardinality

LEMMA StepIsPromised ==
  ASSUME LimiterBounds, DequeInv, [LimiterNext]_limiterVars
  PROVE  [Promise!Tick \/ Promise!Register]_<<now, accepted, allowed>>
  <1>1. CASE Tick
    BY <1>1 DEF Tick, Promise!Tick, DequeInv
  <1>2. CASE TryRegister
    <2>1. Len(Evicted) = Cardinality(Promise!InWindow(now))
      BY CountsTheWindow
    <2>2. /\ allowed' = (Len(Evicted) < Limit) /\ now' = now
          /\ accepted' = IF allowed' THEN Append(accepted, now) ELSE accepted
      BY <1>2 DEF TryRegister
    <2>3. allowed' = (Cardinality(Promise!InWindow(now)) < Limit)
      BY <2>1, <2>2
    <2>4. Promise!Register
      BY <2>2, <2>3, SameCount DEF Promise!Register
    <2> QED
      BY <2>4
  <1>3. CASE UNCHANGED limiterVars
    BY <1>3 DEF limiterVars
  <1> QED
    BY <1>1, <1>2, <1>3 DEF LimiterNext

\* Every answer of the limiter (reconnect.rs, try_register) is that of one which
\* still has every registration it ever allowed.
THEOREM LimiterKeepsWindow == ASSUME LimiterBounds PROVE LimiterSpec => KeepsWindow
  <1>1. LimiterInit => DequeInv /\ Promise!Init
    BY DequeInit DEF LimiterInit, Promise!Init
  <1>2. DequeInv /\ [LimiterNext]_limiterVars => DequeInv'
    BY DequeStep
  <1>3. DequeInv /\ [LimiterNext]_limiterVars => [Promise!Tick \/ Promise!Register]_<<now, accepted, allowed>>
    BY StepIsPromised
  <1> QED
    BY <1>1, <1>2, <1>3, PTL DEF LimiterSpec, KeepsWindow, Promise!Spec

-----------------------------------------------------------------------------
(* What one call of the HTTP client costs, for every retry configuration,  *)
(* every size of a body and every sequence of answers.                     *)

\* What RetryConfig and the limit of a body are in the code.
HttpBounds == MaxTries \in Nat /\ BodyLimit \in Nat /\ Backoffs \subseteq Nat

May == retry.enabled /\ ~retry.user /\ method = "GET"

\* The requests sent are the attempts that began, and whoever waits has another
\* attempt; every wait before it was at most max_backoff.
Paid ==
    /\ step = "send" => sends = attemptNo
    /\ step # "send" => sends = attemptNo + 1
    /\ step = "wait" => May /\ HasBudget
    /\ attemptNo > 0 => May /\ attemptNo < retry.tries
    /\ waited <= attemptNo * retry.backoff

\* A call gives up over an error that another attempt would mend only if it may
\* not make one.
Exhausted == step = "err" /\ Retryable(lastError) => ~(May /\ HasBudget)

\* The inductive invariant.
Costs ==
    /\ retry \in [enabled : BOOLEAN, tries : Nat, backoff : Nat, user : BOOLEAN]
    /\ step \in {"send", "body", "wait", "ok", "err"}
    /\ attemptNo \in Nat /\ sends \in Nat /\ waited \in Nat
    /\ answer.hint \in Int /\ lastError.hint \in Int
    /\ Paid /\ Exhausted

-----------------------------------------------------------------------------

LEMMA MaxOfPair == ASSUME NEW n \in Nat PROVE Max({1, n}) = IF n > 1 THEN n ELSE 1
  BY DEF Max

LEMMA MinOfPair ==
  ASSUME NEW m \in Nat, NEW n \in Nat
  PROVE  Min({m, n}) \in Nat /\ Min({m, n}) <= n
  BY DEF Min

LEMMA NextMultiple ==
  ASSUME NEW a \in Nat, NEW b \in Nat, NEW w \in Nat, NEW d \in Nat, w <= a * b, d <= b
  PROVE  w + d <= (a + 1) * b
  <1>1. (a + 1) * b = a * b + b /\ a * b \in Nat
    OBVIOUS
  <1> QED
    BY <1>1

\* An attempt that fails: the call waits exactly when it may make another one.
LEMMA FailsKeepsCosts ==
  ASSUME Costs, NEW error, error.hint \in Int, Fails(error), step \in {"send", "body"}, waited' = waited,
         sends' = attemptNo + 1
  PROVE  Costs'
  <1>1. step' = IF ShouldRetry(error) THEN "wait" ELSE "err"
    BY DEF Fails
  <1>2. UNCHANGED <<retry, method, attemptNo, waited>> /\ lastError' = error
    BY DEF Fails
  <1>3. May' = May /\ HasBudget' = HasBudget
    BY <1>2 DEF May, HasBudget
  <1>4. Retryable(lastError)' <=> Retryable(error)
    BY <1>2 DEF Retryable
  <1>5. ShouldRetry(error) <=> May /\ HasBudget /\ Retryable(error)
    BY DEF ShouldRetry, May
  <1>6. Exhausted'
    BY <1>1, <1>3, <1>4, <1>5 DEF Exhausted
  <1>7. Paid'
    BY <1>1, <1>2, <1>3, <1>5 DEF Costs, Paid
  <1>8. lastError'.hint \in Int /\ answer'.hint \in Int
    BY <1>2 DEF Fails, NoAnswer
  <1> QED
    BY <1>1, <1>2, <1>6, <1>7, <1>8 DEF Costs

LEMMA FailureHasHint == ASSUME NEW kind PROVE Failure(kind).hint \in Int
  BY DEF Failure, NoFailure

LEMMA ApiErrorHasHint == ASSUME answer.hint \in Int PROVE ApiError.hint \in Int
  BY DEF ApiError

LEMMA CostsInit == ASSUME HttpBounds, HttpInit PROVE Costs
  <1>1. retry \in [enabled : BOOLEAN, tries : Nat, backoff : Nat, user : BOOLEAN]
    <2>1. retry \in [enabled : BOOLEAN, tries : 0..MaxTries, backoff : Backoffs, user : BOOLEAN]
      BY DEF HttpInit, Configs
    <2>2. \A n \in 0..MaxTries : n \in Nat
      BY DEF HttpBounds
    <2> QED
      BY <2>1, <2>2 DEF HttpBounds
  <1>2. 0 <= 0 * retry.backoff
    BY <1>1
  <1> QED
    BY <1>1, <1>2 DEF HttpInit, Costs, Paid, Exhausted, NoAnswer, NoFailure

LEMMA CostsStep == ASSUME Costs, [HttpNext]_httpVars PROVE Costs'
  <1>1. CASE Unanswered
    <2>1. Fails(Failure("transport")) /\ step = "send" /\ waited' = waited /\ sends' = attemptNo + 1
      BY <1>1 DEF Unanswered, Costs, Paid
    <2> QED
      BY <2>1, FailsKeepsCosts, FailureHasHint
  <1>2. ASSUME NEW a \in Answers, Answered(a) PROVE Costs'
    <2>1. step = "send" /\ waited' = waited /\ sends' = attemptNo + 1
      BY <1>2 DEF Answered, Costs, Paid
    <2>2. CASE a.declared > BodyLimit
      BY <1>2, <2>1, <2>2, FailsKeepsCosts, FailureHasHint DEF Answered
    <2>3. CASE ~(a.declared > BodyLimit)
      <3>1. step' = "body" /\ answer' = a /\ UNCHANGED <<retry, method, attemptNo, lastError>>
        BY <1>2, <2>3 DEF Answered
      <3>2. a.hint \in Int
        BY DEF Answers
      <3> QED
        BY <2>1, <3>1, <3>2 DEF Costs, Paid, Exhausted, May
    <2> QED
      BY <2>2, <2>3
  <1>3. ASSUME NEW n \in 1..BodyLimit, Chunk(n) PROVE Costs'
    <2>1. step = "body" /\ waited' = waited /\ sends' = sends /\ sends = attemptNo + 1
      BY <1>3 DEF Chunk, Costs, Paid
    <2>2. CASE body + n > BodyLimit
      BY <1>3, <2>1, <2>2, FailsKeepsCosts, FailureHasHint DEF Chunk
    <2>3. CASE ~(body + n > BodyLimit)
      <3>1. UNCHANGED <<retry, method, attemptNo, step, answer, lastError>>
        BY <1>3, <2>3 DEF Chunk
      <3> QED
        BY <2>1, <3>1 DEF Costs, Paid, Exhausted, May, HasBudget
    <2> QED
      BY <2>2, <2>3
  <1>4. CASE BodyBreaks
    BY <1>4, FailsKeepsCosts, FailureHasHint DEF BodyBreaks, Costs, Paid
  <1>5. CASE Complete
    <2>1. step = "body" /\ waited' = waited /\ sends' = sends /\ sends = attemptNo + 1
      BY <1>5 DEF Complete, Costs, Paid
    <2>2. CASE step' = "ok" /\ UNCHANGED <<retry, method, attemptNo, answer, body, lastError>>
      BY <2>1, <2>2 DEF Costs, Paid, Exhausted, May
    <2>3. CASE Fails(ApiError)
      BY <2>1, <2>3, FailsKeepsCosts, ApiErrorHasHint DEF Costs
    <2>4. CASE Fails(Failure("serde"))
      BY <2>1, <2>4, FailsKeepsCosts, FailureHasHint
    <2> QED
      BY <1>5, <2>2, <2>3, <2>4 DEF Complete
  <1>6. ASSUME NEW d \in 0..Max(Backoffs), Sleeps(d) PROVE Costs'
    <2>1. /\ step = "wait" /\ step' = "send" /\ d \in Delays
          /\ waited' = waited + d /\ attemptNo' = attemptNo + 1
          /\ UNCHANGED <<retry, method, answer, lastError, sends>>
      BY <1>6 DEF Sleeps
    <2>2. d \in Nat /\ d <= retry.backoff
      <3>1. CASE lastError.hint >= 0
        BY <2>1, <3>1, MinOfPair DEF Delays, Costs
      <3>2. CASE ~(lastError.hint >= 0)
        BY <2>1, <3>2 DEF Delays, Costs
      <3> QED
        BY <3>1, <3>2
    <2>3. waited' <= attemptNo' * retry.backoff
      BY <2>1, <2>2, NextMultiple DEF Costs, Paid
    <2>4. Paid'
      BY <2>1, <2>3 DEF Costs, Paid, May, HasBudget
    <2> QED
      BY <2>1, <2>2, <2>4 DEF Costs, Exhausted
  <1>7. CASE UNCHANGED httpVars
    BY <1>7 DEF httpVars, Costs, Paid, Exhausted, May, HasBudget, Retryable
  <1> QED
    BY <1>1, <1>2, <1>3, <1>4, <1>5, <1>6, <1>7 DEF HttpNext

LEMMA CostsAreBounded == ASSUME Costs PROVE RetriesAreBounded
  <1> DEFINE budget == IF May THEN Max({1, retry.tries}) ELSE 1
  <1>1. Max({1, retry.tries}) = IF retry.tries > 1 THEN retry.tries ELSE 1
    BY MaxOfPair DEF Costs
  <1>2. sends <= budget
    BY <1>1 DEF Costs, Paid, HasBudget
  <1>3. step = "err" /\ Retryable(lastError) => sends = budget
    BY <1>1 DEF Costs, Paid, Exhausted, HasBudget
  <1> QED
    BY <1>2, <1>3 DEF RetriesAreBounded, Costs, Paid, May

\* One call sends at most max_attempts requests, or one if it may not be repeated
\* (client.rs, should_retry), waits at most max_backoff before each further one
\* (retry_delay), and gives up over a retryable error only at the last attempt.
THEOREM RetriesStayBounded == ASSUME HttpBounds PROVE HttpSpec => []RetriesAreBounded
  <1>1. HttpInit => Costs
    BY CostsInit
  <1>2. Costs /\ [HttpNext]_httpVars => Costs'
    BY CostsStep
  <1>3. Costs => RetriesAreBounded
    BY CostsAreBounded
  <1> QED
    BY <1>1, <1>2, <1>3, PTL DEF HttpSpec

-----------------------------------------------------------------------------
(* No token takes the place of a newer one, for any number of loads, users *)
(* and seconds.                                                            *)

Sources == {"Static", "Provider", "ServerMinted"}

\* What the constants are in the code.
TokensBounds ==
    /\ MaxLoads \in Nat /\ Lifetime \in Nat /\ Skew \in Nat /\ LastSecond \in Nat
    /\ Kinds \subseteq Sources

Anybody == Users \cup {Nobody}
LoadPlaces == {"idle", "begun", "wait", "load", "again", "got", "done", "error"}
Tokens == [n : Nat, user : Anybody, exp : Int, early : BOOLEAN, server : BOOLEAN]
Loads == [at : LoadPlaces, gen : Nat, user : Anybody, source : Sources, token : Tokens, calls : Nat]

TokensTyped ==
    /\ clock \in Nat /\ generation \in Nat /\ issued \in Nat /\ outdated \in BOOLEAN
    /\ userOf \in [0..MaxLoads -> Anybody]
    /\ joinUser \in Anybody /\ source \in Sources \cup {Nobody}
    /\ refreshLock \in 0..MaxLoads
    /\ userToken \in Tokens
    /\ load \in [Loaders -> Loads]

InFlight(l) == load[l].at \in {"load", "again", "got"}
Stored(l) == load[l].at \notin {"idle", "begun"}

\* A load that has begun holds the lock until it is over; so the token that it
\* waits for is the last one that was asked for, and newer than the one in use.
LockInv ==
    /\ userToken.n <= issued
    /\ \A l \in Loaders : InFlight(l) =>
           /\ refreshLock = l
           /\ load[l].token.n = issued /\ userToken.n < issued

\* Unless an overtaken join stored its user, the user who is stored is that of
\* the running generation once a join of it has stored its own, and a load that
\* is still current asked for that user.
UserInv ==
    /\ \A l \in Loaders :
        /\ load[l].at = "idle" => generation < l
        /\ load[l].gen <= generation
        /\ load[l].at = "begun" => load[l].user = userOf[load[l].gen]
        /\ Stored(l) => source \in Sources
        /\ Stored(l) /\ load[l].gen = generation /\ ~outdated => joinUser = userOf[generation]
        /\ InFlight(l) /\ load[l].gen = generation /\ ~outdated => load[l].user = userOf[generation]
        /\ load[l].at = "got" => load[l].token.user = load[l].user

TokensInv == TokensTyped /\ LockInv /\ UserInv

-----------------------------------------------------------------------------
(* Tokens and places.                                                      *)

LEMMA UnloadedIsToken == ASSUME TokensBounds PROVE Unloaded \in Tokens /\ Idle \in Loads
  BY DEF TokensBounds, Unloaded, Idle, Never, Tokens, Loads, Anybody, Nobody, LoadPlaces, Sources

\* An answer is a token of its number, and one that passes the checks is of the user.
LEMMA AnswersAreTokens ==
  ASSUME TokensBounds, TokensTyped, NEW l \in Loaders, NEW t \in SourceAnswers(l)
  PROVE  t \in Tokens /\ t.n = load[l].token.n
  <1> DEFINE n == load[l].token.n
             user == load[l].user
  <1>1. n \in Nat /\ user \in Anybody /\ load[l].source \in Sources
    BY DEF TokensTyped, Loads, Tokens
  <1>2. clock \in Nat /\ Lifetime \in Nat /\ Never \in Nat /\ Skew \in Nat
    BY DEF TokensTyped, TokensBounds, Never
  <1>3. CASE load[l].source = "Static"
    <2>1. t = Token(n, user, 0, FALSE, FALSE)
      BY <1>3 DEF SourceAnswers
    <2> QED
      BY <1>1, <2>1 DEF Token, Tokens
  <1>4. CASE load[l].source = "Provider"
    <2>1. t \in Provided(n, user)
      BY <1>4 DEF SourceAnswers
    <2>2. ASSUME NEW exp \in {clock - Skew - 1, clock}, t = Token(n, user, exp, FALSE, FALSE)
          PROVE  t \in Tokens /\ t.n = n
      <3>1. exp \in Int
        BY <1>2
      <3> QED
        BY <1>1, <2>2, <3>1 DEF Token, Tokens
    <2>3. ASSUME NEW u \in Users, t = Token(n, u, Never, FALSE, FALSE) PROVE t \in Tokens /\ t.n = n
      BY <1>1, <1>2, <2>3 DEF Token, Tokens, Anybody
    <2>4. CASE t = Token(n, user, Never, TRUE, FALSE)
      BY <1>1, <1>2, <2>4 DEF Token, Tokens
    <2>5. CASE t = Token(n, user, Never, FALSE, TRUE)
      BY <1>1, <1>2, <2>5 DEF Token, Tokens
    <2> QED
      BY <2>1, <2>2, <2>3, <2>4, <2>5 DEF Provided
  <1>5. CASE load[l].source = "ServerMinted"
    <2>1. t = Minted(n, user)
      BY <1>5 DEF SourceAnswers
    <2> QED
      BY <1>1, <1>2, <2>1 DEF Minted, Token, Tokens
  <1> QED
    BY <1>1, <1>3, <1>4, <1>5 DEF Sources

LEMMA CheckedIsOfUser == ASSUME NEW t, NEW user, Error(t, user) = "none" PROVE t.user = user
  BY DEF Error

-----------------------------------------------------------------------------
(* The steps.                                                              *)

LEMMA TokensInvInit == ASSUME TokensBounds, TokensInit PROVE TokensInv
  <1>1. TokensTyped
    <2>1. userOf \in [0..MaxLoads -> Anybody] /\ 0 \in 0..MaxLoads
      BY DEF TokensInit, Anybody, TokensBounds
    <2> QED
      BY <2>1, UnloadedIsToken DEF TokensInit, TokensTyped, Anybody
  <1>2. \A l \in Loaders : load[l] = Idle /\ l > 0
    BY DEF TokensInit, Loaders, TokensBounds
  <1> QED
    BY <1>1, <1>2 DEF TokensInit, TokensInv, LockInv, UserInv, InFlight, Stored, Idle, Unloaded

\* What the record of a load becomes.
LEMMA Going ==
  ASSUME TokensTyped, NEW l \in Loaders, NEW place \in LoadPlaces, Goes(l, place)
  PROVE  /\ load' \in [Loaders -> Loads]
         /\ load'[l] = [load[l] EXCEPT !.at = place]
         /\ \A m \in Loaders \ {l} : load'[m] = load[m]
  BY DEF Goes, TokensTyped, Loads

LEMMA Returning ==
  ASSUME TokensBounds, TokensTyped, NEW l \in Loaders, NEW place \in {"done", "error"}, Returns(l, place)
  PROVE  /\ load' \in [Loaders -> Loads]
         /\ load'[l].at = place /\ load'[l].gen = load[l].gen
         /\ \A m \in Loaders \ {l} : load'[m] = load[m]
  <1>1. load'[l] = [Idle EXCEPT !.at = place, !.gen = load[l].gen]
    BY DEF Returns, TokensTyped
  <1>2. load'[l] \in Loads /\ load'[l].at = place /\ load'[l].gen = load[l].gen
    BY <1>1, UnloadedIsToken DEF TokensTyped, Loads, LoadPlaces
  <1> QED
    BY <1>2 DEF Returns, TokensTyped

\* The end of a load that has the lock, or waits for it.
LEMMA ReturnKeepsInv ==
  ASSUME TokensBounds, TokensInv, NEW l \in Loaders, NEW place \in {"done", "error"},
         Returns(l, place), Unlocks(l), Stored(l),
         UNCHANGED <<clock, generation, userOf, joinUser, source, issued, outdated>>,
         userToken' \in Tokens, userToken'.n <= issued,
         \A m \in Loaders \ {l} : InFlight(m) => userToken' = userToken
  PROVE  TokensInv'
  <1>1. /\ load' \in [Loaders -> Loads]
        /\ load'[l].at = place /\ load'[l].gen = load[l].gen
        /\ \A m \in Loaders \ {l} : load'[m] = load[m]
    BY Returning DEF TokensInv
  <1>2. refreshLock' \in 0..MaxLoads /\ (refreshLock # l => refreshLock' = refreshLock)
    BY DEF Unlocks, TokensInv, TokensTyped, TokensBounds
  <1>3. TokensTyped'
    BY <1>1, <1>2 DEF TokensInv, TokensTyped
  <1>4. LockInv'
    BY <1>1, <1>2 DEF TokensInv, LockInv, InFlight
  <1>5. UserInv'
    BY <1>1 DEF TokensInv, UserInv, InFlight, Stored
  <1> QED
    BY <1>3, <1>4, <1>5 DEF TokensInv

LEMMA JoinBeginsKeepsInv ==
  ASSUME TokensBounds, TokensInv, NEW l \in Loaders, NEW u \in Users, NEW k \in Kinds, JoinBegins(l, u, k)
  PROVE  TokensInv'
  <1>1. load' = [load EXCEPT ![l] = [Idle EXCEPT !.at = "begun", !.gen = generation',
                                                 !.user = u, !.source = k]]
    BY DEF JoinBegins
  <1>2. /\ load[l].at = "idle" /\ generation' = generation + 1 /\ generation \in Nat
        /\ userOf' = [userOf EXCEPT ![generation'] = u]
        /\ \A m \in Loaders : m < l => load[m].at # "idle"
        /\ UNCHANGED <<clock, joinUser, source, refreshLock, userToken, issued, outdated>>
    BY DEF JoinBegins, Idles, Loaders, TokensBounds, TokensInv, TokensTyped
  <1>3. generation' \in 0..MaxLoads /\ generation' <= l
    BY <1>2 DEF TokensInv, UserInv, Loaders, TokensBounds
  <1>4. /\ load'[l] \in Loads /\ load'[l].at = "begun" /\ load'[l].gen = generation'
        /\ load'[l].user = u
    <2>1. k \in Sources /\ u \in Anybody
      BY DEF TokensBounds, Anybody
    <2>2. load'[l] = [at |-> "begun", gen |-> generation', user |-> u, source |-> k,
                      token |-> Unloaded, calls |-> 0]
      BY <1>1 DEF TokensInv, TokensTyped, Idle
    <2> QED
      BY <1>2, <2>1, <2>2, UnloadedIsToken DEF Loads, LoadPlaces
  <1>5. load' \in [Loaders -> Loads] /\ \A m \in Loaders \ {l} : load'[m] = load[m]
    BY <1>1, <1>4 DEF TokensInv, TokensTyped
  <1>6. /\ userOf' \in [0..MaxLoads -> Anybody] /\ userOf'[generation'] = u
        /\ \A g \in 0..generation : userOf'[g] = userOf[g]
    BY <1>2, <1>3 DEF TokensInv, TokensTyped, Anybody
  <1>7. TokensTyped'
    BY <1>2, <1>5, <1>6 DEF TokensInv, TokensTyped
  <1>8. LockInv'
    BY <1>2, <1>4, <1>5 DEF TokensInv, LockInv, InFlight
  <1>9. UserInv'
    <2> SUFFICES ASSUME NEW m \in Loaders
                 PROVE  /\ load'[m].at = "idle" => generation' < m
                        /\ load'[m].gen <= generation'
                        /\ load'[m].at = "begun" => load'[m].user = userOf'[load'[m].gen]
                        /\ Stored(m)' => source' \in Sources
                        /\ Stored(m)' \/ InFlight(m)' => load'[m].gen # generation'
                        /\ load'[m].at = "got" => load'[m].token.user = load'[m].user
      BY DEF UserInv
    <2>1. CASE m = l
      BY <1>2, <1>4, <1>6, <2>1 DEF Stored, InFlight
    <2>2. CASE m # l
      <3>1. load'[m] = load[m] /\ load[m].gen \in 0..generation
        BY <1>5, <2>2 DEF TokensInv, TokensTyped, UserInv, Loads
      <3>2. load[m].at = "idle" => generation' < m
        BY <1>2, <1>3, <2>2 DEF Loaders, TokensBounds
      <3> QED
        BY <1>2, <1>6, <3>1, <3>2 DEF TokensInv, UserInv, Stored, InFlight
    <2> QED
      BY <2>1, <2>2
  <1> QED
    BY <1>7, <1>8, <1>9 DEF TokensInv

LEMMA JoinStoresKeepsInv ==
  ASSUME TokensBounds, TokensInv, NEW l \in Loaders, JoinStores(l)
  PROVE  TokensInv'
  <1>1. /\ load' \in [Loaders -> Loads]
        /\ load'[l] = [load[l] EXCEPT !.at = "wait"]
        /\ \A m \in Loaders \ {l} : load'[m] = load[m]
    BY Going DEF JoinStores, TokensInv, LoadPlaces
  <1>2. /\ load[l].at = "begun" /\ joinUser' = load[l].user /\ source' = load[l].source
        /\ outdated' = (outdated \/ load[l].gen # generation)
        /\ UNCHANGED <<clock, generation, userOf, refreshLock, userToken, issued>>
    BY DEF JoinStores
  <1>3. /\ load'[l].at = "wait" /\ load'[l].gen = load[l].gen
        /\ source' \in Sources /\ joinUser' \in Anybody /\ outdated' \in BOOLEAN
    BY <1>1, <1>2 DEF TokensInv, TokensTyped, Loads
  <1>4. TokensTyped'
    BY <1>1, <1>2, <1>3 DEF TokensInv, TokensTyped
  <1>5. LockInv'
    BY <1>1, <1>2, <1>3 DEF TokensInv, LockInv, InFlight
  <1>6. ~outdated' => load[l].gen = generation /\ joinUser' = userOf[generation] /\ ~outdated
    BY <1>2 DEF TokensInv, UserInv
  <1>7. UserInv'
    <2> SUFFICES ASSUME NEW m \in Loaders
                 PROVE  /\ load'[m].at = "idle" => generation < m
                        /\ load'[m].gen <= generation
                        /\ load'[m].at = "begun" => load'[m].user = userOf[load'[m].gen]
                        /\ ~outdated' => joinUser' = userOf[generation]
                        /\ InFlight(m)' /\ load'[m].gen = generation /\ ~outdated'
                              => load'[m].user = userOf[generation]
                        /\ load'[m].at = "got" => load'[m].token.user = load'[m].user
      BY <1>2, <1>3 DEF UserInv
    <2>1. CASE m = l
      BY <1>1, <1>3, <1>6, <2>1 DEF TokensInv, UserInv, InFlight
    <2>2. CASE m # l
      <3>1. load'[m] = load[m]
        BY <1>1, <2>2
      <3> QED
        BY <1>6, <3>1 DEF TokensInv, UserInv, InFlight
    <2> QED
      BY <2>1, <2>2
  <1> QED
    BY <1>4, <1>5, <1>7 DEF TokensInv

\* FullReconnect and ServerRefuses: a load of the running generation begins.
LEMMA AskingKeepsInv ==
  ASSUME TokensBounds, TokensInv, NEW l \in Loaders, FullReconnect(l) \/ ServerRefuses(l)
  PROVE  TokensInv'
  <1>1. /\ load[l].at = "idle" /\ Joined
        /\ load' = [load EXCEPT ![l] = [Idle EXCEPT !.at = "wait", !.gen = generation]]
        /\ UNCHANGED <<clock, generation, userOf, joinUser, source, refreshLock, userToken, issued,
                       outdated>>
    BY DEF FullReconnect, ServerRefuses, Idles
  <1>2. load'[l] = [at |-> "wait", gen |-> generation, user |-> "nobody", source |-> "Static",
                    token |-> Unloaded, calls |-> 0]
    BY <1>1 DEF TokensInv, TokensTyped, Idle
  <1>3. load'[l] \in Loads
    BY <1>2, UnloadedIsToken DEF TokensInv, TokensTyped, Loads, LoadPlaces, Anybody, Nobody, Sources
  <1>4. load' \in [Loaders -> Loads] /\ \A m \in Loaders \ {l} : load'[m] = load[m]
    BY <1>1, <1>3 DEF TokensInv, TokensTyped
  <1>5. PICK d \in Loaders : load[d].gen = generation /\ load[d].at = "done"
    BY <1>1 DEF Joined
  <1>6. source \in Sources /\ (~outdated => joinUser = userOf[generation])
    BY <1>5 DEF TokensInv, UserInv, Stored
  <1>7. TokensTyped'
    BY <1>1, <1>4 DEF TokensInv, TokensTyped
  <1>8. LockInv'
    BY <1>1, <1>2, <1>4 DEF TokensInv, LockInv, InFlight
  <1>9. generation <= generation
    BY DEF TokensInv, TokensTyped
  <1>10. UserInv'
    BY <1>1, <1>2, <1>4, <1>6, <1>9 DEF TokensInv, UserInv, InFlight, Stored
  <1> QED
    BY <1>7, <1>8, <1>10 DEF TokensInv

LEMMA LoadBeginsKeepsInv ==
  ASSUME TokensBounds, TokensInv, NEW l \in Loaders, LoadBegins(l)
  PROVE  TokensInv'
  <1> DEFINE token == [Unloaded EXCEPT !.n = issued + 1]
  <1>1. /\ load[l].at = "wait" /\ refreshLock = 0 /\ refreshLock' = l /\ issued' = issued + 1
        /\ load' = [load EXCEPT ![l].at = "load", ![l].user = joinUser, ![l].source = source,
                                ![l].token = token, ![l].calls = 1]
        /\ UNCHANGED <<clock, generation, userOf, joinUser, source, userToken, outdated>>
    BY DEF LoadBegins, MayLoad
  <1>2. token \in Tokens /\ token.n = issued + 1
    BY UnloadedIsToken DEF Tokens, TokensInv, TokensTyped
  <1>3. source \in Sources
    BY <1>1 DEF TokensInv, UserInv, Stored
  <1>4. load'[l] = [at |-> "load", gen |-> load[l].gen, user |-> joinUser, source |-> source,
                    token |-> token, calls |-> 1]
    BY <1>1 DEF TokensInv, TokensTyped, Loads
  <1>5. /\ load'[l] \in Loads
        /\ load'[l].at = "load" /\ load'[l].gen = load[l].gen /\ load'[l].user = joinUser
        /\ load'[l].token = token
    <2> HIDE DEF token
    <2> QED
      BY <1>2, <1>3, <1>4 DEF TokensInv, TokensTyped, Loads, LoadPlaces
  <1>6. load' \in [Loaders -> Loads] /\ \A m \in Loaders \ {l} : load'[m] = load[m]
    BY <1>1, <1>5 DEF TokensInv, TokensTyped
  <1>7. \A m \in Loaders : ~InFlight(m)
    BY <1>1 DEF TokensInv, LockInv, Loaders, TokensBounds
  <1> HIDE DEF token
  <1>8. TokensTyped'
    BY <1>1, <1>6 DEF TokensInv, TokensTyped, Loaders, TokensBounds
  <1>9. LockInv'
    <2>1. userToken.n < issued + 1 /\ userToken.n \in Nat
      BY DEF TokensInv, TokensTyped, LockInv, Tokens
    <2>2. ASSUME NEW m \in Loaders, InFlight(m)'
          PROVE  refreshLock' = m /\ load'[m].token.n = issued'
      <3>1. m = l
        BY <1>6, <1>7, <2>2 DEF InFlight
      <3> QED
        BY <1>1, <1>2, <1>5, <3>1
    <2>3. userToken'.n < issued' /\ userToken'.n <= issued'
      BY <1>1, <2>1 DEF TokensInv, TokensTyped
    <2> QED
      BY <2>2, <2>3 DEF LockInv
  <1>10. UserInv'
    <2>1. ASSUME NEW m \in Loaders \ {l}
          PROVE  /\ load'[m] = load[m] /\ ~InFlight(m) /\ ~InFlight(m)' /\ load[m].at # "got"
                 /\ Stored(m)' = Stored(m)
      BY <1>6, <1>7 DEF InFlight, Stored
    <2>2. /\ Stored(l) /\ load'[l].at = "load" /\ load'[l].gen = load[l].gen
          /\ load'[l].user = joinUser
      BY <1>1, <1>5 DEF Stored
    <2>3. UserInv
      BY DEF TokensInv
    <2> DEFINE Right(m) ==
          /\ load[m].at = "idle" => generation < m
          /\ load[m].gen <= generation
          /\ load[m].at = "begun" => load[m].user = userOf[load[m].gen]
          /\ Stored(m) => source \in Sources
          /\ Stored(m) /\ load[m].gen = generation /\ ~outdated => joinUser = userOf[generation]
          /\ InFlight(m) /\ load[m].gen = generation /\ ~outdated => load[m].user = userOf[generation]
          /\ load[m].at = "got" => load[m].token.user = load[m].user
    <2>4. \A m \in Loaders : Right(m)
      BY <2>3 DEF UserInv
    <2>5. ASSUME NEW m \in Loaders \ {l} PROVE Right(m)'
      BY <1>1, <2>1, <2>4
    <2>6. Right(l)'
      BY <1>1, <2>2, <2>4 DEF InFlight, Stored
    <2>7. \A m \in Loaders : Right(m)'
      BY <2>5, <2>6
    <2> QED
      BY <2>7 DEF UserInv
  <1> QED
    BY <1>8, <1>9, <1>10 DEF TokensInv

LEMMA LoadedKeepsInv ==
  ASSUME TokensBounds, TokensInv, NEW l \in Loaders, Loaded(l)
  PROVE  TokensInv'
  <1>1. /\ load[l].at \in {"load", "again"}
        /\ UNCHANGED <<clock, generation, userOf, joinUser, source, userToken, outdated>>
    BY DEF Loaded
  <1>2. Stored(l) /\ InFlight(l) /\ refreshLock = l /\ \A m \in Loaders \ {l} : ~InFlight(m)
    BY <1>1 DEF TokensInv, LockInv, Stored, InFlight
  <1>3. CASE Returns(l, "error") /\ Unlocks(l) /\ UNCHANGED issued
    <2>1. userToken' \in Tokens /\ userToken'.n <= issued
      BY <1>1 DEF TokensInv, TokensTyped, LockInv
    <2> QED
      BY <1>1, <1>2, <1>3, <2>1, ReturnKeepsInv
  <1>4. ASSUME NEW t \in SourceAnswers(l), Error(t, load[l].user) = "none",
               load' = [load EXCEPT ![l].at = "got", ![l].token = t], UNCHANGED <<refreshLock, issued>>
        PROVE  TokensInv'
    <2>1. t \in Tokens /\ t.n = load[l].token.n /\ t.user = load[l].user
      BY <1>4, AnswersAreTokens, CheckedIsOfUser DEF TokensInv
    <2>2. load'[l] = [at |-> "got", gen |-> load[l].gen, user |-> load[l].user,
                      source |-> load[l].source, token |-> t, calls |-> load[l].calls]
      BY <1>4 DEF TokensInv, TokensTyped, Loads
    <2>3. load'[l] \in Loads
      BY <2>1, <2>2 DEF TokensInv, TokensTyped, Loads, LoadPlaces
    <2>4. load' \in [Loaders -> Loads] /\ \A m \in Loaders \ {l} : load'[m] = load[m]
      BY <1>4, <2>3 DEF TokensInv, TokensTyped
    <2>5. TokensTyped'
      BY <1>1, <1>4, <2>4 DEF TokensInv, TokensTyped
    <2>6. LockInv'
      BY <1>1, <1>2, <1>4, <2>1, <2>2, <2>4 DEF TokensInv, LockInv, InFlight
    <2>7. UserInv'
      BY <1>1, <1>2, <1>4, <2>1, <2>2, <2>4 DEF TokensInv, UserInv, InFlight, Stored
    <2> QED
      BY <2>5, <2>6, <2>7 DEF TokensInv
  <1>5. CASE /\ load' = [load EXCEPT ![l].at = "again", ![l].calls = 2, ![l].token.n = issued + 1]
             /\ issued' = issued + 1 /\ UNCHANGED refreshLock
    <2> DEFINE token == [load[l].token EXCEPT !.n = issued + 1]
    <2>a. load[l].token \in Tokens /\ issued + 1 \in Nat
      BY DEF TokensInv, TokensTyped, Loads
    <2>1. token \in Tokens /\ token.n = issued + 1
      BY <2>a DEF Tokens
    <2>2. load'[l] = [at |-> "again", gen |-> load[l].gen, user |-> load[l].user,
                      source |-> load[l].source, token |-> token, calls |-> 2]
      BY <1>5 DEF TokensInv, TokensTyped, Loads
    <2> HIDE DEF token
    <2>3. load'[l] \in Loads
      BY <2>1, <2>2 DEF TokensInv, TokensTyped, Loads, LoadPlaces
    <2>4. load' \in [Loaders -> Loads] /\ \A m \in Loaders \ {l} : load'[m] = load[m]
      BY <1>5, <2>3 DEF TokensInv, TokensTyped
    <2>5. TokensTyped'
      BY <1>1, <1>5, <2>4 DEF TokensInv, TokensTyped
    <2>6. LockInv'
      <3>1. userToken.n < issued + 1 /\ userToken.n <= issued + 1
        BY DEF TokensInv, TokensTyped, LockInv, Tokens
      <3>2. ASSUME NEW m \in Loaders, InFlight(m)'
            PROVE  refreshLock' = m /\ load'[m].token.n = issued'
        <4>1. m = l
          BY <1>2, <2>4, <3>2 DEF InFlight
        <4> QED
          BY <1>2, <1>5, <2>1, <2>2, <4>1
      <3> QED
        BY <1>1, <1>5, <3>1, <3>2 DEF LockInv
    <2>7. UserInv'
      BY <1>1, <1>2, <1>5, <2>2, <2>4 DEF TokensInv, UserInv, InFlight, Stored
    <2> QED
      BY <2>5, <2>6, <2>7 DEF TokensInv
  <1> QED
    BY <1>3, <1>4, <1>5 DEF Loaded

LEMMA StoresKeepsInv ==
  ASSUME TokensBounds, TokensInv, NEW l \in Loaders, Stores(l)
  PROVE  TokensInv'
  <1>1. /\ load[l].at = "got" /\ Unlocks(l)
        /\ UNCHANGED <<clock, generation, userOf, joinUser, source, issued, outdated>>
    BY DEF Stores
  <1>2. Stored(l) /\ InFlight(l) /\ refreshLock = l /\ \A m \in Loaders \ {l} : ~InFlight(m)
    BY <1>1 DEF TokensInv, LockInv, Stored, InFlight
  <1>3. load[l].token \in Tokens /\ load[l].token.n = issued /\ userToken \in Tokens
        /\ userToken.n <= issued /\ issued \in Nat
    BY <1>2 DEF TokensInv, TokensTyped, LockInv, Loads
  <1>4. userToken' \in Tokens /\ userToken'.n <= issued /\ (Returns(l, "done") \/ Returns(l, "error"))
    BY <1>3 DEF Stores
  <1> QED
    BY <1>1, <1>2, <1>4, ReturnKeepsInv

LEMMA CancelledKeepsInv ==
  ASSUME TokensBounds, TokensInv, NEW l \in Loaders, Cancelled(l)
  PROVE  TokensInv'
  <1>1. /\ Stored(l) /\ Returns(l, "error") /\ Unlocks(l)
        /\ UNCHANGED <<clock, generation, userOf, joinUser, source, userToken, issued, outdated>>
    BY DEF Cancelled, Stored
  <1>2. userToken' \in Tokens /\ userToken'.n <= issued
    BY <1>1 DEF TokensInv, TokensTyped, LockInv
  <1> QED
    BY <1>1, <1>2, ReturnKeepsInv

LEMMA TokensInvStep == ASSUME TokensBounds, TokensInv, [TokensNext]_tokensVars PROVE TokensInv'
  <1>1. CASE SecondPasses
    <2>1. clock' \in Nat /\ UNCHANGED <<generation, userOf, joinUser, source, refreshLock, userToken,
                                        load, issued, outdated>>
      BY <1>1 DEF SecondPasses, TokensInv, TokensTyped
    <2> QED
      BY <2>1 DEF TokensInv, TokensTyped, LockInv, UserInv, InFlight, Stored
  <1>2. CASE UNCHANGED tokensVars
    BY <1>2 DEF tokensVars, TokensInv, TokensTyped, LockInv, UserInv, InFlight, Stored
  <1> QED
    BY <1>1, <1>2, JoinBeginsKeepsInv, JoinStoresKeepsInv, AskingKeepsInv, LoadBeginsKeepsInv,
       LoadedKeepsInv, StoresKeepsInv, CancelledKeepsInv DEF TokensNext

-----------------------------------------------------------------------------
(* The property.                                                           *)

\* Only the end of a load writes the token.
LEMMA OnlyStoresWrites ==
  ASSUME [TokensNext]_tokensVars, userToken' # userToken
  PROVE  \E l \in Loaders : Stores(l) /\ IsCurrent(l) /\ userToken' = load[l].token
  BY DEF TokensNext, tokensVars, JoinBegins, JoinStores, FullReconnect, ServerRefuses, LoadBegins, Loaded, Stores,
         Cancelled, SecondPasses

\* The check of the generation and the store are one critical section
\* (lifecycle.rs, reload_user_token), and the lock orders the loads: the token in
\* use is never replaced by one asked for earlier, nor by that of another user
\* than the one of the running generation.
THEOREM TokensAreNeverOlder == ASSUME TokensBounds PROVE TokensSpec => NewestTokenStays
  <1>1. TokensInit => TokensInv
    BY TokensInvInit
  <1>2. TokensInv /\ [TokensNext]_tokensVars => TokensInv'
    BY TokensInvStep
  <1>3. TokensInv /\ [TokensNext]_tokensVars =>
            [userToken' # userToken =>
                /\ userToken'.n > userToken.n
                /\ outdated \/ userToken'.user = userOf[generation]]_tokensVars
    <2> SUFFICES ASSUME TokensInv, [TokensNext]_tokensVars, userToken' # userToken
                 PROVE  /\ userToken'.n > userToken.n
                        /\ outdated \/ userToken'.user = userOf[generation]
      OBVIOUS
    <2>1. PICK l \in Loaders : Stores(l) /\ IsCurrent(l) /\ userToken' = load[l].token
      BY OnlyStoresWrites
    <2>2. load[l].at = "got" /\ InFlight(l) /\ load[l].gen = generation
      BY <2>1 DEF Stores, IsCurrent, InFlight
    <2>3. load[l].token.n = issued /\ userToken.n < issued /\ issued \in Nat /\ userToken.n \in Nat
      BY <2>2 DEF TokensInv, TokensTyped, LockInv, Tokens
    <2>4. outdated \/ load[l].token.user = userOf[generation]
      BY <2>2 DEF TokensInv, UserInv
    <2> QED
      BY <2>1, <2>3, <2>4
  <1> QED
    BY <1>1, <1>2, <1>3, PTL DEF TokensSpec, NewestTokenStays

-----------------------------------------------------------------------------
(* The types of the limiter, of the loads and of the HTTP client.          *)

\* The bounds of the model; the times and the tries stay below them.
RequestBounds ==
    /\ LimiterBounds /\ TokensBounds /\ HttpBounds
    /\ End \in Nat

LEMMA LimiterTyped ==
  ASSUME LimiterBounds, DequeInv, now \in 0..End, allowed \in BOOLEAN, Len(events) <= Limit
  PROVE  LimiterTypeOK
  <1>1. /\ events \in Seq(Nat) /\ accepted \in Seq(Nat) /\ Len(events) \in Nat /\ Len(accepted) \in Nat
        /\ Len(events) <= Len(accepted) /\ Forgotten = Len(accepted) - Len(events)
    BY DEF DequeInv, Forgotten
  <1>2. ASSUME NEW i \in 1..Len(events) PROVE events[i] \in 0..now
    <2>1. Forgotten + i \in 1..Len(accepted)
      BY <1>1
    <2>2. events[i] = accepted[Forgotten + i] /\ accepted[Forgotten + i] <= now
      BY <2>1 DEF DequeInv
    <2>3. events[i] \in Nat
      BY <1>1
    <2> QED
      BY <2>2, <2>3
  <1>3. events \in Seq(0..now)
    <2>1. events \in [1..Len(events) -> 0..now]
      BY <1>1, <1>2
    <2>2. Seq(0..now) = UNION {[1..n -> 0..now] : n \in Nat}
      BY SeqDef
    <2> QED
      BY <1>1, <2>1, <2>2, Zenon
  <1>4. IsSuffix(events, accepted)
    <2> DEFINE r == Reverse(events)
               q == Reverse(accepted)
    <2>1. /\ r \in Seq(Nat) /\ Len(r) = Len(events)
          /\ q \in Seq(Nat) /\ Len(q) = Len(accepted)
          /\ \A i \in 1..Len(events) : r[i] = events[Len(events) - i + 1]
          /\ \A i \in 1..Len(accepted) : q[i] = accepted[Len(accepted) - i + 1]
      BY <1>1 DEF Reverse
    <2>2. ASSUME NEW i \in 1..Len(r) PROVE r[i] = q[i]
      <3>1. Len(events) - i + 1 \in 1..Len(events) /\ i \in 1..Len(accepted)
            /\ Forgotten + (Len(events) - i + 1) = Len(accepted) - i + 1
        BY <1>1, <2>1
      <3>2. events[Len(events) - i + 1] = accepted[Forgotten + (Len(events) - i + 1)]
        BY <3>1 DEF DequeInv
      <3> QED
        BY <1>1, <2>1, <3>1, <3>2
    <2> HIDE DEF r, q
    <2>3. Len(r) <= Len(q) /\ Len(r) \in Nat
      BY <1>1, <2>1
    <2>4. SubSeq(r, 1, Len(r)) = SubSeq(q, 1, Len(r))
      BY <2>1, <2>2, <2>3
    <2>5. IsPrefix(r, q)
      BY <2>3, <2>4 DEF IsPrefix
    <2> QED
      BY <2>5 DEF IsSuffix, r, q
  <1> QED
    BY <1>3, <1>4 DEF LimiterTypeOK

LEMMA LimiterTypesHold ==
  ASSUME RequestBounds
  PROVE  LimiterSpec => []LimiterTypeOK
  <1> DEFINE Inv == DequeInv /\ now \in 0..End /\ allowed \in BOOLEAN /\ Len(events) <= Limit
  <1>1. LimiterInit => Inv
    BY DequeInit DEF LimiterInit, RequestBounds, LimiterBounds
  <1>2. Inv /\ [LimiterNext]_limiterVars => Inv'
    <2> SUFFICES ASSUME Inv, [LimiterNext]_limiterVars PROVE Inv'
      OBVIOUS
    <2>1. DequeInv'
      BY DequeStep DEF RequestBounds
    <2>2. CASE Tick
      BY <2>1, <2>2 DEF Tick, RequestBounds
    <2>3. CASE TryRegister
      <3>1. allowed' \in BOOLEAN /\ now' = now
        BY <2>3 DEF TryRegister
      <3>2. Evicted \in Seq(Nat) /\ Len(Evicted) <= Len(events) /\ Len(Evicted) \in Nat
        <4>1. PICK m \in 1..(Len(events) + 1) : Evicted = SubSeq(events, m, Len(events))
          BY EvictsTheOld DEF RequestBounds
        <4>2. events \in Seq(Nat) /\ Len(events) \in Nat
          BY DEF DequeInv
        <4> QED
          BY <4>1, <4>2
      <3>3. Len(events') <= Limit
        <4>1. CASE allowed'
          <5>1. Len(Evicted) < Limit /\ events' = Append(Evicted, now)
            BY <2>3, <4>1 DEF TryRegister
          <5> QED
            BY <3>2, <5>1 DEF RequestBounds, LimiterBounds
        <4>2. CASE ~allowed'
          <5>1. events' = Evicted /\ Len(events) \in Nat
            BY <2>3, <4>2 DEF TryRegister, DequeInv
          <5> QED
            BY <3>2, <5>1 DEF RequestBounds, LimiterBounds
        <4> QED
          BY <4>1, <4>2
      <3> QED
        BY <2>1, <3>1, <3>3
    <2>4. CASE UNCHANGED limiterVars
      BY <2>1, <2>4 DEF limiterVars
    <2> QED
      BY <2>2, <2>3, <2>4 DEF LimiterNext
  <1>3. Inv => LimiterTypeOK
    BY LimiterTyped DEF RequestBounds
  <1> QED
    BY <1>1, <1>2, <1>3, PTL DEF LimiterSpec

LEMMA TokensTypesHold ==
  ASSUME RequestBounds
  PROVE  TokensSpec => []TokensTypeOK
  <1> DEFINE Inv == TokensInv /\ clock \in 0..LastSecond /\ source \in Kinds \cup {Nobody}
                    /\ \A l \in Loaders : load[l].at = "begun" => load[l].source \in Kinds
  <1> USE DEF RequestBounds
  <1>1. TokensInit => Inv
    <2> SUFFICES ASSUME TokensInit PROVE Inv
      OBVIOUS
    <2>1. clock = 0 /\ source = Nobody /\ 0 \in 0..LastSecond
      BY DEF TokensInit, TokensBounds
    <2>2. \A l \in Loaders : load[l].at = "idle"
      BY DEF TokensInit, Idle
    <2>3. TokensInv
      BY TokensInvInit
    <2> QED
      BY <2>1, <2>2, <2>3
  <1>2. Inv /\ [TokensNext]_tokensVars => Inv'
    <2> SUFFICES ASSUME Inv, [TokensNext]_tokensVars PROVE Inv'
      OBVIOUS
    <2>1. TokensInv'
      BY TokensInvStep
    <2>2. clock' \in 0..LastSecond
      <3>1. clock' = clock \/ SecondPasses
        BY DEF TokensNext, tokensVars, JoinBegins, JoinStores, FullReconnect, ServerRefuses, LoadBegins,
               Loaded, Stores, Cancelled
      <3> QED
        BY <3>1 DEF SecondPasses, TokensBounds
    <2>3. source' \in Kinds \cup {Nobody}
      BY DEF TokensNext, tokensVars, JoinBegins, JoinStores, FullReconnect, ServerRefuses, LoadBegins,
             Loaded, Stores, Cancelled, SecondPasses
    <2>4. ASSUME NEW l \in Loaders, load'[l].at = "begun" PROVE load'[l].source \in Kinds
      <3>1. load \in [Loaders -> Loads]
        BY DEF TokensInv, TokensTyped
      <3>2. CASE load'[l] = load[l]
        BY <2>4, <3>2
      <3>3. ASSUME NEW m \in Loaders, NEW u \in Users, NEW k \in Kinds, JoinBegins(m, u, k)
            PROVE  load'[l].source \in Kinds
        <4>1. CASE l = m
          BY <3>1, <3>3, <4>1 DEF JoinBegins, Idle
        <4>2. CASE l # m
          BY <2>4, <3>1, <3>3, <4>2 DEF JoinBegins
        <4> QED
          BY <4>1, <4>2
      <3>4. ASSUME NEW m \in Loaders,
                   \/ JoinStores(m) \/ FullReconnect(m) \/ ServerRefuses(m) \/ LoadBegins(m)
                   \/ Loaded(m) \/ Stores(m) \/ Cancelled(m)
            PROVE  load'[l].source \in Kinds
        <4>1. CASE l = m
          <5>1. load'[m].at # "begun"
            <6>1. CASE JoinStores(m)
              BY <3>1, <6>1 DEF JoinStores, Goes, Loads
            <6>2. CASE FullReconnect(m) \/ ServerRefuses(m)
              BY <3>1, <6>2 DEF FullReconnect, ServerRefuses, Idle
            <6>3. CASE LoadBegins(m)
              BY <3>1, <6>3 DEF LoadBegins, Loads
            <6>4. CASE Stores(m) \/ Cancelled(m)
              BY <3>1, <6>4 DEF Stores, Cancelled, Returns, Idle
            <6>5. CASE Loaded(m)
              <7>1. CASE Returns(m, "error")
                BY <3>1, <7>1 DEF Returns, Idle
              <7>2. CASE ~Returns(m, "error")
                BY <3>1, <6>5, <7>2 DEF Loaded, Loads
              <7> QED
                BY <7>1, <7>2
            <6> QED
              BY <3>4, <6>1, <6>2, <6>3, <6>4, <6>5
          <5> QED
            BY <2>4, <4>1, <5>1
        <4>2. CASE l # m
          <5>1. load'[l] = load[l]
            BY <3>1, <3>4, <4>2
               DEF JoinStores, FullReconnect, ServerRefuses, LoadBegins, Loaded, Stores, Cancelled,
                   Goes, Returns
          <5> QED
            BY <3>2, <5>1
        <4> QED
          BY <4>1, <4>2
      <3> QED
        BY <3>2, <3>3, <3>4 DEF TokensNext, SecondPasses, tokensVars
    <2> QED
      BY <2>1, <2>2, <2>3, <2>4
  <1>3. Inv => TokensTypeOK
    BY DEF TokensInv, TokensTyped, TokensTypeOK, Loads, LoadPlaces
  <1> QED
    BY <1>1, <1>2, <1>3, PTL DEF TokensSpec

LEMMA HttpTypesHold ==
  ASSUME RequestBounds
  PROVE  HttpSpec => []HttpTypeOK
  <1> DEFINE Inv == Costs /\ HttpTypeOK /\ retry.tries <= MaxTries
  <1> USE DEF RequestBounds, HttpBounds
  <1>1. HttpInit => Inv
    BY CostsInit DEF HttpInit, HttpTypeOK, Configs, NoAnswer, NoFailure
  <1>2. Inv /\ [HttpNext]_httpVars => Inv'
    <2> SUFFICES ASSUME Inv, [HttpNext]_httpVars PROVE Inv'
      OBVIOUS
    <2>1. Costs'
      BY CostsStep
    <2>2. step' \in {"send", "body", "wait", "ok", "err"}
      BY <2>1 DEF Costs
    <2>3. ASSUME NEW e, e.kind \in {"none", "transport", "serde", "large", "api"}, Fails(e)
          PROVE  Inv'
      BY <2>1, <2>2, <2>3 DEF Fails, HttpTypeOK, NoAnswer
    <2>4. /\ \A k \in {"transport", "serde", "large"} :
                Failure(k).kind \in {"none", "transport", "serde", "large", "api"}
          /\ ApiError.kind \in {"none", "transport", "serde", "large", "api"}
      BY DEF Failure, NoFailure, ApiError
    <2>5. CASE Unanswered \/ BodyBreaks
      BY <2>3, <2>4, <2>5 DEF Unanswered, BodyBreaks
    <2>6. ASSUME NEW a \in Answers, Answered(a) PROVE Inv'
      BY <2>1, <2>2, <2>3, <2>4, <2>6 DEF Answered, HttpTypeOK
    <2>7. ASSUME NEW n \in 1..BodyLimit, Chunk(n) PROVE Inv'
      <3>1. CASE body + n > BodyLimit
        BY <2>3, <2>4, <2>7, <3>1 DEF Chunk
      <3>2. CASE ~(body + n > BodyLimit)
        BY <2>1, <2>2, <2>7, <3>2 DEF Chunk, HttpTypeOK
      <3> QED
        BY <3>1, <3>2
    <2>8. CASE Complete
      <3>1. CASE Fails(ApiError) \/ Fails(Failure("serde"))
        BY <2>3, <2>4, <3>1
      <3>2. CASE step' = "ok" /\ UNCHANGED <<retry, method, attemptNo, answer, body, lastError>>
        BY <2>1, <2>2, <3>2 DEF HttpTypeOK
      <3> QED
        BY <2>8, <3>1, <3>2 DEF Complete
    <2>9. ASSUME NEW d \in 0..Max(Backoffs), Sleeps(d) PROVE Inv'
      <3>1. step = "wait" /\ attemptNo' = attemptNo + 1 /\ UNCHANGED <<retry, method, answer, body, lastError>>
        BY <2>9 DEF Sleeps
      <3>2. attemptNo + 1 < retry.tries /\ attemptNo \in Nat /\ retry.tries \in Nat
        BY <3>1 DEF Costs, Paid, HasBudget
      <3> QED
        BY <2>1, <2>2, <3>1, <3>2 DEF HttpTypeOK
    <2>10. CASE UNCHANGED httpVars
      BY <2>1, <2>10 DEF httpVars, HttpTypeOK
    <2> QED
      BY <2>5, <2>6, <2>7, <2>8, <2>9, <2>10 DEF HttpNext
  <1> QED
    BY <1>1, <1>2, PTL DEF HttpSpec

-----------------------------------------------------------------------------
(* The suite runs each module as it is specified.                          *)

LEMMA SuiteRunsEach == Suite => Spec /\ LimiterSpec /\ TokensSpec /\ HttpSpec
  <1>1. SuiteInit => Init /\ LimiterInit /\ TokensInit /\ HttpInit
    BY DEF SuiteInit
  <1>2. [SuiteNext]_<<part, vars, limiterVars, subscribing, tokensVars, httpVars>> =>
            [Next]_vars /\ [LimiterNext]_limiterVars /\ [TokensNext]_tokensVars /\ [HttpNext]_httpVars
    BY DEF SuiteNext
  <1> QED
    BY <1>1, <1>2, PTL DEF Suite, Spec, LimiterSpec, TokensSpec, HttpSpec

\* An edge that failed twice in one join is named, once, by every later request of
\* it, whatever errors came before and between (join_loop, confirmed_bad_sfus); with
\* the types of the variables of all these modules.
THEOREM BadEdgesStayReported == ASSUME RequestBounds PROVE Suite => []EdgesAreReported
  <1>1. EdgesInv => TypeOK /\ BadEdgesAreReported
    BY DEF EdgesInv, EdgesAreKnown, BadEdgesAreReported
  <1>2. Spec => [](TypeOK /\ BadEdgesAreReported)
    BY <1>1, EdgesInit, EdgesStep, PTL DEF Spec
  <1>3. EdgesAreReported <=>
            TypeOK /\ LimiterTypeOK /\ TokensTypeOK /\ HttpTypeOK /\ BadEdgesAreReported
    BY DEF EdgesAreReported
  <1> QED
    BY <1>2, <1>3, SuiteRunsEach, LimiterTypesHold, TokensTypesHold, HttpTypesHold, PTL
=============================================================================
