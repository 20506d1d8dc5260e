----------------------------- MODULE RateLimiter ----------------------------
(***************************************************************************)
(* SlidingWindowRateLimiter: the deque of recent registrations, from which *)
(* each call first drops what has left the window.  One limiter serves the *)
(* REJOIN and MIGRATE attempts of one generation.                          *)
(***************************************************************************)
EXTENDS Integers, Sequences, SequencesExt

CONSTANTS
    Limit,   \* REJOIN_RATE_LIMIT, at least 1
    Window,  \* REJOIN_RATE_WINDOW
    End      \* bound: the last time of the model

VARIABLES
    now,       \* elapsed_ms, which never goes back
    events,    \* SlidingWindowRateLimiter.events
    allowed,   \* the last answer of try_register
    accepted   \* history: the times of all the registrations that were allowed

limiterVars == <<now, events, allowed, accepted>>

LimiterTypeOK ==
    /\ now \in 0..End
    /\ events \in Seq(0..now) /\ Len(events) <= Limit
    /\ allowed \in BOOLEAN
    /\ IsSuffix(events, accepted)

LimiterInit == now = 0 /\ events = <<>> /\ allowed = TRUE /\ accepted = <<>>

Tick == now < End /\ now' = now + 1 /\ UNCHANGED <<events, allowed, accepted>>

Old(t) == now - t >= Window

\* Mutant: a registration exactly as old as the window still counts.
MutEvictedLate ==
    SubSeq(events, 1 + Cardinality({i \in DOMAIN events :
                       \A k \in 1..i : now - events[k] > Window}), Len(events))

\* The deque without the old registrations at its front.
Evicted ==
    SubSeq(events, 1 + Cardinality({i \in DOMAIN events : \A k \in 1..i : Old(events[k])}),
           Len(events))

TryRegister ==
    /\ allowed' = (Len(Evicted) < Limit)
    /\ events' = IF allowed' THEN Append(Evicted, now) ELSE Evicted
    /\ accepted' = IF allowed' THEN Append(accepted, now) ELSE accepted
    /\ UNCHANGED now

LimiterNext == Tick \/ TryRegister

LimiterSpec == LimiterInit /\ [][LimiterNext]_limiterVars

\* The deque, from which each call drops only at the front, answers as if
\* every registration ever allowed were still counted.
Promise == INSTANCE WindowLimit
KeepsWindow == Promise!Spec
=============================================================================
