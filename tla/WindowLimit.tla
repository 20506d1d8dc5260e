----------------------------- MODULE WindowLimit ----------------------------
(***************************************************************************)
(* What a sliding-window limiter promises: a registration is allowed       *)
(* exactly when fewer than Limit earlier ones lie in the trailing window.  *)
(***************************************************************************)
EXTENDS Integers, Sequences, FiniteSets

CONSTANTS Limit, Window

VARIABLES
    now,       \* the clock
    accepted,  \* times of all the registrations that were allowed
    allowed    \* the last answer

InWindow(t) == {i \in DOMAIN accepted : t - Window < accepted[i] /\ accepted[i] <= t}

Init == now = 0 /\ accepted = <<>> /\ allowed = TRUE

Tick == now' > now /\ UNCHANGED <<accepted, allowed>>

Register ==
    /\ allowed' = (Cardinality(InWindow(now)) < Limit)
    /\ accepted' = IF allowed' THEN Append(accepted, now) ELSE accepted
    /\ UNCHANGED now

Spec == Init /\ [][Tick \/ Register]_<<now, accepted, allowed>>
=============================================================================
