--------------------------- MODULE MCRtcLifecycle ---------------------------
(* The instance that TLC checks: which tasks may meet in one behaviour. *)
EXTENDS RtcLifecycle, TLC

Symmetry == Permutations(Joins) \cup Permutations(Leaves) \cup Permutations(Reconnects)

NoReconnect == \A r \in Reconnects : task[r] = [at |-> "idle", gen |-> None, tries |-> 0]
NoEnd == \A e \in Enders : end[e] = [at |-> "idle", gen |-> None]
NoPublish == \A p \in Publishers : publish[p] = [at |-> "new", gen |-> None]
OneLeave == Cardinality({l \in Leaves : leave[l].caller # "new" \/ leave[l].work # "new"}) <= 1
OneJoin == Cardinality({j \in Joins : task[j].at # "new"}) <= 1

\* All the joins, leaves and publishes; or all the joins and the reconnects
\* with one leave; or one join and one leave with the reconnects and the end
\* of the call.
Meetings ==
    \/ NoReconnect /\ NoEnd
    \/ NoPublish /\ OneLeave /\ NoEnd
    \/ NoPublish /\ OneLeave /\ OneJoin
=============================================================================
