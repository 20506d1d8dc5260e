--------------------------- MODULE StatsReporter ---------------------------
(***************************************************************************)
(* The telemetry of one connection: the tracers, whose buffers are bounded *)
(* and drop their oldest records, the loop that drains them into a         *)
(* SendStats request, and the last flush of a teardown.  A report that     *)
(* fails puts back what it drained, one whose future is dropped does not:  *)
(* a leave ends the generation, and the loop with it, before the flush.  A *)
(* record is a number, in the order in which its source traced it.         *)
(***************************************************************************)
EXTENDS Naturals, SequencesExt

CONSTANTS
    Sources,    \* the tracers: signal, publisher, subscriber
    MaxBuffer,  \* max_buffer
    Overflow,   \* the traceBufferOverflow record
    MaxRecords, \* bound: records of each source
    MaxFaults   \* bound: reports that fail

VARIABLES
    buffer,    \* Tracer.buffer of each source
    traced,    \* records that each source traced
    reporting, \* report_once of each caller: its place and what it drained
    sendLock,  \* the holder of send_lock
    stopped,   \* StatsReporter.stopped
    life,      \* the connection: open, in the flush of a reconnect or of a leave,
               \* after it, closed
    cancelled, \* whether a leave has ended the generation of the loop
    gone,      \* history: the records of each source in the reports that succeeded
               \* or were dropped, in the order of the reports
    lost,      \* history: the places in gone of those that were dropped
    reportFaults

vars == <<buffer, traced, reporting, sendLock, stopped, life, cancelled, gone, lost, reportFaults>>

Loop == "run"
Flusher == "teardown"
Reporters == {Loop, Flusher}
Nobody == "nobody"
Empty == [s \in Sources |-> <<>>]

TypeOK ==
    /\ \A s \in Sources : Len(buffer[s]) <= MaxBuffer /\ traced[s] \in 0..MaxRecords
    /\ \A r \in Reporters : reporting[r].at \in {"off", "idle", "wait", "sample", "send"}
    /\ sendLock \in Reporters \cup {Nobody}
    /\ life \in {"open", "flushing", "leaving", "flushed", "left", "closed"}

\* New tracers.
NothingTraced == buffer = Empty /\ traced = [s \in Sources |-> 0]

\* A new reporter, over the tracers of its connection.
Init ==
    /\ NothingTraced
    /\ reporting = [r \in Reporters |-> [at |-> IF r = Loop THEN "idle" ELSE "off", drained |-> Empty]]
    /\ sendLock = Nobody /\ stopped = FALSE /\ life = "open" /\ cancelled = FALSE
    /\ gone = Empty /\ lost = [s \in Sources |-> {}] /\ reportFaults = 0

\* cap_buffer: the oldest go, and the first that stays is replaced by a mark.
Capped(records) ==
    LET over == Len(records) - MaxBuffer IN
    IF over <= 0 THEN records
    ELSE <<Overflow>> \o SubSeq(records, over + 2, Len(records))

Goes(r, place) == reporting' = [reporting EXCEPT ![r].at = place]

\* Tracer::trace, by any callback of the connection.
Trace(s) ==
    /\ traced[s] < MaxRecords
    /\ traced' = [traced EXCEPT ![s] = @ + 1]
    /\ buffer' = [buffer EXCEPT ![s] = Capped(Append(@, traced'[s]))]
    /\ UNCHANGED <<reporting, sendLock, stopped, life, cancelled, gone, lost, reportFaults>>

\* A tick of the loop, which ends once it sees the flag.
Tick ==
    /\ reporting[Loop].at = "idle"
    /\ Goes(Loop, IF stopped THEN "off" ELSE "wait")
    /\ UNCHANGED <<buffer, traced, sendLock, stopped, life, cancelled, gone, lost, reportFaults>>

\* Mutant: reports are not serialized.
MutMayReport == TRUE
MayReport == sendLock = Nobody

\* report_once: the lock, then the samples of both peer connections.
Begin(r) ==
    /\ reporting[r].at = "wait" /\ MayReport
    /\ Goes(r, "sample") /\ sendLock' = r
    /\ UNCHANGED <<buffer, traced, stopped, life, cancelled, gone, lost, reportFaults>>

\* The three buffers are drained with no await in between.
Drain(r) ==
    /\ reporting[r].at = "sample"
    /\ reporting' = [reporting EXCEPT ![r] = [at |-> "send", drained |-> buffer]]
    /\ buffer' = Empty
    /\ UNCHANGED <<traced, sendLock, stopped, life, cancelled, gone, lost, reportFaults>>

Ends(r) ==
    /\ reporting' = [reporting EXCEPT ![r] = [at |-> IF r = Loop THEN "idle" ELSE "off", drained |-> Empty]]
    /\ sendLock' = Nobody
    /\ life' = IF r = Loop THEN life ELSE IF life = "leaving" THEN "left" ELSE "flushed"

Sent(r) ==
    /\ reporting[r].at = "send" /\ Ends(r)
    /\ gone' = [s \in Sources |-> gone[s] \o reporting[r].drained[s]]
    /\ UNCHANGED <<buffer, traced, stopped, cancelled, lost, reportFaults>>

\* Tracer::restore: what was drained comes before what was traced meanwhile.
Restored(r, s) ==
    IF reporting[r].drained[s] = <<>> THEN buffer[s] ELSE Capped(reporting[r].drained[s] \o buffer[s])

Failed(r) ==
    /\ reporting[r].at = "send" /\ reportFaults < MaxFaults /\ reportFaults' = reportFaults + 1
    /\ buffer' = [s \in Sources |-> Restored(r, s)]
    /\ Ends(r) /\ UNCHANGED <<traced, stopped, cancelled, gone, lost>>

\* Connection::teardown, by a reconnect or by the task of a leave: stop, then
\* flush; the loop may be in a report.
TeardownBegins ==
    /\ life = "open" /\ life' \in {"flushing"} \cup (IF cancelled THEN {"leaving"} ELSE {})
    /\ stopped' = TRUE
    /\ Goes(Flusher, "wait")
    /\ UNCHANGED <<buffer, traced, sendLock, cancelled, gone, lost, reportFaults>>

\* Whoever is dropped inside a report loses what it drained, and frees the lock.
IsDropped(who) ==
    LET dropped(s) == IF sendLock \in who THEN reporting[sendLock].drained[s] ELSE <<>> IN
    /\ reporting' = [r \in Reporters |-> IF r \in who THEN [at |-> "off", drained |-> Empty] ELSE reporting[r]]
    /\ sendLock' = IF sendLock \in who THEN Nobody ELSE sendLock
    /\ gone' = [s \in Sources |-> gone[s] \o dropped(s)]
    /\ lost' = [s \in Sources |-> lost[s] \cup (Len(gone[s]) + 1)..Len(gone'[s])]

\* cancel_generation of a leave, before it takes the connection and tears it down.
\* while_generation drops the loop the next time it is polled.
Cancel ==
    /\ ~cancelled /\ life # "closed" /\ cancelled' = TRUE
    /\ UNCHANGED <<buffer, traced, reporting, sendLock, stopped, life, gone, lost, reportFaults>>

LoopIsCancelled ==
    /\ cancelled /\ reporting[Loop].at # "off" /\ IsDropped({Loop})
    /\ UNCHANGED <<buffer, traced, stopped, life, cancelled, reportFaults>>

\* The tasks are aborted after the flush.  A connection that is dropped, before its
\* teardown or in that of a reconnect, aborts them too, and has no more flush; the
\* task of a leave is not dropped.
Close ==
    /\ life \notin {"leaving", "closed"} /\ life' = "closed" /\ stopped' = TRUE
    /\ IsDropped(Reporters)
    /\ UNCHANGED <<buffer, traced, cancelled, reportFaults>>

Next ==
    \/ \E s \in Sources : Trace(s)
    \/ Tick \/ \E r \in Reporters : Begin(r) \/ Drain(r) \/ Sent(r) \/ Failed(r)
    \/ TeardownBegins \/ Cancel \/ LoopIsCancelled \/ Close

Spec == Init /\ [][Next]_vars

-----------------------------------------------------------------------------

\* The records of each source leave it in the order they were traced, each once,
\* and where records are missing the mark of an overflow stands in their place,
\* although reports fail, overlap with the flush and are drained again.
NoSilentGap ==
    \A s \in Sources :
        LET all == <<0>> \o gone[s] IN
        \A i \in DOMAIN gone[s] :
            all[i] # Overflow /\ all[i + 1] # Overflow => all[i + 1] = all[i] + 1

\* So the SFU misses records with no mark in one place at most: what a leave or the
\* end of the connection took from a report under way.
LostInOnePlace == \A s \in Sources : \A i, k \in lost[s] : i..k \subseteq lost[s]
=============================================================================
