---------------------------- MODULE RtpTimeline -----------------------------
(***************************************************************************)
(* The RTP sequence numbers and timestamps of one sender: every write path *)
(* of a local track moves them, and a track that takes over the sender     *)
(* continues them.  A packet gets its numbers first and is sent later, if  *)
(* at all.  Time is counted in ticks of the RTP clock; the widths of the   *)
(* two numbers are parameters, so that a short run meets the wrap.         *)
(* The caller of a track of video writes one frame at a time.              *)
(***************************************************************************)
EXTENDS Integers, Sequences

CONSTANTS
    SeqSpace,    \* 2^16
    TsSpace,     \* 2^32
    FrameLen,  \* the samples of an encoded audio frame
    Random,    \* what random_u32 gives
    Source,    \* the inbound timestamp at time 0 of what is forwarded
    None,      \* Option::None
    End,       \* bound: the last time; a gap stays below half of TsSpace
    Takeovers, \* bound: tracks that take over the sender
    MaxLost    \* bound: packets in a row that are not sent

VARIABLES
    now,
    kind,      \* of the track: audio or video
    timeline,  \* RtpTimeline: [seq, timestamp, offset, at]
    lastPts,   \* VideoClock.last_ticks
    path,      \* write_path of a video track
    muted,     \* muted or quality_paused
    stoppedAt, \* stopped_at
    takeovers, \* bound
    pending,   \* the packets of a write that have their numbers, and wait to be sent
    checked,   \* of write_packet, which looks at the track before each of them
    sent,      \* history: the last packet sent
    lost,      \* history: the packets that got a number since and were not sent
    stamp,     \* history: the last timestamp a packet got
    wide,      \* history: ticks from the first timestamp to the last, without the wrap
    begun,     \* history: the time of the first packet
    due,       \* history: the end of the last frame
    idle       \* history: time since the first packet that no write accounts for

packets == <<pending, checked, sent, lost>>
histories == <<stamp, wide, begun>>
vars == <<now, kind, timeline, lastPts, path, muted, stoppedAt, takeovers,
          packets, histories, due, idle>>

Numbered == [seq : 0..SeqSpace - 1, ts : 0..TsSpace - 1]

TypeOK ==
    /\ now \in 0..End /\ kind \in {"audio", "video"} /\ muted \in BOOLEAN
    /\ timeline.seq \in 0..SeqSpace - 1
    /\ {timeline.timestamp, timeline.offset} \ {None} \subseteq 0..TsSpace - 1
    /\ {timeline.at, stoppedAt} \ {None} \subseteq 0..now
    /\ path \in {None, "frames", "rtp"}
    /\ pending \in Seq(Numbered) /\ checked \in BOOLEAN
    /\ sent \in Numbered \cup {None} /\ lost \in 0..MaxLost

Init ==
    /\ now = 0 /\ kind \in {"audio", "video"}
    /\ timeline = [seq |-> Random % SeqSpace, timestamp |-> None, offset |-> None, at |-> None]
    /\ lastPts = None /\ path = None /\ muted = FALSE /\ stoppedAt = None /\ takeovers = 0
    /\ pending = <<>> /\ checked = FALSE /\ sent = None /\ lost = 0
    /\ stamp = None /\ wide = 0 /\ begun = None /\ due = 0 /\ idle = 0

Plus(a, b) == (a + b) % TsSpace
Minus(a, b) == (a - b) % TsSpace

Elapsed == IF timeline.at = None THEN 0 ELSE now - timeline.at

\* next_timestamp, or a random one before the first write.
NextTimestamp ==
    IF timeline.timestamp = None THEN Random ELSE Plus(timeline.timestamp, Elapsed)

Advanced == [timeline EXCEPT !.timestamp = Plus(NextTimestamp, FrameLen), !.at = None]

\* Mutant: what is forwarded keeps its own timestamps.
MutOffset(line, source) == IF line.offset # None THEN line.offset ELSE 0

\* What forward adds to the timestamps of a source, fixed by its first call.
Offset(line, source) ==
    IF line.offset # None THEN line.offset
    ELSE IF line.timestamp = None THEN 0 ELSE Minus(NextTimestamp, source)

Forwarded(line, source) ==
    [line EXCEPT !.offset = Offset(line, source),
                 !.timestamp = Plus(source, Offset(line, source)), !.at = now]

\* capture: as forward, but the first video frame starts at a random timestamp.
Captured(source) ==
    Forwarded([timeline EXCEPT !.timestamp = IF @ = None THEN Random ELSE @], source)

\* n packets of one timestamp get the next sequence numbers.
Numbers(n, line, ts, checks) ==
    /\ lost + n <= MaxLost
    /\ timeline' = [line EXCEPT !.seq = (@ + n) % SeqSpace]
    /\ pending' = [k \in 1..n |-> [seq |-> (line.seq + k) % SeqSpace, ts |-> ts]]
    /\ checked' = checks
    /\ stamp' = ts
    /\ wide' = IF stamp = None \/ kind = "video" THEN 0 ELSE wide + Minus(ts, stamp)
    /\ begun' = IF begun = None THEN now ELSE begun
    /\ UNCHANGED <<sent, lost>>

\* A muted track moves the clock and sends nothing.
KeepsTime(line) == timeline' = line /\ UNCHANGED <<packets, histories>>

Writes(n, line, ts) ==
    IF muted \/ stoppedAt # None THEN KeepsTime(line) ELSE Numbers(n, line, ts, FALSE)

\* Until the first packet there is nothing to account for.
Accounts(upTo) ==
    /\ due' = upTo
    /\ idle' = IF begun = None \/ timeline.at # None \/ due >= now THEN idle
               ELSE idle + (now - due)

\* An audio frame of the pacer or of write_sample.  Its caller paces: a frame
\* is written when the one before it has ended, or later.
WriteFrame ==
    /\ kind = "audio" /\ stoppedAt = None /\ due <= now /\ pending = <<>>
    /\ Writes(1, Advanced, NextTimestamp)
    /\ Accounts(now + FrameLen)
    /\ UNCHANGED <<now, kind, lastPts, path, muted, stoppedAt, takeovers>>

\* forward_rtp of a packet whose timestamps run with the time.
ForwardRtp ==
    /\ stoppedAt = None /\ (kind = "video" => path # "frames") /\ pending = <<>>
    /\ path' = IF kind = "video" THEN "rtp" ELSE path
    /\ LET line == Forwarded(timeline, Plus(Source, now))
       IN  Writes(1, line, line.timestamp)
    /\ Accounts(now)
    /\ UNCHANGED <<now, kind, lastPts, muted, stoppedAt, takeovers>>

InOrder(pts) == lastPts = None \/ pts > lastPts

\* The clock of the caller of a video track runs with the time; it can run ahead of it.
Pts == {now, now + 2}

\* write_i420_at, VideoClock::time_frame: a frame whose pts is not after the last one is dropped; all
\* encodings paused, the frame only moves the clock.  Its encoding may give no
\* packets, or several.  The worker that encodes does not look at a stop that came
\* after the write began, and goes on when the write is dropped.
WriteVideo ==
    /\ kind = "video" /\ pending = <<>>
    /\ (path = "frames" \/ (path = None /\ stoppedAt = None)) /\ path' = "frames"
    /\ \E pts \in Pts, n \in {0, 2} :
        IF InOrder(pts)
        THEN /\ lastPts' = pts
             /\ IF n = 0 \/ muted THEN KeepsTime(Captured(pts))
                ELSE Numbers(n, Captured(pts), Captured(pts).timestamp, TRUE)
        ELSE UNCHANGED <<lastPts, timeline, packets, histories>>
    /\ UNCHANGED <<now, kind, muted, stoppedAt, takeovers, due, idle>>

\* write_sample_at: such a frame keeps the timestamp of the one before it.  On a
\* stopped track it fails, and has moved the clock by then.
WriteVideoSample ==
    /\ kind = "video" /\ pending = <<>> /\ path # "rtp" /\ path' = "frames"
    /\ \E pts \in Pts :
        IF InOrder(pts)
        THEN lastPts' = pts /\ Writes(1, Captured(pts), Captured(pts).timestamp)
        ELSE UNCHANGED lastPts /\ Writes(1, timeline, timeline.timestamp)
    /\ UNCHANGED <<now, kind, muted, stoppedAt, takeovers, due, idle>>

\* The next packet of a write goes out.
Send ==
    /\ pending # <<>> /\ (checked => ~muted /\ stoppedAt = None)
    /\ sent' = Head(pending) /\ pending' = Tail(pending) /\ lost' = 0
    /\ UNCHANGED <<now, kind, timeline, lastPts, path, muted, stoppedAt, takeovers, checked,
                   histories, due, idle>>

\* write_packet of a track that was muted meanwhile drops the packet, and sends
\* the rest of the frame if it is unmuted before that.
Discard ==
    /\ pending # <<>> /\ checked /\ muted /\ stoppedAt = None
    /\ pending' = Tail(pending) /\ lost' = lost + 1
    /\ UNCHANGED <<now, kind, timeline, lastPts, path, muted, stoppedAt, takeovers, checked, sent,
                   histories, due, idle>>

\* What is left of a write is never sent.
LosesTheRest == pending' = <<>> /\ lost' = lost + Len(pending) /\ UNCHANGED <<checked, sent>>

\* The write ends early: the track was stopped, the transport failed, or its
\* caller dropped it.
Abandon ==
    /\ pending # <<>> /\ LosesTheRest
    /\ UNCHANGED <<now, kind, timeline, lastPts, path, muted, stoppedAt, takeovers,
                   histories, due, idle>>

Mute == muted' = ~muted /\ UNCHANGED <<now, kind, timeline, lastPts, path, stoppedAt, takeovers,
                                       packets, histories, due, idle>>

Stop ==
    /\ stoppedAt = None /\ stoppedAt' = now
    /\ Accounts(IF due > now THEN due ELSE now)
    /\ UNCHANGED <<now, kind, timeline, lastPts, path, muted, takeovers, packets, histories>>

\* continue_rtp_from: the time since the stop, unless next_timestamp counts it.
Continued ==
    [timeline EXCEPT !.offset = None,
                     !.timestamp = IF timeline.at # None \/ @ = None THEN @
                                   ELSE Plus(@, now - stoppedAt)]

\* Another track takes over the sender of the stopped one.  The stopped one is
\* bound to no sender from then on.
TakeOver ==
    /\ stoppedAt # None /\ takeovers < Takeovers
    /\ takeovers' = takeovers + 1
    /\ timeline' = Continued
    /\ lastPts' = None /\ path' = None
    /\ stoppedAt' = None /\ muted' = FALSE /\ due' = now /\ LosesTheRest
    /\ UNCHANGED <<now, kind, histories, idle>>

Tick == now < End /\ now' = now + 1
        /\ UNCHANGED <<kind, timeline, lastPts, path, muted, stoppedAt, takeovers,
                       packets, histories, due, idle>>

Next ==
    \/ WriteFrame \/ ForwardRtp \/ WriteVideo \/ WriteVideoSample
    \/ Send \/ Discard \/ Abandon
    \/ Mute \/ Stop \/ TakeOver \/ Tick

Spec == Init /\ [][Next]_vars

-----------------------------------------------------------------------------
(* Properties. *)

\* The packets between the two were numbered and not sent.
Succeeds(old, new, between) ==
    /\ Minus(new.ts, old.ts) < TsSpace \div 2
    /\ new.seq = (old.seq + between + 1) % SeqSpace

\* The packets of a sender continue one another across the write paths, the mutes
\* and the tracks that take it over: their timestamps never go back, which the
\* SFU takes for another stream; no sequence number is used twice, nor is one
\* missing, which the receiver takes for a loss, but those of packets that a mute,
\* a stop or a write that ended early kept from being sent; and the timestamp of
\* audio lags behind the clock by no more than the time in which its caller wrote
\* nothing.
StreamContinues ==
    [][/\ sent' # sent /\ sent # None => Succeeds(sent, sent', lost)
       /\ Len(pending') > Len(pending) /\ kind = "audio" /\ begun # None =>
            wide' + idle' >= now - begun]_vars
=============================================================================
