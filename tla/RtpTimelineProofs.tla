------------------------ MODULE RtpTimelineProofs --------------------------
(***************************************************************************)
(* The packets of a sender continue one another, for any width of their    *)
(* numbers, any length of a frame, any time and any number of tracks that  *)
(* take the sender over, in any order of writes, forwards, mutes, stops    *)
(* and writes that end early.                                              *)
(* The arithmetic of numbers that wrap comes first; other proofs use it.   *)
(***************************************************************************)
EXTENDS RtpTimeline, TLAPS

-----------------------------------------------------------------------------
(* Remainders. *)

LEMMA ProductGrows == ASSUME NEW k \in Int, NEW n \in Nat, k >= 1 PROVE k * n >= n
  <1>1. (k - 1) * n >= 0
    OBVIOUS
  <1>2. k * n = (k - 1) * n + n
    OBVIOUS
  <1> QED BY <1>1, <1>2

LEMMA DivisionIs ==
  ASSUME NEW a \in Int, NEW n \in Nat \ {0}
  PROVE  \E q \in Int, r \in 0..(n - 1) : r = a % n /\ a = n * q + r
  <1>1. PICK k \in Int : k = n /\ k > 0
    OBVIOUS
  <1>2. \E q \in Int, r \in 0..(k - 1) : r = a % k /\ a = k * q + r
    BY <1>1, Z3
  <1> QED BY <1>1, <1>2

\* The remainder of a number is the one that is small enough.
LEMMA RemainderIs ==
  ASSUME NEW n \in Nat \ {0}, NEW q \in Int, NEW r \in 0..(n - 1)
  PROVE  (q * n + r) % n = r
  <1>1. PICK a \in Int : a = q * n + r
    OBVIOUS
  <1>2. PICK d \in Int, m \in 0..(n - 1) : m = a % n /\ a = n * d + m
    BY DivisionIs
  <1>3. (q - d) * n = m - r
    <2>1. (q - d) * n = q * n - n * d /\ q * n \in Int /\ n * d \in Int
      BY Z3
    <2> QED BY <2>1, <1>1, <1>2
  <1>4. CASE q - d >= 1
    <2>1. (q - d) * n >= n
      BY <1>4, ProductGrows
    <2> QED BY <2>1, <1>2, <1>3
  <1>5. CASE d - q >= 1
    <2>1. (d - q) * n >= n
      BY <1>5, ProductGrows
    <2>2. (d - q) * n = r - m
      BY <1>2, <1>3, Z3
    <2> QED BY <2>1, <2>2, <1>2
  <1>6. CASE q = d
    BY <1>1, <1>2, <1>3, <1>6
  <1> QED BY <1>4, <1>5, <1>6

LEMMA RemaindersDiffer ==
  ASSUME NEW n \in Nat \ {0}, NEW a \in Int, NEW b \in Int
  PROVE  ((a % n) - (b % n)) % n = (a - b) % n
  <1>1. PICK c \in Int, u \in 0..(n - 1) : u = a % n /\ a = n * c + u
    BY DivisionIs
  <1>2. PICK d \in Int, v \in 0..(n - 1) : v = b % n /\ b = n * d + v
    BY DivisionIs
  <1>7. a - b \in Int
    OBVIOUS
  <1>3. PICK e \in Int, r \in 0..(n - 1) : r = (a - b) % n /\ a - b = n * e + r
    BY <1>7, DivisionIs, Zenon
  <1> DEFINE q == e - c + d
  <1>4. u - v = q * n + r
    <2>1. q * n = n * e - n * c + n * d /\ n * e \in Int /\ n * c \in Int /\ n * d \in Int
      BY Z3
    <2>2. PICK x \in Int, y \in Int, z \in Int, o \in Int : x = n * e /\ y = n * c /\ z = n * d /\ o = q * n
      BY <2>1
    <2>3. a = y + u /\ b = z + v /\ a - b = x + r /\ o = x - y + z
      BY <2>1, <2>2, <1>1, <1>2, <1>3, Zenon
    <2>4. u - v = o + r
      BY <2>3
    <2> QED BY <2>2, <2>4, Zenon
  <1>5. q \in Int
    OBVIOUS
  <1>6. (q * n + r) % n = r
    BY <1>5, RemainderIs
  <1> QED BY <1>1, <1>2, <1>3, <1>4, <1>6, Zenon

\* A multiple more or less does not change a remainder.
LEMMA Shifted ==
  ASSUME NEW n \in Nat \ {0}, NEW a \in Int, NEW b \in Int, NEW k \in Int, a = b + n * k
  PROVE  a % n = b % n
  <1>1. PICK e \in Int, r \in 0..(n - 1) : r = b % n /\ b = n * e + r
    BY DivisionIs
  <1>2. a = (e + k) * n + r
    <2>1. (e + k) * n = n * e + n * k
      BY Z3
    <2>2. PICK x \in Int, y \in Int : x = n * e /\ y = n * k
      OBVIOUS
    <2>3. a = b + y /\ b = x + r /\ (e + k) * n = x + y
      BY <2>1, <2>2, <1>1, Zenon
    <2>4. PICK z \in Int : z = (e + k) * n
      OBVIOUS
    <2> QED BY <2>3, <2>4, Z3
  <1>3. e + k \in Int
    OBVIOUS
  <1>4. ((e + k) * n + r) % n = r
    BY <1>3, RemainderIs, Zenon
  <1> QED BY <1>1, <1>2, <1>4, Zenon

\* Sums and differences of remainders, and of numbers that are small enough.
LEMMA SumWraps ==
  ASSUME NEW n \in Nat \ {0}, NEW a \in Int, NEW b \in Int
  PROVE  ((a % n) + b) % n = (a + b) % n
  <1>1. PICK e \in Int, r \in 0..(n - 1) : r = a % n /\ a = n * e + r
    BY DivisionIs
  <1>2. PICK y \in Int : y = n * e
    OBVIOUS
  <1>3. a = y + r
    BY <1>1, <1>2, Zenon
  <1>4. PICK p \in Int, q \in Int : p = a + b /\ q = r + b
    OBVIOUS
  <1>5. p = q + y
    BY <1>3, <1>4
  <1>6. p = q + n * e
    BY <1>2, <1>5, Zenon
  <1>7. p % n = q % n
    BY <1>6, Shifted
  <1> QED BY <1>1, <1>4, <1>7, Zenon

LEMMA SumWrapsRight ==
  ASSUME NEW n \in Nat \ {0}, NEW a \in Int, NEW b \in Int
  PROVE  (b + (a % n)) % n = (b + a) % n
  <1>1. PICK e \in Int, r \in 0..(n - 1) : r = a % n /\ a = n * e + r
    BY DivisionIs
  <1>2. PICK y \in Int : y = n * e
    OBVIOUS
  <1>3. a = y + r
    BY <1>1, <1>2, Zenon
  <1>4. PICK p \in Int, q \in Int : p = b + a /\ q = b + r
    OBVIOUS
  <1>5. p = q + y
    BY <1>3, <1>4
  <1>6. p = q + n * e
    BY <1>2, <1>5, Zenon
  <1>7. p % n = q % n
    BY <1>6, Shifted
  <1> QED BY <1>1, <1>4, <1>7, Zenon

LEMMA RemainderInRange ==
  ASSUME NEW n \in Nat \ {0}, NEW a \in Int
  PROVE  a % n \in 0..(n - 1)
  BY DivisionIs

LEMMA SmallStays ==
  ASSUME NEW n \in Nat \ {0}, NEW a \in 0..(n - 1)
  PROVE  a % n = a
  <1>1. PICK z \in Int : z = 0
    OBVIOUS
  <1>2. (z * n + a) % n = a /\ z * n + a = a
    BY <1>1, RemainderIs
  <1> QED BY <1>2

-----------------------------------------------------------------------------
(* The numbers without the wrap. *)

\* How far a timestamp can lead the clock when one track hands over to the next:
\* two audio frames, and the jitter of a video clock.
Lead == takeovers * (2 * FrameLen + 2)
Span == End + (Takeovers + 1) * (2 * FrameLen + 2)

\* All that is sent lies within half of the timestamps: that is as far as a
\* receiver tells forward from back.
TimelineBounds ==
    /\ SeqSpace \in Nat \ {0} /\ TsSpace \in Nat \ {0} /\ 2 * (Span + 1) <= TsSpace
    /\ FrameLen \in Nat /\ Random \in 0..(TsSpace - 1) /\ Source \in Nat
    /\ End \in Nat /\ Takeovers \in Nat /\ MaxLost \in Nat
    /\ None \notin Int /\ None \notin {"frames", "rtp"}

Timelines ==
    [seq : 0..(SeqSpace - 1), timestamp : Int \cup {None}, offset : Int \cup {None}, at : Int \cup {None}]

TimelineTyped ==
    /\ now \in 0..End /\ kind \in {"audio", "video"}
    /\ timeline \in Timelines /\ takeovers \in 0..Takeovers
    /\ lastPts \in Int \cup {None} /\ path \in {None, "frames", "rtp"} /\ stoppedAt \in Int \cup {None}
    /\ wide \in Int /\ due \in Int /\ begun \in Int \cup {None} /\ idle \in Nat
    /\ due <= now + FrameLen
    /\ timeline.at # None => timeline.at <= now
    /\ stoppedAt # None => stoppedAt <= due /\ stoppedAt <= now /\ due <= stoppedAt + FrameLen

\* The numbers without the wrap: w is the timestamp, f the offset, x the timestamp
\* last sent, and low the first of all.
Times(w, low) ==
    timeline.timestamp # None =>
        /\ timeline.timestamp = w % TsSpace /\ low <= w
        /\ timeline.at = None =>
            /\ w <= due + low + Lead + FrameLen
            /\ timeline.offset = None => w <= due + low + Lead
        /\ timeline.at # None =>
            /\ w <= timeline.at + low + Lead + FrameLen + 2
            /\ timeline.offset = None => w <= timeline.at + low + Lead

\* What is forwarded or captured has a clock of its own, the source and the
\* offset; frames of audio never run ahead of it.
Offsets(w, f, low) ==
    timeline.offset # None =>
        /\ timeline.timestamp # None /\ timeline.offset = f % TsSpace
        /\ path = "frames" => lastPts \in Int /\ w = lastPts + f /\ f <= low + Lead + FrameLen
        /\ path # "frames" =>
            /\ Source + f <= low + Lead + FrameLen /\ low <= Source + f + now
            /\ timeline.at # None => w = Source + f + timeline.at
            /\ timeline.at = None => w <= Source + f + due

Paths ==
    /\ timeline.timestamp = None => timeline.offset = None /\ timeline.at = None
    /\ kind = "audio" => path = None
    /\ kind = "video" => /\ timeline.timestamp # None => timeline.at # None
                         /\ lastPts # None => path = "frames" /\ timeline.offset # None
                         /\ timeline.offset # None => path # None

Stamped(w, f, x, low) ==
    /\ stamp = None => begun = None
    /\ stamp # None =>
        /\ begun # None /\ timeline.timestamp # None
        /\ stamp = x % TsSpace /\ low <= x /\ x <= w /\ x <= low + Span
        /\ timeline.offset # None /\ path # "frames" => x <= Source + f + now

\* The packets that wait have the last timestamp and the last sequence numbers;
\* between them and the last one sent are those that were lost.
Packet == [seq : Int, ts : Int]
Queue(x, low) ==
    /\ pending \in Seq(Packet) /\ lost \in Nat /\ sent \in Packet \cup {None}
    /\ stamp = None => pending = <<>> /\ sent = None
    /\ \A i \in 1..Len(pending) :
        /\ pending[i].ts = stamp
        /\ pending[i].seq = (timeline.seq - Len(pending) + i) % SeqSpace
    /\ sent # None =>
        /\ sent.seq = (timeline.seq - Len(pending) - lost) % SeqSpace
        /\ \E z \in Int : sent.ts = z % TsSpace /\ low <= z /\ z <= x

\* The timestamp of audio, and its clock, lag behind the time by no more than the
\* idle time.
Lag(w, f, x) ==
    kind = "audio" /\ begun # None =>
        /\ timeline.at # None => w + idle >= (x - wide) + timeline.at - begun
        /\ timeline.at = None => w + idle >= (x - wide) + due - begun
        /\ timeline.offset # None => Source + f + idle >= (x - wide) - begun

\* The inductive invariant.
LineInv(w, f, x, low) ==
    /\ TimelineTyped /\ Times(w, low) /\ Offsets(w, f, low) /\ Paths
    /\ Stamped(w, f, x, low) /\ Queue(x, low) /\ Lag(w, f, x)
TimelineInv == \E w, f, x, low \in Int : LineInv(w, f, x, low)

\* What the property asks of a step.
Continues ==
    /\ sent' # sent /\ sent # None => Succeeds(sent, sent', lost)
    /\ Len(pending') > Len(pending) /\ kind = "audio" /\ begun # None =>
         wide' + idle' >= now - begun

-----------------------------------------------------------------------------

LEMMA SpanIs ==
  ASSUME TimelineBounds
  PROVE  Span \in Nat
  <1>1. PICK k \in Nat : k = 2 * FrameLen + 2
    BY DEF TimelineBounds
  <1>2. (Takeovers + 1) * k \in Nat
    BY DEF TimelineBounds
  <1> QED BY <1>1, <1>2 DEF Span, TimelineBounds

LEMMA LeadIs ==
  ASSUME TimelineBounds, takeovers \in 0..Takeovers
  PROVE  Lead \in Nat /\ Span \in Nat /\ Lead + End + 2 * FrameLen + 2 <= Span
  <1>1. PICK k \in Nat : k = 2 * FrameLen + 2
    BY DEF TimelineBounds
  <1>2. Takeovers \in Nat /\ End \in Nat /\ FrameLen \in Nat
    BY DEF TimelineBounds
  <1>3. (Takeovers - takeovers) * k \in Nat /\ takeovers * k \in Nat
    BY <1>2
  <1>4. (Takeovers + 1) * k = (Takeovers - takeovers) * k + takeovers * k + k
    BY <1>2, Z3
  <1> QED BY <1>1, <1>2, <1>3, <1>4 DEF Lead, Span

LEMMA LeadGrows ==
  ASSUME TimelineBounds, takeovers \in 0..Takeovers, takeovers' = takeovers + 1
  PROVE  Lead' = Lead + 2 * FrameLen + 2
  <1>1. PICK k \in Nat : k = 2 * FrameLen + 2
    BY DEF TimelineBounds
  <1>2. (takeovers + 1) * k = takeovers * k + k
    BY Z3
  <1>3. takeovers * k \in Nat
    OBVIOUS
  <1> QED BY <1>1, <1>2, <1>3 DEF Lead, TimelineBounds

-----------------------------------------------------------------------------

LEMMA TimelineInit ==
  ASSUME TimelineBounds, Init
  PROVE  TimelineInv
  <1>1. Random % SeqSpace \in 0..(SeqSpace - 1)
    BY RemainderInRange DEF TimelineBounds
  <1>2. TimelineTyped
    <2>1. timeline \in Timelines
      BY <1>1 DEF Init, Timelines
    <2>2. /\ now = 0 /\ due = 0 /\ idle = 0 /\ wide = 0 /\ takeovers = 0 /\ timeline.at = None
          /\ FrameLen \in Nat /\ Takeovers \in Nat /\ End \in Nat
      BY DEF Init, TimelineBounds
    <2>3. now \in 0..End /\ takeovers \in 0..Takeovers /\ due <= now + FrameLen
      BY <2>2
    <2> QED BY <2>1, <2>2, <2>3 DEF Init, TimelineTyped
  <1>3. LineInv(0, 0, 0, 0)
    <2>1. pending = <<>> /\ lost = 0 /\ sent = None /\ stamp = None
      BY DEF Init
    <2>2. Queue(0, 0)
      BY <2>1 DEF Queue
    <2> QED BY <2>2, <1>2 DEF Init, LineInv, Times, Offsets, Paths, Stamped, Lag
  <1> QED BY <1>3 DEF TimelineInv

\* The fields of a timeline.
LEMMA FieldsAre ==
  ASSUME TimelineTyped
  PROVE  /\ timeline.seq \in 0..(SeqSpace - 1) /\ timeline.timestamp \in Int \cup {None}
         /\ timeline.offset \in Int \cup {None} /\ timeline.at \in Int \cup {None}
  BY DEF TimelineTyped, Timelines

\* Nothing is numbered or sent.
LEMMA QueueStays ==
  ASSUME NEW x, NEW low, Queue(x, low), UNCHANGED <<pending, lost, sent, stamp>>, timeline'.seq = timeline.seq
  PROVE  Queue(x, low)' /\ Continues
  <1>1. Queue(x, low)'
    BY DEF Queue
  <1>2. Len(pending) \in Nat
    BY DEF Queue
  <1> QED BY <1>1, <1>2 DEF Continues

LEMMA RestKeeps ==
  ASSUME TimelineBounds, NEW w \in Int, NEW f \in Int, NEW x \in Int, NEW low \in Int,
         LineInv(w, f, x, low), Tick \/ Mute \/ UNCHANGED vars
  PROVE  LineInv(w, f, x, low)' /\ Continues
  <1>1. /\ TimelineTyped /\ Times(w, low) /\ Offsets(w, f, low) /\ Paths /\ Stamped(w, f, x, low) /\ Lag(w, f, x)
        /\ Queue(x, low)
    BY DEF LineInv
  <1>2. UNCHANGED <<kind, timeline, lastPts, path, stoppedAt, takeovers, pending, lost, sent,
                    stamp, wide, begun, due, idle>>
    BY DEF Tick, Mute, vars, packets, histories
  <1>8. Queue(x, low)' /\ Continues
    BY <1>1, <1>2, QueueStays
  <1>3. /\ now \in Int /\ now' \in Int /\ now <= now' /\ now' \in 0..End /\ FrameLen \in Int /\ Source \in Int
        /\ None \notin Int /\ End \in Nat
    <2>1. now \in 0..End /\ End \in Nat /\ FrameLen \in Int /\ Source \in Int /\ None \notin Int
      BY <1>1 DEF TimelineTyped, TimelineBounds
    <2>2. now' = now \/ (now < End /\ now' = now + 1)
      BY DEF Tick, Mute, vars
    <2> QED BY <2>1, <2>2
  <1>4. TimelineTyped'
    <2>1. due \in Int /\ (timeline.at # None => timeline.at \in Int) /\ (stoppedAt # None => stoppedAt \in Int)
      BY <1>1, FieldsAre DEF TimelineTyped
    <2>2. /\ due <= now' + FrameLen /\ (timeline.at # None => timeline.at <= now')
          /\ (stoppedAt # None => stoppedAt <= now')
      BY <2>1, <1>1, <1>3 DEF TimelineTyped
    <2> QED BY <1>1, <1>2, <1>3, <2>2 DEF TimelineTyped
  <1>5. Times(w, low)' /\ Paths' /\ Lag(w, f, x)'
    BY <1>1, <1>2 DEF Times, Paths, Lag, Lead
  <1>6. Offsets(w, f, low)'
    <2>1. low <= Source + f + now => low <= Source + f + now'
      <3>1. PICK a \in Int, b \in Int, c \in Int : a = Source + f /\ b = now /\ c = now' /\ b <= c
        BY <1>3
      <3>2. low <= a + b => low <= a + c
        BY <3>1
      <3> QED BY <3>1, <3>2
    <2> QED BY <2>1, <1>1, <1>2 DEF Offsets, Lead
  <1>7. Stamped(w, f, x, low)'
    <2>1. x <= Source + f + now => x <= Source + f + now'
      <3>1. PICK a \in Int, b \in Int, c \in Int : a = Source + f /\ b = now /\ c = now' /\ b <= c
        BY <1>3
      <3>2. x <= a + b => x <= a + c
        BY <3>1
      <3> QED BY <3>1, <3>2
    <2> QED BY <2>1, <1>1, <1>2 DEF Stamped
  <1> QED BY <1>4, <1>5, <1>6, <1>7, <1>8 DEF LineInv

LEMMA StopKeeps ==
  ASSUME TimelineBounds, NEW w \in Int, NEW f \in Int, NEW x \in Int, NEW low \in Int,
         LineInv(w, f, x, low), Stop
  PROVE  LineInv(w, f, x, low)' /\ Continues
  <1>1. /\ TimelineTyped /\ Times(w, low) /\ Offsets(w, f, low) /\ Paths /\ Stamped(w, f, x, low) /\ Lag(w, f, x)
        /\ Queue(x, low)
    BY DEF LineInv
  <1>8. Queue(x, low)' /\ Continues
    <2>1. UNCHANGED <<pending, lost, sent, stamp, timeline>>
      BY DEF Stop, packets, histories
    <2> QED BY <2>1, <1>1, QueueStays
  <1>2. /\ UNCHANGED <<now, kind, timeline, lastPts, path, muted, takeovers, stamp, wide, begun>>
        /\ stoppedAt' = now /\ due' = (IF due > now THEN due ELSE now)
        /\ idle' = IF begun = None \/ timeline.at # None \/ due >= now THEN idle ELSE idle + (now - due)
    BY DEF Stop, Accounts, histories
  <1>3. /\ now \in Int /\ due \in Int /\ due' \in Int /\ idle \in Nat /\ idle' \in Nat /\ idle' >= idle /\ due' >= due
        /\ FrameLen \in Nat /\ due <= now + FrameLen /\ wide \in Int
    BY <1>1, <1>2 DEF TimelineTyped, TimelineBounds
  <1>4. /\ TimelineTyped' /\ Paths'
    BY <1>1, <1>2, <1>3 DEF TimelineTyped, Paths, TimelineBounds
  <1>5. Times(w, low)' /\ Offsets(w, f, low)'
    BY <1>1, <1>2, <1>3, FieldsAre, LeadIs DEF TimelineTyped, Times, Offsets, Lead, TimelineBounds
  <1>6. Stamped(w, f, x, low)'
    BY <1>1, <1>2 DEF Stamped
  <1>7. Lag(w, f, x)'
    <2> SUFFICES ASSUME kind = "audio", begun # None PROVE Lag(w, f, x)'
      BY <1>2 DEF Lag
    <2>1. begun \in Int
      BY <1>1 DEF TimelineTyped
    <2>2. timeline.at = None => due' + idle <= due + idle'
      BY <1>2, <1>3
    <2> QED BY <2>1, <2>2, <1>1, <1>2, <1>3, FieldsAre DEF Lag, TimelineBounds
  <1> QED BY <1>4, <1>5, <1>6, <1>7, <1>8 DEF LineInv

\* What is left of a write is lost.
LEMMA RestIsLost ==
  ASSUME NEW x \in Int, NEW low \in Int, Queue(x, low), LosesTheRest, stamp' = stamp, timeline'.seq = timeline.seq,
         timeline.seq \in Int
  PROVE  Queue(x, low)' /\ Continues
  <1>1. PICK n \in Nat, k \in Nat : n = Len(pending) /\ k = lost
    BY DEF Queue
  <1>2. /\ pending' = <<>> /\ lost' = k + n /\ sent' = sent /\ Len(pending') = 0
        /\ pending' \in Seq(Packet) /\ lost' \in Nat
    BY <1>1 DEF LosesTheRest
  <1>3. sent # None => sent.seq = (timeline'.seq - 0 - (k + n)) % SeqSpace
    <2>1. timeline.seq - 0 - (k + n) = timeline.seq - n - k
      OBVIOUS
    <2> QED BY <1>1, <2>1 DEF Queue
  <1>4. sent # None => sent'.seq = (timeline'.seq - Len(pending') - lost') % SeqSpace
    BY <1>2, <1>3
  <1>5. 1..Len(pending') = {}
    BY <1>2
  <1>6. Queue(x, low)'
    BY <1>2, <1>4, <1>5 DEF Queue
  <1>7. ~(Len(pending') > Len(pending))
    BY <1>1, <1>2
  <1> QED BY <1>2, <1>6, <1>7 DEF Continues

\* The next packet goes out, or is lost.
LEMMA HeadGoes ==
  ASSUME TimelineBounds, NEW w \in Int, NEW f \in Int, NEW x \in Int, NEW low \in Int,
         Stamped(w, f, x, low), Queue(x, low), pending # <<>>, timeline.seq \in Int,
         pending' = Tail(pending), UNCHANGED <<stamp, timeline>>,
         \/ sent' = Head(pending) /\ lost' = 0
         \/ sent' = sent /\ lost' = lost + 1
  PROVE  Queue(x, low)' /\ Continues
  <1>1. PICK n \in Nat, k \in Nat : n = Len(pending) /\ k = lost /\ n >= 1
    BY DEF Queue
  <1>2. /\ pending' \in Seq(Packet) /\ Len(pending') = n - 1 /\ Head(pending) = pending[1]
        /\ pending[1] \in Packet
        /\ \A i \in 1..Len(pending') : pending'[i] = pending[i + 1]
    BY <1>1 DEF Queue
  <1>3. stamp # None /\ stamp = x % TsSpace /\ low <= x /\ x <= low + Span
    BY DEF Queue, Stamped
  <1>4. pending[1].ts = stamp /\ pending[1].seq = (timeline.seq - n + 1) % SeqSpace
    BY <1>1 DEF Queue
  <1>5. ASSUME NEW i \in 1..Len(pending')
        PROVE  pending'[i].ts = stamp' /\ pending'[i].seq = (timeline'.seq - Len(pending') + i) % SeqSpace
    <2>1. i + 1 \in 1..n /\ timeline.seq - n + (i + 1) = timeline.seq - (n - 1) + i
      BY <1>1, <1>2
    <2>2. pending[i + 1].ts = stamp /\ pending[i + 1].seq = (timeline.seq - n + (i + 1)) % SeqSpace
      BY <1>1, <2>1 DEF Queue
    <2> QED BY <2>1, <2>2, <1>2
  <1>6. /\ TsSpace \in Nat \ {0} /\ SeqSpace \in Nat \ {0} /\ Span \in Nat /\ 2 * (Span + 1) <= TsSpace
    BY SpanIs DEF TimelineBounds
  <1>7. CASE sent' = Head(pending) /\ lost' = 0
    <2>1. sent' \in Packet /\ sent'.seq = (timeline'.seq - Len(pending') - lost') % SeqSpace
      <3>1. timeline.seq - (n - 1) - 0 = timeline.seq - n + 1
        BY <1>1
      <3> QED BY <3>1, <1>2, <1>4, <1>7
    <2>2. sent'.ts = x % TsSpace /\ low <= x /\ x <= x
      BY <1>2, <1>3, <1>4, <1>7
    <2>3. Queue(x, low)'
      <3>1. lost' \in Nat
        BY <1>7
      <3> QED BY <2>1, <2>2, <3>1, <1>2, <1>3, <1>5 DEF Queue
    <2>4. ASSUME sent # None PROVE Succeeds(sent, sent', lost)
      <3>1. PICK z \in Int : sent.ts = z % TsSpace /\ low <= z /\ z <= x
        BY <2>4 DEF Queue
      <3>2. Minus(sent'.ts, sent.ts) = x - z
        <4>1. ((x % TsSpace) - (z % TsSpace)) % TsSpace = (x - z) % TsSpace
          BY <1>6, RemaindersDiffer
        <4>2. PICK d \in Int : d = x - z
          OBVIOUS
        <4>3. d \in 0..(TsSpace - 1)
          BY <3>1, <4>2, <1>3, <1>6
        <4>4. d % TsSpace = d
          BY <4>3, <1>6, SmallStays
        <4> QED BY <2>2, <3>1, <4>1, <4>2, <4>4 DEF Minus
      <3>3. x - z < TsSpace \div 2
        BY <3>1, <1>3, <1>6
      <3>4. sent'.seq = (sent.seq + lost + 1) % SeqSpace
        <4>1. sent.seq = (timeline.seq - n - k) % SeqSpace
          BY <2>4, <1>1 DEF Queue
        <4>2. PICK a \in Int, b \in Int : a = timeline.seq - n - k /\ b = k + 1
          OBVIOUS
        <4>3. ((a % SeqSpace) + b) % SeqSpace = (a + b) % SeqSpace
          BY ONLY <1>6, a \in Int, b \in Int, SumWraps
        <4>4. a + b = timeline.seq - n + 1
          <5>1. PICK g \in Int : g = timeline.seq
            OBVIOUS
          <5>2. a = g - n - k /\ b = k + 1 /\ n \in Int /\ k \in Int
            BY <4>2, <5>1
          <5>3. a + b = g - n + 1
            BY ONLY <5>2, g \in Int
          <5> QED BY <5>1, <5>3
        <4>5. PICK c \in Int : c = a % SeqSpace
          <5>1. a % SeqSpace \in 0..(SeqSpace - 1)
            BY <1>6, RemainderInRange
          <5> QED BY <5>1, <1>6
        <4>6. c + b = (c + k) + 1
          BY <4>2, <4>5, <1>1
        <4> QED BY <4>1, <4>2, <4>3, <4>4, <4>5, <4>6, <1>1, <1>2, <1>4, <1>7
      <3> QED BY <3>2, <3>3, <3>4 DEF Succeeds
    <2> QED BY <2>3, <2>4, <1>1, <1>2 DEF Continues
  <1>8. CASE sent' = sent /\ lost' = lost + 1
    <2>1. sent # None => sent'.seq = (timeline'.seq - Len(pending') - lost') % SeqSpace
      <3>1. timeline.seq - (n - 1) - (k + 1) = timeline.seq - n - k
        BY <1>1
      <3>2. sent # None => sent.seq = (timeline.seq - n - k) % SeqSpace
        BY <1>1 DEF Queue
      <3> QED BY <3>1, <3>2, <1>1, <1>2, <1>8
    <2>2. lost' \in Nat
      BY <1>1, <1>8
    <2>3. Queue(x, low)'
      BY <2>1, <2>2, <1>2, <1>3, <1>5, <1>8 DEF Queue
    <2> QED BY <2>3, <1>1, <1>2, <1>8 DEF Continues
  <1> QED BY <1>7, <1>8

LEMMA SendsKeep ==
  ASSUME TimelineBounds, NEW w \in Int, NEW f \in Int, NEW x \in Int, NEW low \in Int,
         LineInv(w, f, x, low), Send \/ Discard \/ Abandon
  PROVE  LineInv(w, f, x, low)' /\ Continues
  <1>1. /\ TimelineTyped /\ Times(w, low) /\ Offsets(w, f, low) /\ Paths /\ Stamped(w, f, x, low) /\ Lag(w, f, x)
        /\ Queue(x, low)
    BY DEF LineInv
  <1>2. UNCHANGED <<now, kind, timeline, lastPts, path, stoppedAt, takeovers, stamp, wide, begun, due, idle>>
    BY DEF Send, Discard, Abandon, histories
  <1>3. timeline.seq \in Int
    BY <1>1, FieldsAre DEF TimelineBounds
  <1>4. Queue(x, low)' /\ Continues
    <2>1. CASE Send \/ Discard
      <3>1. /\ pending # <<>> /\ pending' = Tail(pending)
            /\ \/ sent' = Head(pending) /\ lost' = 0
               \/ sent' = sent /\ lost' = lost + 1
        BY <2>1 DEF Send, Discard
      <3> QED BY <3>1, <1>1, <1>2, <1>3, HeadGoes
    <2>2. CASE Abandon
      <3>1. LosesTheRest
        BY <2>2 DEF Abandon
      <3> QED BY <3>1, <1>1, <1>2, <1>3, RestIsLost
    <2> QED BY <2>1, <2>2
  <1>5. TimelineTyped' /\ Times(w, low)' /\ Offsets(w, f, low)' /\ Paths' /\ Stamped(w, f, x, low)' /\ Lag(w, f, x)'
    BY <1>1, <1>2 DEF TimelineTyped, Times, Offsets, Paths, Stamped, Lag, Lead
  <1> QED BY <1>4, <1>5 DEF LineInv

LEMMA TakeOverKeeps ==
  ASSUME TimelineBounds, NEW w \in Int, NEW f \in Int, NEW x \in Int, NEW low \in Int,
         LineInv(w, f, x, low), TakeOver
  PROVE  (\E w2 \in Int : LineInv(w2, f, x, low)') /\ Continues
  <1>1. /\ TimelineTyped /\ Times(w, low) /\ Offsets(w, f, low) /\ Paths /\ Stamped(w, f, x, low) /\ Lag(w, f, x)
        /\ Queue(x, low)
    BY DEF LineInv
  <1>2. /\ UNCHANGED <<now, kind, stamp, wide, begun, idle>> /\ takeovers' = takeovers + 1 /\ takeovers < Takeovers
        /\ lastPts' = None /\ path' = None /\ stoppedAt' = None /\ muted' = FALSE /\ due' = now
        /\ timeline' = Continued /\ stoppedAt # None
    BY DEF TakeOver, histories
  <1>3. /\ now \in 0..End /\ due \in Int /\ idle \in Nat /\ FrameLen \in Nat /\ due <= now + FrameLen /\ wide \in Int
        /\ takeovers \in 0..Takeovers /\ TsSpace \in Nat \ {0} /\ None \notin Int /\ Takeovers \in Nat
        /\ stoppedAt \in Int /\ stoppedAt <= due /\ stoppedAt <= now /\ due <= stoppedAt + FrameLen /\ End \in Nat
        /\ (begun # None => begun \in Int) /\ Source \in Int
    BY <1>1, <1>2 DEF TimelineTyped, TimelineBounds
  <1>4. Lead \in Nat /\ Lead' = Lead + 2 * FrameLen + 2
    BY <1>2, <1>3, LeadIs, LeadGrows
  <1>5. /\ timeline.seq \in 0..(SeqSpace - 1) /\ timeline.timestamp \in Int \cup {None}
        /\ timeline.offset \in Int \cup {None} /\ timeline.at \in Int \cup {None} /\ timeline \in Timelines
    BY <1>1, FieldsAre DEF TimelineTyped
  <1> DEFINE free == timeline.at = None /\ timeline.timestamp # None
  <1>6. /\ timeline'.seq = timeline.seq /\ timeline'.offset = None /\ timeline'.at = timeline.at
        /\ timeline'.timestamp = IF free THEN Plus(timeline.timestamp, now - stoppedAt) ELSE timeline.timestamp
        /\ timeline' \in Timelines
    <2>1. Plus(timeline.timestamp, now - stoppedAt) \in Int \/ timeline.timestamp = None
      <3>1. PICK b \in Int : b = now - stoppedAt
        BY <1>3
      <3>2. ASSUME timeline.timestamp \in Int PROVE (timeline.timestamp + b) % TsSpace \in Int
        <4>1. PICK c \in Int : c = timeline.timestamp + b
          BY <3>1, <3>2
        <4>2. TsSpace \in Nat \ {0}
          BY <1>3
        <4>3. c % TsSpace \in 0..(TsSpace - 1)
          BY <4>2, RemainderInRange
        <4> QED BY <4>1, <4>2, <4>3
      <3> QED BY <3>1, <3>2, <1>5 DEF Plus
    <2>2. PICK t : t = Plus(timeline.timestamp, now - stoppedAt)
      OBVIOUS
    <2>3. timeline' = [timeline EXCEPT !.offset = None,
                                       !.timestamp = IF timeline.at # None \/ @ = None THEN @ ELSE t]
      BY <2>2, <1>2 DEF Continued
    <2> QED BY <2>1, <2>2, <2>3, <1>5 DEF Timelines
  <1>7. PICK w2 \in Int : w2 = (IF free THEN w + (now - stoppedAt) ELSE w) /\ w2 >= w
    <2>1. PICK b \in Int : b = now - stoppedAt /\ b >= 0
      BY <1>3
    <2>2. w + b >= w /\ w + b \in Int /\ w >= w
      BY <2>1
    <2> QED BY <2>1, <2>2
  <1>8. timeline.timestamp # None => timeline'.timestamp = w2 % TsSpace
    <2>1. CASE free
      <3>1. timeline.timestamp = w % TsSpace
        BY <2>1, <1>1 DEF Times
      <3>2. PICK b \in Int : b = now - stoppedAt
        BY <1>3
      <3>3. ((w % TsSpace) + b) % TsSpace = (w + b) % TsSpace
        <4>1. TsSpace \in Nat \ {0} /\ w \in Int /\ b \in Int
          BY <1>3, <3>2
        <4> QED BY ONLY <4>1, SumWraps
      <3> QED BY <2>1, <3>1, <3>2, <3>3, <1>6, <1>7 DEF Plus
    <2>2. CASE ~free
      BY <2>2, <1>1, <1>6, <1>7 DEF Times
    <2> QED BY <2>1, <2>2
  <1>9. timeline.timestamp # None =>
          /\ low <= w
          /\ timeline.at = None => w <= due + low + Lead + FrameLen
          /\ timeline.at # None => w <= timeline.at + low + Lead + FrameLen + 2
    BY <1>1 DEF Times
  <1> HIDE DEF free
  <1>10. Times(w2, low)'
    <2> SUFFICES ASSUME timeline.timestamp # None, timeline'.timestamp # None PROVE Times(w2, low)'
      BY <1>6 DEF Times, free
    <2>3. PICK l \in Nat : l = Lead /\ Lead' = l + 2 * FrameLen + 2
      BY <1>4
    <2>1. ASSUME timeline.at = None PROVE w2 <= due' + low + Lead'
      <3>1. w <= due + low + l + FrameLen /\ w2 = w + (now - stoppedAt)
        BY <2>1, <2>3, <1>7, <1>9 DEF free
      <3>2. PICK a \in Int, b \in Int, c \in Int : a = now /\ b = stoppedAt /\ c = due
        BY <1>3
      <3>3. w + (a - b) <= a + low + (l + 2 * FrameLen + 2)
        BY <2>3, <3>1, <3>2, <1>3
      <3> QED BY <2>3, <3>1, <3>2, <3>3, <1>2
    <2>2. ASSUME timeline.at # None PROVE w2 <= timeline.at + low + Lead'
      <3>1. w <= timeline.at + low + l + FrameLen + 2 /\ w2 = w /\ timeline.at \in Int
        BY <2>2, <2>3, <1>5, <1>7, <1>9 DEF free
      <3> QED BY <2>3, <3>1, <1>3
    <2>4. low <= w2
      BY <1>7, <1>9
    <2>5. timeline'.timestamp = w2 % TsSpace /\ timeline'.at = timeline.at /\ timeline'.offset = None
      BY <1>6, <1>8
    <2>6. /\ timeline'.at = None => w2 <= due' + low + Lead'
          /\ timeline'.at # None => w2 <= timeline'.at + low + Lead'
      <3>1. due' \in Int /\ Lead' \in Int /\ (timeline.at # None => timeline.at \in Int)
        BY <1>2, <1>3, <1>5, <2>3
      <3> QED BY <3>1, <2>1, <2>2, <2>5, <1>7
    <2>7. /\ timeline'.at = None => w2 <= due' + low + Lead' + FrameLen
          /\ timeline'.at # None => w2 <= timeline'.at + low + Lead' + FrameLen + 2
      <3>1. PICK m \in Int, a \in Int : m = Lead' /\ a = due'
        BY <2>3, <1>2, <1>3
      <3>2. /\ m \in Int /\ a \in Int /\ FrameLen \in Nat /\ w2 \in Int /\ low \in Int
            /\ (timeline'.at # None => timeline'.at \in Int)
        BY <3>1, <2>5, <1>3, <1>5, <1>7
      <3>3. /\ timeline'.at = None => w2 <= a + low + m
            /\ timeline'.at # None => w2 <= timeline'.at + low + m
        BY <3>1, <2>6
      <3>4. /\ timeline'.at = None => w2 <= a + low + m + FrameLen
            /\ timeline'.at # None => w2 <= timeline'.at + low + m + FrameLen + 2
        BY ONLY <3>2, <3>3
      <3> QED BY <3>1, <3>4
    <2> QED BY <2>4, <2>5, <2>6, <2>7 DEF Times
  <1>11. TimelineTyped'
    <2>1. takeovers' \in 0..Takeovers /\ due' <= now' + FrameLen
      BY <1>2, <1>3
    <2> QED BY <2>1, <1>1, <1>2, <1>3, <1>6 DEF TimelineTyped
  <1>12. timeline'.timestamp = None <=> timeline.timestamp = None
    BY <1>3, <1>5, <1>6, <1>8, RemainderInRange, <1>7 DEF free
  <1>13. Offsets(w2, f, low)' /\ Paths'
    BY <1>1, <1>2, <1>6, <1>12 DEF Offsets, Paths
  <1>14. Stamped(w2, f, x, low)'
    <2>1. x <= w => x <= w2
      BY <1>7
    <2> QED BY <2>1, <1>1, <1>2, <1>3, <1>5, <1>6, <1>7, <1>12 DEF Stamped
  <1>15. Lag(w2, f, x)'
    <2> SUFFICES ASSUME kind = "audio", begun # None PROVE Lag(w2, f, x)'
      BY <1>2 DEF Lag
    <2>1. begun \in Int /\ timeline.timestamp # None
      BY <1>1 DEF TimelineTyped, Stamped
    <2>2. ASSUME timeline.at # None PROVE w2 + idle >= (x - wide) + timeline.at - begun
      BY <2>1, <2>2, <1>1, <1>7 DEF Lag, free
    <2>3. ASSUME timeline.at = None PROVE w2 + idle >= (x - wide) + now - begun
      <3>1. w + idle >= (x - wide) + due - begun /\ w2 = w + (now - stoppedAt)
        BY <2>1, <2>3, <1>1, <1>7 DEF Lag, free
      <3> QED BY <2>1, <3>1, <1>3
    <2> QED BY <2>1, <2>2, <2>3, <1>2, <1>3, <1>5, <1>6, <1>7 DEF Lag
  <1>17. Queue(x, low)' /\ Continues
    <2>1. LosesTheRest
      BY DEF TakeOver
    <2>2. timeline.seq \in Int
      BY <1>5 DEF TimelineBounds
    <2> QED BY <2>1, <2>2, <1>1, <1>2, <1>6, RestIsLost
  <1>16. LineInv(w2, f, x, low)'
    BY <1>10, <1>11, <1>13, <1>14, <1>15, <1>17 DEF LineInv
  <1> QED BY <1>7, <1>16, <1>17

-----------------------------------------------------------------------------
(* A write. *)

\* Packets get their numbers; c says which write they are of.
Stamps(n, line, ts) == \E c \in BOOLEAN : Numbers(n, line, ts, c)

\* The timestamp of a write counts the ticks from the one before it.
LEMMA TicksAre ==
  ASSUME TimelineBounds, NEW x \in Int, NEW y \in Int, x <= y, y - x <= Span
  PROVE  Minus(y % TsSpace, x % TsSpace) = y - x
  <1>1. TsSpace \in Nat \ {0} /\ Span \in Int /\ 2 * (Span + 1) <= TsSpace
    BY SpanIs DEF TimelineBounds
  <1>2. ((y % TsSpace) - (x % TsSpace)) % TsSpace = (y - x) % TsSpace
    BY <1>1, RemaindersDiffer
  <1>3. PICK d \in Int : d = y - x
    OBVIOUS
  <1>4. d \in 0..(TsSpace - 1)
    BY <1>1, <1>3
  <1>5. d % TsSpace = d
    BY <1>1, <1>4, SmallStays
  <1> QED BY <1>2, <1>3, <1>5 DEF Minus

\* What waits to be sent when packets got their numbers.
LEMMA QueueFills ==
  ASSUME TimelineBounds, NEW n \in {1, 2}, NEW line \in Timelines,
         NEW x \in Int, NEW low \in Int, Queue(x, low), pending = <<>>, line.seq = timeline.seq,
         NEW y \in Int, NEW low2 \in Int, stamp # None => low2 = low /\ x <= y, low2 <= y,
         timeline'.seq = (line.seq + n) % SeqSpace, stamp' = y % TsSpace, UNCHANGED <<sent, lost>>,
         pending' = [k \in 1..n |-> [seq |-> (line.seq + k) % SeqSpace, ts |-> y % TsSpace]]
  PROVE  Queue(y, low2)'
  <1>1. /\ TsSpace \in Nat \ {0} /\ SeqSpace \in Nat \ {0} /\ None \notin Int
        /\ lost \in Nat /\ Len(pending) = 0
    BY DEF TimelineBounds, Queue
  <1>2. PICK q \in Int, t \in Int, l \in Nat : q = line.seq /\ t = y % TsSpace /\ l = lost
    <2>1. y % TsSpace \in 0..(TsSpace - 1) /\ line.seq \in 0..(SeqSpace - 1)
      BY <1>1, RemainderInRange DEF Timelines
    <2> QED BY <1>1, <2>1
  <1>3. ASSUME NEW a \in Int PROVE (q + n + a) % SeqSpace = (timeline'.seq + a) % SeqSpace
    <2>1. PICK b \in Int : b = q + n
      OBVIOUS
    <2>2. ((b % SeqSpace) + a) % SeqSpace = (b + a) % SeqSpace
      BY ONLY <1>1, a \in Int, b \in Int, SumWraps
    <2> QED BY <1>2, <2>1, <2>2
  <1>4. \A k \in 1..n : (q + k) % SeqSpace \in Int
    <2> TAKE k \in 1..n
    <2>1. PICK b \in Int : b = q + k
      OBVIOUS
    <2>2. b % SeqSpace \in 0..(SeqSpace - 1)
      BY <1>1, RemainderInRange
    <2> QED BY <1>1, <2>1, <2>2
  <1>5. pending' = [k \in 1..n |-> [seq |-> (q + k) % SeqSpace, ts |-> t]]
    BY <1>2
  <1>6. pending' \in Seq(Packet) /\ Len(pending') = n
    BY <1>4, <1>5 DEF Packet
  <1>7. timeline'.seq \in Int
    <2>1. PICK b \in Int : b = q + n
      OBVIOUS
    <2>2. b % SeqSpace \in 0..(SeqSpace - 1)
      BY <1>1, RemainderInRange
    <2> QED BY <1>1, <1>2, <2>1, <2>2
  <1>8. PICK m \in Int : m = timeline'.seq
    BY <1>7
  <1>9. ASSUME NEW k \in 1..Len(pending')
        PROVE  pending'[k].ts = stamp' /\ pending'[k].seq = (timeline'.seq - Len(pending') + k) % SeqSpace
    <2>1. k \in 1..n /\ pending'[k].ts = t /\ pending'[k].seq = (q + k) % SeqSpace
      BY <1>5, <1>6
    <2>2. PICK a \in Int : a = k - n
      BY <2>1
    <2>3. q + n + a = q + k /\ m + a = m - n + k
      BY <2>1, <2>2
    <2> QED BY <2>1, <2>3, <1>2, <1>3, <1>6, <1>8
  <1>10. sent # None => sent.seq = (timeline'.seq - Len(pending') - lost') % SeqSpace
    <2>1. sent # None => sent.seq = (q - 0 - l) % SeqSpace
      BY <1>1, <1>2 DEF Queue
    <2>2. PICK a \in Int : a = 0 - n - l
      <3>1. n \in Int /\ l \in Int
        OBVIOUS
      <3>2. 0 - n - l \in Int
        BY ONLY <3>1
      <3> QED BY <3>2
    <2>3. q + n + a = q - 0 - l /\ m + a = m - n - l
      BY <2>2
    <2> QED BY <2>1, <2>3, <1>2, <1>3, <1>6, <1>8
  <1>11. sent # None => \E z \in Int : sent.ts = z % TsSpace /\ low2 <= z /\ z <= y
    <2> SUFFICES ASSUME sent # None PROVE \E z \in Int : sent.ts = z % TsSpace /\ low2 <= z /\ z <= y
      OBVIOUS
    <2>1. PICK z \in Int : sent.ts = z % TsSpace /\ low <= z /\ z <= x
      BY DEF Queue
    <2>2. low2 = low /\ x <= y
      BY DEF Queue
    <2>3. low2 <= z /\ z <= y
      BY <2>1, <2>2
    <2> QED BY <2>1, <2>3
  <1>12. stamp' # None
    BY <1>1, <1>2
  <1> QED BY <1>6, <1>9, <1>10, <1>11, <1>12 DEF Queue

\* A write, of n packets or of none: y is their timestamp without the wrap, w2 and
\* f2 what the timeline gets, and x2 the timestamp that is then last sent.
WriteOf(n, line, x, low, y, w2, f2, low2, x2) ==
    /\ (KeepsTime(line) /\ x2 = x) \/ (Stamps(n, line, y % TsSpace) /\ x2 = y)
    /\ pending = <<>>
    /\ line.seq = timeline.seq /\ line.timestamp # None /\ now' = now /\ kind' = kind
    /\ low2 <= y /\ y <= w2 /\ y <= low2 + Span
    /\ stamp # None => low2 = low /\ x <= y
    /\ line.offset # None /\ path' # "frames" =>
           y <= Source + f2 + now /\ (stamp # None => x <= Source + f2 + now)
    /\ idle' \in Nat /\ (kind = "audio" /\ begun # None => y + idle' >= (x - wide) + now - begun)

\* What it leaves.
WriteLeaves(line, x, y, w2, f2, low2, x2) ==
    /\ timeline' \in Timelines /\ timeline'.timestamp = line.timestamp
    /\ timeline'.offset = line.offset /\ timeline'.at = line.at
    /\ wide' \in Int /\ begun' \in Int \cup {None}
    /\ kind = "audio" /\ begun # None => begun' = begun /\ x2 - wide' = x - wide
    /\ kind = "audio" /\ begun = None /\ begun' # None => begun' = now /\ x2 - wide' = y
    /\ Stamped(w2, f2, x2, low2)' /\ Queue(x2, low2)' /\ Continues

LEMMA PacketsKeep ==
  ASSUME TimelineBounds, NEW n \in {1, 2}, NEW line \in Timelines,
         NEW w \in Int, NEW f \in Int, NEW x \in Int, NEW low \in Int, LineInv(w, f, x, low),
         NEW y \in Int, NEW w2 \in Int, NEW f2 \in Int, NEW low2 \in Int, NEW x2 \in Int,
         WriteOf(n, line, x, low, y, w2, f2, low2, x2)
  PROVE  WriteLeaves(line, x, y, w2, f2, low2, x2)
  <1>6. /\ (KeepsTime(line) /\ x2 = x) \/ (Stamps(n, line, y % TsSpace) /\ x2 = y)
        /\ pending = <<>>
        /\ line.seq = timeline.seq /\ line.timestamp # None /\ now' = now /\ kind' = kind
        /\ low2 <= y /\ y <= w2 /\ y <= low2 + Span
        /\ stamp # None => low2 = low /\ x <= y
        /\ line.offset # None /\ path' # "frames" =>
               y <= Source + f2 + now /\ (stamp # None => x <= Source + f2 + now)
        /\ idle' \in Nat /\ (kind = "audio" /\ begun # None => y + idle' >= (x - wide) + now - begun)
    BY DEF WriteOf
  <1>1. /\ TimelineTyped /\ Stamped(w, f, x, low) /\ Queue(x, low)
    BY DEF LineInv
  <1>2. /\ now \in Int /\ wide \in Int /\ begun \in Int \cup {None} /\ kind \in {"audio", "video"}
        /\ TsSpace \in Nat \ {0} /\ SeqSpace \in Nat \ {0} /\ None \notin Int /\ Span \in Int
    BY <1>1, SpanIs DEF TimelineTyped, TimelineBounds
  <1>3. /\ stamp = None => begun = None
        /\ stamp # None => /\ begun # None /\ stamp = x % TsSpace
                           /\ low <= x /\ x <= w /\ x <= low + Span /\ low2 = low /\ x <= y
    BY <1>1, <1>6 DEF Stamped
  <1>4. CASE KeepsTime(line) /\ x2 = x
    <2>1. timeline' = line /\ UNCHANGED <<pending, lost, sent, stamp, wide, begun>>
      BY <1>4 DEF KeepsTime, packets, histories
    <2>2. stamp # None => low2 <= x /\ x <= w2 /\ x <= low2 + Span
      BY <1>2, <1>3, <1>6
    <2>3. Stamped(w2, f2, x2, low2)'
      <3>1. Span' = Span
        BY DEF Span
      <3> QED BY <2>1, <2>2, <3>1, <1>2, <1>3, <1>4, <1>6 DEF Stamped
    <2>4. Continues /\ Queue(x, low)'
      BY <2>1, <1>1, <1>6, QueueStays
    <2>5. Queue(x2, low2)'
      <3>1. stamp # None => low2 = low
        BY <1>3
      <3>2. stamp' = None => sent' = None /\ pending' = <<>>
        BY <2>4 DEF Queue
      <3> QED BY <2>1, <2>4, <3>1, <3>2, <1>4 DEF Queue
    <2> QED BY <2>1, <2>3, <2>4, <2>5, <1>2, <1>4, <1>6 DEF WriteLeaves
  <1>5. CASE Stamps(n, line, y % TsSpace) /\ x2 = y
    <2>1. /\ timeline' = [line EXCEPT !.seq = (@ + n) % SeqSpace]
          /\ pending' = [k \in 1..n |-> [seq |-> (line.seq + k) % SeqSpace, ts |-> y % TsSpace]]
          /\ stamp' = y % TsSpace /\ UNCHANGED <<sent, lost>>
          /\ wide' = IF stamp = None \/ kind = "video" THEN 0 ELSE wide + Minus(y % TsSpace, stamp)
          /\ begun' = IF begun = None THEN now ELSE begun
      BY <1>5 DEF Stamps, Numbers
    <2>2. timeline' \in Timelines /\ timeline'.seq = (line.seq + n) % SeqSpace
      <3>1. PICK a \in Int : a = line.seq + n
        BY <1>2 DEF Timelines
      <3>2. a % SeqSpace \in 0..(SeqSpace - 1)
        BY <1>2, RemainderInRange
      <3> QED BY <2>1, <3>1, <3>2 DEF Timelines
    <2>3. timeline'.timestamp = line.timestamp /\ timeline'.offset = line.offset /\ timeline'.at = line.at
      BY <2>1 DEF Timelines
    <2>4. begun' \in Int /\ begun' # None
      BY <2>1, <1>2
    <2>5. Queue(y, low2)'
      <3>1. /\ Queue(x, low) /\ pending = <<>> /\ line.seq = timeline.seq
            /\ stamp # None => low2 = low /\ x <= y
            /\ low2 <= y
        BY <1>1, <1>3, <1>6
      <3> QED BY <2>1, <2>2, <3>1, QueueFills
    <2>6. Stamped(w2, f2, x2, low2)'
      <3>1. Span' = Span
        BY DEF Span
      <3> QED BY <2>1, <2>3, <2>4, <3>1, <1>2, <1>5, <1>6 DEF Stamped
    <2>7. stamp # None => (kind = "audio" => wide' = wide + (y - x))
      <3>1. stamp # None => x <= y /\ y - x <= Span
        BY <1>2, <1>3, <1>6
      <3>2. stamp # None => Minus(y % TsSpace, stamp) = y - x
        BY <3>1, <1>3, TicksAre
      <3> QED BY <2>1, <3>2
    <2>8. kind = "audio" /\ begun # None => begun' = begun /\ wide' = wide + (y - x)
      BY <2>1, <2>7, <1>3
    <2>9. wide' \in Int
      <3>1. stamp = None \/ kind = "video" => wide' = 0
        BY <2>1
      <3> QED BY <3>1, <2>7, <1>2
    <2>10. kind = "audio" /\ begun = None => begun' = now /\ wide' = 0
      BY <2>1, <1>3
    <2>11. Continues
      <3>1. kind = "audio" /\ begun # None => wide' + idle' >= now - begun
        <4> SUFFICES ASSUME kind = "audio", begun # None PROVE wide' + idle' >= now - begun
          OBVIOUS
        <4>1. begun \in Int /\ wide \in Int /\ now \in Int
          BY <1>2
        <4>2. idle' \in Int /\ wide' = wide + (y - x) /\ y + idle' >= (x - wide) + now - begun
          BY <2>8, <1>6
        <4>3. PICK a \in Int, b \in Int, c \in Int, i \in Int :
                a = wide /\ b = begun /\ c = now /\ i = idle' /\ y + i >= (x - a) + c - b
          BY <4>1, <4>2
        <4>4. (a + (y - x)) + i >= c - b
          <5>1. y \in Int /\ x \in Int /\ a \in Int /\ b \in Int /\ c \in Int /\ i \in Int /\ y + i >= (x - a) + c - b
            BY <4>3
          <5> QED BY ONLY <5>1
        <4> QED BY <4>2, <4>3, <4>4
      <3> QED BY <2>1, <3>1 DEF Continues
    <2>12. /\ kind = "audio" /\ begun # None => begun' = begun /\ x2 - wide' = x - wide
           /\ kind = "audio" /\ begun = None => begun' = now /\ x2 - wide' = y
      BY <2>8, <2>10, <1>2, <1>5
    <2> QED BY <2>2, <2>3, <2>4, <2>5, <2>6, <2>9, <2>11, <2>12, <1>5 DEF WriteLeaves
  <1> QED BY <1>4, <1>5, <1>6

\* Where the next timestamp is, and what of it the idle time accounts for.
LEMMA NextIs ==
  ASSUME TimelineBounds, NEW w \in Int, NEW f \in Int, NEW x \in Int, NEW low \in Int,
         LineInv(w, f, x, low), timeline.timestamp # None
  PROVE  \E y \in Int :
           /\ NextTimestamp = y % TsSpace /\ low <= w /\ w <= y
           /\ timeline.at = None => y = w
           /\ timeline.at # None => y = w + (now - timeline.at)
  <1>1. TimelineTyped /\ Times(w, low)
    BY DEF LineInv
  <1>2. /\ now \in Int /\ timeline.at \in Int \cup {None} /\ (timeline.at # None => timeline.at <= now)
        /\ TsSpace \in Nat \ {0} /\ None \notin Int
    BY <1>1 DEF TimelineTyped, Timelines, TimelineBounds
  <1>3. PICK e \in Int : e = Elapsed /\ e >= 0
    BY <1>2 DEF Elapsed
  <1>4. PICK y \in Int : y = w + e
    OBVIOUS
  <1>5. NextTimestamp = y % TsSpace
    <2>1. NextTimestamp = ((w % TsSpace) + e) % TsSpace
      BY <1>1, <1>3 DEF NextTimestamp, Plus, Times
    <2>2. ((w % TsSpace) + e) % TsSpace = (w + e) % TsSpace
      <3>1. TsSpace \in Nat \ {0} /\ e \in Int
        BY <1>2, <1>3
      <3> QED BY ONLY <3>1, w \in Int, SumWraps
    <2> QED BY <2>1, <2>2, <1>4
  <1>6. w <= y /\ low <= w
    BY <1>1, <1>3, <1>4 DEF Times
  <1>7. /\ timeline.at = None => e = 0
        /\ timeline.at # None => e = now - timeline.at
    BY <1>3 DEF Elapsed
  <1>8. /\ timeline.at = None => y = w
        /\ timeline.at # None => y = w + (now - timeline.at)
    BY <1>4, <1>7
  <1> QED BY <1>5, <1>6, <1>8

\* The time no write accounts for keeps the timestamp of audio at the clock.
LEMMA IdleIsKept ==
  ASSUME TimelineBounds, NEW w \in Int, NEW f \in Int, NEW x \in Int, NEW low \in Int,
         LineInv(w, f, x, low), NEW y \in Int, NEW upTo, Accounts(upTo),
         timeline.at = None => y = w,
         timeline.at # None => y = w + (now - timeline.at)
  PROVE  /\ idle' \in Nat /\ idle' >= idle
         /\ kind = "audio" /\ begun # None => y + idle' >= (x - wide) + now - begun
  <1>1. TimelineTyped /\ Lag(w, f, x)
    BY DEF LineInv
  <1>2. /\ now \in Int /\ due \in Int /\ idle \in Nat /\ wide \in Int /\ (begun # None => begun \in Int)
        /\ (timeline.at # None => timeline.at \in Int)
    BY <1>1 DEF TimelineTyped, Timelines
  <1>3. idle' = IF begun = None \/ timeline.at # None \/ due >= now THEN idle ELSE idle + (now - due)
    BY DEF Accounts
  <1>4. idle' \in Nat /\ idle' >= idle
    BY <1>2, <1>3
  <1>5. ASSUME kind = "audio", begun # None PROVE y + idle' >= (x - wide) + now - begun
    <2>1. CASE timeline.at # None
      <3>1. w + idle >= (x - wide) + timeline.at - begun /\ idle' = idle /\ y = w + (now - timeline.at)
        BY <1>1, <1>3, <1>5, <2>1 DEF Lag
      <3>2. timeline.at \in Int /\ begun \in Int
        BY <1>2, <1>5, <2>1
      <3> QED BY <3>1, <3>2, <1>2
    <2>2. CASE timeline.at = None
      <3>1. w + idle >= (x - wide) + due - begun /\ y = w /\ begun \in Int
        BY <1>1, <1>2, <1>5, <2>2 DEF Lag
      <3>2. idle' = IF due >= now THEN idle ELSE idle + (now - due)
        BY <1>3, <1>5, <2>2
      <3> QED BY <3>1, <3>2, <1>2
    <2> QED BY <2>1, <2>2
  <1> QED BY <1>4, <1>5

\* The conjuncts of the invariant a write leaves to its line.
LEMMA WriteTypes ==
  ASSUME TimelineBounds, TimelineTyped, UNCHANGED <<now, kind, takeovers, stoppedAt>>, stoppedAt = None \/ due' = due,
         timeline' \in Timelines, wide' \in Int, begun' \in Int \cup {None}, idle' \in Nat,
         due' \in Int, due' <= now + FrameLen, timeline'.at = None \/ timeline'.at = now,
         lastPts' \in Int \cup {None}, path' \in {None, "frames", "rtp"}
  PROVE  TimelineTyped'
  <1>1. now \in Int /\ None \notin Int
    BY DEF TimelineTyped, TimelineBounds
  <1>2. timeline'.at # None => timeline'.at <= now'
    BY <1>1
  <1> QED BY <1>2 DEF TimelineTyped

LEMMA WriteFrameKeeps ==
  ASSUME TimelineBounds, NEW w \in Int, NEW f \in Int, NEW x \in Int, NEW low \in Int,
         LineInv(w, f, x, low), WriteFrame
  PROVE  TimelineInv' /\ Continues
  <1>1. /\ TimelineTyped /\ Times(w, low) /\ Offsets(w, f, low) /\ Paths /\ Stamped(w, f, x, low) /\ Lag(w, f, x)
    BY DEF LineInv
  <1>2. /\ UNCHANGED <<now, kind, lastPts, path, stoppedAt, takeovers>> /\ kind = "audio" /\ stoppedAt = None
        /\ pending = <<>>
        /\ due <= now /\ Writes(1, Advanced, NextTimestamp) /\ Accounts(now + FrameLen) /\ due' = now + FrameLen
    BY DEF WriteFrame, Accounts
  <1>3. /\ now \in 0..End /\ now \in Int /\ due \in Int /\ FrameLen \in Nat /\ TsSpace \in Nat \ {0} /\ None \notin Int
        /\ Lead \in Nat /\ Span \in Nat /\ Lead + End + 2 * FrameLen + 2 <= Span /\ Source \in Nat /\ End \in Nat
        /\ idle \in Nat /\ (begun # None => begun \in Int) /\ wide \in Int
    BY <1>1, LeadIs DEF TimelineTyped, TimelineBounds
  <1>4. /\ timeline.timestamp \in Int \cup {None} /\ timeline \in Timelines /\ path = None
        /\ timeline.offset \in Int \cup {None} /\ (timeline.at # None => timeline.at \in Int)
    BY <1>1, <1>2, FieldsAre DEF TimelineTyped, Paths
  <1>5. PICK y \in Int, low2 \in Int :
          /\ NextTimestamp = y % TsSpace /\ low2 <= y /\ y <= now + low2 + Lead + FrameLen + 2
          /\ timeline.timestamp # None => low2 = low /\ w <= y
          /\ timeline.timestamp = None => y = low2
          /\ timeline.timestamp # None /\ timeline.at = None => y = w
          /\ timeline.timestamp # None /\ timeline.at # None => y = w + (now - timeline.at)
          /\ timeline.offset = None => y <= now + low2 + Lead
          /\ timeline.offset # None => y <= Source + f + now /\ Source + f <= low2 + Lead + FrameLen
    <2>1. CASE timeline.timestamp = None
      <3>1. Random \in Int /\ NextTimestamp = Random % TsSpace
        <4>1. Random \in 0..(TsSpace - 1)
          BY DEF TimelineBounds
        <4> QED BY <4>1, <2>1, <1>3, SmallStays DEF NextTimestamp
      <3>2. timeline.offset = None
        BY <2>1, <1>1 DEF Paths
      <3>3. Random <= now + Random + Lead /\ Random <= now + Random + Lead + FrameLen + 2
        BY <3>1, <1>3
      <3> QED BY <2>1, <3>1, <3>2, <3>3
    <2>2. CASE timeline.timestamp # None
      <3>1. PICK y \in Int : /\ NextTimestamp = y % TsSpace /\ low <= w /\ w <= y
                             /\ timeline.at = None => y = w
                             /\ timeline.at # None => y = w + (now - timeline.at)
        BY <2>2, NextIs
      <3>2. timeline.offset = None => y <= now + low + Lead
        <4>1. PICK l \in Nat : l = Lead
          BY <1>3
        <4>2. ASSUME timeline.offset = None, timeline.at = None PROVE y <= now + low + l
          <5>1. w <= due + low + l /\ y = w
            BY <2>2, <3>1, <4>1, <4>2, <1>1 DEF Times
          <5> QED BY <5>1, <1>2, <1>3
        <4>3. ASSUME timeline.offset = None, timeline.at # None PROVE y <= now + low + l
          <5>1. w <= timeline.at + low + l /\ y = w + (now - timeline.at) /\ timeline.at \in Int
            BY <2>2, <3>1, <4>1, <4>3, <1>1, <1>4 DEF Times
          <5> QED BY <5>1, <1>3
        <4> QED BY <4>1, <4>2, <4>3
      <3>3. timeline.offset # None => y <= Source + f + now /\ Source + f <= low + Lead + FrameLen
        <4> SUFFICES ASSUME timeline.offset # None
                     PROVE  y <= Source + f + now /\ Source + f <= low + Lead + FrameLen
          OBVIOUS
        <4>1. /\ Source + f <= low + Lead + FrameLen
              /\ timeline.at # None => w = Source + f + timeline.at
              /\ timeline.at = None => w <= Source + f + due
          BY <1>1, <1>3, <1>4 DEF Offsets, TimelineBounds
        <4>2. CASE timeline.at = None
          BY <4>1, <4>2, <3>1, <1>2, <1>3
        <4>3. CASE timeline.at # None
          <5>1. w = Source + f + timeline.at /\ y = w + (now - timeline.at) /\ timeline.at \in Int
            BY <4>1, <4>3, <3>1, <1>4
          <5> QED BY <5>1, <4>1, <1>3
        <4> QED BY <4>2, <4>3
      <3>4. y <= now + low + Lead + FrameLen + 2 /\ low <= y
        BY <3>1, <3>2, <3>3, <1>3
      <3> QED BY <2>2, <3>1, <3>2, <3>3, <3>4
    <2> QED BY <2>1, <2>2
  <1>6. PICK w2 \in Int : w2 = y + FrameLen
    BY <1>3
  <1>7. /\ Advanced \in Timelines /\ Advanced.seq = timeline.seq /\ Advanced.timestamp = w2 % TsSpace
        /\ Advanced.offset = timeline.offset /\ Advanced.at = None /\ Advanced.timestamp # None
    <2>1. Plus(NextTimestamp, FrameLen) = w2 % TsSpace
      <3>1. FrameLen \in Int /\ TsSpace \in Nat \ {0} /\ y \in Int
        BY <1>3
      <3>2. ((y % TsSpace) + FrameLen) % TsSpace = (y + FrameLen) % TsSpace
        BY ONLY <3>1, SumWraps
      <3> QED BY <3>2, <1>5, <1>6 DEF Plus
    <2>2. w2 % TsSpace \in Int
      BY <1>3, RemainderInRange
    <2> QED BY <2>1, <2>2, <1>3, <1>4 DEF Advanced, Timelines
  <1>8. idle' \in Nat /\ idle' >= idle
    BY <1>1, <1>2, <1>3 DEF Accounts
  <1>9. stamp # None => timeline.timestamp # None /\ low2 = low /\ x <= y
    BY <1>1, <1>3, <1>5 DEF Stamped
  <1>10. kind = "audio" /\ begun # None => y + idle' >= (x - wide) + now - begun
    <2>1. begun # None => timeline.timestamp # None
      BY <1>1 DEF Stamped
    <2> QED BY <2>1, <1>2, <1>5, IdleIsKept
  <1>11. low2 <= y /\ y <= w2 /\ y <= low2 + Span
    BY <1>3, <1>5, <1>6
  <1>12. timeline.offset # None => y <= Source + f + now /\ (stamp # None => x <= Source + f + now)
    BY <1>3, <1>5, <1>9
  <1>13. KeepsTime(Advanced) \/ Stamps(1, Advanced, y % TsSpace)
    BY <1>2, <1>5 DEF Writes, Stamps
  <1>14. PICK line \in Timelines : line = Advanced
    BY <1>7
  <1>15. PICK x2 \in Int : (KeepsTime(line) /\ x2 = x) \/ (Stamps(1, line, y % TsSpace) /\ x2 = y)
    BY <1>13, <1>14
  <1>16. WriteOf(1, line, x, low, y, w2, f, low2, x2)
    <2>1. /\ line.seq = timeline.seq /\ line.timestamp # None
          /\ line.offset # None /\ path' # "frames" => y <= Source + f + now /\ (stamp # None => x <= Source + f + now)
      BY <1>7, <1>12, <1>14
    <2> QED BY <2>1, <1>2, <1>8, <1>9, <1>10, <1>11, <1>15 DEF WriteOf
  <1>17. WriteLeaves(line, x, y, w2, f, low2, x2)
    <2>1. 1 \in {1, 2}
      OBVIOUS
    <2> QED BY <2>1, <1>16, PacketsKeep
  <1>18. /\ timeline' \in Timelines /\ timeline'.timestamp = w2 % TsSpace
         /\ timeline'.offset = timeline.offset /\ timeline'.at = None
         /\ wide' \in Int /\ begun' \in Int \cup {None} /\ Continues
    BY <1>7, <1>14, <1>17 DEF WriteLeaves
  <1>19. /\ Stamped(w2, f, x2, low2)' /\ Queue(x2, low2)'
         /\ begun # None => begun' = begun /\ x2 - wide' = x - wide
         /\ begun = None /\ begun' # None => begun' = now /\ x2 - wide' = y
    BY <1>2, <1>17 DEF WriteLeaves
  <1>20. TimelineTyped'
    BY <1>1, <1>2, <1>3, <1>8, <1>18, WriteTypes DEF TimelineTyped
  <1>21. Paths'
    BY <1>1, <1>2, <1>7, <1>18, <1>4 DEF Paths
  <1>22. Lead' = Lead
    BY <1>2 DEF Lead
  <1>23. Times(w2, low2)'
    <2>1. low2 <= w2 /\ w2 <= due' + low2 + Lead + FrameLen /\ (timeline.offset = None => w2 <= due' + low2 + Lead)
      BY <1>2, <1>3, <1>5, <1>6
    <2> QED BY <2>1, <1>18, <1>22 DEF Times
  <1>24. Offsets(w2, f, low2)'
    <2>1. timeline.offset # None => /\ Source + f <= low2 + Lead + FrameLen /\ low2 <= Source + f + now
                                    /\ w2 <= Source + f + due'
      BY <1>2, <1>3, <1>5, <1>6
    <2>2. timeline'.timestamp # None /\ path' # "frames" /\ (timeline.offset # None => timeline.offset = f % TsSpace)
      BY <1>1, <1>2, <1>4, <1>7, <1>18 DEF TimelineBounds, Offsets
    <2> QED BY <2>1, <2>2, <1>2, <1>18, <1>22 DEF Offsets
  <1>25. Lag(w2, f, x2)'
    <2> SUFFICES ASSUME begun' # None PROVE Lag(w2, f, x2)'
      BY DEF Lag
    <2>4. wide' \in Int /\ begun' \in Int
      BY <1>18
    <2>5. PICK d \in Int : d = wide'
      BY <2>4
    <2>6. PICK e \in Int : e = x2 - d
      <3>1. x2 \in Int /\ d \in Int
        BY <1>15, <2>5
      <3>2. x2 - d \in Int
        BY ONLY <3>1
      <3> QED BY <3>2
    <2>1. e = x2 - wide' /\ begun' \in Int /\ e \in Int
      BY <2>4, <2>5, <2>6
    <2>2. w2 + idle' >= e + due' - begun'
      <3>1. begun # None => y + idle' >= e + now - begun'
        BY <2>1, <1>2, <1>10, <1>19
      <3>2. begun = None => begun' = now /\ e = y
        BY <2>1, <1>19
      <3>3. PICK i \in Int, j \in Int, b \in Int, c \in Int :
              i = idle' /\ b = begun' /\ c = now /\ j = FrameLen /\ i >= 0
        BY <2>1, <1>3, <1>8
      <3>4. y + i >= e + c - b
        <4>1. CASE begun # None
          BY <3>1, <3>3, <4>1
        <4>2. CASE begun = None
          <5>1. e = y /\ b = c
            BY <3>2, <3>3, <4>2
          <5>2. i >= 0 /\ e \in Int /\ y \in Int /\ b \in Int /\ c \in Int /\ i \in Int
            BY <2>1, <3>3
          <5> QED BY ONLY <5>1, <5>2
        <4> QED BY <4>1, <4>2
      <3>5. (y + j) + i >= e + (c + j) - b
        BY ONLY <3>4, y \in Int, e \in Int, i \in Int, j \in Int, b \in Int, c \in Int
      <3> QED BY <3>3, <3>5, <1>2, <1>6
    <2>3. timeline.offset # None => Source + f + idle' >= e - begun'
      <3>1. begun # None /\ timeline.offset # None => Source + f + idle >= e - begun'
        BY <2>1, <1>1, <1>2, <1>19 DEF Lag
      <3>2. begun = None /\ timeline.offset # None => begun' = now /\ e <= Source + f + now
        BY <2>1, <1>12, <1>19
      <3> QED BY <2>1, <3>1, <3>2, <1>3, <1>8
    <2> QED BY <2>1, <2>2, <2>3, <1>18 DEF Lag
  <1>26. LineInv(w2, f, x2, low2)'
    BY <1>19, <1>20, <1>21, <1>23, <1>24, <1>25 DEF LineInv
  <1> QED BY <1>18, <1>26 DEF TimelineInv

\* What a forward makes of a timeline.
LEMMA ForwardedIs ==
  ASSUME TimelineBounds, NEW line \in Timelines, NEW s \in Int, NEW f2 \in Int, NEW y \in Int,
         y = s + f2, now \in Int, Offset(line, s % TsSpace) = f2 % TsSpace
  PROVE  /\ Forwarded(line, s % TsSpace) \in Timelines
         /\ Forwarded(line, s % TsSpace).seq = line.seq
         /\ Forwarded(line, s % TsSpace).timestamp = y % TsSpace
         /\ Forwarded(line, s % TsSpace).offset = f2 % TsSpace
         /\ Forwarded(line, s % TsSpace).at = now
         /\ y % TsSpace \in Int /\ f2 % TsSpace \in Int
  <1>1. TsSpace \in Nat \ {0}
    BY DEF TimelineBounds
  <1>2. PICK a \in Int, b \in Int : a = s % TsSpace /\ b = f2 % TsSpace
    <2>1. s % TsSpace \in 0..(TsSpace - 1) /\ f2 % TsSpace \in 0..(TsSpace - 1)
      BY <1>1, RemainderInRange
    <2> QED BY <1>1, <2>1
  <1>3. Plus(a, b) = y % TsSpace
    <2>1. ((s % TsSpace) + b) % TsSpace = (s + b) % TsSpace
      <3>1. TsSpace \in Nat \ {0} /\ b \in Int
        BY <1>1, <1>2
      <3> QED BY ONLY <3>1, s \in Int, SumWraps
    <2>2. (s + (f2 % TsSpace)) % TsSpace = (s + f2) % TsSpace
      BY ONLY <1>1, s \in Int, f2 \in Int, SumWrapsRight
    <2> QED BY <2>1, <2>2, <1>2 DEF Plus
  <1>4. y % TsSpace \in Int
    <2>1. y % TsSpace \in 0..(TsSpace - 1)
      BY <1>1, RemainderInRange
    <2> QED BY <1>1, <2>1
  <1>5. Forwarded(line, a) = [line EXCEPT !.offset = b, !.timestamp = y % TsSpace, !.at = now]
    BY <1>2, <1>3 DEF Forwarded
  <1> QED BY <1>2, <1>4, <1>5 DEF Timelines

\* The offset that takes a source s to the next timestamp y.
LEMMA OffsetIs ==
  ASSUME TimelineBounds, NEW s \in Int, NEW y \in Int, NextTimestamp = y % TsSpace
  PROVE  Minus(NextTimestamp, s % TsSpace) = (y - s) % TsSpace
  <1>1. TsSpace \in Nat \ {0}
    BY DEF TimelineBounds
  <1>2. ((y % TsSpace) - (s % TsSpace)) % TsSpace = (y - s) % TsSpace
    BY ONLY <1>1, y \in Int, s \in Int, RemaindersDiffer
  <1> QED BY <1>2 DEF Minus

LEMMA ForwardRtpKeeps ==
  ASSUME TimelineBounds, NEW w \in Int, NEW f \in Int, NEW x \in Int, NEW low \in Int,
         LineInv(w, f, x, low), ForwardRtp
  PROVE  TimelineInv' /\ Continues
  <1>1. /\ TimelineTyped /\ Times(w, low) /\ Offsets(w, f, low) /\ Paths /\ Stamped(w, f, x, low) /\ Lag(w, f, x)
    BY DEF LineInv
  <1>2. /\ UNCHANGED <<now, kind, lastPts, stoppedAt, takeovers>> /\ stoppedAt = None /\ pending = <<>>
        /\ path' = (IF kind = "video" THEN "rtp" ELSE path) /\ (kind = "video" => path # "frames")
        /\ Accounts(now) /\ due' = now
        /\ LET line == Forwarded(timeline, Plus(Source, now)) IN Writes(1, line, line.timestamp)
    BY DEF ForwardRtp, Accounts
  <1>3. /\ now \in 0..End /\ now \in Int /\ due \in Int /\ FrameLen \in Nat /\ TsSpace \in Nat \ {0} /\ None \notin Int
        /\ Lead \in Nat /\ Span \in Nat /\ Lead + End + 2 * FrameLen + 2 <= Span /\ Source \in Nat /\ End \in Nat
        /\ idle \in Nat /\ (begun # None => begun \in Int) /\ wide \in Int /\ due <= now + FrameLen
    BY <1>1, LeadIs DEF TimelineTyped, TimelineBounds
  <1>4. /\ timeline.timestamp \in Int \cup {None} /\ timeline \in Timelines /\ path # "frames"
        /\ timeline.offset \in Int \cup {None} /\ (timeline.at # None => timeline.at \in Int)
    BY <1>1, <1>2, FieldsAre DEF TimelineTyped, Paths, TimelineBounds
  <1>5. PICK s \in Int : s = Source + now
    BY <1>3
  <1>6. idle' \in Nat /\ idle' >= idle
    BY <1>1, <1>2, <1>3 DEF Accounts
  <1>7. PICK y \in Int, f2 \in Int, low2 \in Int :
          /\ y = s + f2 /\ Offset(timeline, s % TsSpace) = f2 % TsSpace
          /\ low2 <= y /\ Source + f2 <= low2 + Lead + FrameLen
          /\ stamp # None => low2 = low /\ x <= y
          /\ kind = "audio" /\ begun # None => y + idle' >= (x - wide) + now - begun
    <2>1. CASE timeline.timestamp = None
      <3>1. stamp = None /\ begun = None /\ timeline.offset = None
        BY <2>1, <1>1 DEF Stamped, Paths
      <3>2. PICK z \in Int : z = 0
        OBVIOUS
      <3>3. z % TsSpace = z
        <4>1. z \in 0..(TsSpace - 1)
          BY <3>2, <1>3
        <4> QED BY <4>1, <1>3, SmallStays
      <3>4. Offset(timeline, s % TsSpace) = z % TsSpace
        BY <3>1, <3>2, <3>3, <2>1 DEF Offset
      <3>5. s = s + z /\ s <= s /\ Source + z <= s + Lead + FrameLen
        BY <3>2, <1>3, <1>5
      <3> QED BY <3>1, <3>2, <3>4, <3>5
    <2>2. CASE timeline.timestamp # None /\ timeline.offset = None
      <3>1. PICK y \in Int : /\ NextTimestamp = y % TsSpace /\ low <= w /\ w <= y
                             /\ timeline.at = None => y = w
                             /\ timeline.at # None => y = w + (now - timeline.at)
        BY <2>2, NextIs
      <3>2. PICK f2 \in Int : f2 = y - s
        <4>1. y - s \in Int
          BY <3>1, <1>5
        <4> QED BY <4>1
      <3>3. Offset(timeline, s % TsSpace) = f2 % TsSpace
        <4>1. Minus(NextTimestamp, s % TsSpace) = (y - s) % TsSpace
          BY <3>1, <1>5, OffsetIs
        <4> QED BY <4>1, <3>2, <2>2 DEF Offset
      <3>4. y <= now + low + Lead + FrameLen
        <4>1. PICK l \in Nat : l = Lead
          BY <1>3
        <4>2. ASSUME timeline.at = None PROVE y <= now + low + l + FrameLen
          <5>1. w <= due + low + l /\ y = w
            BY <2>2, <3>1, <4>1, <4>2, <1>1 DEF Times
          <5> QED BY <5>1, <1>3
        <4>3. ASSUME timeline.at # None PROVE y <= now + low + l + FrameLen
          <5>1. w <= timeline.at + low + l /\ y = w + (now - timeline.at) /\ timeline.at \in Int
            BY <2>2, <3>1, <4>1, <4>3, <1>1, <1>4 DEF Times
          <5> QED BY <5>1, <1>3
        <4> QED BY <4>1, <4>2, <4>3
      <3>5. Source + f2 <= low + Lead + FrameLen /\ y = s + f2 /\ low <= y
        BY <3>1, <3>2, <3>4, <1>3, <1>5
      <3>6. stamp # None => x <= y
        <4>1. stamp # None => x <= w
          BY <1>1 DEF Stamped
        <4> QED BY <4>1, <3>1
      <3>7. kind = "audio" /\ begun # None => y + idle' >= (x - wide) + now - begun
        BY <3>1, <1>2, IdleIsKept
      <3> QED BY <3>1, <3>2, <3>3, <3>5, <3>6, <3>7
    <2>3. CASE timeline.offset # None
      <3>1. /\ timeline.offset = f % TsSpace /\ Source + f <= low + Lead + FrameLen /\ low <= Source + f + now
        BY <2>3, <1>1, <1>4 DEF Offsets
      <3>2. PICK y \in Int : y = s + f
        <4>1. s + f \in Int
          BY <1>5
        <4> QED BY <4>1
      <3>3. Offset(timeline, s % TsSpace) = f % TsSpace
        BY <3>1, <2>3 DEF Offset
      <3>4. low <= y /\ y = Source + f + now
        BY <3>1, <3>2, <1>3, <1>5
      <3>5. stamp # None => x <= y
        <4>1. stamp # None => x <= Source + f + now
          BY <2>3, <1>1, <1>4 DEF Stamped
        <4> QED BY <4>1, <3>4
      <3>6. kind = "audio" /\ begun # None => y + idle' >= (x - wide) + now - begun
        <4> SUFFICES ASSUME kind = "audio", begun # None PROVE y + idle' >= (x - wide) + now - begun
          OBVIOUS
        <4>1. Source + f + idle >= (x - wide) - begun /\ begun \in Int
          BY <2>3, <1>1, <1>3 DEF Lag
        <4>2. /\ idle \in Int /\ idle' \in Int /\ wide \in Int /\ now \in Int /\ Source \in Int /\ f \in Int /\ x \in Int
              /\ idle' >= idle /\ y \in Int
          BY <3>2, <1>3, <1>6
        <4>3. PICK i \in Int, j \in Int, b \in Int, c \in Int, d \in Int :
                i = idle /\ j = idle' /\ b = begun /\ c = now /\ d = wide
          BY <4>1, <4>2
        <4>4. Source + f + i >= (x - d) - b /\ y = Source + f + c /\ j >= i
          BY <4>1, <4>2, <4>3, <3>4
        <4>5. y + j >= (x - d) + c - b
          <5>1. Source \in Int /\ f \in Int /\ i \in Int /\ j \in Int /\ b \in Int /\ c \in Int /\ d \in Int
                /\ x \in Int /\ y \in Int
            BY <4>2, <4>3
          <5> QED BY ONLY <4>4, <5>1
        <4> QED BY <4>3, <4>5
      <3> QED BY <3>1, <3>2, <3>3, <3>4, <3>5, <3>6
    <2> QED BY <2>1, <2>2, <2>3
  <1>8. PICK line \in Timelines :
          /\ line = Forwarded(timeline, Plus(Source, now))
          /\ line.seq = timeline.seq /\ line.timestamp = y % TsSpace /\ line.offset = f2 % TsSpace /\ line.at = now
          /\ line.timestamp # None /\ line.offset # None
    <2>1. Plus(Source, now) = s % TsSpace
      BY <1>5 DEF Plus
    <2>2. /\ Forwarded(timeline, s % TsSpace) \in Timelines
          /\ Forwarded(timeline, s % TsSpace).seq = timeline.seq
          /\ Forwarded(timeline, s % TsSpace).timestamp = y % TsSpace
          /\ Forwarded(timeline, s % TsSpace).offset = f2 % TsSpace
          /\ Forwarded(timeline, s % TsSpace).at = now
          /\ y % TsSpace \in Int /\ f2 % TsSpace \in Int
      <3>1. timeline \in Timelines /\ s \in Int /\ f2 \in Int /\ y \in Int /\ now \in Int
            /\ y = s + f2 /\ Offset(timeline, s % TsSpace) = f2 % TsSpace
        BY <1>3, <1>4, <1>5, <1>7
      <3> QED BY ONLY TimelineBounds, <3>1, ForwardedIs
    <2> QED BY <2>1, <2>2, <1>3
  <1>9. PICK x2 \in Int : (KeepsTime(line) /\ x2 = x) \/ (Stamps(1, line, y % TsSpace) /\ x2 = y)
    BY <1>2, <1>8 DEF Writes, Stamps
  <1>10. y = Source + f2 + now /\ y <= low2 + Span
    BY <1>3, <1>5, <1>7
  <1>11. WriteOf(1, line, x, low, y, y, f2, low2, x2)
    <2>1. y <= Source + f2 + now /\ (stamp # None => x <= Source + f2 + now) /\ y <= y
      BY <1>7, <1>10
    <2> QED BY <2>1, <1>2, <1>6, <1>7, <1>8, <1>9, <1>10 DEF WriteOf
  <1>12. WriteLeaves(line, x, y, y, f2, low2, x2)
    <2>1. 1 \in {1, 2}
      OBVIOUS
    <2> QED BY <2>1, <1>11, PacketsKeep
  <1>13. /\ timeline' \in Timelines /\ timeline'.timestamp = y % TsSpace
         /\ timeline'.offset = f2 % TsSpace /\ timeline'.at = now
         /\ wide' \in Int /\ begun' \in Int \cup {None} /\ Stamped(y, f2, x2, low2)' /\ Queue(x2, low2)' /\ Continues
         /\ kind = "audio" /\ begun # None => begun' = begun /\ x2 - wide' = x - wide
         /\ kind = "audio" /\ begun = None /\ begun' # None => begun' = now /\ x2 - wide' = y
         /\ timeline'.timestamp # None /\ timeline'.offset # None
    BY <1>8, <1>12 DEF WriteLeaves
  <1>14. TimelineTyped'
    <2>1. due' \in Int /\ due' <= now + FrameLen /\ path' \in {None, "frames", "rtp"}
      BY <1>1, <1>2, <1>3 DEF TimelineTyped
    <2> QED BY <2>1, <1>1, <1>2, <1>6, <1>13, WriteTypes DEF TimelineTyped
  <1>15. path' # "frames" /\ Paths'
    BY <1>1, <1>2, <1>3, <1>4, <1>13 DEF Paths, TimelineBounds
  <1>16. Lead' = Lead
    BY <1>2 DEF Lead
  <1>17. Times(y, low2)'
    <2>1. y <= now + low2 + Lead + FrameLen + 2
      BY <1>3, <1>7, <1>10
    <2> QED BY <2>1, <1>3, <1>7, <1>13, <1>16 DEF Times
  <1>18. Offsets(y, f2, low2)'
    <2>1. Source + f2 <= low2 + Lead + FrameLen /\ low2 <= Source + f2 + now /\ y = Source + f2 + now
      BY <1>3, <1>7, <1>10
    <2> QED BY <2>1, <1>2, <1>3, <1>13, <1>15, <1>16 DEF Offsets
  <1>19. Lag(y, f2, x2)'
    <2> SUFFICES ASSUME kind = "audio", begun' # None PROVE Lag(y, f2, x2)'
      BY <1>2 DEF Lag
    <2>1. wide' \in Int /\ begun' \in Int
      BY <1>13
    <2>2. PICK e \in Int : e = x2 - wide'
      <3>1. PICK d \in Int : d = wide'
        BY <2>1
      <3>2. x2 \in Int /\ d \in Int
        BY <1>9, <3>1
      <3>3. x2 - d \in Int
        BY ONLY <3>2
      <3> QED BY <3>1, <3>3
    <2>5. PICK i \in Int, b \in Int, c \in Int : i = idle' /\ b = begun' /\ c = now /\ i >= 0
      BY <2>1, <1>3, <1>6
    <2>6. e \in Int /\ f2 \in Int /\ y \in Int /\ Source \in Int /\ i \in Int /\ b \in Int /\ c \in Int
      BY <2>2, <2>5, <1>3, <1>7
    <2>7. y + i >= e + c - b
      <3>1. CASE begun # None
        BY <2>2, <2>5, <3>1, <1>7, <1>13
      <3>2. CASE begun = None
        <4>1. b = c /\ e = y /\ i >= 0
          BY <2>2, <2>5, <3>2, <1>13
        <4> QED BY ONLY <4>1, <2>6
      <3> QED BY <3>1, <3>2
    <2>8. Source + f2 + i >= e - b
      <3>1. y = Source + f2 + c
        BY <2>5, <1>10
      <3> QED BY ONLY <2>6, <2>7, <3>1
    <2>3. y + idle' >= e + now - begun'
      BY <2>5, <2>7
    <2>4. Source + f2 + idle' >= e - begun'
      BY <2>5, <2>8
    <2> QED BY <2>2, <2>3, <2>4, <1>3, <1>13 DEF Lag
  <1>20. LineInv(y, f2, x2, low2)'
    BY <1>13, <1>14, <1>15, <1>17, <1>18, <1>19 DEF LineInv
  <1> QED BY <1>13, <1>20 DEF TimelineInv

\* A frame of video that is in order.
Captures(n, line, pts) ==
    /\ kind = "video" /\ path # "rtp" /\ path' = "frames" /\ pts \in Pts /\ InOrder(pts) /\ lastPts' = pts
    /\ line = Captured(pts) /\ (KeepsTime(line) \/ Stamps(n, line, line.timestamp))
    /\ pending = <<>> /\ UNCHANGED <<now, kind, stoppedAt, takeovers, due, idle>>

LEMMA CaptureKeeps ==
  ASSUME TimelineBounds, NEW w \in Int, NEW f \in Int, NEW x \in Int, NEW low \in Int,
         LineInv(w, f, x, low), NEW n \in {1, 2}, NEW line, NEW s, Captures(n, line, s)
  PROVE  TimelineInv' /\ Continues
  <1>1. /\ TimelineTyped /\ Times(w, low) /\ Offsets(w, f, low) /\ Paths /\ Stamped(w, f, x, low) /\ Lag(w, f, x)
    BY DEF LineInv
  <1>2. /\ kind = "video" /\ path # "rtp" /\ path' = "frames" /\ s \in Pts /\ InOrder(s) /\ lastPts' = s
        /\ line = Captured(s) /\ (KeepsTime(line) \/ Stamps(n, line, line.timestamp))
        /\ pending = <<>> /\ UNCHANGED <<now, kind, stoppedAt, takeovers, due, idle>>
    BY DEF Captures
  <1>3. /\ now \in 0..End /\ now \in Int /\ due \in Int /\ FrameLen \in Nat /\ TsSpace \in Nat \ {0} /\ None \notin Int
        /\ Lead \in Nat /\ Span \in Nat /\ Lead + End + 2 * FrameLen + 2 <= Span /\ End \in Nat
        /\ idle \in Nat /\ due <= now + FrameLen /\ 2 * (Span + 1) <= TsSpace
    BY <1>1, LeadIs DEF TimelineTyped, TimelineBounds
  <1>4. /\ timeline.timestamp \in Int \cup {None} /\ timeline \in Timelines /\ timeline.seq \in 0..(SeqSpace - 1)
        /\ timeline.offset \in Int \cup {None} /\ (timeline.at # None => timeline.at \in Int)
        /\ lastPts \in Int \cup {None}
    BY <1>1, FieldsAre DEF TimelineTyped
  <1>5. s \in Int /\ now <= s /\ s <= now + 2 /\ s % TsSpace = s
    <2>1. s \in Int /\ now <= s /\ s <= now + 2
      BY <1>2, <1>3 DEF Pts
    <2>2. s \in 0..(TsSpace - 1)
      BY <2>1, <1>3
    <2> QED BY <2>1, <2>2, <1>3, SmallStays
  <1>6. PICK base \in Timelines :
          /\ base = [timeline EXCEPT !.timestamp = IF @ = None THEN Random ELSE @]
          /\ base.seq = timeline.seq /\ base.offset = timeline.offset /\ base.timestamp # None
    <2>1. Random \in Int
      <3>1. Random \in 0..(TsSpace - 1)
        BY DEF TimelineBounds
      <3> QED BY <3>1, <1>3
    <2>2. PICK r \in Int : r = IF timeline.timestamp = None THEN Random ELSE timeline.timestamp
      BY <2>1, <1>4
    <2>3. PICK base \in Timelines : base = [timeline EXCEPT !.timestamp = r]
      BY <2>2, <1>4 DEF Timelines
    <2>4. base.seq = timeline.seq /\ base.offset = timeline.offset /\ base.timestamp = r
      BY <2>3, <1>4 DEF Timelines
    <2>5. base = [timeline EXCEPT !.timestamp = IF @ = None THEN Random ELSE @]
      BY <2>2, <2>3
    <2> QED BY <2>2, <2>3, <2>4, <2>5, <1>3
  <1>7. PICK y \in Int, f2 \in Int, low2 \in Int :
          /\ y = s + f2 /\ Offset(base, s) = f2 % TsSpace
          /\ low2 <= y /\ f2 <= low2 + Lead + FrameLen
          /\ stamp # None => low2 = low /\ x <= y
    <2>1. CASE timeline.timestamp = None
      <3>1. stamp = None /\ begun = None /\ timeline.offset = None
        BY <2>1, <1>1 DEF Stamped, Paths
      <3>2. PICK y \in Int : y = Random /\ NextTimestamp = y % TsSpace
        <4>1. Random \in 0..(TsSpace - 1)
          BY DEF TimelineBounds
        <4> QED BY <4>1, <2>1, <1>3, SmallStays DEF NextTimestamp
      <3>3. PICK f2 \in Int : f2 = y - s
        <4>1. y \in Int /\ s \in Int
          BY <3>2, <1>5
        <4>2. y - s \in Int
          BY ONLY <4>1
        <4> QED BY <4>2
      <3>4. Offset(base, s) = f2 % TsSpace
        <4>1. Minus(NextTimestamp, s % TsSpace) = (y - s) % TsSpace
          BY <3>2, <1>5, OffsetIs
        <4> QED BY <4>1, <3>1, <3>3, <1>5, <1>6 DEF Offset
      <3>5. y = s + f2 /\ y <= y /\ f2 <= y + Lead + FrameLen
        BY <3>2, <3>3, <1>3, <1>5
      <3> QED BY <3>1, <3>2, <3>3, <3>4, <3>5
    <2>2. CASE timeline.timestamp # None /\ timeline.offset = None
      <3>1. PICK y \in Int : /\ NextTimestamp = y % TsSpace /\ low <= w /\ w <= y
                             /\ timeline.at # None => y = w + (now - timeline.at)
        BY <2>2, NextIs
      <3>2. PICK f2 \in Int : f2 = y - s
        <4>1. y \in Int /\ s \in Int
          BY <3>1, <1>5
        <4>2. y - s \in Int
          BY ONLY <4>1
        <4> QED BY <4>2
      <3>3. Offset(base, s) = f2 % TsSpace
        <4>1. Minus(NextTimestamp, s % TsSpace) = (y - s) % TsSpace
          BY <3>1, <1>5, OffsetIs
        <4> QED BY <4>1, <2>2, <3>2, <1>5, <1>6 DEF Offset
      <3>4. y <= now + low + Lead
        <4>1. PICK l \in Nat : l = Lead
          BY <1>3
        <4>2. w <= timeline.at + low + l /\ y = w + (now - timeline.at) /\ timeline.at \in Int
          BY <2>2, <3>1, <4>1, <1>1, <1>2, <1>4 DEF Times, Paths
        <4>3. y <= now + low + l
          BY <4>2, <3>1, <1>3
        <4> QED BY <4>1, <4>3
      <3>5. y = s + f2 /\ low <= y /\ f2 <= low + Lead + FrameLen
        BY <3>1, <3>2, <3>4, <1>3, <1>5
      <3>6. stamp # None => x <= y
        <4>1. stamp # None => x <= w
          BY <1>1 DEF Stamped
        <4> QED BY <4>1, <3>1
      <3> QED BY <3>1, <3>2, <3>3, <3>5, <3>6
    <2>3. CASE timeline.offset # None
      <3>1. path = "frames"
        BY <2>3, <1>1, <1>2 DEF Paths, TimelineTyped
      <3>2. /\ timeline.offset = f % TsSpace /\ lastPts \in Int /\ w = lastPts + f /\ f <= low + Lead + FrameLen
            /\ timeline.timestamp # None
        BY <2>3, <3>1, <1>1 DEF Offsets
      <3>3. PICK y \in Int : y = s + f
        <4>1. s + f \in Int
          BY <1>5
        <4> QED BY <4>1
      <3>4. Offset(base, s) = f % TsSpace
        BY <3>2, <2>3, <1>6 DEF Offset
      <3>5. w < y
        <4>1. s > lastPts
          BY <3>2, <1>2, <1>3 DEF InOrder
        <4> QED BY <4>1, <3>2, <3>3, <1>5
      <3>6. low <= w /\ (stamp # None => x <= w)
        BY <3>2, <1>1 DEF Times, Stamped
      <3>7. low <= y /\ (stamp # None => x <= y)
        BY <3>5, <3>6
      <3> QED BY <3>2, <3>3, <3>4, <3>7
    <2> QED BY <2>1, <2>2, <2>3
  <1>8. /\ line \in Timelines /\ line.seq = timeline.seq
        /\ line.timestamp = y % TsSpace /\ line.offset = f2 % TsSpace /\ line.at = now
        /\ line.timestamp # None /\ line.offset # None
    <2>1. line = Forwarded(base, s % TsSpace)
      BY <1>2, <1>5, <1>6 DEF Captured
    <2>2. /\ base \in Timelines /\ s \in Int /\ f2 \in Int /\ y \in Int /\ now \in Int
          /\ y = s + f2 /\ Offset(base, s % TsSpace) = f2 % TsSpace
      BY <1>3, <1>5, <1>6, <1>7
    <2>3. /\ Forwarded(base, s % TsSpace) \in Timelines
          /\ Forwarded(base, s % TsSpace).seq = base.seq
          /\ Forwarded(base, s % TsSpace).timestamp = y % TsSpace
          /\ Forwarded(base, s % TsSpace).offset = f2 % TsSpace
          /\ Forwarded(base, s % TsSpace).at = now
          /\ y % TsSpace \in Int /\ f2 % TsSpace \in Int
      BY ONLY TimelineBounds, <2>2, ForwardedIs
    <2> QED BY <2>1, <2>3, <1>3, <1>6
  <1>9. PICK x2 \in Int : (KeepsTime(line) /\ x2 = x) \/ (Stamps(n, line, y % TsSpace) /\ x2 = y)
    BY <1>2, <1>8
  <1>10. y <= now + low2 + Lead + FrameLen + 2 /\ y <= low2 + Span
    BY <1>3, <1>5, <1>7
  <1>11. WriteOf(n, line, x, low, y, y, f2, low2, x2)
    <2>1. y <= y /\ path' = "frames" /\ kind # "audio"
      BY <1>2, <1>7
    <2> QED BY <2>1, <1>2, <1>3, <1>7, <1>8, <1>9, <1>10 DEF WriteOf
  <1>12. WriteLeaves(line, x, y, y, f2, low2, x2)
    BY <1>8, <1>11, PacketsKeep
  <1>13. /\ timeline' \in Timelines /\ timeline'.timestamp = y % TsSpace
         /\ timeline'.offset = f2 % TsSpace /\ timeline'.at = now
         /\ wide' \in Int /\ begun' \in Int \cup {None} /\ Stamped(y, f2, x2, low2)' /\ Queue(x2, low2)' /\ Continues
         /\ timeline'.timestamp # None /\ timeline'.offset # None
    BY <1>8, <1>12 DEF WriteLeaves
  <1>14. TimelineTyped'
    <2>1. due' \in Int /\ due' <= now + FrameLen /\ idle' \in Nat /\ path' \in {None, "frames", "rtp"} /\ lastPts' \in Int
      BY <1>2, <1>3, <1>5
    <2> QED BY <2>1, <1>1, <1>2, <1>13, WriteTypes
  <1>15. Paths'
    BY <1>2, <1>3, <1>13 DEF Paths, TimelineBounds
  <1>16. Lead' = Lead
    BY <1>2 DEF Lead
  <1>17. Times(y, low2)'
    BY <1>3, <1>7, <1>10, <1>13, <1>16 DEF Times
  <1>18. Offsets(y, f2, low2)'
    BY <1>2, <1>5, <1>7, <1>13, <1>16 DEF Offsets
  <1>19. Lag(y, f2, x2)'
    BY <1>2 DEF Lag
  <1>20. LineInv(y, f2, x2, low2)'
    BY <1>13, <1>14, <1>15, <1>17, <1>18, <1>19 DEF LineInv
  <1> QED BY <1>9, <1>7, <1>13, <1>20 DEF TimelineInv

\* A sample of video that is out of order takes the timestamp of the one before it.
LEMMA RepeatKeeps ==
  ASSUME TimelineBounds, NEW w \in Int, NEW f \in Int, NEW x \in Int, NEW low \in Int,
         LineInv(w, f, x, low), kind = "video", path # "rtp", path' = "frames", lastPts # None,
         Writes(1, timeline, timeline.timestamp), pending = <<>>,
         UNCHANGED <<lastPts, now, kind, stoppedAt, takeovers, due, idle>>
  PROVE  TimelineInv' /\ Continues
  <1>1. /\ TimelineTyped /\ Times(w, low) /\ Offsets(w, f, low) /\ Paths /\ Stamped(w, f, x, low)
    BY DEF LineInv
  <1>2. /\ now \in 0..End /\ now \in Int /\ due \in Int /\ FrameLen \in Nat /\ None \notin Int
        /\ Lead \in Nat /\ Span \in Nat /\ Lead + End + 2 * FrameLen + 2 <= Span /\ End \in Nat
        /\ idle \in Nat /\ due <= now + FrameLen
    BY <1>1, LeadIs DEF TimelineTyped, TimelineBounds
  <1>3. /\ path = "frames" /\ timeline.offset # None /\ timeline.timestamp # None /\ timeline.at # None
        /\ timeline \in Timelines /\ timeline.at \in Int /\ timeline.at <= now /\ lastPts \in Int
    BY <1>1, FieldsAre DEF TimelineTyped, Paths
  <1>4. PICK line \in Timelines : line = timeline
    BY <1>3
  <1>5. timeline.timestamp = w % TsSpace /\ low <= w /\ w <= timeline.at + low + Lead + FrameLen + 2
    BY <1>1, <1>3 DEF Times
  <1>6. low <= w /\ w <= low + Span
    BY <1>2, <1>3, <1>5
  <1>7. stamp # None => x <= w
    BY <1>1 DEF Stamped
  <1>8. PICK x2 \in Int : (KeepsTime(line) /\ x2 = x) \/ (Stamps(1, line, w % TsSpace) /\ x2 = w)
    BY <1>4, <1>5 DEF Writes, Stamps
  <1>9. WriteOf(1, line, x, low, w, w, f, low, x2)
    <2>1. w <= w /\ kind # "audio"
      OBVIOUS
    <2> QED BY <2>1, <1>2, <1>3, <1>4, <1>6, <1>7, <1>8 DEF WriteOf
  <1>10. WriteLeaves(line, x, w, w, f, low, x2)
    <2>1. 1 \in {1, 2}
      OBVIOUS
    <2> QED BY <2>1, <1>9, PacketsKeep
  <1>11. /\ timeline' \in Timelines /\ timeline'.timestamp = timeline.timestamp
         /\ timeline'.offset = timeline.offset /\ timeline'.at = timeline.at
         /\ wide' \in Int /\ begun' \in Int \cup {None} /\ Stamped(w, f, x2, low)' /\ Queue(x2, low)' /\ Continues
    BY <1>4, <1>10 DEF WriteLeaves
  <1>12. TimelineTyped'
    <2>1. timeline'.at <= now'
      BY <1>3, <1>11
    <2> QED BY <2>1, <1>1, <1>11 DEF TimelineTyped
  <1>13. Lead' = Lead
    BY DEF Lead
  <1>14. Times(w, low)'
    BY <1>1, <1>11, <1>13 DEF Times
  <1>15. Offsets(w, f, low)' /\ Paths'
    BY <1>1, <1>3, <1>11, <1>13 DEF Offsets, Paths
  <1>16. Lag(w, f, x2)'
    BY DEF Lag
  <1>17. LineInv(w, f, x2, low)'
    BY <1>11, <1>12, <1>14, <1>15, <1>16 DEF LineInv
  <1> QED BY <1>8, <1>11, <1>17 DEF TimelineInv

LEMMA VideoKeeps ==
  ASSUME TimelineBounds, NEW w \in Int, NEW f \in Int, NEW x \in Int, NEW low \in Int,
         LineInv(w, f, x, low), WriteVideo \/ WriteVideoSample
  PROVE  TimelineInv' /\ Continues
  <1>1. /\ kind = "video" /\ pending = <<>> /\ path # "rtp" /\ path' = "frames"
        /\ UNCHANGED <<now, kind, muted, stoppedAt, takeovers, due, idle>>
    BY DEF WriteVideo, WriteVideoSample, TimelineBounds
  <1>2. ASSUME NEW s \in Pts, InOrder(s), lastPts' = s,
               NEW n \in {1, 2}, KeepsTime(Captured(s)) \/ Stamps(n, Captured(s), Captured(s).timestamp)
        PROVE  TimelineInv' /\ Continues
    <2>1. PICK line : line = Captured(s)
      OBVIOUS
    <2>2. Captures(n, line, s)
      BY <1>1, <1>2, <2>1 DEF Captures
    <2> QED BY <2>2, CaptureKeeps
  <1>3. CASE WriteVideo
    <2>1. PICK s \in Pts, n \in {0, 2} :
            IF InOrder(s)
            THEN /\ lastPts' = s
                 /\ IF n = 0 \/ muted THEN KeepsTime(Captured(s))
                    ELSE Numbers(n, Captured(s), Captured(s).timestamp, TRUE)
            ELSE UNCHANGED <<lastPts, timeline, packets, histories>>
      BY <1>3 DEF WriteVideo
    <2>2. CASE InOrder(s)
      <3>1. KeepsTime(Captured(s)) \/ Stamps(2, Captured(s), Captured(s).timestamp)
        BY <2>1, <2>2 DEF Writes, Stamps
      <3>2. 2 \in {1, 2}
        OBVIOUS
      <3> QED BY <2>1, <2>2, <3>1, <3>2, <1>2
    <2>3. CASE ~InOrder(s)
      <3>1. path = "frames"
        BY <2>3, <1>1 DEF InOrder, LineInv, Paths
      <3>2. UNCHANGED vars
        BY <2>1, <2>3, <3>1, <1>1 DEF vars
      <3>3. LineInv(w, f, x, low)' /\ Continues
        BY <3>2, RestKeeps
      <3> QED BY <3>3 DEF TimelineInv
    <2> QED BY <2>2, <2>3
  <1>4. CASE WriteVideoSample
    <2>1. PICK s \in Pts :
            IF InOrder(s)
            THEN lastPts' = s /\ Writes(1, Captured(s), Captured(s).timestamp)
            ELSE UNCHANGED lastPts /\ Writes(1, timeline, timeline.timestamp)
      BY <1>4 DEF WriteVideoSample
    <2>2. CASE InOrder(s)
      <3>1. KeepsTime(Captured(s)) \/ Stamps(1, Captured(s), Captured(s).timestamp)
        BY <2>1, <2>2 DEF Writes, Stamps
      <3>2. 1 \in {1, 2}
        OBVIOUS
      <3> QED BY <2>1, <2>2, <3>1, <3>2, <1>2
    <2>3. CASE ~InOrder(s)
      BY <2>1, <2>3, <1>1, RepeatKeeps DEF InOrder
    <2> QED BY <2>2, <2>3
  <1> QED BY <1>3, <1>4

-----------------------------------------------------------------------------

LEMMA StepKeeps ==
  ASSUME TimelineBounds, TimelineInv, [Next]_vars
  PROVE  TimelineInv' /\ Continues
  <1>1. PICK w \in Int, f \in Int, x \in Int, low \in Int : LineInv(w, f, x, low)
    BY DEF TimelineInv
  <1>2. CASE Tick \/ Mute \/ UNCHANGED vars
    <2>1. LineInv(w, f, x, low)' /\ Continues
      BY <1>1, <1>2, RestKeeps
    <2> QED BY <2>1 DEF TimelineInv
  <1>8. CASE Send \/ Discard \/ Abandon
    <2>1. LineInv(w, f, x, low)' /\ Continues
      BY <1>1, <1>8, SendsKeep
    <2> QED BY <2>1 DEF TimelineInv
  <1>3. CASE Stop
    <2>1. LineInv(w, f, x, low)' /\ Continues
      BY <1>1, <1>3, StopKeeps
    <2> QED BY <2>1 DEF TimelineInv
  <1>4. CASE TakeOver
    <2>1. (\E w2 \in Int : LineInv(w2, f, x, low)') /\ Continues
      BY <1>1, <1>4, TakeOverKeeps
    <2> QED BY <2>1 DEF TimelineInv
  <1>5. CASE WriteFrame
    BY <1>1, <1>5, WriteFrameKeeps
  <1>6. CASE ForwardRtp
    BY <1>1, <1>6, ForwardRtpKeeps
  <1>7. CASE WriteVideo \/ WriteVideoSample
    BY <1>1, <1>7, VideoKeeps
  <1> QED BY <1>2, <1>3, <1>4, <1>5, <1>6, <1>7, <1>8 DEF Next

\* The packets of a sender continue one another: whatever writes, forwards, mutes,
\* stops, takeovers and writes that end early follow one another, a timestamp never
\* goes back, no sequence number is missing but those of the packets that were
\* numbered and not sent, and the timestamp of audio lags behind the clock by no
\* more than the time in which nothing was written, as long as the timestamps stay
\* within half of their numbers of one another.
THEOREM PacketsContinue == ASSUME TimelineBounds PROVE Spec => StreamContinues
  <1>1. Init => TimelineInv
    BY TimelineInit
  <1>2. TimelineInv /\ [Next]_vars => TimelineInv' /\ Continues
    BY StepKeeps
  <1>3. Continues =>
          [/\ sent' # sent /\ sent # None => Succeeds(sent, sent', lost)
           /\ Len(pending') > Len(pending) /\ kind = "audio" /\ begun # None =>
                wide' + idle' >= now - begun]_vars
    BY DEF Continues
  <1> QED BY <1>1, <1>2, <1>3, PTL DEF Spec, StreamContinues
=============================================================================
