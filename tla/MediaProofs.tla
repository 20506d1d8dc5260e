---------------------------- MODULE MediaProofs -----------------------------
(***************************************************************************)
(* The theorems about the media of a call, one section for each module:    *)
(* the audio of a remote track and the encodings of a local one.           *)
(***************************************************************************)
EXTENDS MCMediaSafe, RtpTimelineProofs, FiniteSetTheorems, TLAPS

-----------------------------------------------------------------------------
(* What a reader of a remote audio track hears, for any number of readers  *)
(* and packets, any place of the wrap and any length of a gap to fill.     *)

\* No packet is half the sequence space behind another: that is as far as 16
\* bits tell which of two packets is the later one.
AudioBounds ==
    /\ AudioSeqSpace \in Nat \ {0} /\ Packets \in Nat /\ 2 * Packets <= AudioSeqSpace
    /\ First \in Nat /\ OpusLen \in Nat /\ MaxFilled \in Nat
    /\ None \notin 0..(AudioSeqSpace - 1) /\ None \notin Readers

AudioFrames == [index : Int, pts : Int, rebuilt : BOOLEAN]
Heard == pcmFrames \o ready

AudioTyped ==
    /\ Audio!TypeOK /\ failed \in BOOLEAN
    /\ packetsSent \in Seq(Int) /\ ready \in Seq(AudioFrames) /\ pcmFrames \in Seq(AudioFrames)

\* Packets are a frame apart, or more.
SentInOrder ==
    \A i, j \in 1..Len(packetsSent) :
        i <= j => packetsSent[i] + (j - i) * OpusLen <= packetsSent[j]

\* One frame after the other, as the properties ask it of neighbours.
Fits(a, b) == a.index < b.index /\ a.pts + OpusLen <= b.pts
Fills(a, b) == b.index = a.index + 1 \/ (~b.rebuilt /\ b.index - a.index > MaxFilled + 1)
Chained(q, fails) ==
    \A k \in 1..(Len(q) - 1) : Fits(q[k], q[k + 1]) /\ (~fails => Fills(q[k], q[k + 1]))

\* Nothing that was heard is later than packet j, and without a decoder error
\* the last frame is that of packet j.
HeardUpTo(j, q, fails) ==
    /\ \A k \in 1..Len(q) : q[k].index <= j /\ q[k].pts <= packetsSent[j]
    /\ ~fails => q # <<>> /\ q[Len(q)].index = j

Follows ==
    IF lastSeq = None THEN Heard = <<>>
    ELSE \E j \in 1..Len(packetsSent) : lastSeq = Audio!Seq16(j) /\ HeardUpTo(j, Heard, failed)

\* The inductive invariant.
AudioInv == AudioTyped /\ SentInOrder /\ Follows /\ Chained(Heard, failed)

-----------------------------------------------------------------------------

\* The distance of two numbers of packets, without the wrap.
LEMMA DistanceIs ==
  ASSUME AudioBounds, NEW i \in 1..Packets, NEW j \in 1..Packets
  PROVE  (Audio!Seq16(i) - Audio!Seq16(j)) % AudioSeqSpace
             = IF i >= j THEN i - j ELSE AudioSeqSpace - (j - i)
  <1>1. PICK n \in Nat \ {0} : n = AudioSeqSpace /\ 2 * Packets <= n
    BY DEF AudioBounds
  <1>2. Packets \in Nat /\ First \in Nat
    BY DEF AudioBounds
  <1>3. PICK a \in Int, b \in Int : a = First + i - 1 /\ b = First + j - 1
    BY <1>2
  <1>4. a - b = i - j
    BY <1>2, <1>3
  <1>5. Audio!Seq16(i) = a % n /\ Audio!Seq16(j) = b % n
    BY <1>1, <1>3 DEF Audio!Seq16
  <1>6. ((a % n) - (b % n)) % n = (i - j) % n
    BY <1>4, RemaindersDiffer, Zenon
  <1>7. (i - j) % n = IF i >= j THEN i - j ELSE n - (j - i)
    <2>1. CASE i >= j
      <3>1. PICK r \in 0..(n - 1) : r = i - j
        BY <2>1, <1>1, <1>2
      <3>2. (0 * n + r) % n = r
        BY RemainderIs
      <3>3. 0 * n + r = i - j
        BY <3>1
      <3> QED BY <3>1, <3>2, <3>3, <2>1
    <2>2. CASE i < j
      <3>1. PICK r \in 0..(n - 1) : r = n - (j - i)
        BY <2>2, <1>1, <1>2
      <3>2. PICK k \in Int : k = -1
        OBVIOUS
      <3>3. (k * n + r) % n = r
        BY RemainderIs
      <3>4. k * n + r = i - j
        BY <3>1, <3>2
      <3> QED BY <3>1, <3>3, <3>4, <2>2
    <2> QED BY <2>1, <2>2
  <1> QED BY <1>1, <1>5, <1>6, <1>7, Zenon

LEMMA AheadIs ==
  ASSUME AudioBounds, NEW i \in 1..Packets, NEW j \in 1..Packets, lastSeq = Audio!Seq16(j)
  PROVE  lastSeq # None /\ Audio!Ahead(i) = IF i > j THEN i - j ELSE 0
  <1> DEFINE n == AudioSeqSpace
  <1>1. n \in Nat \ {0} /\ 2 * Packets <= n /\ Packets \in Nat /\ First \in Nat
    BY DEF AudioBounds
  <1>2. lastSeq # None
    <2>1. (First + j - 1) % n \in 0..(n - 1)
      BY <1>1, DivisionIs
    <2> QED BY <2>1 DEF Audio!Seq16, AudioBounds
  <1>3. (Audio!Seq16(i) - lastSeq) % n = IF i >= j THEN i - j ELSE n - (j - i)
    BY DistanceIs
  <1>4. (n - 1) \div 2 \in Int /\ 2 * ((n - 1) \div 2) <= n - 1 /\ n - 1 < 2 * ((n - 1) \div 2) + 2
    BY <1>1
  <1> QED BY <1>1, <1>2, <1>3, <1>4 DEF Audio!Ahead

-----------------------------------------------------------------------------

LEMMA ChainedAfter ==
  ASSUME NEW p \in Seq(AudioFrames), NEW q \in Seq(AudioFrames), NEW fails \in BOOLEAN,
         Chained(p, fails), Chained(q, fails),
         p # <<>> /\ q # <<>> => Fits(p[Len(p)], q[1]) /\ (~fails => Fills(p[Len(p)], q[1]))
  PROVE  Chained(p \o q, fails)
  <1> DEFINE out == p \o q
  <1> SUFFICES ASSUME NEW k \in 1..(Len(out) - 1)
               PROVE  Fits(out[k], out[k + 1]) /\ (~fails => Fills(out[k], out[k + 1]))
    BY DEF Chained
  <1>1. Len(out) = Len(p) + Len(q) /\ Len(p) \in Nat /\ Len(q) \in Nat
    OBVIOUS
  <1>2. CASE k < Len(p)
    BY <1>1, <1>2 DEF Chained
  <1>3. CASE k = Len(p)
    BY <1>1, <1>3
  <1>4. CASE k > Len(p)
    <2>1. out[k] = q[k - Len(p)] /\ out[k + 1] = q[k - Len(p) + 1] /\ k - Len(p) \in 1..(Len(q) - 1)
      BY <1>1, <1>4
    <2> QED BY <2>1 DEF Chained
  <1> QED BY <1>1, <1>2, <1>3, <1>4

\* The frames made of packet i: those rebuilt for the gap before it, and its own
\* unless the decoder refused it.
Made(i, decodes) == IF decodes THEN Append(Audio!Rebuilt(i), Audio!Decoded(i)) ELSE Audio!Rebuilt(i)

\* Frame k of those made of packet i with m frames rebuilt.
MadeAt(i, m, k) ==
    [index |-> i - (m + 1 - k), pts |-> packetsSent[i] - (m + 1 - k) * OpusLen, rebuilt |-> k # m + 1]

LEMMA MadeAtIs ==
  ASSUME AudioBounds, packetsSent \in Seq(Int), NEW i \in 1..Len(packetsSent),
         NEW m \in Nat, NEW k \in 1..(m + 1)
  PROVE  /\ MadeAt(i, m, k) \in AudioFrames
         /\ MadeAt(i, m, k).index = i - (m + 1 - k)
         /\ MadeAt(i, m, k).pts = packetsSent[i] - (m + 1 - k) * OpusLen
         /\ MadeAt(i, m, k).rebuilt = (k # m + 1)
         /\ MadeAt(i, m, k).pts <= packetsSent[i]
  <1>1. (m + 1 - k) * OpusLen \in Nat /\ packetsSent[i] \in Int
    BY DEF AudioBounds
  <1> QED BY <1>1 DEF MadeAt, AudioFrames

LEMMA MadeNotLater ==
  ASSUME AudioBounds, packetsSent \in Seq(Int), NEW i \in 1..Len(packetsSent),
         NEW m \in Nat, NEW k \in 1..(m + 1)
  PROVE  MadeAt(i, m, k).index = i - (m + 1 - k) /\ MadeAt(i, m, k).pts <= packetsSent[i]
  BY MadeAtIs, Zenon

LEMMA FirstMadeIs ==
  ASSUME AudioBounds, packetsSent \in Seq(Int), NEW i \in 1..Len(packetsSent), NEW m \in Nat
  PROVE  /\ MadeAt(i, m, 1).index = i - m /\ MadeAt(i, m, 1).rebuilt = (m # 0)
         /\ MadeAt(i, m, 1).pts = packetsSent[i] - m * OpusLen
  <1>1. m + 1 - 1 = m /\ (1 # m + 1) = (m # 0)
    OBVIOUS
  <1> QED BY <1>1, Zenon DEF MadeAt

LEMMA NeighboursFit ==
  ASSUME AudioBounds, packetsSent \in Seq(Int), NEW i \in 1..Len(packetsSent),
         NEW m \in Nat, NEW k \in 1..m
  PROVE  Fits(MadeAt(i, m, k), MadeAt(i, m, k + 1)) /\ Fills(MadeAt(i, m, k), MadeAt(i, m, k + 1))
  <1>1. (m + 1 - k) * OpusLen = (m + 1 - (k + 1)) * OpusLen + OpusLen
    BY Z3 DEF AudioBounds
  <1>2. /\ (m + 1 - k) * OpusLen \in Int /\ (m + 1 - (k + 1)) * OpusLen \in Int
        /\ packetsSent[i] \in Int /\ OpusLen \in Nat
    BY DEF AudioBounds
  <1>3. k \in 1..(m + 1) /\ k + 1 \in 1..(m + 1)
    OBVIOUS
  <1>4. /\ MadeAt(i, m, k).pts = packetsSent[i] - (m + 1 - k) * OpusLen
        /\ MadeAt(i, m, k + 1).pts = packetsSent[i] - (m + 1 - (k + 1)) * OpusLen
        /\ MadeAt(i, m, k).index = i - (m + 1 - k)
        /\ MadeAt(i, m, k + 1).index = i - (m + 1 - (k + 1))
    BY <1>3, MadeAtIs
  <1>5. MadeAt(i, m, k).pts + OpusLen <= MadeAt(i, m, k + 1).pts
    <2>1. ASSUME NEW x \in Int, NEW y \in Int, NEW p \in Int, NEW l \in Nat, x = y + l
          PROVE  p - x + l <= p - y
      BY <2>1
    <2> QED BY <2>1, <1>1, <1>2, <1>4
  <1> QED BY <1>3, <1>4, <1>5 DEF Fits, Fills

LEMMA MissingIs ==
  ASSUME AudioBounds, NEW i \in Int, Audio!Ahead(i) \in Nat \ {0}
  PROVE  /\ Audio!Missing(i) \in 0..MaxFilled
         /\ Audio!Missing(i) = Audio!Ahead(i) - 1 \/ (Audio!Missing(i) = 0 /\ Audio!Ahead(i) - 1 > MaxFilled)
  BY DEF Audio!Missing, AudioBounds

LEMMA MadeIs ==
  ASSUME AudioBounds, packetsSent \in Seq(Int), NEW i \in 1..Len(packetsSent),
         NEW m \in Nat, m = Audio!Missing(i), NEW decodes \in BOOLEAN
  PROVE  Made(i, decodes) = [k \in 1..(IF decodes THEN m + 1 ELSE m) |-> MadeAt(i, m, k)]
  <1> DEFINE rebuilt == [k \in 1..m |-> MadeAt(i, m, k)]
  <1>1. Audio!Rebuilt(i) = rebuilt
    <2>1. Audio!Rebuilt(i) = [k \in 1..m |->
              [index |-> i - (m + 1 - k), pts |-> packetsSent[i] - (m + 1 - k) * OpusLen, rebuilt |-> TRUE]]
      BY DEF Audio!Rebuilt, Audio!Pts
    <2>2. \A k \in 1..m : MadeAt(i, m, k) =
              [index |-> i - (m + 1 - k), pts |-> packetsSent[i] - (m + 1 - k) * OpusLen, rebuilt |-> TRUE]
      <3> TAKE k \in 1..m
      <3>1. (k # m + 1) = TRUE
        OBVIOUS
      <3> QED BY <3>1, Zenon DEF MadeAt
    <2> QED BY <2>1, <2>2
  <1>2. MadeAt(i, m, m + 1) = Audio!Decoded(i)
    <2>1. packetsSent[i] \in Int /\ OpusLen \in Nat /\ i \in Int
      BY DEF AudioBounds
    <2>2. (m + 1 - (m + 1)) * OpusLen = 0 /\ m + 1 - (m + 1) = 0
      BY <2>1
    <2>3. packetsSent[i] - (m + 1 - (m + 1)) * OpusLen = packetsSent[i]
      BY <2>1, <2>2
    <2>4. i - (m + 1 - (m + 1)) = i /\ (m + 1 # m + 1) = FALSE
      BY <2>1
    <2> QED BY <2>3, <2>4, Zenon DEF MadeAt, Audio!Decoded
  <1>3. \A k \in 1..(m + 1) : MadeAt(i, m, k) \in AudioFrames
    BY MadeAtIs
  <1>4. rebuilt \in Seq(AudioFrames) /\ Len(rebuilt) = m
    BY <1>3
  <1>5. Append(rebuilt, MadeAt(i, m, m + 1)) = [k \in 1..(m + 1) |-> MadeAt(i, m, k)]
    BY <1>3, <1>4
  <1>6. CASE decodes
    BY <1>1, <1>2, <1>5, <1>6 DEF Made
  <1>7. CASE ~decodes
    BY <1>1, <1>7 DEF Made
  <1> QED BY <1>6, <1>7

\* Where the frames of packet i may begin, behind packet j.
Behind(j, a) ==
    /\ a.index > j /\ packetsSent[j] + OpusLen <= a.pts
    /\ a.index = j + 1 \/ (~a.rebuilt /\ a.index - j > MaxFilled + 1)

\* The frames of a packet follow one another up to the packet, the first of them
\* right behind packet j unless the gap is too long to fill.
LEMMA MadeIsChained ==
  ASSUME AudioBounds, AudioTyped, SentInOrder, NEW i \in 1..Len(packetsSent),
         Audio!Ahead(i) \in Nat \ {0}, NEW decodes \in BOOLEAN,
         NEW fails \in BOOLEAN, ~decodes => fails
  PROVE  /\ Made(i, decodes) \in Seq(AudioFrames) /\ Len(Made(i, decodes)) <= MaxFilled + 1
         /\ Chained(Made(i, decodes), fails) /\ HeardUpTo(i, Made(i, decodes), fails)
         /\ \A j \in 1..Len(packetsSent) :
              Audio!Ahead(i) = i - j /\ Made(i, decodes) # <<>> => Behind(j, Made(i, decodes)[1])
  <1>1. PICK m \in Nat : /\ m = Audio!Missing(i) /\ m <= MaxFilled
                         /\ m = Audio!Ahead(i) - 1 \/ (m = 0 /\ Audio!Ahead(i) - 1 > MaxFilled)
    BY MissingIs DEF AudioBounds
  <1>2. MaxFilled \in Nat /\ OpusLen \in Nat
    BY DEF AudioBounds
  <1>3. packetsSent \in Seq(Int) /\ packetsSent[i] \in Int
    BY DEF AudioTyped
  <1>4. PICK made : made = Made(i, decodes)
    OBVIOUS
  <1>5. PICK n \in Nat : n = IF decodes THEN m + 1 ELSE m
    OBVIOUS
  <1>6. made \in Seq(AudioFrames) /\ Len(made) = n /\ \A k \in 1..n : made[k] = MadeAt(i, m, k)
    <2>1. made = [k \in 1..n |-> MadeAt(i, m, k)]
      BY <1>1, <1>3, <1>4, <1>5, MadeIs
    <2>2. \A k \in 1..n : MadeAt(i, m, k) \in AudioFrames
      BY <1>3, <1>5, MadeAtIs
    <2> QED BY <2>1, <2>2
  <1>7. Chained(made, fails)
    <2> SUFFICES ASSUME NEW k \in 1..(n - 1)
                 PROVE  Fits(made[k], made[k + 1]) /\ Fills(made[k], made[k + 1])
      BY <1>6 DEF Chained
    <2>1. k \in 1..m /\ k \in 1..n /\ k + 1 \in 1..n
      BY <1>5
    <2>2. made[k] = MadeAt(i, m, k) /\ made[k + 1] = MadeAt(i, m, k + 1)
      BY <2>1, <1>6
    <2> QED BY <2>1, <2>2, <1>3, NeighboursFit
  <1>8. HeardUpTo(i, made, fails)
    <2>1. \A k \in 1..n : made[k].index <= i /\ made[k].pts <= packetsSent[i]
      <3> TAKE k \in 1..n
      <3>1. k \in 1..(m + 1) /\ made[k] = MadeAt(i, m, k)
        BY <1>5, <1>6
      <3>2. MadeAt(i, m, k).index = i - (m + 1 - k) /\ MadeAt(i, m, k).pts <= packetsSent[i]
        BY <3>1, <1>3, MadeNotLater, Zenon
      <3> QED BY <3>1, <3>2
    <2>2. decodes => made # <<>> /\ made[Len(made)].index = i
      <3> SUFFICES ASSUME decodes PROVE made # <<>> /\ made[Len(made)].index = i
        OBVIOUS
      <3>1. n = m + 1 /\ n \in 1..n /\ n \in 1..(m + 1)
        BY <1>5
      <3>2. MadeAt(i, m, n).index = i - (m + 1 - n)
        BY <3>1, <1>3, MadeAtIs
      <3> QED BY <3>1, <3>2, <1>6
    <2> QED BY <2>1, <2>2, <1>6 DEF HeardUpTo
  <1>9. ASSUME NEW j \in 1..Len(packetsSent), Audio!Ahead(i) = i - j, made # <<>>
        PROVE  Behind(j, made[1])
    <2>1. n >= 1 /\ 1 \in 1..(m + 1) /\ made[1] = MadeAt(i, m, 1)
      BY <1>5, <1>6, <1>9
    <2>2. /\ made[1].index = i - m /\ (made[1].rebuilt = (m # 0))
          /\ made[1].pts = packetsSent[i] - m * OpusLen
      <3>1. packetsSent \in Seq(Int)
        BY <1>3
      <3>2. /\ MadeAt(i, m, 1).index = i - m /\ MadeAt(i, m, 1).rebuilt = (m # 0)
            /\ MadeAt(i, m, 1).pts = packetsSent[i] - m * OpusLen
        BY <3>1, FirstMadeIs, Zenon
      <3> QED BY <3>2, <2>1, Zenon
    <2>3. i - j >= 1 /\ m <= i - j - 1
      BY <1>1, <1>9
    <2>4. packetsSent[j] + (i - j) * OpusLen <= packetsSent[i] /\ packetsSent[j] \in Int
      BY <2>3, <1>3 DEF SentInOrder
    <2>5. (i - j - m) * OpusLen >= OpusLen
      BY <2>3, <1>2, ProductGrows
    <2>6. (i - j) * OpusLen = (i - j - m) * OpusLen + m * OpusLen /\ m * OpusLen \in Int
             /\ (i - j - m) * OpusLen \in Int
      BY <2>3, <1>2, Z3
    <2>7. packetsSent[j] + OpusLen <= packetsSent[i] - m * OpusLen
      <3>1. PICK x \in Int, y \in Int, z \in Int :
                x = (i - j) * OpusLen /\ y = (i - j - m) * OpusLen /\ z = m * OpusLen
        BY <2>6, <2>3, <1>2
      <3>2. packetsSent[j] + x <= packetsSent[i] /\ y >= OpusLen /\ x = y + z
        BY <2>4, <2>5, <2>6, <3>1
      <3>3. packetsSent[j] + OpusLen <= packetsSent[i] - z
        <4>1. PICK a \in Int, b \in Int, l \in Int : a = packetsSent[j] /\ b = packetsSent[i] /\ l = OpusLen
          BY <2>4, <1>2, <1>3
        <4>2. a + x <= b /\ y >= l /\ x = y + z
          BY <3>2, <4>1
        <4>3. a \in Int /\ b \in Int /\ l \in Int /\ x \in Int /\ y \in Int /\ z \in Int
          BY <3>1, <4>1
        <4>4. a + l <= b - z
          BY ONLY <4>2, <4>3
        <4> QED BY <4>1, <4>4
      <3> QED BY <3>1, <3>3
    <2>8. m = i - j - 1 \/ (m = 0 /\ i - j > MaxFilled + 1)
      BY <1>1, <1>2, <1>9
    <2>9. i - m > j /\ (i - m = j + 1 \/ (m = 0 /\ i - m - j > MaxFilled + 1))
      BY <2>3, <2>8
    <2>12. (m = 0) => ~made[1].rebuilt
      BY <2>2
    <2>10. packetsSent[j] + OpusLen <= made[1].pts
      BY <2>2, <2>7
    <2>11. made[1].index > j /\ (made[1].index = j + 1 \/ (~made[1].rebuilt /\ made[1].index - j > MaxFilled + 1))
      BY <2>2, <2>9, <2>12
    <2> QED BY <2>10, <2>11 DEF Behind
  <1> QED BY <1>1, <1>2, <1>4, <1>5, <1>6, <1>7, <1>8, <1>9

-----------------------------------------------------------------------------

LEMMA NumberIsSome ==
  ASSUME AudioBounds, NEW i \in Nat \ {0}
  PROVE  Audio!Seq16(i) \in 0..(AudioSeqSpace - 1) /\ Audio!Seq16(i) # None
  <1>1. PICK n \in Nat \ {0}, a \in Int : n = AudioSeqSpace /\ a = First + i - 1
    BY DEF AudioBounds
  <1>2. a % n \in 0..(n - 1)
    BY DivisionIs
  <1> QED BY <1>1, <1>2 DEF Audio!Seq16, AudioBounds

LEMMA LaterIsSentLater ==
  ASSUME AudioBounds, AudioTyped, SentInOrder, NEW i \in 1..Len(packetsSent),
         NEW j \in 1..Len(packetsSent), j <= i
  PROVE  packetsSent[j] <= packetsSent[i]
  <1>1. packetsSent[i] \in Int /\ packetsSent[j] \in Int
    BY DEF AudioTyped
  <1>2. (i - j) * OpusLen \in Nat
    BY DEF AudioBounds
  <1>3. packetsSent[j] + (i - j) * OpusLen <= packetsSent[i]
    BY DEF SentInOrder
  <1> QED BY <1>1, <1>2, <1>3

\* A packet that is not late continues what was heard.
LEMMA PacketContinues ==
  ASSUME AudioBounds, AudioInv, NEW i \in 1..Len(packetsSent), NEW decodes \in BOOLEAN,
         ready = <<>>, Audio!Ahead(i) # 0,
         lastSeq' = Audio!Seq16(i), ready' = Made(i, decodes), failed' = (failed \/ ~decodes),
         UNCHANGED <<packetsSent, pcmFrames>>
  PROVE  /\ Chained(Heard, failed)' /\ Follows'
         /\ ready' \in Seq(AudioFrames) /\ Len(ready') <= MaxFilled + 1
  <1> DEFINE made == Made(i, decodes)
  <1>1. /\ AudioTyped /\ SentInOrder /\ Follows /\ Chained(Heard, failed) /\ failed \in BOOLEAN
        /\ pcmFrames \in Seq(AudioFrames) /\ Len(packetsSent) <= Packets /\ packetsSent \in Seq(Int)
    BY DEF AudioInv, AudioTyped, Audio!TypeOK
  <1>2. Heard = pcmFrames
    BY <1>1 DEF Heard
  <1>3. Heard' = pcmFrames \o made
    BY DEF Heard
  <1>4. ASSUME NEW j \in 1..Len(packetsSent), lastSeq = Audio!Seq16(j)
        PROVE  Audio!Ahead(i) = i - j /\ j < i
    <2>1. i \in 1..Packets /\ j \in 1..Packets
      BY <1>1 DEF AudioBounds
    <2>2. Audio!Ahead(i) = IF i > j THEN i - j ELSE 0
      BY <2>1, <1>4, AheadIs
    <2> QED BY <2>2
  <1>5. Audio!Ahead(i) \in Nat \ {0}
    <2>1. CASE lastSeq = None
      BY <2>1 DEF Audio!Ahead
    <2>2. CASE lastSeq # None
      <3>1. PICK j \in 1..Len(packetsSent) : lastSeq = Audio!Seq16(j)
        BY <1>1, <2>2 DEF Follows
      <3> QED BY <3>1, <1>4
    <2> QED BY <2>1, <2>2
  <1>6. failed' \in BOOLEAN /\ (~decodes => failed') /\ (~failed' => ~failed)
    BY <1>1
  <1>7. /\ made \in Seq(AudioFrames) /\ Len(made) <= MaxFilled + 1
        /\ Chained(made, failed') /\ HeardUpTo(i, made, failed')
        /\ \A j \in 1..Len(packetsSent) :
              Audio!Ahead(i) = i - j /\ made # <<>> => Behind(j, made[1])
    BY <1>1, <1>5, <1>6, MadeIsChained
  <1> HIDE DEF made
  <1>8. Chained(Heard', failed')
    <2>1. Chained(pcmFrames, failed')
      BY <1>1, <1>2, <1>6 DEF Chained
    <2>2. ASSUME pcmFrames # <<>>, made # <<>>
          PROVE  /\ Fits(pcmFrames[Len(pcmFrames)], made[1])
                 /\ ~failed' => Fills(pcmFrames[Len(pcmFrames)], made[1])
      <3>1. lastSeq # None
        BY <1>1, <1>2, <2>2 DEF Follows
      <3>2. PICK j \in 1..Len(packetsSent) : lastSeq = Audio!Seq16(j) /\ HeardUpTo(j, pcmFrames, failed)
        BY <1>1, <1>2, <3>1 DEF Follows
      <3>3. Behind(j, made[1])
        BY <1>4, <1>7, <2>2, <3>2
      <3> DEFINE final == pcmFrames[Len(pcmFrames)]
      <3>4. /\ final.index <= j /\ final.pts <= packetsSent[j]
            /\ ~failed' => final.index = j
        BY <1>1, <1>6, <2>2, <3>2 DEF HeardUpTo
      <3>5. final \in AudioFrames /\ made[1] \in AudioFrames /\ packetsSent[j] \in Int /\ OpusLen \in Nat
               /\ MaxFilled \in Nat
        BY <1>1, <1>7, <2>2 DEF AudioBounds
      <3>6. /\ final.index \in Int /\ final.pts \in Int
            /\ made[1].index \in Int /\ made[1].pts \in Int
        BY <3>5 DEF AudioFrames
      <3> HIDE DEF final
      <3>7. Fits(final, made[1])
        <4>1. /\ final.index <= j /\ j < made[1].index
              /\ final.pts <= packetsSent[j] /\ packetsSent[j] + OpusLen <= made[1].pts
          BY <3>3, <3>4, <3>6 DEF Behind
        <4>2. final.index < made[1].index
          BY ONLY <4>1, <3>6, j \in Int
        <4>3. final.pts + OpusLen <= made[1].pts
          BY ONLY <4>1, <3>5, <3>6
        <4> QED BY <4>2, <4>3 DEF Fits
      <3>8. ~failed' => Fills(final, made[1])
        BY <3>3, <3>4, <3>5, <3>6 DEF Fills, Behind
      <3> QED BY <3>7, <3>8 DEF final
    <2>3. Chained(pcmFrames \o made, failed')
      BY <1>1, <1>6, <1>7, <2>1, <2>2, ChainedAfter
    <2> QED BY <2>3, <1>3
  <1>9. HeardUpTo(i, pcmFrames \o made, failed')
    <2>1. ASSUME NEW k \in 1..Len(pcmFrames)
          PROVE  pcmFrames[k].index <= i /\ pcmFrames[k].pts <= packetsSent[i]
      <3>1. pcmFrames # <<>>
        BY <1>1
      <3>2. lastSeq # None
        BY <1>1, <1>2, <3>1 DEF Follows
      <3>3. PICK j \in 1..Len(packetsSent) : lastSeq = Audio!Seq16(j) /\ HeardUpTo(j, pcmFrames, failed)
        BY <1>1, <1>2, <3>2 DEF Follows
      <3>4. j < i /\ packetsSent[j] <= packetsSent[i]
        BY <1>1, <1>4, <3>3, LaterIsSentLater
      <3>5. pcmFrames[k] \in AudioFrames /\ packetsSent[j] \in Int /\ packetsSent[i] \in Int
        BY <1>1
      <3>6. pcmFrames[k].index \in Int /\ pcmFrames[k].pts \in Int
        BY <3>5 DEF AudioFrames
      <3>7. pcmFrames[k].index <= j /\ pcmFrames[k].pts <= packetsSent[j]
        BY <3>3 DEF HeardUpTo
      <3> QED BY <3>4, <3>5, <3>6, <3>7
    <2> DEFINE out == pcmFrames \o made
    <2>2. \A k \in 1..Len(out) : \/ k \in 1..Len(pcmFrames) /\ out[k] = pcmFrames[k]
                                 \/ k - Len(pcmFrames) \in 1..Len(made) /\ out[k] = made[k - Len(pcmFrames)]
      BY <1>1, <1>7
    <2>3. \A k \in 1..Len(out) : out[k].index <= i /\ out[k].pts <= packetsSent[i]
      BY <2>1, <2>2, <1>7 DEF HeardUpTo
    <2>4. ~failed' => out # <<>> /\ out[Len(out)].index = i
      <3> SUFFICES ASSUME ~failed' PROVE out # <<>> /\ out[Len(out)].index = i
        OBVIOUS
      <3>1. made # <<>> /\ made[Len(made)].index = i
        BY <1>7 DEF HeardUpTo
      <3> QED BY <3>1, <1>1, <1>7
    <2> QED BY <2>3, <2>4 DEF HeardUpTo
  <1>10. Follows'
    <2>1. lastSeq' # None
      BY NumberIsSome
    <2>2. lastSeq' = Audio!Seq16(i)' /\ i \in 1..Len(packetsSent')
      BY DEF Audio!Seq16
    <2>3. HeardUpTo(i, Heard, failed)'
      BY <1>3, <1>9 DEF HeardUpTo
    <2> QED BY <2>1, <2>2, <2>3 DEF Follows
  <1> QED BY <1>7, <1>8, <1>10 DEF made, Chained, Fits, Fills

-----------------------------------------------------------------------------

LEMMA AudioInit ==
  ASSUME AudioBounds, Audio!Init
  PROVE  AudioInv
  <1>1. Heard = <<>> /\ packetsSent = <<>> /\ failed = FALSE /\ lastSeq = None
    BY DEF Audio!Init, Heard
  <1>2. /\ packetsSent \in Seq(Int) /\ ready \in Seq(AudioFrames) /\ pcmFrames \in Seq(AudioFrames)
        /\ Len(packetsSent) = 0 /\ Len(ready) = 0
    BY DEF Audio!Init
  <1>3. AudioTyped
    <2>1. Len(packetsSent) <= Packets /\ Len(ready) <= MaxFilled + 1
      BY <1>2 DEF AudioBounds
    <2>2. reader \in [Readers -> {"idle", "wait", "read"}]
      BY DEF Audio!Init
    <2>3. network \subseteq DOMAIN packetsSent /\ readGate = None
      BY DEF Audio!Init
    <2> QED BY <1>1, <1>2, <2>1, <2>2, <2>3 DEF AudioTyped, Audio!TypeOK
  <1> QED BY <1>1, <1>2, <1>3 DEF AudioInv, SentInOrder, Follows, Chained

\* A step that sends nothing and makes no frame.
LEMMA SameIsHeard ==
  ASSUME AudioInv, AudioTyped', Heard' = Heard, UNCHANGED <<packetsSent, lastSeq, failed>>
  PROVE  AudioInv'
  BY DEF AudioInv, SentInOrder, Follows, HeardUpTo, Chained, Fits, Fills, Audio!Seq16

LEMMA SendKeeps ==
  ASSUME AudioBounds, AudioInv, Audio!Send
  PROVE  AudioInv'
  <1>1. /\ AudioTyped /\ SentInOrder /\ packetsSent \in Seq(Int) /\ Len(packetsSent) < Packets /\ OpusLen \in Nat
        /\ Packets \in Nat
    BY DEF AudioInv, AudioTyped, Audio!Send, AudioBounds
  <1>2. PICK skip \in {0, 1} : packetsSent' =
            Append(packetsSent, (IF packetsSent = <<>> THEN 0 ELSE packetsSent[Len(packetsSent)] + OpusLen) + skip)
    BY DEF Audio!Send, Audio!Last
  <1> DEFINE n == Len(packetsSent)
             next == (IF packetsSent = <<>> THEN 0 ELSE packetsSent[n] + OpusLen) + skip
  <1>3. n \in Nat /\ next \in Int
    BY <1>1
  <1>4. /\ packetsSent' \in Seq(Int) /\ Len(packetsSent') = n + 1 /\ packetsSent'[n + 1] = next
        /\ \A k \in 1..n : packetsSent'[k] = packetsSent[k]
    BY <1>1, <1>2, <1>3
  <1>5. AudioTyped'
    BY <1>1, <1>3, <1>4 DEF AudioTyped, Audio!TypeOK, Audio!Send
  <1>6. SentInOrder'
    <2> SUFFICES ASSUME NEW i \in 1..(n + 1), NEW j \in 1..(n + 1), i <= j
                 PROVE  packetsSent'[i] + (j - i) * OpusLen <= packetsSent'[j]
      BY <1>4 DEF SentInOrder
    <2>1. CASE j <= n
      <3>1. i \in 1..n /\ j \in 1..n
        BY <2>1, <1>3
      <3>2. packetsSent[i] + (j - i) * OpusLen <= packetsSent[j]
        BY <3>1, <1>1 DEF SentInOrder
      <3> QED BY <3>1, <3>2, <1>4, Zenon
    <2>2. CASE i = n + 1
      <3>1. j = i /\ j - i = 0
        BY <2>2, <1>3
      <3>2. (j - i) * OpusLen = 0
        BY <3>1, <1>1
      <3>3. packetsSent'[i] \in Int
        BY <2>2, <1>3, <1>4
      <3> QED BY <3>1, <3>2, <3>3
    <2>3. CASE i <= n /\ j = n + 1
      <3>1. next >= packetsSent[n] + OpusLen /\ packetsSent[n] \in Int /\ packetsSent[i] \in Int
        BY <2>3, <1>1, <1>3
      <3>2. packetsSent[i] + (n - i) * OpusLen <= packetsSent[n]
        BY <2>3, <1>1, <1>3 DEF SentInOrder
      <3>3. (j - i) * OpusLen = (n - i) * OpusLen + OpusLen /\ (n - i) * OpusLen \in Int
        BY <2>3, <1>1, <1>3, Z3
      <3>4. packetsSent'[i] = packetsSent[i] /\ packetsSent'[j] = next
        BY <2>3, <1>3, <1>4
      <3>5. PICK x \in Int, y \in Int : x = (n - i) * OpusLen /\ y = (j - i) * OpusLen
        BY <3>3, <1>1
      <3>6. packetsSent[i] + x <= packetsSent[n] /\ y = x + OpusLen
        BY <3>2, <3>3, <3>5, Zenon
      <3> HIDE DEF next
      <3>7. packetsSent[i] + y <= next
        BY <3>1, <3>6, <1>1, <1>3
      <3> QED BY <3>4, <3>5, <3>7, Zenon
    <2> QED BY <2>1, <2>2, <2>3, <1>3
  <1>7. Heard' = Heard /\ UNCHANGED <<lastSeq, failed>>
    BY DEF Audio!Send, Heard
  <1>8. Follows'
    <2>1. CASE lastSeq = None
      BY <2>1, <1>7 DEF AudioInv, Follows
    <2>2. CASE lastSeq # None
      <3>1. PICK j \in 1..n : lastSeq = Audio!Seq16(j) /\ HeardUpTo(j, Heard, failed)
        BY <2>2 DEF AudioInv, Follows
      <3>2. j \in 1..Len(packetsSent') /\ packetsSent'[j] = packetsSent[j]
        BY <1>3, <1>4
      <3>3. lastSeq' = Audio!Seq16(j)'
        BY <3>1, <1>7 DEF Audio!Seq16
      <3>4. HeardUpTo(j, Heard, failed)'
        BY <3>1, <3>2, <1>7 DEF HeardUpTo
      <3> QED BY <2>2, <3>2, <3>3, <3>4, <1>7 DEF Follows
    <2> QED BY <2>1, <2>2
  <1> QED BY <1>5, <1>6, <1>7, <1>8 DEF AudioInv, Chained, Fits, Fills

LEMMA TakeKeeps ==
  ASSUME AudioBounds, AudioInv, NEW r \in Readers, Audio!TakeFrame(r)
  PROVE  AudioInv'
  <1>1. /\ pcmFrames \in Seq(AudioFrames) /\ ready \in Seq(AudioFrames) /\ ready # <<>>
        /\ pcmFrames' = Append(pcmFrames, Head(ready)) /\ ready' = Tail(ready)
    BY DEF AudioInv, AudioTyped, Audio!TakeFrame, Audio!sender
  <1>2. pcmFrames' \in Seq(AudioFrames) /\ ready' \in Seq(AudioFrames) /\ Len(ready') <= Len(ready)
    BY <1>1
  <1>3. Heard' = Heard
    <2>1. Len(Heard') = Len(Heard) /\ Heard' \in Seq(AudioFrames) /\ Heard \in Seq(AudioFrames)
      BY <1>1, <1>2 DEF Heard
    <2>2. \A k \in 1..Len(Heard) : Heard'[k] = Heard[k]
      BY <1>1, <1>2 DEF Heard
    <2> QED BY <2>1, <2>2
  <1>4. AudioTyped'
    <2>1. Audio!TypeOK /\ failed \in BOOLEAN /\ packetsSent \in Seq(Int)
      BY DEF AudioInv, AudioTyped
    <2>2. Len(ready') <= MaxFilled + 1
      <3>1. Len(ready) \in Nat /\ Len(ready') \in Nat
        BY <1>1, <1>2
      <3> QED BY <3>1, <2>1, <1>2 DEF Audio!TypeOK, AudioBounds
    <2>3. Audio!TypeOK'
      BY <2>1, <2>2 DEF Audio!TypeOK, Audio!TakeFrame, Audio!sender
    <2> QED BY <2>1, <2>3, <1>2 DEF AudioTyped, Audio!TakeFrame, Audio!sender
  <1> QED BY <1>3, <1>4, SameIsHeard DEF Audio!TakeFrame, Audio!sender

LEMMA PushKeeps ==
  ASSUME AudioBounds, AudioInv, NEW r \in Readers, Audio!PushPacket(r) \/ Audio!DecodeFails(r)
  PROVE  AudioInv'
  <1>1. PICK i \in network, decodes \in BOOLEAN :
          /\ network' \subseteq network /\ (failed' = (failed \/ ~decodes)) /\ ready = <<>>
          /\ UNCHANGED <<packetsSent, readGate, reader, pcmFrames>>
          /\ IF Audio!Ahead(i) = 0 THEN UNCHANGED <<lastSeq, ready>>
             ELSE lastSeq' = Audio!Seq16(i) /\ ready' = Made(i, decodes)
    <2>1. CASE Audio!PushPacket(r)
      <3>1. \E i \in network :
              /\ network' \subseteq network /\ failed' = failed /\ ready = <<>>
              /\ UNCHANGED <<packetsSent, readGate, reader, pcmFrames>>
              /\ IF Audio!Ahead(i) = 0 THEN UNCHANGED <<lastSeq, ready>>
                 ELSE lastSeq' = Audio!Seq16(i) /\ ready' = Made(i, TRUE)
        BY <2>1 DEF Audio!PushPacket, Audio!sender, Made
      <3>2. failed \in BOOLEAN
        BY DEF AudioInv, AudioTyped
      <3>3. failed = (failed \/ ~TRUE)
        BY <3>2
      <3> QED BY <3>1, <3>3, Zenon
    <2>2. CASE Audio!DecodeFails(r)
      <3>1. \E i \in network :
              /\ network' \subseteq network /\ failed' = TRUE /\ ready = <<>>
              /\ UNCHANGED <<packetsSent, readGate, reader, pcmFrames>>
              /\ IF Audio!Ahead(i) = 0 THEN UNCHANGED <<lastSeq, ready>>
                 ELSE lastSeq' = Audio!Seq16(i) /\ ready' = Made(i, FALSE)
        BY <2>2 DEF Audio!DecodeFails, Audio!sender, Made
      <3>2. TRUE = (failed \/ ~FALSE)
        OBVIOUS
      <3> QED BY <3>1, <3>2, Zenon
    <2> QED BY <2>1, <2>2
  <1>2. AudioTyped /\ SentInOrder /\ i \in 1..Len(packetsSent) /\ failed \in BOOLEAN /\ failed' \in BOOLEAN
    BY <1>1 DEF AudioInv, AudioTyped, Audio!TypeOK
  <1>3. CASE Audio!Ahead(i) = 0
    <2>1. AudioTyped'
      BY <1>1, <1>2, <1>3 DEF AudioTyped, Audio!TypeOK
    <2>2. Heard' = Heard /\ UNCHANGED <<packetsSent, lastSeq>> /\ (failed => failed')
      BY <1>1, <1>3 DEF Heard
    <2>3. Follows'
      BY <2>2 DEF AudioInv, Follows, HeardUpTo, Audio!Seq16
    <2>4. Chained(Heard, failed)'
      BY <2>2 DEF AudioInv, Chained, Fits, Fills
    <2> QED BY <2>1, <2>2, <2>3, <2>4 DEF AudioInv, SentInOrder
  <1>4. CASE Audio!Ahead(i) # 0
    <2>1. /\ lastSeq' = Audio!Seq16(i) /\ ready' = Made(i, decodes)
          /\ UNCHANGED <<packetsSent, pcmFrames>>
      BY <1>1, <1>4
    <2>2. /\ Chained(Heard, failed)' /\ Follows'
          /\ ready' \in Seq(AudioFrames) /\ Len(ready') <= MaxFilled + 1
      BY <2>1, <1>1, <1>2, <1>4, PacketContinues
    <2>3. lastSeq' \in 0..(AudioSeqSpace - 1)
      BY <1>2, <2>1, NumberIsSome
    <2>4. AudioTyped'
      BY <1>1, <1>2, <2>2, <2>3 DEF AudioTyped, Audio!TypeOK
    <2> QED BY <2>1, <2>2, <2>4, <1>2 DEF AudioInv, SentInOrder
  <1> QED BY <1>3, <1>4

LEMMA ReaderKeeps ==
  ASSUME AudioInv, NEW r \in Readers, Audio!Call(r) \/ Audio!Enter(r) \/ Audio!GiveUp(r)
  PROVE  AudioInv'
  <1>1. /\ UNCHANGED <<packetsSent, network, failed, lastSeq, ready, pcmFrames>>
        /\ readGate' \in Readers \cup {None}
        /\ reader' \in [Readers -> {"idle", "wait", "read"}]
    BY DEF AudioInv, AudioTyped, Audio!TypeOK, Audio!Call, Audio!Enter, Audio!GiveUp, Audio!sender
  <1>2. AudioTyped'
    BY <1>1 DEF AudioInv, AudioTyped, Audio!TypeOK
  <1> QED BY <1>1, <1>2, SameIsHeard DEF Heard

LEMMA LoseKeeps ==
  ASSUME AudioInv, Audio!Lose
  PROVE  AudioInv'
  <1>1. AudioTyped'
    BY DEF AudioInv, AudioTyped, Audio!TypeOK, Audio!Lose, Audio!sender
  <1> QED BY <1>1, SameIsHeard DEF Audio!Lose, Audio!sender, Heard

LEMMA AudioStep ==
  ASSUME AudioBounds, AudioInv, part = "audio", [SuiteNext]_<<part, vars, encoderVars, audioVars, pacerVars, videoVars, pictureVars, layerVars, pcmVars>>
  PROVE  AudioInv'
  <1>1. CASE Audio!Next
    BY <1>1, SendKeeps, LoseKeeps, ReaderKeeps, TakeKeeps, PushKeeps DEF Audio!Next
  <1>2. CASE UNCHANGED audioVars
    <2>1. AudioTyped'
      BY <1>2 DEF AudioInv, AudioTyped, Audio!TypeOK, audioVars
    <2> QED BY <1>2, <2>1, SameIsHeard DEF audioVars, Heard
  <1>3. Audio!Next \/ UNCHANGED audioVars
    BY Zenon DEF SuiteNext
  <1> QED BY <1>1, <1>2, <1>3

\* Whatever the network loses, repeats and reorders, a reader of a remote audio
\* track hears its frames in order, each once, without an overlap, and with every
\* short gap filled.
THEOREM LossStaysConcealed == ASSUME AudioBounds PROVE Suite => []LossIsConcealed
  <1> DEFINE all == <<part, vars, encoderVars, audioVars, pacerVars, videoVars, pictureVars, layerVars, pcmVars>>
             Inv == part = "audio" => AudioInv
  <1>1. SuiteInit => Inv
    BY AudioInit DEF SuiteInit
  <1>2. Inv /\ [SuiteNext]_all => Inv'
    <2> SUFFICES ASSUME Inv, [SuiteNext]_all, part' = "audio" PROVE AudioInv'
      OBVIOUS
    <2>1. part = "audio"
      BY Zenon DEF SuiteNext
    <2> QED BY <2>1, AudioStep
  <1>3. Inv => LossIsConcealed
    <2> SUFFICES ASSUME AudioInv PROVE Audio!TypeOK /\ Audio!LossIsConcealed
      BY DEF LossIsConcealed
    <2>1. Chained(Heard, failed)
      BY DEF AudioInv
    <2>2. Audio!FramesInOrder
      BY <2>1 DEF Audio!FramesInOrder, Chained, Fits, Heard
    <2>3. Audio!GapsAreFilled
      BY <2>1 DEF Audio!GapsAreFilled, Chained, Fills, Heard
    <2> QED BY <2>2, <2>3 DEF AudioInv, AudioTyped, Audio!LossIsConcealed
  <1> QED BY <1>1, <1>2, <1>3, PTL DEF Suite

-----------------------------------------------------------------------------
(* Whether a receiver gets its picture back, for any number of encodings   *)
(* and overlapping writes, and any settings, mutes, failures and           *)
(* cancellations between them.                                             *)

\* The pts of the caller never go back.
EncoderBounds ==
    /\ \E n \in Nat \ {0} : Encodings = 1..n
    /\ KeyInterval \in Nat /\ SlotLen \in Nat /\ Steps \subseteq Nat /\ None \notin Tasks

EncodedFrames == [pts : Int, key : BOOLEAN, fate : Encoder!Fates]
WriteTasks ==
    [at : {"idle", "gate", "work", "write"}, pts : Int, index : Encodings, out : SUBSET Encodings]
EncoderStates == [config : Int, lastKey : Int, slot : Int \cup {None}, emitted : Int \cup {None}]

EncoderTyped ==
    /\ Encoder!TypeOK
    /\ task \in [Tasks -> WriteTasks] /\ capturePts \in Int
    /\ stream \in [Encodings -> Seq(EncodedFrames)] /\ wanted \in [Encodings -> BOOLEAN]
    /\ config \in [Encodings -> Int] /\ encoder \in [Encodings -> EncoderStates \cup {None}]

\* The holder of the gate encodes the latest frame.
GateInv ==
    /\ \A t \in Tasks : task[t].at = "work" <=> gate = t
    /\ \A t \in Tasks : gate = t => task[t].pts = capturePts

\* Frame k is the last keyframe of the first i frames.
LastKeyOf(s, k, i) == s[k].key /\ \A j \in (k + 1)..i : ~s[j].key

\* What was encoded, whatever became of it: in the order of the pts, and a
\* keyframe less than an interval before every other frame.
Regular(s, upTo) ==
    /\ \A i \in 1..Len(s) : s[i].pts <= upTo
    /\ \A i, j \in 1..Len(s) : i <= j => s[i].pts <= s[j].pts
    /\ \A i \in 1..Len(s) : \E k \in 1..i :
          LastKeyOf(s, k, i) /\ (k = i \/ s[i].pts - s[k].pts < KeyInterval)

\* The encoder remembers the last keyframe.
Remembers(s, pts) == \E k \in 1..Len(s) : LastKeyOf(s, k, Len(s)) /\ s[k].pts = pts

EncodedInv ==
    \A e \in Encodings : /\ Regular(stream[e], capturePts)
                         /\ encoder[e] # None => Remembers(stream[e], encoder[e].lastKey)

\* The inductive invariant.
EncoderInv == EncoderTyped /\ GateInv /\ EncodedInv /\ Encoder!RequestIsKept

-----------------------------------------------------------------------------

LEMMA LastIsAnEncoding ==
  ASSUME EncoderBounds
  PROVE  /\ Encoder!Last \in Nat \ {0} /\ Encodings = 1..Encoder!Last
         /\ \A e \in Encodings : e # Encoder!Last => e + 1 \in Encodings
  <1>1. PICK n \in Nat \ {0} : Encodings = 1..n
    BY DEF EncoderBounds
  <1>2. Cardinality(1..n) = n
    BY FS_Interval
  <1>3. Encoder!Cardinality(1..n) = Cardinality(1..n)
    BY DEF Encoder!Cardinality, Cardinality
  <1>4. Encoder!Last = n
    BY <1>1, <1>2, <1>3, Zenon DEF Encoder!Last
  <1> QED BY <1>1, <1>4

\* Frames that differ in their fate only.
SameFrames(p, q) ==
    /\ Len(p) = Len(q)
    /\ \A i \in 1..Len(p) : p[i].pts = q[i].pts /\ p[i].key = q[i].key

LEMMA FateDoesNotMatter ==
  ASSUME NEW p \in Seq(EncodedFrames), NEW q \in Seq(EncodedFrames), SameFrames(p, q)
  PROVE  /\ \A upTo : Regular(p, upTo) => Regular(q, upTo)
         /\ \A pts : Remembers(p, pts) => Remembers(q, pts)
  <1>1. Len(p) \in Nat /\ Len(p) = Len(q)
    BY DEF SameFrames
  <1>2. ASSUME NEW k \in 1..Len(p), NEW i \in 1..Len(p), LastKeyOf(p, k, i)
        PROVE  LastKeyOf(q, k, i)
    <2>1. \A j \in (k + 1)..i : j \in 1..Len(p)
      BY <1>1
    <2> QED BY <2>1, <1>2 DEF LastKeyOf, SameFrames
  <1>3. ASSUME NEW upTo, Regular(p, upTo) PROVE Regular(q, upTo)
    <2>1. ASSUME NEW i \in 1..Len(q)
          PROVE  \E k \in 1..i : LastKeyOf(q, k, i) /\ (k = i \/ q[i].pts - q[k].pts < KeyInterval)
      <3>1. PICK k \in 1..i : LastKeyOf(p, k, i) /\ (k = i \/ p[i].pts - p[k].pts < KeyInterval)
        BY <1>1, <1>3 DEF Regular
      <3>2. k \in 1..Len(p) /\ i \in 1..Len(p)
        BY <1>1
      <3> QED BY <3>1, <3>2, <1>2 DEF SameFrames
    <2> QED BY <2>1, <1>1, <1>3 DEF Regular, SameFrames
  <1>4. ASSUME NEW pts, Remembers(p, pts) PROVE Remembers(q, pts)
    <2>1. PICK k \in 1..Len(p) : LastKeyOf(p, k, Len(p)) /\ p[k].pts = pts
      BY <1>4 DEF Remembers
    <2>2. Len(p) \in 1..Len(p)
      BY <1>1
    <2> QED BY <2>1, <2>2, <1>1, <1>2 DEF Remembers, SameFrames
  <1> QED BY <1>3, <1>4

LEMMA RegularLater ==
  ASSUME NEW s \in Seq(EncodedFrames), NEW m \in Int, NEW n \in Int, m <= n, Regular(s, m)
  PROVE  Regular(s, n)
  <1>1. \A i \in 1..Len(s) : s[i] \in EncodedFrames
    OBVIOUS
  <1>2. \A i \in 1..Len(s) : s[i].pts \in Int
    BY <1>1 DEF EncodedFrames
  <1> QED BY <1>2 DEF Regular

\* A frame that is a keyframe, or comes before the next one is due.
LEMMA EncodedIsRegular ==
  ASSUME KeyInterval \in Nat,
         NEW s \in Seq(EncodedFrames), NEW f \in EncodedFrames, Regular(s, f.pts),
         NEW lastKey, f.key \/ (Remembers(s, lastKey) /\ f.pts - lastKey < KeyInterval)
  PROVE  /\ Append(s, f) \in Seq(EncodedFrames) /\ Regular(Append(s, f), f.pts)
         /\ Remembers(Append(s, f), IF f.key THEN f.pts ELSE lastKey)
  <1> DEFINE n == Len(s)
             out == Append(s, f)
  <1>1. n \in Nat /\ out \in Seq(EncodedFrames) /\ Len(out) = n + 1 /\ out[n + 1] = f
    OBVIOUS
  <1>2. \A i \in 1..n : out[i] = s[i]
    OBVIOUS
  <1>9. \A i \in 1..n : s[i] \in EncodedFrames
    OBVIOUS
  <1>3. f.pts \in Int /\ f.key \in BOOLEAN /\ \A i \in 1..n : s[i].pts \in Int
    BY <1>9 DEF EncodedFrames
  <1>4. \A i \in 1..(n + 1) : out[i].pts <= f.pts
    BY <1>1, <1>2, <1>3 DEF Regular
  <1>5. \A i, j \in 1..(n + 1) : i <= j => out[i].pts <= out[j].pts
    <2> TAKE i, j \in 1..(n + 1)
    <2>1. CASE j <= n
      BY <2>1, <1>1, <1>2 DEF Regular
    <2>2. CASE j = n + 1
      BY <2>2, <1>1, <1>4
    <2> QED BY <2>1, <2>2, <1>1
  <1>6. ASSUME NEW k \in 1..n, NEW i \in 1..n, LastKeyOf(s, k, i)
        PROVE  LastKeyOf(out, k, i)
    <2>1. \A j \in (k + 1)..i : j \in 1..n
      BY <1>1
    <2> QED BY <2>1, <1>2, <1>6 DEF LastKeyOf
  <1>7. CASE f.key
    <2>1. LastKeyOf(out, n + 1, n + 1)
      BY <1>1, <1>7 DEF LastKeyOf
    <2>2. ASSUME NEW i \in 1..n
          PROVE  \E k \in 1..i : LastKeyOf(out, k, i) /\ (k = i \/ out[i].pts - out[k].pts < KeyInterval)
      <3>1. PICK k \in 1..i : LastKeyOf(s, k, i) /\ (k = i \/ s[i].pts - s[k].pts < KeyInterval)
        BY DEF Regular
      <3>2. k \in 1..n
        BY <1>1
      <3> QED BY <3>1, <3>2, <1>2, <1>6
    <2>3. Regular(out, f.pts)
      <3>1. \A i \in 1..(n + 1) : i \in 1..n \/ i = n + 1
        BY <1>1
      <3>2. n + 1 \in 1..(n + 1)
        BY <1>1
      <3> QED BY <2>1, <2>2, <3>1, <3>2, <1>1, <1>4, <1>5 DEF Regular
    <2>4. Remembers(out, f.pts)
      <3>1. n + 1 \in 1..Len(out)
        BY <1>1
      <3> QED BY <2>1, <3>1, <1>1 DEF Remembers
    <2> QED BY <2>3, <2>4, <1>1, <1>7
  <1>8. CASE ~f.key
    <2>1. PICK q \in 1..n : LastKeyOf(s, q, n) /\ s[q].pts = lastKey
      BY <1>8 DEF Remembers
    <2>2. LastKeyOf(out, q, n + 1)
      <3>1. n \in 1..n
        BY <2>1, <1>1
      <3>2. LastKeyOf(out, q, n)
        BY <2>1, <3>1, <1>6
      <3>3. \A j \in (q + 1)..(n + 1) : j \in (q + 1)..n \/ j = n + 1
        BY <1>1
      <3> QED BY <3>2, <3>3, <1>1, <1>8 DEF LastKeyOf
    <2>3. ASSUME NEW i \in 1..n
          PROVE  \E k \in 1..i : LastKeyOf(out, k, i) /\ (k = i \/ out[i].pts - out[k].pts < KeyInterval)
      <3>1. PICK k \in 1..i : LastKeyOf(s, k, i) /\ (k = i \/ s[i].pts - s[k].pts < KeyInterval)
        BY DEF Regular
      <3>2. k \in 1..n
        BY <1>1
      <3> QED BY <3>1, <3>2, <1>2, <1>6
    <2>4. q \in 1..(n + 1) /\ out[n + 1].pts - out[q].pts < KeyInterval
      BY <2>1, <1>1, <1>2, <1>8
    <2>5. Regular(out, f.pts)
      <3>1. \A i \in 1..(n + 1) : i \in 1..n \/ i = n + 1
        BY <1>1
      <3> QED BY <2>2, <2>3, <2>4, <3>1, <1>1, <1>4, <1>5 DEF Regular
    <2>6. Remembers(out, lastKey)
      <3>1. q \in 1..Len(out) /\ out[q].pts = lastKey
        BY <2>1, <2>4, <1>1, <1>2
      <3> QED BY <2>2, <3>1, <1>1 DEF Remembers
    <2> QED BY <2>5, <2>6, <1>1, <1>8
  <1> QED BY <1>3, <1>7, <1>8

\* The drops and the sends of a frame change its fate.
LEMMA DropKeepsFrames ==
  ASSUME NEW t, NEW s \in Seq(EncodedFrames)
  PROVE  Encoder!Drop(t, s) \in Seq(EncodedFrames) /\ SameFrames(s, Encoder!Drop(t, s))
  <1> DEFINE gone(i) == IF i \in Encoder!Mine(t, s) THEN [s[i] EXCEPT !.fate = "lost"] ELSE s[i]
  <1>1. \A i \in 1..Len(s) : gone(i) \in EncodedFrames /\ gone(i).pts = s[i].pts /\ gone(i).key = s[i].key
    <2> TAKE i \in 1..Len(s)
    <2>1. s[i] \in EncodedFrames
      OBVIOUS
    <2> QED BY <2>1 DEF EncodedFrames, Encoder!Fates
  <1>2. Encoder!Drop(t, s) = [i \in 1..Len(s) |-> gone(i)]
    BY DEF Encoder!Drop
  <1> HIDE DEF gone
  <1>3. Encoder!Drop(t, s) \in Seq(EncodedFrames) /\ Len(Encoder!Drop(t, s)) = Len(s)
    BY <1>1, <1>2
  <1> QED BY <1>1, <1>2, <1>3 DEF SameFrames

-----------------------------------------------------------------------------

LEMMA EncoderInit ==
  ASSUME EncoderBounds, Encoder!Init
  PROVE  EncoderInv
  <1>1. 1 \in Encodings
    BY DEF EncoderBounds
  <1>2. \A e \in Encodings : stream[e] = <<>> /\ encoder[e] = None /\ wanted[e] = FALSE
    BY DEF Encoder!Init
  <1>3. Encodings = 1..Encoder!Last
    BY LastIsAnEncoding
  <1>4. EncoderTyped
    <2>1. task \in [Tasks -> WriteTasks] /\ \A t \in Tasks : task[t].at = "idle"
      BY <1>1 DEF Encoder!Init, Encoder!Idle, WriteTasks
    <2>2. stream \in [Encodings -> Seq(EncodedFrames)]
      BY DEF Encoder!Init
    <2>3. Encoder!TypeOK
      BY <1>1, <1>2, <1>3, <2>1 DEF Encoder!Init, Encoder!TypeOK, WriteTasks
    <2> QED BY <2>1, <2>2, <2>3 DEF Encoder!Init, EncoderTyped
  <1>5. GateInv
    BY DEF Encoder!Init, Encoder!Idle, GateInv, EncoderBounds
  <1>6. EncodedInv
    BY <1>2 DEF EncodedInv, Regular
  <1> QED BY <1>2, <1>4, <1>5, <1>6 DEF EncoderInv, Encoder!RequestIsKept

LEMMA TaskIsTyped ==
  ASSUME EncoderTyped, NEW t \in Tasks
  PROVE  /\ task[t].at \in {"idle", "gate", "work", "write"} /\ task[t].pts \in Int
         /\ task[t].index \in Encodings /\ task[t].out \subseteq Encodings
  BY DEF EncoderTyped, WriteTasks

LEMMA EncoderTypesFollow ==
  ASSUME EncoderBounds,
         task' \in [Tasks -> WriteTasks], gate' \in Tasks \cup {None},
         paused' \in [Encodings -> BOOLEAN], force' \in [Encodings -> BOOLEAN],
         stream' \in [Encodings -> Seq(EncodedFrames)]
  PROVE  Encoder!TypeOK'
  <1>1. Encodings = 1..Encoder!Last
    BY LastIsAnEncoding
  <1>2. ASSUME NEW t \in Tasks
        PROVE  /\ task'[t].at \in {"idle", "gate", "work", "write"}
               /\ task'[t].index \in 1..Encoder!Last /\ task'[t].out \subseteq Encodings
    BY <1>1 DEF WriteTasks
  <1>3. ASSUME NEW e \in Encodings, NEW i \in DOMAIN stream'[e] PROVE stream'[e][i].fate \in Encoder!Fates
    <2>1. stream'[e][i] \in EncodedFrames
      OBVIOUS
    <2> QED BY <2>1 DEF EncodedFrames
  <1> QED BY <1>2, <1>3 DEF Encoder!TypeOK

\* A step that encodes nothing.
LEMMA SameIsEncoded ==
  ASSUME EncoderBounds, EncoderInv, EncoderTyped', GateInv', Encoder!RequestIsKept',
         capturePts' >= capturePts, encoder' = encoder,
         \A e \in Encodings : SameFrames(stream[e], stream'[e])
  PROVE  EncoderInv'
  <1> SUFFICES ASSUME NEW e \in Encodings
               PROVE  /\ Regular(stream'[e], capturePts')
                      /\ encoder'[e] # None => Remembers(stream'[e], encoder'[e].lastKey)
    BY DEF EncoderInv, EncodedInv, Regular, Remembers, LastKeyOf
  <1>1. /\ stream[e] \in Seq(EncodedFrames) /\ stream'[e] \in Seq(EncodedFrames)
        /\ capturePts \in Int /\ capturePts' \in Int
    BY DEF EncoderInv, EncoderTyped
  <1>2. /\ Regular(stream[e], capturePts)
        /\ encoder[e] # None => Remembers(stream[e], encoder[e].lastKey)
    BY DEF EncoderInv, EncodedInv
  <1>3. Regular(stream[e], capturePts')
    BY <1>1, <1>2, RegularLater
  <1> QED BY <1>1, <1>2, <1>3, FateDoesNotMatter

LEMMA SameIsSame ==
  ASSUME NEW s
  PROVE  SameFrames(s, s)
  BY DEF SameFrames

LEMMA AdvanceKeeps ==
  ASSUME EncoderBounds, EncoderTyped, GateInv, NEW t \in Tasks, task[t].at = "work",
         NEW out \in SUBSET Encodings, Encoder!Advance(t, out), capturePts' = capturePts
  PROVE  task' \in [Tasks -> WriteTasks] /\ gate' \in Tasks \cup {None} /\ GateInv'
  <1>1. /\ task \in [Tasks -> WriteTasks] /\ task[t].index \in Encodings /\ gate = t
        /\ task[t].pts = capturePts /\ capturePts \in Int /\ 1 \in Encodings
    BY TaskIsTyped DEF EncoderTyped, GateInv, EncoderBounds
  <1>2. CASE task[t].index = Encoder!Last
    <2>1. /\ task' = [task EXCEPT ![t].at = "write", ![t].index = 1, ![t].out = out] /\ gate' = None
      BY <1>2 DEF Encoder!Advance
    <2>2. task' \in [Tasks -> WriteTasks]
      BY <1>1, <2>1 DEF WriteTasks
    <2>3. \A u \in Tasks : task'[u].at = IF u = t THEN "write" ELSE task[u].at
      BY <1>1, <2>1 DEF WriteTasks
    <2> QED BY <1>1, <2>1, <2>2, <2>3 DEF GateInv, EncoderBounds
  <1>3. CASE task[t].index # Encoder!Last
    <2>1. task' = [task EXCEPT ![t].index = @ + 1, ![t].out = out] /\ gate' = gate
      BY <1>3 DEF Encoder!Advance
    <2>2. task[t].index + 1 \in Encodings
      BY <1>1, <1>3, LastIsAnEncoding
    <2>3. task' \in [Tasks -> WriteTasks]
      BY <1>1, <2>1, <2>2 DEF WriteTasks
    <2>4. \A u \in Tasks : task'[u].at = task[u].at /\ task'[u].pts = task[u].pts
      BY <1>1, <2>1 DEF WriteTasks
    <2> QED BY <1>1, <2>1, <2>3, <2>4 DEF GateInv
  <1> QED BY <1>2, <1>3

\* The encoder in use, after the frame.
Used(e, pts) ==
    [Encoder!Encoder(e, pts) EXCEPT
        !.slot = Encoder!Slot(e, Encoder!Encoder(e, pts), pts), !.emitted = pts,
        !.lastKey = IF Encoder!KeyDue(e, Encoder!Encoder(e, pts), pts) THEN pts ELSE @]

LEMMA UsedIs ==
  ASSUME EncoderBounds, EncoderTyped, NEW e \in Encodings, NEW pts \in Int
  PROVE  LET state == Encoder!Encoder(e, pts)
             key == Encoder!KeyDue(e, state, pts)
         IN  /\ state \in EncoderStates /\ Used(e, pts) \in EncoderStates
             /\ Used(e, pts).lastKey = IF key THEN pts ELSE state.lastKey
             /\ key \/ (encoder[e] # None /\ state = encoder[e] /\ pts - state.lastKey < KeyInterval)
             /\ Encoder!TooEarly(e, state, pts) => encoder[e] # None /\ state = encoder[e]
             /\ (force[e] => key) /\ key \in BOOLEAN
  <1> DEFINE state == Encoder!Encoder(e, pts)
             key == Encoder!KeyDue(e, state, pts)
             new == [config |-> config[e], lastKey |-> pts - KeyInterval, slot |-> None, emitted |-> None]
  <1>1. /\ KeyInterval \in Nat /\ SlotLen \in Nat /\ config[e] \in Int
        /\ encoder[e] # None => encoder[e] \in EncoderStates
    BY DEF EncoderBounds, EncoderTyped
  <1>2. (encoder[e] # None /\ state = encoder[e]) \/ state = new
    BY DEF Encoder!Encoder
  <1>3. new \in EncoderStates
    BY <1>1 DEF EncoderStates
  <1>4. state \in EncoderStates
    BY <1>1, <1>2, <1>3
  <1> HIDE DEF state
  <1>5. /\ state.lastKey \in Int /\ state.slot \in Int \cup {None}
    BY <1>4 DEF EncoderStates
  <1>6. key \/ (encoder[e] # None /\ state = encoder[e] /\ pts - state.lastKey < KeyInterval)
    <2>1. CASE state = new
      <3>1. pts - state.lastKey = KeyInterval
        BY <2>1, <1>1
      <3> QED BY <3>1, <1>1 DEF Encoder!KeyDue
    <2>2. CASE encoder[e] # None /\ state = encoder[e]
      BY <2>2, <1>1, <1>5 DEF Encoder!KeyDue
    <2> QED BY <2>1, <2>2, <1>2
  <1>7. Encoder!TooEarly(e, state, pts) => encoder[e] # None /\ state = encoder[e]
    BY <1>2 DEF Encoder!TooEarly, Encoder!Scheduled
  <1>8. Encoder!Slot(e, state, pts) \in Int \cup {None}
    <2>1. Encoder!Scheduled(state, pts) => state.slot \in Int
      BY <1>5 DEF Encoder!Scheduled
    <2>2. SlotLen \div 2 \in Int
      BY <1>1
    <2> QED BY <2>1, <2>2, <1>1, <1>5 DEF Encoder!Slot
  <1>9. /\ Used(e, pts) = [state EXCEPT !.slot = Encoder!Slot(e, state, pts), !.emitted = pts,
                                        !.lastKey = IF key THEN pts ELSE @]
    BY DEF Used, state
  <1> HIDE DEF key
  <1>10. Used(e, pts) \in EncoderStates /\ Used(e, pts).lastKey = IF key THEN pts ELSE state.lastKey
    BY <1>4, <1>5, <1>8, <1>9 DEF EncoderStates
  <1>11. (force[e] => key) /\ key \in BOOLEAN
    BY DEF key, Encoder!KeyDue
  <1> QED BY <1>4, <1>6, <1>7, <1>10, <1>11 DEF state, key

LEMMA EncodeKeeps ==
  ASSUME EncoderBounds, EncoderInv, NEW t \in Tasks, Encoder!Encode(t)
  PROVE  EncoderInv'
  <1>1. PICK e \in Encodings, pts \in Int : e = task[t].index /\ pts = task[t].pts
    BY TaskIsTyped DEF EncoderInv
  <1> DEFINE state == Encoder!Encoder(e, pts)
             key == Encoder!KeyDue(e, state, pts)
  <1>2. /\ EncoderTyped /\ GateInv /\ EncodedInv /\ Encoder!RequestIsKept /\ task[t].at = "work"
        /\ UNCHANGED <<capturePts, Encoder!settings>>
    BY DEF EncoderInv, Encoder!Encode
  <1>3. pts = capturePts
    BY <1>1, <1>2 DEF GateInv
  <1>4. PICK out \in SUBSET Encodings : Encoder!Advance(t, out)
    <2>1. task[t].out \in SUBSET Encodings /\ task[t].out \cup {e} \in SUBSET Encodings
      BY <1>2, TaskIsTyped
    <2> QED BY <2>1, <1>1 DEF Encoder!Encode
  <1>5. task' \in [Tasks -> WriteTasks] /\ gate' \in Tasks \cup {None} /\ GateInv'
    BY <1>2, <1>4, AdvanceKeeps
  <1>6. /\ state \in EncoderStates /\ Used(e, pts) \in EncoderStates
        /\ Used(e, pts).lastKey = IF key THEN pts ELSE state.lastKey
        /\ key \/ (encoder[e] # None /\ state = encoder[e] /\ pts - state.lastKey < KeyInterval)
        /\ Encoder!TooEarly(e, state, pts) => encoder[e] # None /\ state = encoder[e]
        /\ (force[e] => key) /\ key \in BOOLEAN
    BY <1>2, UsedIs
  <1>7. /\ encoder \in [Encodings -> EncoderStates \cup {None}] /\ stream \in [Encodings -> Seq(EncodedFrames)]
        /\ force \in [Encodings -> BOOLEAN] /\ wanted \in [Encodings -> BOOLEAN]
        /\ paused \in [Encodings -> BOOLEAN] /\ config \in [Encodings -> Int] /\ capturePts \in Int
    BY <1>2 DEF EncoderTyped, Encoder!TypeOK
  <1>8. UNCHANGED <<paused, config, capturePts>>
    BY <1>2 DEF Encoder!settings
  <1>9. CASE UNCHANGED <<force, encoder, stream, wanted>>
    <2>1. EncoderTyped'
      <3>1. Encoder!TypeOK'
        BY <1>5, <1>7, <1>8, <1>9, EncoderTypesFollow
      <3> QED BY <3>1, <1>5, <1>7, <1>8, <1>9 DEF EncoderTyped
    <2> QED BY <2>1, <1>2, <1>5, <1>7, <1>8, <1>9, SameIsEncoded, SameIsSame DEF Encoder!RequestIsKept
  <1>10. CASE Encoder!TooEarly(e, state, pts) /\ encoder' = [encoder EXCEPT ![e] = state] /\ force' = force
              /\ UNCHANGED <<stream, wanted>>
    BY <1>6, <1>7, <1>9, <1>10
  <1>11. CASE /\ encoder' = [encoder EXCEPT ![e] = Used(e, pts)]
              /\ force' = [force EXCEPT ![e] = FALSE]
              /\ wanted' = [wanted EXCEPT ![e] = @ /\ ~key]
              /\ stream' = [stream EXCEPT ![e] = Append(@, [pts |-> pts, key |-> key, fate |-> "flying"])]
    <2> DEFINE added == [pts |-> pts, key |-> key, fate |-> "flying"]
    <2>1. added \in EncodedFrames /\ added.pts = pts /\ added.key = key
      BY <1>6 DEF EncodedFrames, Encoder!Fates
    <2>2. Regular(stream[e], pts) /\ (encoder[e] # None => Remembers(stream[e], encoder[e].lastKey))
      BY <1>2, <1>3 DEF EncodedInv
    <2> HIDE DEF key, state, added
    <2>3. added.key \/ (Remembers(stream[e], state.lastKey) /\ added.pts - state.lastKey < KeyInterval)
      BY <2>1, <2>2, <1>6
    <2>4. /\ Append(stream[e], added) \in Seq(EncodedFrames) /\ Regular(Append(stream[e], added), added.pts)
          /\ Remembers(Append(stream[e], added), IF added.key THEN added.pts ELSE state.lastKey)
      <3>1. KeyInterval \in Nat /\ stream[e] \in Seq(EncodedFrames) /\ Regular(stream[e], added.pts)
        BY <2>1, <2>2, <1>7 DEF EncoderBounds
      <3> QED BY <3>1, <2>1, <2>3, EncodedIsRegular
    <2>5. /\ stream' \in [Encodings -> Seq(EncodedFrames)] /\ stream'[e] = Append(stream[e], added)
          /\ \A f \in Encodings : f # e => stream'[f] = stream[f]
      BY <2>4, <1>7, <1>11 DEF added
    <2>6. /\ force' \in [Encodings -> BOOLEAN] /\ wanted' \in [Encodings -> BOOLEAN]
          /\ encoder' \in [Encodings -> EncoderStates \cup {None}]
      BY <1>6, <1>7, <1>11
    <2>7. EncoderTyped'
      <3>1. Encoder!TypeOK'
        BY <2>5, <2>6, <1>5, <1>7, <1>8, EncoderTypesFollow
      <3> QED BY <3>1, <2>5, <2>6, <1>5, <1>7, <1>8 DEF EncoderTyped
    <2>8. ASSUME NEW f \in Encodings
          PROVE  /\ Regular(stream'[f], capturePts')
                 /\ encoder'[f] # None => Remembers(stream'[f], encoder'[f].lastKey)
      <3>1. CASE f = e
        <4>1. encoder'[e].lastKey = IF key THEN pts ELSE state.lastKey
          BY <1>6, <1>7, <1>11
        <4> QED BY <3>1, <4>1, <2>1, <2>4, <2>5, <1>3, <1>8
      <3>2. CASE f # e
        <4>1. encoder'[f] = encoder[f] /\ stream'[f] = stream[f]
          BY <3>2, <2>5, <1>7, <1>11
        <4> QED BY <4>1, <1>2, <1>8 DEF EncodedInv
      <3> QED BY <3>1, <3>2
    <2>9. EncodedInv'
      BY <2>8 DEF EncodedInv, Regular, Remembers, LastKeyOf
    <2>10. Encoder!RequestIsKept'
      BY <1>2, <1>6, <1>7, <1>11 DEF Encoder!RequestIsKept
    <2> QED BY <2>7, <2>9, <2>10, <1>5 DEF EncoderInv
  <1>12. \/ UNCHANGED <<force, encoder, stream, wanted>>
         \/ /\ Encoder!TooEarly(e, state, pts) /\ encoder' = [encoder EXCEPT ![e] = state] /\ force' = force
            /\ UNCHANGED <<stream, wanted>>
         \/ /\ encoder' = [encoder EXCEPT ![e] = Used(e, pts)]
            /\ force' = [force EXCEPT ![e] = FALSE]
            /\ wanted' = [wanted EXCEPT ![e] = @ /\ ~key]
            /\ stream' = [stream EXCEPT ![e] = Append(@, [pts |-> pts, key |-> key, fate |-> "flying"])]
    BY <1>1 DEF Encoder!Encode, Encoder!KeepsRequest, Used
  <1> QED BY <1>9, <1>10, <1>11, <1>12

LEMMA EncodeFailsKeeps ==
  ASSUME EncoderBounds, EncoderInv, NEW t \in Tasks, Encoder!EncodeFails(t)
  PROVE  EncoderInv'
  <1>1. PICK e \in Encodings, pts \in Int : e = task[t].index /\ pts = task[t].pts
    BY TaskIsTyped DEF EncoderInv
  <1> DEFINE state == Encoder!Encoder(e, pts)
             key == Encoder!KeyDue(e, state, pts)
             added == [pts |-> pts, key |-> key, fate |-> "lost"]
  <1>2. /\ EncoderTyped /\ GateInv /\ EncodedInv /\ Encoder!RequestIsKept /\ task[t].at = "work"
        /\ UNCHANGED <<capturePts, Encoder!settings>>
    BY DEF EncoderInv, Encoder!EncodeFails
  <1>3. pts = capturePts
    BY <1>1, <1>2 DEF GateInv
  <1>4. /\ state \in EncoderStates /\ Used(e, pts) \in EncoderStates
        /\ Used(e, pts).lastKey = IF key THEN pts ELSE state.lastKey
        /\ key \/ (encoder[e] # None /\ state = encoder[e] /\ pts - state.lastKey < KeyInterval)
        /\ (force[e] => key) /\ key \in BOOLEAN
    BY <1>2, UsedIs
  <1>5. /\ encoder' = [encoder EXCEPT ![e] = Used(e, pts)]
        /\ force' = [force EXCEPT ![e] = FALSE] /\ wanted' = [wanted EXCEPT ![e] = FALSE]
        /\ stream' = [f \in Encodings |-> IF f = e THEN Append(stream[e], added) ELSE Encoder!Drop(t, stream[f])]
        /\ task' = [task EXCEPT ![t] = Encoder!Idle] /\ gate' = None
    BY <1>1 DEF Encoder!EncodeFails, Used
  <1>6. /\ encoder \in [Encodings -> EncoderStates \cup {None}] /\ stream \in [Encodings -> Seq(EncodedFrames)]
        /\ force \in [Encodings -> BOOLEAN] /\ wanted \in [Encodings -> BOOLEAN] /\ task \in [Tasks -> WriteTasks]
        /\ paused \in [Encodings -> BOOLEAN] /\ config \in [Encodings -> Int] /\ capturePts \in Int
    BY <1>2 DEF EncoderTyped, Encoder!TypeOK
  <1>7. UNCHANGED <<paused, config, capturePts>>
    BY <1>2 DEF Encoder!settings
  <1>8. added \in EncodedFrames /\ added.pts = pts /\ added.key = key
    BY <1>4 DEF EncodedFrames, Encoder!Fates
  <1>9. Regular(stream[e], pts) /\ (encoder[e] # None => Remembers(stream[e], encoder[e].lastKey))
    BY <1>2, <1>3 DEF EncodedInv
  <1> HIDE DEF key, state, added
  <1>10. /\ Append(stream[e], added) \in Seq(EncodedFrames) /\ Regular(Append(stream[e], added), added.pts)
         /\ Remembers(Append(stream[e], added), IF added.key THEN added.pts ELSE state.lastKey)
    <2>1. KeyInterval \in Nat /\ stream[e] \in Seq(EncodedFrames) /\ Regular(stream[e], added.pts)
      BY <1>6, <1>8, <1>9 DEF EncoderBounds
    <2>2. added.key \/ (Remembers(stream[e], state.lastKey) /\ added.pts - state.lastKey < KeyInterval)
      BY <1>4, <1>8, <1>9
    <2> QED BY <2>1, <2>2, <1>8, EncodedIsRegular
  <1>11. \A f \in Encodings : Encoder!Drop(t, stream[f]) \in Seq(EncodedFrames)
                              /\ SameFrames(stream[f], Encoder!Drop(t, stream[f]))
    BY <1>6, DropKeepsFrames
  <1>12. stream' \in [Encodings -> Seq(EncodedFrames)]
    BY <1>5, <1>10, <1>11
  <1>13. /\ force' \in [Encodings -> BOOLEAN] /\ wanted' \in [Encodings -> BOOLEAN]
         /\ encoder' \in [Encodings -> EncoderStates \cup {None}]
    BY <1>4, <1>5, <1>6
  <1>14. /\ task' \in [Tasks -> WriteTasks] /\ gate' \in Tasks \cup {None}
         /\ \A u \in Tasks : task'[u] = IF u = t THEN Encoder!Idle ELSE task[u]
    BY <1>5, <1>6 DEF Encoder!Idle, WriteTasks, EncoderBounds
  <1>15. EncoderTyped'
    <2>1. Encoder!TypeOK'
      BY <1>6, <1>7, <1>12, <1>13, <1>14, EncoderTypesFollow
    <2> QED BY <2>1, <1>6, <1>7, <1>12, <1>13, <1>14 DEF EncoderTyped
  <1>16. GateInv'
    BY <1>2, <1>5, <1>7, <1>14 DEF GateInv, Encoder!Idle, EncoderBounds
  <1>17. ASSUME NEW f \in Encodings
         PROVE  /\ Regular(stream'[f], capturePts')
                /\ encoder'[f] # None => Remembers(stream'[f], encoder'[f].lastKey)
    <2>1. CASE f = e
      <3>1. encoder'[e].lastKey = IF key THEN pts ELSE state.lastKey
        BY <1>4, <1>5, <1>6
      <3>2. stream'[e] = Append(stream[e], added)
        BY <1>5
      <3> QED BY <2>1, <3>1, <3>2, <1>3, <1>7, <1>8, <1>10
    <2>2. CASE f # e
      <3>1. encoder'[f] = encoder[f] /\ stream'[f] = Encoder!Drop(t, stream[f])
        BY <2>2, <1>5, <1>6
      <3>2. /\ Regular(stream[f], capturePts)
            /\ encoder[f] # None => Remembers(stream[f], encoder[f].lastKey)
        BY <1>2 DEF EncodedInv
      <3>3. stream[f] \in Seq(EncodedFrames)
        BY <1>6
      <3> QED BY <3>1, <3>2, <3>3, <1>7, <1>11, FateDoesNotMatter
    <2> QED BY <2>1, <2>2
  <1>18. EncodedInv'
    BY <1>17 DEF EncodedInv, Regular, Remembers, LastKeyOf
  <1>19. Encoder!RequestIsKept'
    BY <1>2, <1>5, <1>6 DEF Encoder!RequestIsKept
  <1> QED BY <1>15, <1>16, <1>18, <1>19 DEF EncoderInv

-----------------------------------------------------------------------------

\* The frames of an encoding when the packets of task t are sent.
SentOf(t, s) ==
    [i \in DOMAIN s |-> IF i \in Encoder!Mine(t, s) THEN [s[i] EXCEPT !.fate = "sent"] ELSE s[i]]

LEMMA SendKeepsFrames ==
  ASSUME NEW t, NEW s \in Seq(EncodedFrames)
  PROVE  SentOf(t, s) \in Seq(EncodedFrames) /\ SameFrames(s, SentOf(t, s))
  <1> DEFINE gone(i) == IF i \in Encoder!Mine(t, s) THEN [s[i] EXCEPT !.fate = "sent"] ELSE s[i]
  <1>1. \A i \in 1..Len(s) : gone(i) \in EncodedFrames /\ gone(i).pts = s[i].pts /\ gone(i).key = s[i].key
    <2> TAKE i \in 1..Len(s)
    <2>1. s[i] \in EncodedFrames
      OBVIOUS
    <2> QED BY <2>1 DEF EncodedFrames, Encoder!Fates
  <1>2. SentOf(t, s) = [i \in 1..Len(s) |-> gone(i)]
    BY DEF SentOf
  <1> HIDE DEF gone
  <1>3. SentOf(t, s) \in Seq(EncodedFrames) /\ Len(SentOf(t, s)) = Len(s)
    BY <1>1, <1>2
  <1> QED BY <1>1, <1>2, <1>3 DEF SameFrames

\* A step of a task outside of the gate, that changes the fate of frames at most.
LEMMA OutsideKeeps ==
  ASSUME EncoderBounds, EncoderInv, NEW t \in Tasks, task[t].at # "work",
         NEW next \in WriteTasks, next.at # "work", task' = [task EXCEPT ![t] = next],
         stream' \in [Encodings -> Seq(EncodedFrames)],
         \A e \in Encodings : SameFrames(stream[e], stream'[e]),
         UNCHANGED <<gate, paused, force, config, encoder, wanted>>,
         capturePts' \in Int, capturePts' >= capturePts, capturePts' = capturePts \/ gate = None
  PROVE  EncoderInv'
  <1>1. /\ EncoderTyped /\ GateInv /\ task \in [Tasks -> WriteTasks] /\ Encoder!RequestIsKept
        /\ Encoder!TypeOK
    BY DEF EncoderInv, EncoderTyped
  <1>2. task' \in [Tasks -> WriteTasks] /\ \A u \in Tasks : task'[u] = IF u = t THEN next ELSE task[u]
    BY <1>1
  <1>3. Encoder!TypeOK'
    BY <1>1, <1>2, EncoderTypesFollow DEF Encoder!TypeOK
  <1>4. EncoderTyped'
    BY <1>1, <1>2, <1>3 DEF EncoderTyped
  <1>5. GateInv'
    BY <1>1, <1>2 DEF GateInv, EncoderBounds
  <1>6. Encoder!RequestIsKept'
    BY <1>1 DEF Encoder!RequestIsKept
  <1> QED BY <1>4, <1>5, <1>6, SameIsEncoded

LEMMA BeginKeeps ==
  ASSUME EncoderBounds, EncoderInv, NEW t \in Tasks, Encoder!Begin(t)
  PROVE  EncoderInv'
  <1>1. /\ task \in [Tasks -> WriteTasks] /\ stream \in [Encodings -> Seq(EncodedFrames)] /\ capturePts \in Int
    BY DEF EncoderInv, EncoderTyped
  <1> DEFINE next == [task[t] EXCEPT !.at = "gate"]
  <1>2. next \in WriteTasks /\ next.at = "gate" /\ task' = [task EXCEPT ![t] = next] /\ task[t].at = "idle"
    BY <1>1 DEF Encoder!Begin, WriteTasks
  <1>3. UNCHANGED <<gate, paused, force, config, encoder, wanted, stream, capturePts>>
    BY DEF Encoder!Begin, Encoder!settings
  <1> HIDE DEF next
  <1>4. capturePts' \in Int /\ capturePts' >= capturePts /\ task[t].at # "work" /\ next.at # "work"
    BY <1>1, <1>2, <1>3
  <1>5. stream' \in [Encodings -> Seq(EncodedFrames)] /\ \A e \in Encodings : SameFrames(stream[e], stream'[e])
    BY <1>1, <1>3, SameIsSame
  <1> QED BY <1>2, <1>3, <1>4, <1>5, OutsideKeeps

LEMMA EnterKeeps ==
  ASSUME EncoderBounds, EncoderInv, NEW t \in Tasks, Encoder!Enter(t)
  PROVE  EncoderInv'
  <1>1. /\ task \in [Tasks -> WriteTasks] /\ stream \in [Encodings -> Seq(EncodedFrames)] /\ capturePts \in Int
        /\ EncoderTyped /\ GateInv /\ Encoder!RequestIsKept /\ Encoder!TypeOK
    BY DEF EncoderInv, EncoderTyped
  <1>2. PICK step \in Steps :
          /\ capturePts' = capturePts + step /\ task[t].at = "gate" /\ gate = None
          /\ \/ task' = [task EXCEPT ![t] = Encoder!Idle] /\ UNCHANGED gate
             \/ /\ task' = [task EXCEPT ![t].at = "work", ![t].pts = capturePts + step]
                /\ gate' = t
    BY DEF Encoder!Enter
  <1>3. capturePts' \in Int /\ capturePts' >= capturePts
    BY <1>1, <1>2 DEF EncoderBounds
  <1>4. UNCHANGED <<paused, force, config, encoder, wanted, stream>>
    BY DEF Encoder!Enter, Encoder!settings
  <1>5. CASE task' = [task EXCEPT ![t] = Encoder!Idle] /\ UNCHANGED gate
    <2>1. Encoder!Idle \in WriteTasks /\ Encoder!Idle.at = "idle"
      BY DEF Encoder!Idle, WriteTasks, EncoderBounds
    <2> QED BY <2>1, <1>1, <1>2, <1>3, <1>4, <1>5, OutsideKeeps, SameIsSame
  <1>6. CASE task' = [task EXCEPT ![t].at = "work", ![t].pts = capturePts + step] /\ gate' = t
    <2>1. /\ task' \in [Tasks -> WriteTasks]
          /\ \A u \in Tasks : task'[u].at = IF u = t THEN "work" ELSE task[u].at
          /\ task'[t].pts = capturePts'
      BY <1>1, <1>2, <1>3, <1>6 DEF WriteTasks
    <2>2. Encoder!TypeOK'
      BY <2>1, <1>1, <1>4, <1>6, EncoderTypesFollow DEF Encoder!TypeOK
    <2>3. EncoderTyped'
      BY <2>1, <2>2, <1>1, <1>3, <1>4 DEF EncoderTyped
    <2>4. GateInv'
      BY <2>1, <1>1, <1>2, <1>6 DEF GateInv, EncoderBounds
    <2>5. Encoder!RequestIsKept'
      BY <1>1, <1>4 DEF Encoder!RequestIsKept
    <2> QED BY <2>3, <2>4, <2>5, <1>3, <1>4, SameIsEncoded, SameIsSame
  <1> QED BY <1>2, <1>5, <1>6

LEMMA WriteKeeps ==
  ASSUME EncoderBounds, EncoderInv, NEW t \in Tasks, Encoder!Write(t)
  PROVE  EncoderInv'
  <1>1. /\ task \in [Tasks -> WriteTasks] /\ stream \in [Encodings -> Seq(EncodedFrames)] /\ capturePts \in Int
    BY DEF EncoderInv, EncoderTyped
  <1>2. PICK e \in Encodings : e = task[t].index
    BY <1>1 DEF WriteTasks
  <1>3. /\ task[t].at = "write"
        /\ \E to \in {SentOf(t, stream[e]), Encoder!Drop(t, stream[e])} : stream' = [stream EXCEPT ![e] = to]
        /\ task' = [task EXCEPT ![t] = IF e = Encoder!Last THEN Encoder!Idle ELSE [@ EXCEPT !.index = e + 1]]
        /\ UNCHANGED <<gate, paused, force, config, encoder, wanted, capturePts>>
    BY <1>1, <1>2 DEF Encoder!Write, Encoder!settings, SentOf
  <1>4. PICK to \in Seq(EncodedFrames) : SameFrames(stream[e], to) /\ stream' = [stream EXCEPT ![e] = to]
    BY <1>1, <1>3, SendKeepsFrames, DropKeepsFrames
  <1>5. stream' \in [Encodings -> Seq(EncodedFrames)] /\ \A f \in Encodings : SameFrames(stream[f], stream'[f])
    BY <1>1, <1>4, SameIsSame
  <1> DEFINE next == IF e = Encoder!Last THEN Encoder!Idle ELSE [task[t] EXCEPT !.index = e + 1]
  <1>6. next \in WriteTasks /\ next.at # "work"
    <2>1. e # Encoder!Last => e + 1 \in Encodings
      BY LastIsAnEncoding
    <2>2. Encoder!Idle \in WriteTasks /\ Encoder!Idle.at = "idle"
      BY DEF Encoder!Idle, WriteTasks, EncoderBounds
    <2> QED BY <2>1, <2>2, <1>1, <1>3 DEF WriteTasks
  <1>7. task' = [task EXCEPT ![t] = next]
    BY <1>1, <1>3
  <1> HIDE DEF next
  <1>8. capturePts' \in Int /\ capturePts' >= capturePts /\ task[t].at # "work"
    BY <1>1, <1>3
  <1> QED BY <1>3, <1>5, <1>6, <1>7, <1>8, OutsideKeeps

LEMMA CancelKeeps ==
  ASSUME EncoderBounds, EncoderInv, NEW t \in Tasks, Encoder!Cancel(t)
  PROVE  EncoderInv'
  <1>1. /\ task \in [Tasks -> WriteTasks] /\ stream \in [Encodings -> Seq(EncodedFrames)] /\ capturePts \in Int
    BY DEF EncoderInv, EncoderTyped
  <1>2. /\ task[t].at # "work" /\ task' = [task EXCEPT ![t] = Encoder!Idle]
        /\ stream' = [e \in Encodings |-> Encoder!Drop(t, stream[e])]
        /\ UNCHANGED <<gate, paused, force, config, encoder, wanted, capturePts>>
    BY DEF Encoder!Cancel, Encoder!settings
  <1>3. stream' \in [Encodings -> Seq(EncodedFrames)] /\ \A e \in Encodings : SameFrames(stream[e], stream'[e])
    BY <1>1, <1>2, DropKeepsFrames
  <1>4. Encoder!Idle \in WriteTasks /\ Encoder!Idle.at = "idle"
    BY DEF Encoder!Idle, WriteTasks, EncoderBounds
  <1>5. capturePts' \in Int /\ capturePts' >= capturePts /\ Encoder!Idle.at # "work"
    BY <1>1, <1>2, <1>4
  <1> QED BY <1>2, <1>3, <1>4, <1>5, OutsideKeeps

LEMMA SettingsKeep ==
  ASSUME EncoderBounds, EncoderInv,
         \/ \E e \in Encodings, active \in BOOLEAN : Encoder!ApplyLayerSetting(e, active)
         \/ Encoder!ForceStored \/ Encoder!ForceKeyframe \/ Encoder!SetMuted \/ Encoder!Stop
         \/ UNCHANGED encoderVars
  PROVE  EncoderInv'
  <1>1. /\ EncoderTyped /\ GateInv /\ Encoder!RequestIsKept /\ Encoder!TypeOK
        /\ config \in [Encodings -> Int] /\ force \in [Encodings -> BOOLEAN] /\ paused \in [Encodings -> BOOLEAN]
        /\ wanted \in [Encodings -> BOOLEAN] /\ capturePts \in Int
    BY DEF EncoderInv, EncoderTyped, Encoder!TypeOK
  <1>2. UNCHANGED <<task, gate, stream, capturePts, encoder>>
    BY DEF Encoder!ApplyLayerSetting, Encoder!ForceStored, Encoder!ForceKeyframe, Encoder!SetMuted, Encoder!Stop,
           encoderVars
  <1>3. config' \in [Encodings -> Int] /\ paused' \in [Encodings -> BOOLEAN]
    <2>1. ASSUME NEW e \in Encodings, NEW active \in BOOLEAN, Encoder!ApplyLayerSetting(e, active)
          PROVE  config' \in [Encodings -> Int] /\ paused' \in [Encodings -> BOOLEAN]
      <3>1. [config EXCEPT ![e] = 3 - @] \in [Encodings -> Int]
        BY <1>1
      <3> QED BY <1>1, <2>1, <3>1 DEF Encoder!ApplyLayerSetting
    <2>2. CASE UNCHANGED <<config, paused>>
      BY <1>1, <2>2
    <2>3. \/ \E e \in Encodings, active \in BOOLEAN : Encoder!ApplyLayerSetting(e, active)
          \/ UNCHANGED <<config, paused>>
      BY DEF Encoder!ForceStored, Encoder!ForceKeyframe, Encoder!SetMuted, Encoder!Stop, Encoder!settings,
             encoderVars
    <2> QED BY <2>1, <2>2, <2>3
  <1>4. /\ force' \in [Encodings -> BOOLEAN] /\ wanted' \in [Encodings -> BOOLEAN]
        /\ \A e \in Encodings : wanted'[e] => force'[e]
    BY <1>1 DEF Encoder!ApplyLayerSetting, Encoder!ForceStored, Encoder!ForceKeyframe, Encoder!SetMuted,
                Encoder!Stop, encoderVars, Encoder!RequestIsKept
  <1>5. Encoder!TypeOK'
    BY <1>1, <1>2, <1>3, <1>4, EncoderTypesFollow DEF EncoderTyped, Encoder!TypeOK
  <1>6. EncoderTyped' /\ GateInv' /\ Encoder!RequestIsKept'
    BY <1>1, <1>2, <1>3, <1>4, <1>5 DEF EncoderTyped, GateInv, Encoder!RequestIsKept
  <1> QED BY <1>1, <1>2, <1>6, SameIsEncoded, SameIsSame

LEMMA EncoderStep ==
  ASSUME EncoderBounds, EncoderInv, part = "encoder", [SuiteNext]_<<part, vars, encoderVars, audioVars, pacerVars, videoVars, pictureVars, layerVars, pcmVars>>
  PROVE  EncoderInv'
  <1>1. CASE Encoder!Next
    BY <1>1, BeginKeeps, EnterKeeps, EncodeKeeps, EncodeFailsKeeps, WriteKeeps, CancelKeeps, SettingsKeep
       DEF Encoder!Next
  <1>2. CASE UNCHANGED encoderVars
    BY <1>2, SettingsKeep
  <1>3. Encoder!Next \/ UNCHANGED encoderVars
    BY Zenon DEF SuiteNext
  <1> QED BY <1>1, <1>2, <1>3

\* Before a frame that is not a keyframe, the last keyframe is less than an
\* interval old: were it lost, it is the loss that is that young; was it not, every
\* loss since is younger.
LEMMA RegularRecovers ==
  ASSUME EncoderBounds, EncoderInv
  PROVE  Encoder!BrokenStreamRecovers
  <1> SUFFICES ASSUME NEW e \in Encodings, NEW i \in DOMAIN stream[e],
                      stream[e][i].fate = "sent", ~stream[e][i].key,
                      {j \in Encoder!SinceKey(e, i) : stream[e][j].fate = "lost"} # {}
               PROVE  \E l \in {j \in Encoder!SinceKey(e, i) : stream[e][j].fate = "lost"} :
                          stream[e][i].pts < stream[e][l].pts + KeyInterval
    BY DEF Encoder!BrokenStreamRecovers
  <1> DEFINE s == stream[e]
             since == Encoder!SinceKey(e, i)
             keys == {k \in 1..i : s[k].key /\ s[k].fate # "lost"}
  <1>1. s \in Seq(EncodedFrames) /\ i \in 1..Len(s) /\ Regular(s, capturePts)
    BY DEF EncoderInv, EncoderTyped, EncodedInv
  <1>2. since = {j \in 1..i : \A k \in keys : j >= k}
    BY DEF Encoder!SinceKey
  <1>3. PICK k \in 1..i : LastKeyOf(s, k, i) /\ (k = i \/ s[i].pts - s[k].pts < KeyInterval)
    BY <1>1 DEF Regular
  <1> HIDE DEF s, since
  <1>4. k # i /\ s[i].pts - s[k].pts < KeyInterval /\ s[k].key
    BY <1>3 DEF LastKeyOf, s
  <1>5. \A j \in 1..i : j \in 1..Len(s) /\ s[j] \in EncodedFrames /\ s[j].pts \in Int
    <2> TAKE j \in 1..i
    <2>1. j \in 1..Len(s) /\ s[j] \in EncodedFrames
      BY <1>1
    <2> QED BY <2>1 DEF EncodedFrames
  <1>6. \A j \in keys : j <= k
    <2>1. \A j \in (k + 1)..i : ~s[j].key
      BY <1>3 DEF LastKeyOf
    <2> QED BY <2>1
  <1>7. CASE s[k].fate = "lost"
    <2>1. k \in since
      BY <1>2, <1>6
    <2>2. s[i].pts < s[k].pts + KeyInterval
      BY <1>1, <1>4, <1>5 DEF EncoderBounds
    <2> QED BY <2>1, <2>2, <1>7 DEF s, since
  <1>8. CASE s[k].fate # "lost"
    <2>1. PICK l \in since : s[l].fate = "lost"
      BY DEF s, since
    <2>2. l \in 1..i /\ k <= l
      BY <1>2, <1>4, <1>8, <2>1
    <2>3. s[k].pts <= s[l].pts
      BY <2>2, <1>1, <1>5 DEF Regular
    <2>4. s[i].pts < s[l].pts + KeyInterval
      BY <2>2, <2>3, <1>1, <1>4, <1>5 DEF EncoderBounds
    <2> QED BY <2>1, <2>4 DEF s, since
  <1> QED BY <1>7, <1>8

\* A keyframe that is asked for is the next frame that is encoded, and a lost frame
\* breaks the picture for less than a keyframe interval.
THEOREM PictureComesBack == ASSUME EncoderBounds PROVE Suite => []PictureRecovers
  <1> DEFINE all == <<part, vars, encoderVars, audioVars, pacerVars, videoVars, pictureVars, layerVars, pcmVars>>
             Inv == part = "encoder" => EncoderInv
  <1>1. SuiteInit => Inv
    BY EncoderInit DEF SuiteInit
  <1>2. Inv /\ [SuiteNext]_all => Inv'
    <2> SUFFICES ASSUME Inv, [SuiteNext]_all, part' = "encoder" PROVE EncoderInv'
      OBVIOUS
    <2>1. part = "encoder"
      BY Zenon DEF SuiteNext
    <2> QED BY <2>1, EncoderStep
  <1>3. Inv => PictureRecovers
    BY RegularRecovers DEF PictureRecovers, Encoder!PictureRecovers, EncoderInv, EncoderTyped
  <1> QED BY <1>1, <1>2, <1>3, PTL DEF Suite

-----------------------------------------------------------------------------
(* What a configured track sends, for any sizes, bitrates and numbers of   *)
(* layers, and any configurations, settings and frames.                    *)

\* Every side is a pixel or more, and a track has at most three layers.
LayerBounds ==
    /\ \A d \in Dims \cup {DefaultDims} : d \in (Nat \ {0}) \X (Nat \ {0})
    /\ Bitrates \subseteq Nat /\ Caps \subseteq Nat /\ Factors \subseteq Nat
    /\ Limits \subseteq 1..3 /\ MaxSteps \in Nat

VideoEncodings == [paused : BOOLEAN, kbps : Nat, scale : Nat, key : BOOLEAN]
Sides == (Nat \ {0}) \X (Nat \ {0})

\* The sizes of n layers of a picture, each with half the sides of the next.
Halves(dims, full, n) ==
    \A i \in 1..n : dims[i] = <<Layers!Even(full[1] \div 2 ^ (n - i)), Layers!Even(full[2] \div 2 ^ (n - i))>>

\* The SFU was told of the halves of the planned size.
AnnouncedInv ==
    announced # <<>> =>
        \E n \in 1..3 :
            /\ DOMAIN announced = 1..n /\ Len(announced) = n
            /\ track.managed => planned = announced[n] /\ \E full \in Sides : Halves(announced, full, n)

\* What is written about one layer, given what it was sent for.
LayerSent(w, i, t) ==
    LET out == w.layers[i]
        n == Len(w.announced)
    IN /\ i \in w.due => out.key
       /\ out.scale \in Nat /\ out.config.kbps \in Nat \ {0}
       /\ out.config.dims = <<Layers!ScaledEven(w.from[1], Layers!Larger(out.scale, 1)),
                               Layers!ScaledEven(w.from[2], Layers!Larger(out.scale, 1))>>
       /\ t.codec = "vp9" /\ t.managed =>
              /\ out.config.mode \in (1..3) \X (1..3)
              /\ out.config.mode[1] <= Layers!Larger(n, 1)

FrameSent(w, t) ==
    /\ DOMAIN w.layers = w.asked
    /\ w.decoded \in Sides /\ w.from \in Sides /\ w.from[1] % 2 = 0 /\ w.from[2] % 2 = 0
    /\ \A i \in DOMAIN w.layers : LayerSent(w, i, t)
    /\ w.announced # <<>> =>
           \E n \in 1..3 :
              /\ DOMAIN w.announced = 1..n /\ Len(w.announced) = n
              /\ t.managed => w.from = w.announced[n] /\ \E full \in Sides : Halves(w.announced, full, n)

\* The inductive invariant.
LayersInv ==
    /\ Layers!TypeOK
    /\ \A i \in Layers!LayerIds : layers[i].kbps >= 1
    /\ 1..count \subseteq Layers!LayerIds
    /\ Layers!Sending = onLayers
    /\ \A i \in resumed : i \in Layers!LayerIds /\ layers[i].key
    /\ AnnouncedInv
    /\ Layers!Svc => /\ svc.spatial <= Layers!Larger(Len(announced), 1)
                     /\ svc.maxSpatial <= Layers!Larger(Len(announced), 1)
    /\ i420.result = "sent" => FrameSent(i420, track)

-----------------------------------------------------------------------------

\* A sum over at most three numbers, written out.
LEMMA FoldOfThree ==
  ASSUME NEW s \in Seq(Int), Len(s) \in 1..3
  PROVE  Layers!FoldLeft(+, 0, s) =
         s[1] + (IF Len(s) >= 2 THEN s[2] ELSE 0) + (IF Len(s) >= 3 THEN s[3] ELSE 0)
  <1> DEFINE n == Len(s)
             I == DOMAIN s
             Unfolded(g, t) == IF t = {} THEN 0 ELSE g[t \ {Layers!Max(t)}] + s[Layers!Max(t)]
             total == Layers!FoldLeft(+, 0, s)
             iter == CHOOSE g : g = [t \in SUBSET I |-> Unfolded(g, t)]
             term(t, i) == IF i \in t THEN s[i] ELSE 0
             sum == [t \in SUBSET I |-> term(t, 1) + term(t, 2) + term(t, 3)]
  <1>1. total = iter[I]
    BY DEF Layers!FoldLeft, Layers!MapThenFoldSet
  <1> HIDE DEF total
  <1>2. I = 1..n /\ n \in 1..3 /\ I \subseteq {1, 2, 3}
    OBVIOUS
  <1>3. \A i \in I : s[i] \in Int
    OBVIOUS
  <1>4. ASSUME NEW t \in SUBSET I, t # {}
        PROVE  Layers!Max(t) \in t
    <2>1. \E x \in t : \A y \in t : x >= y
      <3>1. CASE 3 \in t
        BY <1>2, <3>1
      <3>2. CASE 3 \notin t /\ 2 \in t
        BY <1>2, <3>2
      <3>3. CASE 3 \notin t /\ 2 \notin t
        <4>1. t = {1}
          BY <1>2, <1>4, <3>3
        <4> QED
          BY <4>1
      <3> QED
        BY <3>1, <3>2, <3>3
    <2> QED
      BY <2>1 DEF Layers!Max
  <1>5. \A k \in 1..3 : Layers!Max(1..k) = k
    BY DEF Layers!Max
  <1>6. ASSUME NEW t \in SUBSET I
        PROVE  sum[t] = Unfolded(sum, t)
    <2>1. CASE t = {}
      BY <2>1
    <2>2. CASE t # {}
      <3> DEFINE m == Layers!Max(t)
      <3>1. m \in t /\ m \in {1, 2, 3}
        BY <1>2, <1>4, <2>2
      <3> HIDE DEF m
      <3>2. \A i \in {1, 2, 3} : term(t, i) \in Int /\ term(t \ {m}, i) = IF i = m THEN 0 ELSE term(t, i)
        BY <1>2, <1>3
      <3>3. term(t, m) = s[m] /\ s[m] \in Int
        BY <1>3, <3>1
      <3>4. sum[t \ {m}] = term(t \ {m}, 1) + term(t \ {m}, 2) + term(t \ {m}, 3)
        OBVIOUS
      <3>5. sum[t] = term(t, 1) + term(t, 2) + term(t, 3)
        OBVIOUS
      <3> HIDE DEF sum, term
      <3>6. sum[t] = sum[t \ {m}] + s[m]
        BY <3>1, <3>2, <3>3, <3>4, <3>5
      <3> QED
        BY <3>6, <2>2 DEF m
    <2> QED
      BY <2>1, <2>2
  <1>7. sum = [t \in SUBSET I |-> Unfolded(sum, t)]
    <2>1. \A t \in SUBSET I : sum[t] = Unfolded(sum, t)
      <3> HIDE DEF sum, Unfolded
      <3> QED
        BY <1>6
    <2>2. sum \in [SUBSET I -> {Unfolded(sum, t) : t \in SUBSET I}]
      <3> DEFINE value(t) == term(t, 1) + term(t, 2) + term(t, 3)
      <3>1. sum = [t \in SUBSET I |-> value(t)]
        OBVIOUS
      <3> HIDE DEF sum, Unfolded, value
      <3>2. DOMAIN sum = SUBSET I /\ sum = [t \in SUBSET I |-> sum[t]]
        BY <3>1
      <3> QED
        BY <3>2, <2>1
    <2> HIDE DEF sum, Unfolded
    <2> QED
      BY <2>1, <2>2
  <1>8. iter = [t \in SUBSET I |-> Unfolded(iter, t)]
    <2> HIDE DEF sum, Unfolded
    <2>1. \E g : g = [t \in SUBSET I |-> Unfolded(g, t)]
      BY <1>7
    <2> QED
      BY <2>1
  <1> HIDE DEF iter
  <1>9. iter[{}] = 0 /\ \A t \in SUBSET I : t # {} => iter[t] = iter[t \ {Layers!Max(t)}] + s[Layers!Max(t)]
    BY <1>8
  <1>10. \A k \in 1..n : iter[1..k] = iter[1..(k - 1)] + s[k]
    <2> TAKE k \in 1..n
    <2>1. 1..k \in SUBSET I /\ 1..k # {} /\ k \in 1..3 /\ (1..k) \ {k} = 1..(k - 1)
      BY <1>2
    <2> QED
      BY <2>1, <1>5, <1>9
  <1>11. 1..(1 - 1) = {} /\ 1..(2 - 1) = 1..1 /\ 1..(3 - 1) = 1..2
    OBVIOUS
  <1>12. s[1] \in Int /\ (n >= 2 => s[2] \in Int) /\ (n = 3 => s[3] \in Int)
    BY <1>2, <1>3
  <1>13. iter[1..1] = s[1]
    <2>1. 1 \in 1..n
      BY <1>2
    <2>2. iter[1..1] = iter[1..(1 - 1)] + s[1]
      BY <1>10, <2>1
    <2> QED
      BY <2>2, <1>9, <1>11, <1>12
  <1>14. n >= 2 => iter[1..2] = s[1] + s[2]
    <2> SUFFICES ASSUME n >= 2 PROVE iter[1..2] = s[1] + s[2]
      OBVIOUS
    <2>1. 2 \in 1..n
      BY <1>2
    <2>2. iter[1..2] = iter[1..(2 - 1)] + s[2]
      BY <1>10, <2>1
    <2> QED
      BY <2>2, <1>11, <1>13
  <1>15. n = 3 => iter[1..3] = s[1] + s[2] + s[3]
    <2> SUFFICES ASSUME n = 3 PROVE iter[1..3] = s[1] + s[2] + s[3]
      OBVIOUS
    <2>1. 3 \in 1..n
      BY <1>2
    <2>2. iter[1..3] = iter[1..(3 - 1)] + s[3]
      BY <1>10, <2>1
    <2> QED
      BY <2>2, <1>11, <1>14
  <1>16. total = s[1] + (IF n >= 2 THEN s[2] ELSE 0) + (IF n >= 3 THEN s[3] ELSE 0)
    <2>1. CASE n = 1
      BY <1>1, <1>2, <1>12, <1>13, <2>1
    <2>2. CASE n = 2
      BY <1>1, <1>2, <1>12, <1>14, <2>2
    <2>3. CASE n = 3
      BY <1>1, <1>2, <1>12, <1>15, <2>3
    <2> QED
      BY <1>2, <2>1, <2>2, <2>3
  <1> QED
    BY <1>16 DEF total

LEMMA DivIs ==
  ASSUME NEW a \in Int, NEW b \in Nat \ {0}
  PROVE  a \div b \in Int /\ b * (a \div b) <= a /\ a < b * (a \div b) + b
  OBVIOUS

\* A product keeps the order of its factor.
LEMMA TimesKeeps ==
  ASSUME NEW b \in Nat \ {0}, NEW x \in Int, NEW y \in Int
  PROVE  /\ b * x \in Int /\ b * y \in Int /\ b * (x + 1) = b * x + b
         /\ x <= y => b * x <= b * y
         /\ b * x < b * y => x < y
  OBVIOUS

LEMMA DivIsNatural ==
  ASSUME NEW a \in Nat, NEW b \in Nat \ {0}
  PROVE  a \div b \in Nat /\ a \div b <= a
  <1> DEFINE q == a \div b
  <1>1. q \in Int /\ b * q <= a /\ a < b * q + b
    BY DivIs
  <1> HIDE DEF q
  <1>2. q >= 0
    <2> SUFFICES ASSUME q <= -1 PROVE FALSE
      BY <1>1
    <2>1. b * q <= b * (-1)
      BY <1>1, TimesKeeps, -1 \in Int
    <2> QED
      BY <1>1, <2>1
  <1>3. q <= b * q
    BY <1>1, <1>2
  <1> QED
    BY <1>1, <1>2, <1>3 DEF q

LEMMA EvenIs ==
  ASSUME NEW n \in Int
  PROVE  LET e == Layers!Even(n) IN
         /\ e \in Nat /\ e >= 2 /\ e % 2 = 0 /\ e \in {2 * k : k \in 1..(e \div 2)}
         /\ n >= 2 => n - 1 <= e /\ e <= n
         /\ n < 2 => e = 2
  <1> DEFINE e == Layers!Even(n)
             h == Layers!Larger(n, 2) \div 2
  <1>1. Layers!Larger(n, 2) \in Nat /\ Layers!Larger(n, 2) >= 2
        /\ (n >= 2 => Layers!Larger(n, 2) = n) /\ (n < 2 => Layers!Larger(n, 2) = 2)
    BY DEF Layers!Larger
  <1>2. h \in Nat /\ h >= 1 /\ e = 2 * h /\ e <= Layers!Larger(n, 2) /\ Layers!Larger(n, 2) <= e + 1
    BY <1>1 DEF Layers!Even
  <1> HIDE DEF h
  <1>3. e \in Nat /\ e >= 2 /\ e % 2 = 0 /\ e \div 2 = h
    BY <1>2
  <1>4. e \in {2 * k : k \in 1..(e \div 2)}
    BY <1>2, <1>3
  <1> QED
    BY <1>1, <1>2, <1>3, <1>4

\* A scaled side is one of those of the frame.
LEMMA ScaledSide ==
  ASSUME NEW n \in Nat, n >= 2, n % 2 = 0, NEW scale \in Nat \ {0}
  PROVE  Layers!ScaledEven(n, scale) \in {2 * k : k \in 1..(n \div 2)}
  <1> DEFINE r == Layers!Rounded(n, scale)
             e == Layers!Even(r)
  <1>1. r = (2 * n + scale) \div (2 * scale) /\ 2 * scale \in Nat \ {0} /\ 2 * n + scale \in Int
    BY DEF Layers!Rounded
  <1>2. r \in Int /\ (2 * scale) * r <= 2 * n + scale
    BY <1>1, DivIs
  <1>3. r <= n
    <2>1. scale * n >= n /\ scale * n \in Int /\ scale * r \in Int
      BY <1>2
    <2>2. (2 * scale) * r = 2 * (scale * r)
      BY <1>2
    <2>3. 2 * (scale * r) < 2 * (scale * (n + 1))
      <3>1. scale * (n + 1) = scale * n + scale
        BY TimesKeeps
      <3> QED
        BY <1>2, <2>1, <2>2, <3>1
    <2>4. scale * r < scale * (n + 1)
      BY <2>1, <2>3, scale * (n + 1) \in Int
    <2>5. r < n + 1
      BY <1>2, <2>4, TimesKeeps, n + 1 \in Int
    <2> QED
      BY <1>2, <2>5
  <1> HIDE DEF r
  <1>4. e \in {2 * k : k \in 1..(e \div 2)} /\ e \in Nat /\ e <= n
    <2>1. /\ e \in Nat /\ e \in {2 * k : k \in 1..(e \div 2)}
          /\ r >= 2 => e <= r
          /\ r < 2 => e = 2
      BY <1>2, EvenIs
    <2> HIDE DEF e
    <2> QED
      BY <1>2, <1>3, <2>1
  <1> HIDE DEF e
  <1>5. e \div 2 <= n \div 2
    BY <1>4
  <1>6. e \in {2 * k : k \in 1..(n \div 2)}
    BY <1>4, <1>5
  <1> QED
    BY <1>6 DEF e, r, Layers!ScaledEven

LEMMA NearestIsInside ==
  ASSUME NEW n \in Nat \ {0}, NEW m \in Nat \ {0}, NEW x \in 0..(m - 1)
  PROVE  Layers!Nearest(x, n, m) < n /\ Layers!Nearest(x, n, m) \in Nat
  <1> DEFINE q == (x * n) \div m
  <1>1. x * n \in Nat
    OBVIOUS
  <1>2. q \in Nat /\ m * q <= x * n
    BY <1>1, DivIs, DivIsNatural
  <1> HIDE DEF q
  <1>3. n * x < n * m
    <2>1. n * (x + 1) = n * x + n /\ n * (x + 1) <= n * m
      BY TimesKeeps, m \in Int
    <2> QED
      BY <2>1
  <1>4. x * n = n * x /\ n * m = m * n
    OBVIOUS
  <1>5. m * q < m * n
    BY <1>2, <1>3, <1>4, m * q \in Int, n * x \in Int, m * n \in Int
  <1>6. q < n
    BY <1>2, <1>5, TimesKeeps
  <1> QED
    BY <1>2, <1>6 DEF q, Layers!Nearest

\* Every pixel is averaged into a row of another length, whichever is longer.
LEMMA BoxesCover ==
  ASSUME NEW n \in Nat \ {0}, NEW m \in Nat \ {0}
  PROVE  Layers!Covers(n, m)
  <1> DEFINE first(k) == (k * n) \div m
             above(k) == ((k + 1) * n + m - 1) \div m
             least(k) == Layers!Larger(Layers!Smaller(above(k), n), first(k) + 1)
  <1>1. ASSUME NEW k \in 0..(m - 1)
        PROVE  /\ first(k) \in Nat /\ first(k) < n /\ above(k) \in Int
               /\ least(k) \in Nat /\ first(k) < least(k) /\ least(k) <= n
               /\ above(k) <= n => above(k) <= least(k)
               /\ above(k) > n => least(k) = n
               /\ Layers!Box(k, n, m) = first(k)..(least(k) - 1)
    <2>1. first(k) \in Nat /\ first(k) < n
      BY NearestIsInside DEF Layers!Nearest
    <2>2. (k + 1) * n + m - 1 \in Int
      OBVIOUS
    <2>3. above(k) \in Int
      BY <2>2, DivIs
    <2>4. Layers!Box(k, n, m) = first(k)..(least(k) - 1)
      BY DEF Layers!Box
    <2> HIDE DEF first, above
    <2> QED
      BY <2>1, <2>3, <2>4 DEF Layers!Larger, Layers!Smaller
  <1>2. \A k \in 0..(m - 1) : Layers!Box(k, n, m) # {}
    <2> TAKE k \in 0..(m - 1)
    <2>1. first(k) \in Nat /\ least(k) \in Nat /\ first(k) < least(k) /\ Layers!Box(k, n, m) = first(k)..(least(k) - 1)
      BY <1>1
    <2> HIDE DEF first, least
    <2>2. first(k) \in Layers!Box(k, n, m)
      BY <2>1
    <2> QED
      BY <2>2
  <1>3. ASSUME NEW k \in 0..(m - 1)
        PROVE  Layers!Box(k, n, m) \subseteq 0..(n - 1)
    <2>1. first(k) \in Nat /\ least(k) \in Nat /\ least(k) <= n /\ Layers!Box(k, n, m) = first(k)..(least(k) - 1)
      BY <1>1
    <2> HIDE DEF first, least
    <2> QED
      BY <2>1
  <1>4. ASSUME NEW x \in 0..(n - 1)
        PROVE  \E k \in 0..(m - 1) : x \in Layers!Box(k, n, m)
    <2> DEFINE k == (x * m) \div n
    <2>1. k \in Nat /\ k < m
      BY NearestIsInside DEF Layers!Nearest
    <2>2. x * m \in Int /\ n * k <= x * m /\ x * m < n * k + n
      <3>1. x * m \in Int
        OBVIOUS
      <3> QED
        BY <3>1, DivIs
    <2> HIDE DEF k
    <2>3. k \in 0..(m - 1) /\ k * n = n * k /\ (k + 1) * n = n * k + n /\ x * m = m * x
          /\ k * n \in Int /\ m * x \in Int /\ m * (x + 1) = m * x + m
      BY <2>1
    <2>4. first(k) <= x
      <3> DEFINE f == first(k)
      <3>1. f \in Int /\ m * f <= k * n
        BY <2>3, DivIs
      <3> HIDE DEF f
      <3>2. m * f < m * (x + 1)
        BY <3>1, <2>2, <2>3, m * f \in Int
      <3>3. f < x + 1
        BY <3>1, <3>2, TimesKeeps, x + 1 \in Int
      <3> QED
        BY <3>1, <3>3 DEF f
    <2>5. above(k) > x
      <3> DEFINE a == above(k)
      <3>1. (k + 1) * n + m - 1 \in Int
        BY <2>3
      <3>2. a \in Int /\ (k + 1) * n + m - 1 < m * a + m
        BY <3>1, DivIs
      <3> HIDE DEF a
      <3>3. m * x < m * a
        BY <3>2, <2>2, <2>3, m * a \in Int, n * k \in Int
      <3>4. x < a
        BY <3>2, <3>3, TimesKeeps
      <3> QED
        BY <3>4, <3>2 DEF a
    <2>6. /\ first(k) \in Nat /\ above(k) \in Int /\ least(k) \in Nat
          /\ above(k) <= n => above(k) <= least(k)
          /\ above(k) > n => least(k) = n
          /\ Layers!Box(k, n, m) = first(k)..(least(k) - 1)
      BY <2>3, <1>1
    <2> HIDE DEF first, above, least
    <2>7. x \in first(k)..(least(k) - 1)
      BY <2>4, <2>5, <2>6
    <2> QED
      BY <2>3, <2>6, <2>7
  <1>5. UNION {Layers!Box(k, n, m) : k \in 0..(m - 1)} = 0..(n - 1)
    BY <1>3, <1>4
  <1> QED
    BY <1>2, <1>5 DEF Layers!Covers

LEMMA KbpsIs ==
  ASSUME NEW b \in Nat
  PROVE  Layers!Kbps(b) \in Nat /\ (b > 0 => Layers!Kbps(b) >= 1)
  BY DEF Layers!Kbps

LEMMA TurnedIs ==
  ASSUME NEW y \in VideoEncodings, NEW on \in BOOLEAN
  PROVE  LET z == Layers!Turned(y, on) IN
         /\ z \in VideoEncodings /\ z.kbps = y.kbps /\ z.scale = y.scale
         /\ z.paused <=> ~on
         /\ y.key => z.key
         /\ on /\ y.paused => z.key
  BY DEF Layers!Turned, VideoEncodings

LEMMA PlannedIs ==
  ASSUME NEW y \in VideoEncodings, y.kbps >= 1, NEW p,
         p.bitrate \in Nat, p.scale \in Nat, p.active \in BOOLEAN
  PROVE  LET z == Layers!Planned(y, p) IN
         /\ z \in VideoEncodings /\ z.kbps >= 1
         /\ z.paused <=> ~p.active
         /\ y.key => z.key
         /\ p.active /\ y.paused => z.key
  <1> DEFINE x == [y EXCEPT !.kbps = IF p.bitrate > 0 THEN Layers!Kbps(p.bitrate) ELSE @, !.scale = p.scale]
  <1>1. x \in VideoEncodings /\ x.kbps >= 1 /\ x.paused = y.paused /\ x.key = y.key
    BY KbpsIs DEF VideoEncodings
  <1>2. Layers!Planned(y, p) = Layers!Turned(x, p.active)
    BY DEF Layers!Planned
  <1> HIDE DEF x
  <1> QED
    BY <1>1, <1>2, TurnedIs

LEMMA SetIs ==
  ASSUME NEW y \in VideoEncodings, y.kbps >= 1, NEW p, p.bitrate \in Nat, p.scale \in Nat
  PROVE  LET z == Layers!Set(y, p) IN
         /\ z \in VideoEncodings /\ z.kbps >= 1 /\ z.paused = FALSE
         /\ y.key => z.key
         /\ y.paused => z.key
  <1> DEFINE x == [y EXCEPT !.kbps = IF p.bitrate > 0 THEN Layers!Kbps(p.bitrate) ELSE @,
                            !.scale = IF p.scale >= 1 THEN p.scale ELSE @]
  <1>1. x \in VideoEncodings /\ x.kbps >= 1 /\ x.paused = y.paused /\ x.key = y.key
    BY KbpsIs DEF VideoEncodings
  <1>2. Layers!Set(y, p) = Layers!Turned(x, TRUE)
    BY DEF Layers!Set
  <1> HIDE DEF x
  <1>3. LET z == Layers!Turned(x, TRUE) IN
        z \in VideoEncodings /\ z.kbps >= 1 /\ (z.paused <=> FALSE) /\ (y.key => z.key) /\ (y.paused => z.key)
    BY <1>1, TurnedIs
  <1>4. Layers!Turned(x, TRUE).paused = FALSE
    BY <1>3 DEF VideoEncodings
  <1> QED
    BY <1>2, <1>3, <1>4

\* The first powers of two.
LEMMA Powers == 2 ^ 0 = 1 /\ 2 ^ 1 = 2 /\ 2 ^ 2 = 4 /\ 2 ^ 3 = 8
  OBVIOUS

LEMMA ScaleIs ==
  ASSUME NEW n \in 1..3, NEW i \in 1..n
  PROVE  2 ^ (n - i) \in {1, 2, 4} /\ 2 ^ (n - n) = 1
  <1>1. n - i \in {0, 1, 2} /\ n - n = 0
    OBVIOUS
  <1> QED
    BY <1>1, Powers

\* The layer of a plan that a number of layers gives the scale is close to what
\* the frame of the planned size gives it.
LEMMA HalvesAreClose ==
  ASSUME NEW f \in Nat \ {0}, NEW s \in {1, 2, 4}
  PROVE  Layers!Apart(Layers!ScaledEven(Layers!Even(f), s), Layers!Even(f \div s)) <= 2
  <1>1. CASE s = 1
    BY <1>1 DEF Layers!Apart, Layers!ScaledEven, Layers!Rounded, Layers!Even, Layers!Larger
  <1>2. CASE s = 2
    BY <1>2 DEF Layers!Apart, Layers!ScaledEven, Layers!Rounded, Layers!Even, Layers!Larger
  <1>3. CASE s = 4
    BY <1>3 DEF Layers!Apart, Layers!ScaledEven, Layers!Rounded, Layers!Even, Layers!Larger
  <1> QED
    BY <1>1, <1>2, <1>3

\* The spatial layers of an encoder share its bitrate out.
LEMMA SharesAddUp ==
  ASSUME NEW kbps \in Nat \ {0}, NEW n \in 1..3
  PROVE  LET shares == Layers!SpatialShares(kbps, n) IN
         /\ Layers!FoldLeft(+, 0, shares) = kbps
         /\ DOMAIN shares = 1..n /\ \A k \in 1..n : shares[k] \in Int
  <1> DEFINE share(i) == (kbps * 2 ^ (i - 1)) \div (2 ^ n - 1)
             rest == kbps - (IF n > 1 THEN share(1) ELSE 0) - (IF n > 2 THEN share(2) ELSE 0)
             q == [i \in 1..n |-> IF i = n THEN Layers!Larger(rest, 1) ELSE share(i)]
  <1>1. n = 2 => share(1) = kbps \div 3
    <2>1. n = 2 => 2 ^ (1 - 1) = 1 /\ 2 ^ n = 4 /\ 1 - 1 = 0
      BY Powers
    <2> QED
      BY <2>1
  <1>2. n = 3 => share(1) = kbps \div 7 /\ share(2) = (kbps * 2) \div 7
    <2>1. n = 3 => 2 ^ (1 - 1) = 1 /\ 2 ^ (2 - 1) = 2 /\ 2 ^ n = 8
      <3>1. 1 - 1 = 0 /\ 2 - 1 = 1
        OBVIOUS
      <3> QED
        BY <3>1, Powers
    <2> QED
      BY <2>1
  <1> HIDE DEF share
  <1>3. rest \in Nat /\ rest >= 1
    BY <1>1, <1>2
  <1>4. /\ q[n] = rest /\ (n > 1 => q[1] = share(1)) /\ (n > 2 => q[2] = share(2))
        /\ DOMAIN q = 1..n
    BY <1>3 DEF Layers!Larger
  <1>5. q \in Seq(Int) /\ Len(q) = n
    <2>1. \A k \in 1..n : q[k] \in Int
      BY <1>1, <1>2, <1>3, <1>4
    <2>2. q \in [1..n -> Int]
      BY <2>1
    <2> QED
      BY <2>2
  <1>6. q[1] + (IF n >= 2 THEN q[2] ELSE 0) + (IF n >= 3 THEN q[3] ELSE 0) = kbps
    <2> HIDE DEF q
    <2> QED
      BY <1>1, <1>2, <1>3, <1>4
  <1> HIDE DEF q
  <1>7. Layers!FoldLeft(+, 0, q) = kbps
    <2> DEFINE total == Layers!FoldLeft(+, 0, q)
    <2>1. total = q[1] + (IF Len(q) >= 2 THEN q[2] ELSE 0) + (IF Len(q) >= 3 THEN q[3] ELSE 0)
      BY <1>5, FoldOfThree
    <2> HIDE DEF total
    <2>2. total = kbps
      BY <1>5, <1>6, <2>1
    <2> QED
      BY <2>2 DEF total
  <1>8. Layers!SpatialShares(kbps, n) = q
    BY DEF q, rest, share, Layers!SpatialShares
  <1>9. \A k \in 1..n : q[k] \in Int
    BY <1>5
  <1> QED
    BY <1>4, <1>7, <1>8, <1>9, Zenon

\* All temporal layers together have the whole share.
LEMMA LastShareIsWhole ==
  ASSUME NEW share \in Int, NEW n \in 1..3
  PROVE  Layers!TemporalShares(share, n)[n] = share
  <1>1. CASE n = 1
    BY <1>1 DEF Layers!TemporalShares
  <1>2. CASE n = 2
    BY <1>2 DEF Layers!TemporalShares
  <1>3. CASE n = 3
    BY <1>3 DEF Layers!TemporalShares
  <1> QED
    BY <1>1, <1>2, <1>3

\* Made smaller or not, a frame has pixels on every side.
LEMMA BridgedHasSides ==
  ASSUME LayerBounds, NEW d \in Dims, NEW f \in Layers!Bridged(d)
  PROVE  d \in Sides /\ f \in Sides
  <1>1. d \in Sides
    BY DEF LayerBounds, Sides
  <1>2. ASSUME NEW a \in Int, NEW b \in Int
        PROVE  Layers!Downscaled(d, <<a, b>>) \in Sides
    <2>1. Layers!Smaller(a, d[1]) \in Int /\ Layers!Smaller(b, d[2]) \in Int
      BY <1>1 DEF Layers!Smaller, Sides
    <2>2. /\ Layers!Even(Layers!Smaller(a, d[1])) \in Nat \ {0}
          /\ Layers!Even(Layers!Smaller(b, d[2])) \in Nat \ {0}
      <3>1. ASSUME NEW z \in Int
            PROVE  Layers!Even(z) \in Nat \ {0}
        <4>1. Layers!Even(z) \in Nat /\ Layers!Even(z) >= 2
          BY EvenIs
        <4> QED
          BY <4>1
      <3> QED
        BY <2>1, <3>1
    <2> QED
      BY <2>2 DEF Layers!Downscaled, Sides
  <1>3. ASSUME NEW to \in Dims
        PROVE  to[1] \in Int /\ to[2] \in Int /\ Layers!Downscaled(d, to) \in Sides
    <2>1. to \in Sides
      BY DEF LayerBounds, Sides
    <2>2. to = <<to[1], to[2]>> /\ to[1] \in Int /\ to[2] \in Int
      BY <2>1 DEF Sides
    <2>3. Layers!Downscaled(d, <<to[1], to[2]>>) \in Sides
      BY <1>2, <2>2
    <2> QED
      BY <2>2, <2>3
  <1>4. ASSUME NEW edge \in Int
        PROVE  Layers!Fitted(d, edge) \in Sides
    <2> DEFINE longest == Layers!Larger(d[1], d[2])
    <2>1. longest \in Nat \ {0} /\ d[1] * edge \in Int /\ d[2] * edge \in Int
      BY <1>1 DEF Layers!Larger, Sides
    <2> HIDE DEF longest
    <2>2. Layers!Rounded(d[1] * edge, longest) \in Int /\ Layers!Rounded(d[2] * edge, longest) \in Int
      <3>1. /\ 2 * longest \in Nat \ {0}
            /\ 2 * (d[1] * edge) + longest \in Int /\ 2 * (d[2] * edge) + longest \in Int
        BY <2>1
      <3> QED
        BY <3>1, DivIs DEF Layers!Rounded
    <2>3. Layers!Downscaled(d, <<Layers!Rounded(d[1] * edge, longest), Layers!Rounded(d[2] * edge, longest)>>)
              \in Sides
      BY <1>2, <2>2
    <2> QED
      BY <1>1, <2>3 DEF longest, Layers!Fitted
  <1>5. \A edge \in UNION {{to[1], to[2]} : to \in Dims} : edge \in Int
    BY <1>3
  <1> QED
    BY <1>1, <1>3, <1>4, <1>5 DEF Layers!Bridged

LEMMA ChromaHasSides ==
  ASSUME NEW d \in Sides
  PROVE  Layers!Chroma(d) \in Sides
  BY DEF Layers!Chroma, Sides

\* What the invariant says of the last frame is what the property asks.
LEMMA SentFits ==
  ASSUME LayerBounds, LayersInv
  PROVE  Layers!LayersFit
  <1> SUFFICES ASSUME i420.result = "sent" PROVE
        /\ DOMAIN i420.layers = i420.asked
        /\ \A i \in DOMAIN i420.layers :
            LET out == i420.layers[i]
                n == Len(i420.announced)
            IN /\ i \in i420.due => out.key
               /\ \A side \in 1..2 :
                    /\ out.config.dims[side] \in {2 * k : k \in 1..(i420.from[side] \div 2)}
                    /\ \A x \in 0..(out.config.dims[side] - 1) :
                          Layers!Nearest(x, i420.from[side], out.config.dims[side]) < i420.from[side]
                    /\ i \in DOMAIN i420.announced /\ track.managed /\ ~Layers!Svc /\ out.scale = 2 ^ (n - i)
                        => Layers!Apart(out.config.dims[side], i420.announced[i][side]) <= 2
               /\ Layers!Svc => /\ out.config.mode[1] <= Layers!Larger(n, 1)
                         /\ LET shares == Layers!SpatialShares(out.config.kbps, out.config.mode[1])
                            IN /\ Layers!FoldLeft(+, 0, shares) = out.config.kbps
                               /\ \A k \in DOMAIN shares :
                                     Layers!TemporalShares(shares[k], out.config.mode[2])[out.config.mode[2]] = shares[k]
        /\ i420.from # i420.decoded => \A side \in 1..2 :
            /\ Layers!Covers(i420.decoded[side], i420.from[side])
            /\ Layers!Covers(Layers!Chroma(i420.decoded)[side], Layers!Chroma(i420.from)[side])
    BY Zenon DEF Layers!LayersFit
  <1>1. FrameSent(i420, track)
    BY DEF LayersInv
  <1>2. i420.from \in Sides /\ i420.decoded \in Sides
    BY <1>1 DEF FrameSent
  <1>3. \A side \in 1..2 :
           /\ i420.from[side] \in Nat \ {0} /\ i420.from[side] % 2 = 0 /\ i420.from[side] >= 2
           /\ i420.decoded[side] \in Nat \ {0}
           /\ Layers!Chroma(i420.from)[side] \in Nat \ {0} /\ Layers!Chroma(i420.decoded)[side] \in Nat \ {0}
    <2>1. Layers!Chroma(i420.from) \in Sides /\ Layers!Chroma(i420.decoded) \in Sides
      BY <1>2, ChromaHasSides
    <2>2. i420.from[1] % 2 = 0 /\ i420.from[2] % 2 = 0
      BY <1>1 DEF FrameSent
    <2> QED
      BY <1>2, <2>1, <2>2 DEF Sides
  <1>4. \A side \in 1..2 :
           /\ Layers!Covers(i420.decoded[side], i420.from[side])
           /\ Layers!Covers(Layers!Chroma(i420.decoded)[side], Layers!Chroma(i420.from)[side])
    BY <1>3, BoxesCover
  <1>5. ASSUME NEW i \in DOMAIN i420.layers
        PROVE  LET out == i420.layers[i]
                   n == Len(i420.announced)
               IN /\ i \in i420.due => out.key
                  /\ \A side \in 1..2 :
                       /\ out.config.dims[side] \in {2 * k : k \in 1..(i420.from[side] \div 2)}
                       /\ \A x \in 0..(out.config.dims[side] - 1) :
                             Layers!Nearest(x, i420.from[side], out.config.dims[side]) < i420.from[side]
                       /\ i \in DOMAIN i420.announced /\ track.managed /\ ~Layers!Svc /\ out.scale = 2 ^ (n - i)
                           => Layers!Apart(out.config.dims[side], i420.announced[i][side]) <= 2
                  /\ Layers!Svc => /\ out.config.mode[1] <= Layers!Larger(n, 1)
                            /\ LET shares == Layers!SpatialShares(out.config.kbps, out.config.mode[1])
                               IN /\ Layers!FoldLeft(+, 0, shares) = out.config.kbps
                                  /\ \A k \in DOMAIN shares :
                                        Layers!TemporalShares(shares[k], out.config.mode[2])[out.config.mode[2]] = shares[k]
    <2> DEFINE out == i420.layers[i]
               n == Len(i420.announced)
               s == Layers!Larger(out.scale, 1)
               dims == out.config.dims
               kbps == out.config.kbps
               m == out.config.mode
    <2>1. LayerSent(i420, i, track)
      BY <1>1 DEF FrameSent
    <2>2. /\ i \in i420.due => out.key
          /\ out.scale \in Nat /\ kbps \in Nat \ {0}
          /\ dims = <<Layers!ScaledEven(i420.from[1], s), Layers!ScaledEven(i420.from[2], s)>>
      BY <2>1 DEF LayerSent
    <2>3. Layers!Svc => m \in (1..3) \X (1..3) /\ m[1] <= Layers!Larger(n, 1)
      BY <2>1 DEF LayerSent, Layers!Svc
    <2>4. s \in Nat \ {0} /\ (out.scale >= 1 => s = out.scale)
      BY <2>2 DEF Layers!Larger
    <2>5. ASSUME NEW side \in 1..2
          PROVE  /\ dims[side] = Layers!ScaledEven(i420.from[side], s)
                 /\ dims[side] \in {2 * k : k \in 1..(i420.from[side] \div 2)}
                 /\ \A x \in 0..(dims[side] - 1) : Layers!Nearest(x, i420.from[side], dims[side]) < i420.from[side]
      <3>1. dims[side] = Layers!ScaledEven(i420.from[side], s)
        BY <2>2
      <3> HIDE DEF dims, s
      <3>2. dims[side] \in {2 * k : k \in 1..(i420.from[side] \div 2)}
        BY <1>3, <2>4, <3>1, ScaledSide
      <3>3. dims[side] \in Nat \ {0}
        BY <1>3, <3>2
      <3>4. \A x \in 0..(dims[side] - 1) : Layers!Nearest(x, i420.from[side], dims[side]) < i420.from[side]
        BY <1>3, <3>3, NearestIsInside
      <3> QED
        BY <3>1, <3>2, <3>4
    <2>6. ASSUME NEW side \in 1..2, i \in DOMAIN i420.announced, track.managed, out.scale = 2 ^ (n - i)
          PROVE  Layers!Apart(dims[side], i420.announced[i][side]) <= 2
      <3>1. i420.announced # <<>>
        BY <2>6
      <3>2. PICK top \in 1..3 :
               /\ DOMAIN i420.announced = 1..top /\ n = top
               /\ i420.from = i420.announced[top] /\ \E full \in Sides : Halves(i420.announced, full, top)
        BY <1>1, <2>6, <3>1 DEF FrameSent
      <3>3. PICK full \in Sides : Halves(i420.announced, full, top)
        BY <3>2
      <3>4. i \in 1..top /\ top \in 1..top /\ 2 ^ (top - i) \in {1, 2, 4} /\ 2 ^ (top - top) = 1
        <4>1. i \in 1..top /\ top \in 1..top
          BY <2>6, <3>2
        <4>2. 2 ^ (top - i) \in {1, 2, 4} /\ 2 ^ (top - top) = 1
          BY <4>1, ScaleIs
        <4> QED
          BY <4>1, <4>2
      <3>5. full[side] \in Nat \ {0} /\ full[1] \in Nat \ {0} /\ full[2] \in Nat \ {0}
        BY <3>3 DEF Sides
      <3>6. i420.announced[i][side] = Layers!Even(full[side] \div 2 ^ (top - i))
        BY <3>3, <3>4 DEF Halves
      <3>7. i420.announced[top] = <<Layers!Even(full[1] \div 1), Layers!Even(full[2] \div 1)>>
        BY <3>3, <3>4 DEF Halves
      <3>8. full[1] \div 1 = full[1] /\ full[2] \div 1 = full[2]
        BY <3>5
      <3>9. i420.from[side] = Layers!Even(full[side])
        BY <3>2, <3>7, <3>8
      <3>10. s = 2 ^ (top - i)
        BY <2>4, <2>6, <3>2, <3>4
      <3>11. Layers!Apart(Layers!ScaledEven(Layers!Even(full[side]), s), Layers!Even(full[side] \div s)) <= 2
        BY <3>4, <3>5, <3>10, HalvesAreClose
      <3>12. dims[side] = Layers!ScaledEven(i420.from[side], s)
        BY <2>5
      <3> HIDE DEF dims, s
      <3> QED
        BY <3>6, <3>9, <3>10, <3>11, <3>12
    <2>7. ASSUME Layers!Svc
          PROVE  /\ m[1] <= Layers!Larger(n, 1)
                 /\ LET shares == Layers!SpatialShares(kbps, m[1])
                    IN /\ Layers!FoldLeft(+, 0, shares) = kbps
                       /\ \A k \in DOMAIN shares : Layers!TemporalShares(shares[k], m[2])[m[2]] = shares[k]
      <3> DEFINE shares == Layers!SpatialShares(kbps, m[1])
      <3>1. m[1] \in 1..3 /\ m[2] \in 1..3 /\ m[1] <= Layers!Larger(n, 1)
        BY <2>3, <2>7
      <3>2. /\ Layers!FoldLeft(+, 0, shares) = kbps
            /\ DOMAIN shares = 1..m[1] /\ \A k \in 1..m[1] : shares[k] \in Int
        BY <2>2, <3>1, SharesAddUp, Zenon
      <3>3. \A k \in DOMAIN shares : Layers!TemporalShares(shares[k], m[2])[m[2]] = shares[k]
        <4> HIDE DEF shares, m
        <4>1. DOMAIN shares = 1..m[1] /\ \A k \in 1..m[1] : shares[k] \in Int
          BY <3>2, Zenon
        <4> QED
          BY <3>1, <4>1, LastShareIsWhole
      <3> QED
        BY <3>1, <3>2, <3>3, Zenon
    <2> QED
      BY <2>2, <2>5, <2>6, <2>7, Zenon
  <1>6. DOMAIN i420.layers = i420.asked
    BY <1>1 DEF FrameSent
  <1> QED
    BY <1>4, <1>5, <1>6, Zenon

-----------------------------------------------------------------------------

LEMMA LayerIdsAre ==
  ASSUME Layers!TypeOK
  PROVE  /\ Layers!LayerIds \subseteq 1..3 /\ 1 \in Layers!LayerIds
         /\ track.managed /\ ~Layers!Svc => Layers!LayerIds = 1..3
         /\ Layers!Svc => Layers!LayerIds = {1}
  <1>1. track.codec = "vp8" \/ track.codec = "vp9"
    BY DEF Layers!TypeOK, Layers!Tracks
  <1>2. CASE track.managed /\ track.codec = "vp8"
    <2>1. Layers!LayerIds = 1..3 /\ ~Layers!Svc
      BY <1>2 DEF Layers!LayerIds, Layers!Svc
    <2> QED
      BY <2>1
  <1>3. CASE ~(track.managed /\ track.codec = "vp8")
    <2>1. Layers!LayerIds = {1} /\ (track.managed => Layers!Svc)
      BY <1>1, <1>3 DEF Layers!LayerIds, Layers!Svc
    <2> QED
      BY <2>1
  <1> QED
    BY <1>2, <1>3

LEMMA EncodingsTyped ==
  ASSUME Layers!TypeOK
  PROVE  layers \in [Layers!LayerIds -> VideoEncodings]
  BY Zenon DEF Layers!TypeOK, VideoEncodings

LEMMA LayersInit ==
  ASSUME LayerBounds, Layers!Init
  PROVE  LayersInv
  <1>1. track \in Layers!Tracks /\ count = 1 /\ steps = 0 /\ announced = <<>> /\ onLayers = {1} /\ resumed = {}
        /\ i420 = [result |-> "none"] /\ svc = [spatial |-> 1, temporal |-> 1, maxSpatial |-> 1, maxTemporal |-> 1]
        /\ layers = [i \in Layers!LayerIds |-> [paused |-> FALSE, kbps |-> 1200, scale |-> 1, key |-> TRUE]]
    BY Zenon DEF Layers!Init
  <1>2. Layers!TypeOK
    <2>1. layers \in [Layers!LayerIds -> [paused : BOOLEAN, kbps : Nat, scale : Nat, key : BOOLEAN]]
      BY <1>1
    <2>2. svc \in [spatial : 1..3, temporal : 1..3, maxSpatial : 1..3, maxTemporal : 1..3]
      BY <1>1
    <2>3. count \in 1..3 /\ steps \in 0..MaxSteps
      BY <1>1 DEF LayerBounds
    <2> QED
      BY <1>1, <2>1, <2>2, <2>3, Zenon DEF Layers!TypeOK
  <1>3. 1 \in Layers!LayerIds
    BY <1>2, LayerIdsAre
  <1>4. 1..count = {1}
    BY <1>1
  <1>5. Layers!Sending = {1}
    BY <1>1, <1>3, <1>4 DEF Layers!Sending
  <1>6. \A i \in Layers!LayerIds : layers[i].kbps >= 1
    BY <1>1
  <1>7. svc.spatial <= Layers!Larger(Len(announced), 1) /\ svc.maxSpatial <= Layers!Larger(Len(announced), 1)
    BY <1>1 DEF Layers!Larger
  <1>8. i420.result # "sent"
    BY <1>1
  <1>9. AnnouncedInv
    BY <1>1, Zenon DEF AnnouncedInv
  <1> QED
    BY <1>1, <1>2, <1>3, <1>4, <1>5, <1>6, <1>7, <1>8, <1>9, Zenon DEF LayersInv

\* What configure_for_publish plans for an option.
LEMMA PlanIs ==
  ASSUME LayerBounds, Layers!TypeOK, NEW option \in Layers!Options
  PROVE  \E n \in 1..3 :
            LET plan == Layers!Plan(option) IN
            /\ Len(plan) = n /\ DOMAIN plan = 1..n
            /\ ~track.managed => n = 1
            /\ \A i \in 1..n : plan[i].bitrate \in Nat /\ plan[i].scale \in Nat /\ plan[i].active \in BOOLEAN
            /\ plan[n].active
            /\ track.managed => \E full \in Sides : Halves([i \in 1..n |-> plan[i].dims], full, n)
  <1>1. option.bitrate \in Nat /\ option.single \in BOOLEAN /\ option.spatial \in 0..3
        /\ Layers!Full(option) \in Sides
    <2>1. option.bitrate \in Bitrates /\ option.single \in BOOLEAN /\ option.spatial \in {0} \cup Limits
          /\ option.dims \in Dims \cup {<<>>}
      BY DEF Layers!Options
    <2>2. Bitrates \subseteq Nat /\ Limits \subseteq 1..3
      BY DEF LayerBounds
    <2>3. Dims \cup {DefaultDims} \subseteq Sides
      BY Zenon DEF LayerBounds, Sides
    <2>4. Layers!Full(option) \in Dims \cup {DefaultDims}
      BY <2>1, Zenon DEF Layers!Full
    <2>5. option.bitrate \in Nat
      BY <2>1, <2>2
    <2>6. option.spatial \in 0..3
      <3>1. {0} \cup Limits \subseteq 0..3
        BY <2>2
      <3> QED
        BY <2>1, <3>1
    <2>7. Layers!Full(option) \in Sides
      BY <2>3, <2>4
    <2> QED
      BY <2>1, <2>5, <2>6, <2>7
  <1>2. CASE ~track.managed
    <2> DEFINE plan == <<[dims |-> Layers!Full(option), bitrate |-> option.bitrate, scale |-> 1, active |-> TRUE]>>
    <2>1. Layers!Plan(option) = plan
      BY <1>2 DEF Layers!Plan, Layers!SingleLayer
    <2>2. /\ Len(plan) = 1 /\ DOMAIN plan = 1..1 /\ 1 \in 1..3
          /\ \A i \in 1..1 : plan[i].bitrate \in Nat /\ plan[i].scale \in Nat /\ plan[i].active = TRUE
      BY <1>1
    <2> HIDE DEF plan
    <2>3. /\ \A i \in 1..1 : plan[i].bitrate \in Nat /\ plan[i].scale \in Nat /\ plan[i].active \in BOOLEAN
          /\ plan[1].active
      <3>1. 1 \in 1..1
        OBVIOUS
      <3> QED
        BY <2>2, <3>1, Zenon
    <2> QED
      BY <1>2, <2>1, <2>2, <2>3, Zenon
  <1>3. CASE track.managed
    <2> DEFINE n == Layers!Smaller(track.cap, Layers!Allowed(option.spatial))
               share(i) == option.bitrate \div 2 ^ (n - i)
               size(i) == <<Layers!Even(Layers!Full(option)[1] \div 2 ^ (n - i)),
                            Layers!Even(Layers!Full(option)[2] \div 2 ^ (n - i))>>
               rate(i) == IF share(i) > 0 THEN share(i)
                          ELSE IF 2 ^ (n - i) = 1 THEN 1250000 ELSE IF 2 ^ (n - i) = 2 THEN 750000 ELSE 300000
               plan == [i \in 1..n |->
                  [dims |-> size(i), bitrate |-> rate(i), scale |-> 2 ^ (n - i), active |-> ~option.single \/ i = n]]
    <2>1. n \in 1..3
      <3>1. track.cap \in 1..3
        BY DEF LayerBounds, Layers!TypeOK, Layers!Tracks
      <3> QED
        BY <1>1, <3>1 DEF Layers!Smaller, Layers!Allowed
    <2>2. Layers!Plan(option) = plan
      BY <1>3 DEF Layers!Plan, Layers!SimulcastLayers
    <2> HIDE DEF n
    <2>3. ASSUME NEW i \in 1..n
          PROVE  rate(i) \in Nat /\ 2 ^ (n - i) \in Nat
      <3>1. 2 ^ (n - i) \in {1, 2, 4}
        BY <2>1, ScaleIs
      <3>2. share(i) \in Nat
        BY <1>1, <3>1, DivIsNatural
      <3> HIDE DEF share
      <3> QED
        BY <3>1, <3>2
    <2> HIDE DEF rate
    <2>4. /\ Len(plan) = n /\ DOMAIN plan = 1..n
          /\ \A i \in 1..n : plan[i].bitrate = rate(i) /\ plan[i].scale = 2 ^ (n - i) /\ plan[i].dims = size(i)
      BY <2>1
    <2>5. \A i \in 1..n : plan[i].active = (~option.single \/ i = n)
      BY Zenon
    <2> HIDE DEF plan
    <2>6. \A i \in 1..n : plan[i].bitrate \in Nat /\ plan[i].scale \in Nat
      BY <2>3, <2>4
    <2>7. n \in 1..n
      BY <2>1
    <2>8. \A i \in 1..n : plan[i].active \in BOOLEAN
      BY <2>5, Zenon
    <2>9. plan[n].active
      BY <2>5, <2>7, Zenon
    <2>10. Halves([i \in 1..n |-> plan[i].dims], Layers!Full(option), n)
      BY <2>4, Zenon DEF Halves
    <2> QED
      BY <1>1, <1>3, <2>1, <2>2, <2>4, <2>6, <2>8, <2>9, <2>10, Zenon
  <1> QED
    BY <1>2, <1>3

\* What Configure, SfuAsks and Write leave alone stays as it is.
LEMMA TrackStays ==
  ASSUME track' = track
  PROVE  Layers!LayerIds' = Layers!LayerIds /\ (Layers!Svc' <=> Layers!Svc)
  BY Zenon DEF Layers!LayerIds, Layers!Svc

LEMMA ConfigureKeeps ==
  ASSUME LayerBounds, LayersInv, NEW option \in Layers!Options, Layers!Configure(option)
  PROVE  LayersInv'
  <1> DEFINE plan == Layers!Plan(option)
             n == Len(plan)
             of(i) == IF Layers!Svc THEN plan[n] ELSE plan[i]
             on == {i \in Layers!LayerIds : (Layers!Svc \/ i <= n) /\ of(i).active}
             temporal == Layers!Smaller(track.cap, Layers!Allowed(option.temporal))
  <1>1. Layers!TypeOK /\ AnnouncedInv
    BY Zenon DEF LayersInv
  <1>2. /\ steps < MaxSteps /\ steps' = steps + 1
        /\ count' = IF Layers!Svc THEN 1 ELSE n
        /\ planned' = IF track.managed THEN plan[n].dims ELSE planned
        /\ announced' = [i \in 1..n |-> plan[i].dims]
        /\ svc' = IF Layers!Svc
                  THEN [spatial |-> IF option.single THEN 1 ELSE n, temporal |-> temporal,
                        maxSpatial |-> n, maxTemporal |-> temporal]
                  ELSE svc
        /\ layers' = [i \in Layers!LayerIds |->
              IF Layers!Svc \/ i <= n THEN Layers!Planned(layers[i], of(i)) ELSE Layers!Turned(layers[i], FALSE)]
        /\ onLayers' = on /\ resumed' = {i \in on : i \in resumed \/ layers[i].paused}
        /\ track' = track /\ i420' = i420
    BY Zenon DEF Layers!Configure, Layers!Asks
  <1>3. /\ n \in 1..3 /\ DOMAIN plan = 1..n
        /\ ~track.managed => n = 1
        /\ \A i \in 1..n : plan[i].bitrate \in Nat /\ plan[i].scale \in Nat /\ plan[i].active \in BOOLEAN
        /\ plan[n].active
        /\ track.managed => \E full \in Sides : Halves([i \in 1..n |-> plan[i].dims], full, n)
    BY <1>1, PlanIs, Zenon
  <1> HIDE DEF plan
  <1>4. Layers!LayerIds' = Layers!LayerIds /\ (Layers!Svc' <=> Layers!Svc)
    BY <1>2, TrackStays
  <1>5. /\ Layers!LayerIds \subseteq 1..3 /\ 1 \in Layers!LayerIds
        /\ track.managed /\ ~Layers!Svc => Layers!LayerIds = 1..3
        /\ Layers!Svc => Layers!LayerIds = {1}
    BY <1>1, LayerIdsAre
  <1>6. layers \in [Layers!LayerIds -> VideoEncodings] /\ \A i \in Layers!LayerIds : layers[i].kbps >= 1
    BY <1>1, EncodingsTyped DEF LayersInv
  <1> HIDE DEF n
  <1>7. 1..count' \subseteq Layers!LayerIds /\ count' \in 1..3
    <2>1. CASE Layers!Svc
      BY <1>2, <1>5, <2>1
    <2>2. CASE ~Layers!Svc
      <3>1. count' = n
        BY <1>2, <2>2, Zenon
      <3> QED
        BY <1>3, <1>5, <2>2, <3>1
    <2> QED
      BY <2>1, <2>2
  <1>8. ASSUME NEW i \in Layers!LayerIds
        PROVE  /\ layers'[i] \in VideoEncodings /\ layers'[i].kbps >= 1
               /\ layers'[i].paused <=> i \notin on
               /\ layers[i].key => layers'[i].key
               /\ i \in on /\ layers[i].paused => layers'[i].key
    <2>1. layers[i] \in VideoEncodings /\ layers[i].kbps >= 1
      BY <1>6
    <2>2. CASE Layers!Svc \/ i <= n
      <3>1. of(i).bitrate \in Nat /\ of(i).scale \in Nat /\ of(i).active \in BOOLEAN
        <4>1. n \in 1..n /\ (~Layers!Svc => i \in 1..n)
          BY <1>3, <1>5, <2>2
        <4> QED
          BY <1>3, <4>1
      <3>2. layers'[i] = Layers!Planned(layers[i], of(i))
        BY <1>2, <2>2, Zenon
      <3>3. i \in on <=> of(i).active
        BY <2>2, Zenon
      <3> HIDE DEF of, on
      <3>4. LET z == Layers!Planned(layers[i], of(i)) IN
            /\ z \in VideoEncodings /\ z.kbps >= 1
            /\ z.paused <=> ~of(i).active
            /\ layers[i].key => z.key
            /\ of(i).active /\ layers[i].paused => z.key
        BY <2>1, <3>1, PlannedIs, Zenon
      <3> QED
        BY <3>2, <3>3, <3>4, Zenon
    <2>3. CASE ~(Layers!Svc \/ i <= n)
      <3>1. layers'[i] = Layers!Turned(layers[i], FALSE)
        BY <1>2, <2>3, Zenon
      <3>2. i \notin on
        BY <2>3, Zenon
      <3> HIDE DEF of, on
      <3>3. LET z == Layers!Turned(layers[i], FALSE) IN
            /\ z \in VideoEncodings /\ z.kbps = layers[i].kbps
            /\ z.paused <=> ~FALSE
            /\ layers[i].key => z.key
        BY <2>1, TurnedIs, Zenon
      <3> QED
        BY <2>1, <3>1, <3>2, <3>3, Zenon
    <2> QED
      BY <2>2, <2>3
  <1>9. Layers!TypeOK'
    <2>1. layers' \in [Layers!LayerIds -> VideoEncodings]
      <3>1. DOMAIN layers' = Layers!LayerIds /\ layers' = [i \in Layers!LayerIds |-> layers'[i]]
        BY <1>2, Zenon
      <3> QED
        BY <1>8, <3>1, Zenon
    <2>2. svc' \in [spatial : 1..3, temporal : 1..3, maxSpatial : 1..3, maxTemporal : 1..3]
      <3>1. CASE Layers!Svc
        <4>1. temporal \in 1..3
          <5>1. track.cap \in 1..3
            BY <1>1 DEF LayerBounds, Layers!TypeOK, Layers!Tracks
          <5>2. option.temporal \in {0} \cup Limits
            BY DEF Layers!Options
          <5>3. option.temporal \in 0..3
            <6>1. Limits \subseteq 1..3
              BY DEF LayerBounds
            <6>2. {0} \cup Limits \subseteq 0..3
              BY <6>1
            <6> QED
              BY <5>2, <6>2
          <5> QED
            BY <5>1, <5>3 DEF Layers!Smaller, Layers!Allowed
        <4> HIDE DEF temporal
        <4>2. svc' = [spatial |-> IF option.single THEN 1 ELSE n, temporal |-> temporal,
                      maxSpatial |-> n, maxTemporal |-> temporal]
          BY <1>2, <3>1, Zenon
        <4>3. (IF option.single THEN 1 ELSE n) \in 1..3
          BY <1>3
        <4> QED
          BY <1>3, <4>1, <4>2, <4>3
      <3>2. CASE ~Layers!Svc
        <4>1. svc' = svc
          BY <1>2, <3>2, Zenon
        <4> QED
          BY <1>1, <4>1 DEF Layers!TypeOK
      <3> QED
        BY <3>1, <3>2
    <2>3. track' \in Layers!Tracks
      BY <1>1, <1>2, Zenon DEF Layers!TypeOK
    <2>4. steps' \in 0..MaxSteps
      BY <1>1, <1>2 DEF Layers!TypeOK, LayerBounds
    <2> QED
      BY <1>4, <1>7, <2>1, <2>2, <2>3, <2>4, Zenon DEF Layers!TypeOK, VideoEncodings
  <1>10. \A i \in Layers!LayerIds' : layers'[i].kbps >= 1
    BY <1>4, <1>8, Zenon
  <1>11. Layers!Sending' = onLayers'
    <2>1. onLayers' = on /\ on \subseteq Layers!LayerIds
      BY <1>2
    <2>2. ASSUME NEW i \in on
          PROVE  i \in 1..count'
      <3>1. CASE Layers!Svc
        BY <1>2, <1>5, <3>1
      <3>2. CASE ~Layers!Svc
        <4>1. i <= n /\ i \in Layers!LayerIds /\ count' = n
          BY <1>2, <3>2, Zenon
        <4>2. i \in 1..3
          BY <1>5, <4>1, Zenon
        <4> HIDE DEF on
        <4> QED
          BY <1>3, <4>1, <4>2
      <3> QED
        BY <3>1, <3>2
    <2> HIDE DEF on
    <2>3. Layers!Sending' = {i \in 1..count' : ~layers'[i].paused}
      BY Zenon DEF Layers!Sending
    <2> QED
      BY <1>7, <1>8, <2>1, <2>2, <2>3, Zenon
  <1>12. \A i \in resumed' : i \in Layers!LayerIds' /\ layers'[i].key
    <2>1. on \subseteq Layers!LayerIds
      OBVIOUS
    <2>2. \A i \in resumed : layers[i].key
      BY Zenon DEF LayersInv
    <2> HIDE DEF on
    <2> QED
      BY <1>2, <1>4, <1>8, <2>1, <2>2, Zenon
  <1>13. DOMAIN announced' = 1..n /\ Len(announced') = n /\ \A i \in 1..n : announced'[i] = plan[i].dims
    BY <1>2, <1>3
  <1>14. AnnouncedInv'
    <2>1. track.managed => planned' = announced'[n]
      BY <1>2, <1>3, <1>13
    <2>2. track.managed => \E full \in Sides : Halves(announced', full, n)
      BY <1>2, <1>3, Zenon
    <2> QED
      BY <1>2, <1>3, <1>13, <2>1, <2>2, Zenon DEF AnnouncedInv
  <1>15. Layers!Svc' => /\ svc'.spatial <= Layers!Larger(Len(announced'), 1)
                        /\ svc'.maxSpatial <= Layers!Larger(Len(announced'), 1)
    <2> SUFFICES ASSUME Layers!Svc
                 PROVE  /\ svc'.spatial <= Layers!Larger(Len(announced'), 1)
                        /\ svc'.maxSpatial <= Layers!Larger(Len(announced'), 1)
      BY <1>4
    <2>1. svc'.spatial = (IF option.single THEN 1 ELSE n) /\ svc'.maxSpatial = n
      BY <1>2
    <2> QED
      BY <1>3, <1>13, <2>1 DEF Layers!Larger
  <1>16. (i420.result = "sent" => FrameSent(i420, track))'
    BY <1>2, Zenon DEF LayersInv
  <1> QED
    BY <1>4, <1>7, <1>9, <1>10, <1>11, <1>12, <1>14, <1>15, <1>16, Zenon DEF LayersInv

\* The SFU turns on layers that exist.
LEMMA TurnedOnIs ==
  ASSUME LayersInv, NEW on \in SUBSET DOMAIN announced
  PROVE  /\ Layers!TurnedOn(on) \subseteq 1..count
         /\ 1..count \subseteq Layers!LayerIds
  <1>1. count \in 1..3 /\ 1..count \subseteq Layers!LayerIds
    BY Zenon DEF LayersInv, Layers!TypeOK
  <1> QED
    BY <1>1 DEF Layers!TurnedOn

LEMMA SfuAsksKeeps ==
  ASSUME LayerBounds, LayersInv, NEW on \in SUBSET DOMAIN announced,
         NEW setting \in Layers!Settings, Layers!SfuAsks(on, setting)
  PROVE  LayersInv'
  <1> DEFINE turned == Layers!TurnedOn(on)
  <1>1. Layers!TypeOK
    BY Zenon DEF LayersInv
  <1>2. /\ steps < MaxSteps /\ steps' = steps + 1
        /\ svc' = IF on # {} /\ setting.mode # <<>> THEN Layers!Mode(setting) ELSE svc
        /\ layers' = [i \in Layers!LayerIds |->
              IF i \in turned THEN [Layers!Set(layers[i], setting) EXCEPT !.key = @ \/ svc' # svc]
              ELSE IF i <= count THEN Layers!Turned(layers[i], FALSE) ELSE layers[i]]
        /\ onLayers' = turned /\ resumed' = {i \in turned : i \in resumed \/ layers[i].paused}
        /\ track' = track /\ count' = count /\ planned' = planned /\ announced' = announced /\ i420' = i420
    BY Zenon DEF Layers!SfuAsks, Layers!Asks
  <1>3. turned \subseteq 1..count /\ turned \subseteq Layers!LayerIds /\ 1..count \subseteq Layers!LayerIds
    BY TurnedOnIs, Zenon
  <1> HIDE DEF turned
  <1>4. Layers!LayerIds' = Layers!LayerIds /\ (Layers!Svc' <=> Layers!Svc)
    BY <1>2, TrackStays
  <1>5. layers \in [Layers!LayerIds -> VideoEncodings] /\ \A i \in Layers!LayerIds : layers[i].kbps >= 1
    BY <1>1, EncodingsTyped DEF LayersInv
  <1>6. count \in 1..3 /\ Layers!LayerIds \subseteq 1..3
    BY <1>1, LayerIdsAre, Zenon DEF Layers!TypeOK
  <1>7. /\ setting.bitrate \in Nat /\ setting.scale \in Nat
        /\ setting.mode # <<>> => Layers!Svc /\ setting.mode \in {<<1, 1>>, <<3, 2>>}
    <2>1. setting.bitrate \in Caps /\ setting.scale \in Factors
          /\ setting.mode \in IF Layers!Svc THEN {<<>>, <<1, 1>>, <<3, 2>>} ELSE {<<>>}
      BY DEF Layers!Settings
    <2>2. Caps \subseteq Nat /\ Factors \subseteq Nat
      BY DEF LayerBounds
    <2>3. setting.bitrate \in Nat /\ setting.scale \in Nat
      BY <2>1, <2>2
    <2>4. setting.mode # <<>> => Layers!Svc /\ setting.mode \in {<<1, 1>>, <<3, 2>>}
      BY <2>1, Zenon
    <2> QED
      BY <2>3, <2>4
  <1>8. ASSUME NEW i \in Layers!LayerIds
        PROVE  /\ layers'[i] \in VideoEncodings /\ layers'[i].kbps >= 1
               /\ i \in 1..count => (layers'[i].paused <=> i \notin turned)
               /\ layers[i].key => layers'[i].key
               /\ i \in turned /\ layers[i].paused => layers'[i].key
    <2>1. layers[i] \in VideoEncodings /\ layers[i].kbps >= 1
      BY <1>5
    <2>2. CASE i \in turned
      <3> DEFINE z == Layers!Set(layers[i], setting)
                 more == svc' # svc
      <3>1. layers'[i] = [z EXCEPT !.key = @ \/ more]
        BY <1>2, <2>2, Zenon
      <3>2. /\ z \in VideoEncodings /\ z.kbps >= 1 /\ z.paused = FALSE
            /\ layers[i].key => z.key
            /\ layers[i].paused => z.key
        BY <1>7, <2>1, SetIs
      <3>3. more \in BOOLEAN
        OBVIOUS
      <3> HIDE DEF z, more
      <3>4. /\ layers'[i] \in VideoEncodings /\ layers'[i].kbps = z.kbps /\ layers'[i].paused = FALSE
            /\ z.key => layers'[i].key
        BY <3>1, <3>2, <3>3 DEF VideoEncodings
      <3> QED
        BY <2>2, <3>2, <3>4, Zenon
    <2>3. CASE i \notin turned /\ i <= count
      <3>1. layers'[i] = Layers!Turned(layers[i], FALSE)
        BY <1>2, <2>3, Zenon
      <3>2. LET z == Layers!Turned(layers[i], FALSE) IN
            /\ z \in VideoEncodings /\ z.kbps = layers[i].kbps
            /\ z.paused <=> ~FALSE
            /\ layers[i].key => z.key
        BY <2>1, TurnedIs, Zenon
      <3> QED
        BY <2>1, <2>3, <3>1, <3>2, Zenon
    <2>4. CASE i \notin turned /\ ~(i <= count)
      <3>1. layers'[i] = layers[i]
        BY <1>2, <2>4, Zenon
      <3>2. i \notin 1..count
        BY <1>6, <2>4
      <3> QED
        BY <2>1, <2>4, <3>1, <3>2, Zenon
    <2> QED
      BY <2>2, <2>3, <2>4
  <1>9. \/ svc' = svc
        \/ /\ Layers!Svc /\ svc'.spatial <= svc.maxSpatial /\ svc'.maxSpatial = svc.maxSpatial
           /\ svc' \in [spatial : 1..3, temporal : 1..3, maxSpatial : 1..3, maxTemporal : 1..3]
    <2>1. svc \in [spatial : 1..3, temporal : 1..3, maxSpatial : 1..3, maxTemporal : 1..3]
      BY <1>1, Zenon DEF Layers!TypeOK
    <2>2. CASE ~(on # {} /\ setting.mode # <<>>)
      BY <1>2, <2>2, Zenon
    <2>3. CASE on # {} /\ setting.mode # <<>>
      <3>1. svc' = Layers!Mode(setting) /\ Layers!Svc /\ setting.mode \in {<<1, 1>>, <<3, 2>>}
        BY <1>2, <1>7, <2>3, Zenon
      <3>2. setting.mode[1] \in 1..3 /\ setting.mode[2] \in 1..3
        BY <3>1
      <3>3. /\ Layers!Smaller(setting.mode[1], svc.maxSpatial) \in 1..3
            /\ Layers!Smaller(setting.mode[1], svc.maxSpatial) <= svc.maxSpatial
            /\ Layers!Smaller(setting.mode[2], svc.maxTemporal) \in 1..3
        BY <2>1, <3>2 DEF Layers!Smaller
      <3> QED
        BY <2>1, <3>1, <3>3 DEF Layers!Mode
    <2> QED
      BY <2>2, <2>3
  <1>10. Layers!TypeOK'
    <2>1. layers' \in [Layers!LayerIds -> VideoEncodings]
      <3>1. DOMAIN layers' = Layers!LayerIds /\ layers' = [i \in Layers!LayerIds |-> layers'[i]]
        BY <1>2, Zenon
      <3> QED
        BY <1>8, <3>1, Zenon
    <2>2. svc' \in [spatial : 1..3, temporal : 1..3, maxSpatial : 1..3, maxTemporal : 1..3]
      BY <1>1, <1>9, Zenon DEF Layers!TypeOK
    <2>3. track' \in Layers!Tracks /\ count' \in 1..3
      BY <1>1, <1>2, Zenon DEF Layers!TypeOK
    <2>4. steps' \in 0..MaxSteps
      BY <1>1, <1>2 DEF Layers!TypeOK, LayerBounds
    <2> QED
      BY <1>4, <2>1, <2>2, <2>3, <2>4, Zenon DEF Layers!TypeOK, VideoEncodings
  <1>11. \A i \in Layers!LayerIds' : layers'[i].kbps >= 1
    BY <1>4, <1>8, Zenon
  <1>12. Layers!Sending' = onLayers'
    <2>1. Layers!Sending' = {i \in 1..count' : ~layers'[i].paused}
      BY Zenon DEF Layers!Sending
    <2> QED
      BY <1>2, <1>3, <1>8, <2>1, Zenon
  <1>13. \A i \in resumed' : i \in Layers!LayerIds' /\ layers'[i].key
    <2>1. \A i \in resumed : layers[i].key
      BY Zenon DEF LayersInv
    <2> QED
      BY <1>2, <1>3, <1>4, <1>8, <2>1, Zenon
  <1>14. AnnouncedInv' /\ (1..count)' \subseteq Layers!LayerIds'
    <2>1. AnnouncedInv
      BY Zenon DEF LayersInv
    <2>2. AnnouncedInv'
      BY <1>2, <2>1, Zenon DEF AnnouncedInv
    <2> QED
      BY <1>2, <1>3, <1>4, <2>2, Zenon
  <1>15. Layers!Svc' => /\ svc'.spatial <= Layers!Larger(Len(announced'), 1)
                        /\ svc'.maxSpatial <= Layers!Larger(Len(announced'), 1)
    <2> DEFINE most == Layers!Larger(Len(announced), 1)
    <2> SUFFICES ASSUME Layers!Svc PROVE svc'.spatial <= most /\ svc'.maxSpatial <= most
      BY <1>2, <1>4, Zenon
    <2>1. svc.spatial <= most /\ svc.maxSpatial <= most
      BY Zenon DEF LayersInv
    <2>2. svc.maxSpatial \in Int /\ svc \in [spatial : 1..3, temporal : 1..3, maxSpatial : 1..3, maxTemporal : 1..3]
      BY <1>1 DEF Layers!TypeOK
    <2>3. most \in Int
      <3>1. announced = <<>> \/ Len(announced) \in 1..3
        BY Zenon DEF LayersInv, AnnouncedInv
      <3>2. Len(announced) \in Int
        BY <3>1
      <3> QED
        BY <3>2 DEF Layers!Larger
    <2> HIDE DEF most
    <2> QED
      BY <1>9, <2>1, <2>2, <2>3
  <1>16. (i420.result = "sent" => FrameSent(i420, track))'
    BY <1>2, Zenon DEF LayersInv
  <1> QED
    BY <1>4, <1>10, <1>11, <1>12, <1>13, <1>14, <1>15, <1>16, Zenon DEF LayersInv

LEMMA LayersWriteKeeps ==
  ASSUME LayerBounds, LayersInv, NEW d \in Dims, NEW f \in Layers!Bridged(d), Layers!Write(d, f)
  PROVE  LayersInv'
  <1>1. Layers!TypeOK /\ AnnouncedInv /\ Layers!Sending = onLayers
    BY Zenon DEF LayersInv
  <1>2. /\ track' = track /\ count' = count /\ svc' = svc /\ planned' = planned /\ announced' = announced
        /\ onLayers' = onLayers /\ steps' = steps
    BY Zenon DEF Layers!Write
  <1>3. Layers!LayerIds' = Layers!LayerIds /\ (Layers!Svc' <=> Layers!Svc)
    BY <1>2, TrackStays
  <1>4. layers \in [Layers!LayerIds -> VideoEncodings] /\ \A i \in Layers!LayerIds : layers[i].kbps >= 1
    BY <1>1, EncodingsTyped DEF LayersInv
  <1>5. CASE Layers!Sending = {} \/ Layers!Refused(f)
    <2>1. layers' = layers /\ resumed' = resumed
          /\ (i420' = [result |-> "paused"] \/ i420' = [result |-> "refused"])
      BY <1>5, Zenon DEF Layers!Write
    <2>2. i420'.result # "sent"
      BY <2>1
    <2>3. Layers!TypeOK'
      BY <1>1, <1>2, <1>3, <2>1, Zenon DEF Layers!TypeOK
    <2>4. AnnouncedInv'
      BY <1>1, <1>2, Zenon DEF AnnouncedInv
    <2>5. Layers!Sending' = Layers!Sending
      BY <1>2, <2>1, Zenon DEF Layers!Sending
    <2> QED
      BY <1>2, <1>3, <2>1, <2>2, <2>3, <2>4, <2>5, Zenon DEF LayersInv
  <1>6. CASE Layers!Sending # {} /\ ~Layers!Refused(f)
    <2> DEFINE on == Layers!Sending
    <2>1. /\ i420' = [result |-> "sent", layers |-> [i \in on |-> Layers!Sent(i, f)], due |-> resumed,
                      asked |-> onLayers, decoded |-> d, from |-> f, announced |-> announced]
          /\ layers' = [i \in Layers!LayerIds |-> IF i \in on THEN [layers[i] EXCEPT !.key = FALSE] ELSE layers[i]]
          /\ resumed' = resumed \ on
      BY <1>6, Zenon DEF Layers!Write
    <2>2. on \subseteq 1..count /\ 1..count \subseteq Layers!LayerIds
      BY Zenon DEF LayersInv, Layers!Sending
    <2> HIDE DEF on
    <2>3. ASSUME NEW i \in Layers!LayerIds
          PROVE  /\ layers'[i] \in VideoEncodings /\ layers'[i].kbps = layers[i].kbps
                 /\ layers'[i].paused = layers[i].paused
                 /\ i \notin on => layers'[i] = layers[i]
      <3>1. layers'[i] = IF i \in on THEN [layers[i] EXCEPT !.key = FALSE] ELSE layers[i]
        BY <2>1, Zenon
      <3>2. layers[i] \in VideoEncodings
        BY <1>4
      <3> QED
        BY <3>1, <3>2 DEF VideoEncodings
    <2>4. Layers!TypeOK'
      <3>1. layers' \in [Layers!LayerIds -> VideoEncodings]
        <4>1. DOMAIN layers' = Layers!LayerIds /\ layers' = [i \in Layers!LayerIds |-> layers'[i]]
          BY <2>1, Zenon
        <4> QED
          BY <2>3, <4>1, Zenon
      <3> QED
        BY <1>1, <1>2, <1>3, <3>1, Zenon DEF Layers!TypeOK, VideoEncodings
    <2>5. \A i \in Layers!LayerIds' : layers'[i].kbps >= 1
      BY <1>3, <1>4, <2>3, Zenon
    <2>6. Layers!Sending' = onLayers'
      <3>1. Layers!Sending' = {i \in 1..count : ~layers'[i].paused}
        BY <1>2, Zenon DEF Layers!Sending
      <3>2. Layers!Sending = {i \in 1..count : ~layers[i].paused}
        BY Zenon DEF Layers!Sending
      <3>3. \A i \in 1..count : layers'[i].paused = layers[i].paused
        BY <2>2, <2>3, Zenon
      <3>4. Layers!Sending' = Layers!Sending
        BY <3>1, <3>2, <3>3, Zenon
      <3> QED
        BY <1>1, <1>2, <3>4, Zenon
    <2>7. \A i \in resumed' : i \in Layers!LayerIds' /\ layers'[i].key
      <3>1. \A i \in resumed : i \in Layers!LayerIds /\ layers[i].key
        BY Zenon DEF LayersInv
      <3>2. ASSUME NEW i \in resumed'
            PROVE  i \in Layers!LayerIds' /\ layers'[i].key
        <4>1. i \in resumed /\ i \notin on
          BY <2>1, <3>2, Zenon
        <4> QED
          BY <1>3, <2>3, <3>1, <4>1, Zenon
      <3> QED
        BY <3>2
    <2>8. AnnouncedInv' /\ (1..count)' \subseteq Layers!LayerIds'
      <3>1. AnnouncedInv'
        BY <1>1, <1>2, Zenon DEF AnnouncedInv
      <3> QED
        BY <1>2, <1>3, <2>2, <3>1, Zenon
    <2>9. Layers!Svc' => /\ svc'.spatial <= Layers!Larger(Len(announced'), 1)
                         /\ svc'.maxSpatial <= Layers!Larger(Len(announced'), 1)
      BY <1>2, <1>3, Zenon DEF LayersInv
    <2>10. FrameSent(i420', track)
      <3> DEFINE w == i420'
      <3>1. /\ w.layers = [i \in on |-> Layers!Sent(i, f)] /\ w.due = resumed /\ w.asked = onLayers
            /\ w.decoded = d /\ w.from = f /\ w.announced = announced
        BY <2>1
      <3>2. DOMAIN w.layers = on /\ on = onLayers
        BY <1>1, <3>1, Zenon DEF on
      <3>3. d \in Sides /\ f \in Sides
        BY BridgedHasSides
      <3>4. f[1] % 2 = 0 /\ f[2] % 2 = 0 /\ (track.managed /\ planned[1] > 0 => planned = f)
        <4>1. f[1] % 2 # 1 /\ f[2] % 2 # 1 /\ (track.managed /\ planned[1] > 0 => planned = f)
          BY <1>6, Zenon DEF Layers!Refused
        <4>2. f[1] \in Nat /\ f[2] \in Nat
          BY <3>3 DEF Sides
        <4> QED
          BY <4>1, <4>2
      <3> HIDE DEF w
      <3>5. ASSUME NEW i \in on
            PROVE  LayerSent(w, i, track)
        <4>1. layers[i] \in VideoEncodings /\ layers[i].kbps >= 1 /\ i \in Layers!LayerIds
          BY <1>4, <2>2
        <4>2. w.layers[i] = [config |-> Layers!Config(i, f), scale |-> layers[i].scale, key |-> Layers!Keyed(i, f)]
          BY <3>1 DEF Layers!Sent
        <4> DEFINE out == w.layers[i]
                   c == Layers!Config(i, f)
                   key == Layers!Keyed(i, f)
        <4>3. i \in resumed => key
          BY Zenon DEF LayersInv, Layers!Keyed
        <4>4. /\ c.dims = <<Layers!ScaledEven(f[1], Layers!Larger(layers[i].scale, 1)),
                            Layers!ScaledEven(f[2], Layers!Larger(layers[i].scale, 1))>>
              /\ c.kbps = layers[i].kbps
              /\ Layers!Svc => c.mode = <<svc.spatial, svc.temporal>>
          BY DEF Layers!Config, Layers!LayerDims
        <4>5. out.config = c /\ out.scale = layers[i].scale /\ out.key = key
          BY <4>2
        <4> HIDE DEF c, key
        <4>6. layers[i].scale \in Nat /\ layers[i].kbps \in Nat \ {0}
          BY <4>1 DEF VideoEncodings
        <4>7. Layers!Svc => /\ c.mode \in (1..3) \X (1..3)
                            /\ c.mode[1] <= Layers!Larger(Len(announced), 1)
          <5>1. svc \in [spatial : 1..3, temporal : 1..3, maxSpatial : 1..3, maxTemporal : 1..3]
            BY <1>1, Zenon DEF Layers!TypeOK
          <5>2. Layers!Svc => svc.spatial <= Layers!Larger(Len(announced), 1)
            BY Zenon DEF LayersInv
          <5>3. svc.spatial \in 1..3 /\ svc.temporal \in 1..3
            BY <5>1
          <5>4. <<svc.spatial, svc.temporal>> \in (1..3) \X (1..3) /\ <<svc.spatial, svc.temporal>>[1] = svc.spatial
            BY <5>3
          <5> QED
            BY <4>4, <5>2, <5>4, Zenon
        <4> HIDE DEF out
        <4>8. i \in w.due => out.key
          BY <3>1, <4>3, <4>5, Zenon
        <4>9. out.scale \in Nat /\ out.config.kbps \in Nat \ {0}
          BY <4>4, <4>5, <4>6
        <4>10. out.config.dims = <<Layers!ScaledEven(w.from[1], Layers!Larger(out.scale, 1)),
                                   Layers!ScaledEven(w.from[2], Layers!Larger(out.scale, 1))>>
          BY <3>1, <4>4, <4>5, Zenon
        <4>11. track.codec = "vp9" /\ track.managed =>
                 /\ out.config.mode \in (1..3) \X (1..3)
                 /\ out.config.mode[1] <= Layers!Larger(Len(w.announced), 1)
          BY <3>1, <4>5, <4>7, Zenon DEF Layers!Svc
        <4> QED
          BY <4>8, <4>9, <4>10, <4>11, Zenon DEF LayerSent, out
      <3>6. ASSUME announced # <<>>
            PROVE  \E n \in 1..3 :
                      /\ DOMAIN announced = 1..n /\ Len(announced) = n
                      /\ track.managed => f = announced[n] /\ \E full \in Sides : Halves(announced, full, n)
        <4>1. PICK n \in 1..3 :
                 /\ DOMAIN announced = 1..n /\ Len(announced) = n
                 /\ track.managed => planned = announced[n] /\ \E full \in Sides : Halves(announced, full, n)
          BY <1>1, <3>6, Zenon DEF AnnouncedInv
        <4>2. track.managed => planned[1] > 0
          <5> SUFFICES ASSUME track.managed PROVE planned[1] > 0
            OBVIOUS
          <5>1. PICK full \in Sides : Halves(announced, full, n)
            BY <4>1
          <5>2. n \in 1..n /\ 2 ^ (n - n) = 1
            <6>1. n \in 1..n
              OBVIOUS
            <6> QED
              BY <6>1, ScaleIs
          <5>3. planned[1] = Layers!Even(full[1] \div 1)
            <6>1. announced[n] = <<Layers!Even(full[1] \div 1), Layers!Even(full[2] \div 1)>>
              BY <5>1, <5>2 DEF Halves
            <6>2. planned = announced[n]
              BY <4>1
            <6> QED
              BY <6>1, <6>2
          <5>4. full[1] \div 1 \in Int
            BY <5>1 DEF Sides
          <5>5. Layers!Even(full[1] \div 1) \in Nat /\ Layers!Even(full[1] \div 1) >= 2
            BY <5>4, EvenIs
          <5> QED
            BY <5>3, <5>5
        <4> QED
          BY <3>4, <4>1, <4>2, Zenon
      <3>7. FrameSent(w, track)
        BY <3>1, <3>2, <3>3, <3>4, <3>5, <3>6, Zenon DEF FrameSent
      <3> QED
        BY <3>7 DEF w
    <2>11. (i420.result = "sent" => FrameSent(i420, track))'
      BY <1>2, <2>10, Zenon
    <2> QED
      BY <2>4, <2>5, <2>6, <2>7, <2>8, <2>9, <2>11, Zenon DEF LayersInv
  <1>7. (Layers!Sending = {} \/ Layers!Refused(f)) \/ (Layers!Sending # {} /\ ~Layers!Refused(f))
    BY Zenon
  <1> QED
    BY <1>5, <1>6, <1>7, Zenon

LEMMA LayersStep ==
  ASSUME LayerBounds, LayersInv, part = "layers",
         [SuiteNext]_<<part, vars, encoderVars, audioVars, pacerVars, videoVars, pictureVars, layerVars, pcmVars>>
  PROVE  LayersInv'
  <1>1. Layers!Next \/ UNCHANGED layerVars
    BY Zenon DEF SuiteNext
  <1>2. CASE Layers!Next
    <2>1. CASE \E option \in Layers!Options : Layers!Configure(option)
      BY <2>1, ConfigureKeeps
    <2>2. CASE \E on \in SUBSET DOMAIN announced, setting \in Layers!Settings : Layers!SfuAsks(on, setting)
      BY <2>2, SfuAsksKeeps
    <2>3. CASE \E d \in Dims : \E f \in Layers!Bridged(d) : Layers!Write(d, f)
      BY <2>3, LayersWriteKeeps
    <2> QED
      BY <1>2, <2>1, <2>2, <2>3, Zenon DEF Layers!Next
  <1>3. CASE UNCHANGED layerVars
    <2>1. /\ track' = track /\ layers' = layers /\ count' = count /\ svc' = svc /\ planned' = planned
          /\ announced' = announced /\ i420' = i420 /\ onLayers' = onLayers /\ resumed' = resumed /\ steps' = steps
      BY <1>3, Zenon DEF layerVars
    <2>2. Layers!LayerIds' = Layers!LayerIds /\ (Layers!Svc' <=> Layers!Svc)
      BY <2>1, TrackStays
    <2>3. Layers!TypeOK'
      BY <2>1, <2>2, Zenon DEF LayersInv, Layers!TypeOK
    <2>4. Layers!Sending' = Layers!Sending
      BY <2>1, Zenon DEF Layers!Sending
    <2>5. AnnouncedInv'
      BY <2>1, Zenon DEF LayersInv, AnnouncedInv
    <2> QED
      BY <2>1, <2>2, <2>3, <2>4, <2>5, Zenon DEF LayersInv
  <1> QED
    BY <1>1, <1>2, <1>3

\* Whatever is configured, whatever the SFU turns on, off or down, and whatever
\* sizes the frames have: a frame that goes out fits what was announced, every
\* resumed layer begins with a keyframe, and no pixel is missed.
THEOREM LayersAlwaysFit == ASSUME LayerBounds PROVE Suite => []LayersFit
  <1> DEFINE all == <<part, vars, encoderVars, audioVars, pacerVars, videoVars, pictureVars, layerVars, pcmVars>>
             Inv == part = "layers" => LayersInv
  <1>1. SuiteInit => Inv
    BY LayersInit, Zenon DEF SuiteInit
  <1>2. Inv /\ [SuiteNext]_all => Inv'
    <2> SUFFICES ASSUME Inv, [SuiteNext]_all, part' = "layers" PROVE LayersInv'
      OBVIOUS
    <2>1. part = "layers"
      BY Zenon DEF SuiteNext
    <2> QED BY <2>1, LayersStep
  <1>3. Inv => LayersFit
    <2> SUFFICES ASSUME LayersInv PROVE Layers!TypeOK /\ Layers!LayersFit
      BY Zenon DEF LayersFit
    <2> QED BY SentFits, Zenon DEF LayersInv
  <1> QED BY <1>1, <1>2, <1>3, PTL DEF Suite

-----------------------------------------------------------------------------
(* Whether a receiver can read the pictures, for any sizes, any number of  *)
(* spatial layers, and keyframes, new encoders and modes in any order.     *)

\* A packet has room for the longest descriptor and structure, a place in a group
\* of four survives the wrap of the ids, and two pictures are less than half of the
\* timestamps apart: that is as far as a difference of 32 bits has a sign.
PictureBounds ==
    /\ PidModulus \in Nat \ {0} /\ PidModulus % 4 = 0
    /\ Tl0Modulus \in Nat \ {0} /\ TsModulus \in Nat \ {0} /\ MaxTime \in Nat
    /\ MaxSpatial \in Nat \ {0} /\ MaxPayload \in Nat /\ MaxPayload > 16 + 4 * MaxSpatial
    /\ Sizes \subseteq Nat /\ TimeSteps \subseteq Nat /\ \A t \in TimeSteps : t < TsModulus \div 2

PictureModes ==
    [codec : {"vp8", "vp9", "svc"}, spatial : Nat \ {0}, temporal : 1..3]

\* The encoder goes on where the packetizer is, in the group last announced.
PlaceInv ==
    vpx # -1 =>
        /\ picture.packets # <<>> /\ picture.mode = mode
        /\ vpx \in 0..(Pictures!PatternLen(mode) - 1)
        /\ packetizer.gof = (vpx + 1) % Pictures!PatternLen(mode)
        /\ learned.gof = Pictures!Announced(mode)
        /\ learned.pid \in 0..(PidModulus - 1)
        /\ (picture.pid - learned.pid) % Pictures!PatternLen(mode) = vpx

\* What the packetizer counts is what the last picture had.
CountsInv ==
    IF picture.packets = <<>> THEN time = 0 /\ decoder.last = -1 /\ vpx = -1
    ELSE /\ picture.mode.codec = mode.codec
         /\ picture.pid \in 0..(PidModulus - 1) /\ picture.tl0 \in 0..(Tl0Modulus - 1)
         /\ packetizer.pid = (picture.pid + 1) % PidModulus
         /\ packetizer.tl0 = IF Pictures!Svc THEN picture.tl0 ELSE (picture.tl0 + 1) % Tl0Modulus
         /\ decoder.last = time % TsModulus /\ decoder.ticks = time

\* The smallest of some numbers, for proofs by the first that would fail.
LEMMA Earliest ==
  ASSUME NEW T \in SUBSET Nat, T # {}
  PROVE  \E x \in T : \A y \in T : x <= y
  <1> DEFINE Initial == {1..n : n \in T}
  <1>1. /\ Initial \subseteq FiniteSubsetsOf(Nat) /\ Initial # {}
        /\ IsWellFoundedOn(StrictSubsetOrdering(Nat), FiniteSubsetsOf(Nat))
    <2>1. \A n \in T : 1..n \in FiniteSubsetsOf(Nat)
      BY FS_Interval DEF FiniteSubsetsOf
    <2>2. IsWellFoundedOn(StrictSubsetOrdering(Nat), FiniteSubsetsOf(Nat))
      BY FS_StrictSubsetOrderingWellFounded
    <2>3. Initial \subseteq FiniteSubsetsOf(Nat) /\ Initial # {}
      BY <2>1
    <2> QED
      BY <2>2, <2>3
  <1> HIDE DEF Initial
  <1>2. PICK X \in Initial : \A Y \in Initial : <<Y, X>> \notin StrictSubsetOrdering(Nat)
    BY <1>1, WFMin
  <1>3. PICK x \in T : X = 1..x
    BY DEF Initial
  <1>4. ASSUME NEW y \in T, y < x
        PROVE  FALSE
    <2>1. 1..y \in FiniteSubsetsOf(Nat) /\ 1..x \in FiniteSubsetsOf(Nat) /\ 1..y \in Initial
      BY <1>1, <1>3 DEF Initial
    <2>2. 1..y \subseteq 1..x /\ 1..y # 1..x
      <3>1. x \in 1..x /\ x \notin 1..y
        BY <1>4
      <3> QED
        BY <1>4, <3>1
    <2>3. <<1..y, 1..x>> \in StrictSubsetOrdering(Nat)
      BY <2>1, <2>2 DEF StrictSubsetOrdering
    <2> QED
      BY <1>2, <1>3, <2>1, <2>3
  <1>5. \A y \in T : x <= y
    BY <1>4
  <1> QED
    BY <1>5

\* The fold of a sum adds the numbers from the left.
LEMMA FoldSums ==
  ASSUME NEW s \in Seq(Int), NEW sum \in [0..Len(s) -> Int], sum[0] = 0,
         \A i \in 1..Len(s) : sum[i] = sum[i - 1] + s[i]
  PROVE  Pictures!FoldLeft(+, 0, s) = sum[Len(s)]
  <1> DEFINE n == Len(s)
             Unfolded(g, t) == IF t = {} THEN 0 ELSE g[t \ {Pictures!Max(t)}] + s[Pictures!Max(t)]
             Folds(g, k) == g = [t \in SUBSET (1..k) |-> Unfolded(g, t)]
             total == Pictures!FoldLeft(+, 0, s)
             iter == CHOOSE g : g = [t \in SUBSET (DOMAIN s) |-> Unfolded(g, t)]
  <1>1. total = iter[DOMAIN s]
    BY DEF Pictures!FoldLeft, Pictures!MapThenFoldSet
  <1> HIDE DEF total
  <1>2. n \in Nat /\ DOMAIN s = 1..n /\ n \in 0..n
    OBVIOUS
  <1> HIDE DEF n
  <1>3. ASSUME NEW t \in SUBSET (1..n), t # {}
        PROVE  Pictures!Max(t) \in t /\ \A y \in t : y <= Pictures!Max(t)
    <2> DEFINE T == {n - x : x \in t}
    <2>1. T \in SUBSET Nat /\ T # {}
      <3>1. \A x \in t : n - x \in Nat
        BY <1>2
      <3>2. T \subseteq Nat
        BY <3>1, Zenon
      <3>3. T # {}
        BY <1>3, Zenon
      <3> QED
        BY <3>2, <3>3
    <2>2. PICK m \in T : \A y \in T : m <= y
      <3> HIDE DEF T
      <3> QED
        BY <2>1, Earliest
    <2>3. PICK x \in t : m = n - x
      BY DEF T
    <2>4. \A y \in t : x >= y
      <3>1. ASSUME NEW y \in t
            PROVE  x >= y
        <4>1. n - y \in T
          OBVIOUS
        <4>2. n - x <= n - y
          BY <2>2, <2>3, <4>1
        <4>3. x \in Int /\ y \in Int /\ n \in Int
          BY <1>2
        <4> HIDE DEF T
        <4> QED
          BY <4>2, <4>3
      <3> QED
        BY <3>1
    <2>5. Pictures!Max(t) \in t /\ \A y \in t : Pictures!Max(t) >= y
      BY <2>4 DEF Pictures!Max
    <2> QED
      BY <1>2, <2>5
  <1> HIDE DEF iter
  <1>4. \E g : Folds(g, 0)
    <2> DEFINE g == [t \in SUBSET (1..0) |-> 0]
    <2>1. \A t \in SUBSET (1..0) : t = {}
      OBVIOUS
    <2>2. g = [t \in SUBSET (1..0) |-> Unfolded(g, t)]
      BY <2>1, Zenon
    <2> QED
      BY <2>2, Zenon
  <1>5. ASSUME NEW k \in 0..(n - 1), NEW g, Folds(g, k)
        PROVE  \E h : Folds(h, k + 1)
    <2> DEFINE h == [t \in SUBSET (1..(k + 1)) |-> IF k + 1 \in t THEN g[t \ {k + 1}] + s[k + 1] ELSE g[t]]
    <2>1. \A t \in SUBSET (1..k) : g[t] = Unfolded(g, t) /\ t \in SUBSET (1..(k + 1)) /\ k + 1 \notin t
                                  /\ t \in SUBSET (1..n)
      <3>1. \A t \in SUBSET (1..k) : g[t] = Unfolded(g, t)
        <4> HIDE DEF Unfolded
        <4> QED
          BY <1>5, Zenon
      <3>2. \A t \in SUBSET (1..k) : t \in SUBSET (1..(k + 1)) /\ k + 1 \notin t /\ t \in SUBSET (1..n)
        BY <1>2
      <3> QED
        BY <3>1, <3>2, Zenon
    <2>2. \A t \in SUBSET (1..k) : h[t] = g[t]
      BY <2>1, Zenon
    <2>3. ASSUME NEW t \in SUBSET (1..(k + 1))
          PROVE  h[t] = Unfolded(h, t)
      <3>1. CASE k + 1 \in t
        <4>1. t \in SUBSET (1..n) /\ t # {} /\ t \ {k + 1} \in SUBSET (1..k)
          BY <1>2, <3>1
        <4>2. Pictures!Max(t) = k + 1
          <5>1. Pictures!Max(t) \in t /\ \A y \in t : y <= Pictures!Max(t)
            BY <1>3, <4>1
          <5>2. Pictures!Max(t) \in 1..(k + 1) /\ k + 1 <= Pictures!Max(t)
            BY <3>1, <5>1, Zenon
          <5> QED
            BY <5>2
        <4>3. h[t \ {k + 1}] = g[t \ {k + 1}]
          BY <2>2, <4>1, Zenon
        <4>4. h[t] = g[t \ {k + 1}] + s[k + 1]
          BY <3>1, Zenon
        <4> HIDE DEF h
        <4> QED
          BY <4>1, <4>2, <4>3, <4>4, Zenon
      <3>2. CASE k + 1 \notin t
        <4>1. t \in SUBSET (1..k)
          <5> HIDE DEF h
          <5> QED
            BY <3>2
        <4>2. h[t] = g[t] /\ g[t] = Unfolded(g, t)
          BY <2>1, <2>2, <4>1, Zenon
        <4>3. t \ {Pictures!Max(t)} \in SUBSET (1..k)
          BY <4>1
        <4>4. h[t \ {Pictures!Max(t)}] = g[t \ {Pictures!Max(t)}]
          BY <2>2, <4>3, Zenon
        <4> HIDE DEF h
        <4> QED
          BY <4>2, <4>4, Zenon
      <3> QED
        BY <3>1, <3>2
    <2>4. h = [t \in SUBSET (1..(k + 1)) |-> h[t]]
      OBVIOUS
    <2> HIDE DEF h
    <2>5. h = [t \in SUBSET (1..(k + 1)) |-> Unfolded(h, t)]
      <3> HIDE DEF Unfolded
      <3> QED
        BY <2>3, <2>4, Zenon
    <2> QED
      BY <2>5, Zenon
  <1> HIDE DEF Folds
  <1>6. \E g : Folds(g, n)
    <2> DEFINE Fails == {k \in 0..n : ~\E g : Folds(g, k)}
    <2> SUFFICES ASSUME Fails # {} PROVE FALSE
      BY <1>2
    <2>1. Fails \in SUBSET Nat
      OBVIOUS
    <2>2. PICK k \in Fails : \A y \in Fails : k <= y
      <3> HIDE DEF Fails
      <3> QED
        BY <2>1, Earliest
    <2>3. k # 0 /\ k \in 0..n
      BY <1>4
    <2>4. k - 1 \in 0..(n - 1) /\ k - 1 \notin Fails /\ (k - 1) + 1 = k
      <3> HIDE DEF Fails
      <3> QED
        BY <1>2, <2>2, <2>3
    <2>5. \E g : Folds(g, k - 1)
      BY <1>2, <2>4
    <2>6. \E g : Folds(g, (k - 1) + 1)
      BY <1>5, <2>4, <2>5, Zenon
    <2> QED
      BY <2>4, <2>6, Zenon
  <1>7. Folds(iter, n)
    BY <1>2, <1>6, Zenon DEF Folds, iter
  <1>8. ASSUME NEW k \in 0..n
        PROVE  iter[1..k] = Unfolded(iter, 1..k)
    <2>1. 1..k \in SUBSET (1..n)
      BY <1>2
    <2> HIDE DEF Unfolded
    <2> QED
      BY <1>7, <2>1, Zenon DEF Folds
  <1>9. ASSUME NEW k \in 1..n
        PROVE  iter[1..k] = iter[1..(k - 1)] + s[k]
    <2>1. 1..k \in SUBSET (1..n) /\ 1..k # {} /\ k \in 1..k /\ k \in 0..n
      <3>1. k \in 1..k /\ k \in 0..n
        BY <1>2
      <3>2. 1..k \subseteq 1..n
        BY <1>2
      <3> QED
        BY <3>1, <3>2, Zenon
    <2>2. Pictures!Max(1..k) = k
      <3>1. Pictures!Max(1..k) \in 1..k /\ \A y \in 1..k : y <= Pictures!Max(1..k)
        BY <1>3, <2>1
      <3> QED
        BY <2>1, <3>1
    <2>3. (1..k) \ {k} = 1..(k - 1)
      OBVIOUS
    <2> QED
      BY <1>8, <2>1, <2>2, <2>3, Zenon
  <1>10. iter[1..0] = 0
    <2>1. 1..0 = {} /\ 0 \in 0..n
      BY <1>2
    <2> QED
      BY <1>8, <2>1, Zenon
  <1> HIDE DEF Unfolded
  <1>11. \A k \in 0..n : iter[1..k] = sum[k]
    <2> DEFINE Fails == {k \in 0..n : iter[1..k] # sum[k]}
    <2> SUFFICES ASSUME Fails # {} PROVE FALSE
      OBVIOUS
    <2>1. Fails \in SUBSET Nat
      OBVIOUS
    <2>2. PICK k \in Fails : \A y \in Fails : k <= y
      <3> HIDE DEF Fails
      <3> QED
        BY <2>1, Earliest
    <2>3. k # 0 /\ k \in 0..n /\ iter[1..k] # sum[k]
      BY <1>10
    <2>4. k \in 1..n /\ k - 1 \in 0..n /\ k - 1 \notin Fails
      <3> HIDE DEF Fails
      <3> QED
        BY <1>2, <2>2, <2>3
    <2>5. iter[1..(k - 1)] = sum[k - 1]
      BY <2>4
    <2>6. sum[k] = sum[k - 1] + s[k]
      BY <2>4 DEF n
    <2> QED
      BY <1>9, <2>3, <2>4, <2>5, <2>6, Zenon
  <1>12. total = sum[n]
    BY <1>1, <1>2, <1>11, Zenon
  <1> QED
    BY <1>12 DEF total, n

\* What a flattened list is made of, one part after another.
LEMMA FlattenIs ==
  ASSUME NEW n \in Nat \ {0}, NEW q, DOMAIN q = 1..n, Len(q) = n
  PROVE  \E flat : /\ flat[1] = q[1]
                   /\ \A i \in 2..n : flat[i] = flat[i - 1] \o q[i]
                   /\ Pictures!FlattenSeq(q) = flat[n]
  <1> DEFINE Unfolded(g, i) == IF i = 1 THEN q[i] ELSE g[i - 1] \o q[i]
             Flattens(g, k) == g = [i \in 1..k |-> Unfolded(g, i)]
             flat == CHOOSE g : g = [i \in 1..Len(q) |-> Unfolded(g, i)]
  <1>1. Pictures!FlattenSeq(q) = flat[n]
    BY DEF Pictures!FlattenSeq
  <1> HIDE DEF flat
  <1>2. \E g : Flattens(g, 1)
    <2> DEFINE g == [i \in 1..1 |-> q[1]]
    <2>1. \A i \in 1..1 : i = 1
      OBVIOUS
    <2>2. g = [i \in 1..1 |-> Unfolded(g, i)]
      BY <2>1, Zenon
    <2> QED
      BY <2>2, Zenon
  <1>3. ASSUME NEW k \in 1..(n - 1), NEW g, Flattens(g, k)
        PROVE  \E h : Flattens(h, k + 1)
    <2> DEFINE h == [i \in 1..(k + 1) |-> IF i = k + 1 THEN g[k] \o q[k + 1] ELSE g[i]]
    <2>1. \A i \in 1..k : g[i] = Unfolded(g, i)
      <3> HIDE DEF Unfolded
      <3> QED
        BY <1>3, Zenon
    <2>2. k \in 1..k /\ \A i \in 1..k : i \in 1..(k + 1) /\ i # k + 1 /\ (i # 1 => i - 1 \in 1..k)
      BY <1>3
    <2>3. \A i \in 1..k : h[i] = g[i]
      BY <2>2, Zenon
    <2>4. k + 1 \in 1..(k + 1) /\ k + 1 # 1 /\ (k + 1) - 1 = k
      BY <1>3
    <2>5. ASSUME NEW i \in 1..(k + 1)
          PROVE  h[i] = Unfolded(h, i)
      <3>1. CASE i = k + 1
        <4>1. h[i] = g[k] \o q[k + 1]
          BY <3>1, <2>4, Zenon
        <4>2. h[k] = g[k]
          BY <2>2, <2>3, Zenon
        <4> HIDE DEF h
        <4> QED
          BY <2>4, <3>1, <4>1, <4>2, Zenon
      <3>2. CASE i # k + 1
        <4>1. i \in 1..k
          <5> HIDE DEF h
          <5> QED
            BY <1>3, <3>2
        <4>2. h[i] = Unfolded(g, i)
          BY <2>1, <2>3, <4>1, Zenon
        <4>3. i # 1 => h[i - 1] = g[i - 1]
          BY <2>2, <2>3, <4>1, Zenon
        <4> HIDE DEF h
        <4> QED
          BY <4>2, <4>3, Zenon
      <3> QED
        BY <3>1, <3>2
    <2>6. h = [i \in 1..(k + 1) |-> h[i]]
      OBVIOUS
    <2> HIDE DEF h
    <2>7. h = [i \in 1..(k + 1) |-> Unfolded(h, i)]
      <3> HIDE DEF Unfolded
      <3> QED
        BY <2>5, <2>6, Zenon
    <2> QED
      BY <2>7, Zenon
  <1> HIDE DEF Flattens
  <1>4. \E g : Flattens(g, n)
    <2> DEFINE Fails == {k \in 1..n : ~\E g : Flattens(g, k)}
    <2> SUFFICES ASSUME Fails # {} PROVE FALSE
      OBVIOUS
    <2>1. Fails \in SUBSET Nat
      OBVIOUS
    <2>2. PICK k \in Fails : \A y \in Fails : k <= y
      <3> HIDE DEF Fails
      <3> QED
        BY <2>1, Earliest
    <2>3. k # 1 /\ k \in 1..n
      BY <1>2
    <2>4. k - 1 \in 1..(n - 1) /\ k - 1 \notin Fails /\ (k - 1) + 1 = k
      <3> HIDE DEF Fails
      <3> QED
        BY <2>2, <2>3
    <2>5. \E g : Flattens(g, k - 1)
      BY <2>4
    <2>6. \E g : Flattens(g, (k - 1) + 1)
      BY <1>3, <2>4, <2>5, Zenon
    <2> QED
      BY <2>4, <2>6, Zenon
  <1>5. Flattens(flat, n)
    BY <1>4, Zenon DEF Flattens, flat
  <1>6. \A i \in 1..n : flat[i] = Unfolded(flat, i)
    <2> HIDE DEF Unfolded
    <2> QED
      BY <1>5, Zenon DEF Flattens
  <1>7. 1 \in 1..n /\ \A i \in 2..n : i \in 1..n /\ i # 1
    OBVIOUS
  <1>8. flat[1] = q[1] /\ \A i \in 2..n : flat[i] = flat[i - 1] \o q[i]
    BY <1>6, <1>7, Zenon
  <1> QED
    BY <1>1, <1>8, Zenon

MediaPackets == [sid : Nat, len : Nat, b : BOOLEAN, e : BOOLEAN, ss : BOOLEAN, last : BOOLEAN]

Total(lens) == Pictures!FoldLeft(+, 0, lens)
Lens(q, from, to) == [k \in 1..(to - from + 1) |-> q[from + k - 1].len]

\* A layer of the given size is whole among the packets of q.
WholeIn(q, sid, size) ==
    \E from, to \in DOMAIN q :
        /\ {i \in DOMAIN q : q[i].sid = sid} = from..to
        /\ Total(Lens(q, from, to)) = size
        /\ \A i \in from..to : (q[i].b <=> i = from) /\ (q[i].e <=> i = to)

FitsNetwork(m, p) ==
    p.len + (IF p.ss THEN Pictures!StructureLen(m) ELSE 0) + Pictures!DescriptorLen(m) <= MaxPayload

\* What q, the packets of the k lowest layers, has of a picture.
Readable(q, k, m, key, sizes, highest) ==
    /\ q \in Seq(MediaPackets) /\ q # <<>>
    /\ \A sid \in Pictures!Layers(sizes) : sid < k => WholeIn(q, sid, sizes[sid])
    /\ \A i \in DOMAIN q :
          /\ q[i].sid < k
          /\ q[i].last <=> i = Len(q) /\ highest < k
          /\ q[i].ss <=> i = 1 /\ key /\ m.codec # "vp8"
          /\ FitsNetwork(m, q[i])

LEMMA PiecesAre ==
  ASSUME NEW total \in Nat, NEW head \in Nat \ {0}, NEW room \in Nat \ {0}
  PROVE  LET pieces == Pictures!Pieces(total, head, room) IN
         /\ Len(pieces) \in Nat \ {0} /\ DOMAIN pieces = 1..Len(pieces)
         /\ \A i \in DOMAIN pieces : pieces[i] \in Nat /\ (i = 1 => pieces[i] <= head) /\ (i # 1 => pieces[i] <= room)
         /\ Total(pieces) = total
  <1> DEFINE rest == total - Pictures!Smaller(head, total)
             q == (rest + room - 1) \div room
             n == 1 + q
             pieces == [i \in 1..n |-> IF i = 1 THEN total - rest ELSE Pictures!Smaller(room, rest - (i - 2) * room)]
             sum == [k \in 0..n |-> IF k = 0 THEN 0 ELSE (total - rest) + Pictures!Smaller(rest, (k - 1) * room)]
  <1>1. Pictures!Pieces(total, head, room) = pieces
    BY Zenon DEF Pictures!Pieces
  <1>2. rest \in Nat /\ rest <= total /\ total - rest <= head
    BY DEF Pictures!Smaller
  <1> HIDE DEF rest
  <1>3. q \in Nat /\ room * q \in Nat /\ rest <= room * q /\ (q > 0 => room * q < rest + room)
    <2>1. rest + room - 1 \in Nat
      BY <1>2
    <2>2. q \in Nat /\ room * q <= rest + room - 1 /\ rest + room - 1 < room * q + room
      BY <2>1, DivIs, DivIsNatural
    <2> HIDE DEF q
    <2>3. room * q \in Nat
      BY <2>2
    <2> QED
      BY <1>2, <2>2, <2>3
  <1> HIDE DEF q
  <1>4. n \in Nat \ {0} /\ n - 1 = q
    BY <1>3
  <1>5. ASSUME NEW i \in 2..n
        PROVE  /\ (i - 2) * room \in Nat /\ (i - 1) * room = (i - 2) * room + room
               /\ (i - 2) * room < rest
    <2> DEFINE x == i - 2
    <2>1. x \in Nat /\ x <= q - 1 /\ i - 1 = x + 1 /\ q > 0
      BY <1>3
    <2> HIDE DEF x
    <2>2. room * x <= room * (q - 1) /\ room * (q - 1) = room * q - room /\ room * x \in Nat
      <3>1. room * (q - 1) \in Int /\ room * ((q - 1) + 1) = room * (q - 1) + room
        BY <1>3, TimesKeeps
      <3>2. (q - 1) + 1 = q
        BY <1>3
      <3>3. room * x <= room * (q - 1)
        BY <1>3, <2>1, TimesKeeps
      <3>4. room * x \in Nat
        BY <2>1
      <3> QED
        BY <1>3, <3>1, <3>2, <3>3, <3>4
    <2>3. x * room = room * x /\ (x + 1) * room = room * x + room
      BY <2>1
    <2>4. x * room < rest
      BY <1>2, <1>3, <2>1, <2>2, <2>3
    <2> QED
      BY <2>1, <2>2, <2>3, <2>4 DEF x
  <1>6. \A i \in 1..n : pieces[i] \in Nat /\ (i = 1 => pieces[i] <= head) /\ (i # 1 => pieces[i] <= room)
    <2> SUFFICES ASSUME NEW i \in 1..n
                 PROVE  pieces[i] \in Nat /\ (i = 1 => pieces[i] <= head) /\ (i # 1 => pieces[i] <= room)
      BY Zenon
    <2>1. CASE i = 1
      BY <1>2, <2>1
    <2>2. CASE i # 1
      <3>1. i \in 2..n /\ pieces[i] = Pictures!Smaller(room, rest - (i - 2) * room)
        BY <1>4, <2>2
      <3> HIDE DEF pieces, n
      <3> DEFINE x == (i - 2) * room
      <3>2. x \in Nat /\ x < rest
        BY <1>5, <3>1
      <3> HIDE DEF x
      <3> QED
        BY <1>2, <2>2, <3>1, <3>2 DEF Pictures!Smaller, x
    <2> QED
      BY <2>1, <2>2
  <1>7. Len(pieces) = n /\ DOMAIN pieces = 1..n /\ pieces \in Seq(Int)
    <2>1. Len(pieces) = n /\ DOMAIN pieces = 1..n
      BY <1>4
    <2>2. pieces \in [1..n -> Int]
      <3>1. pieces = [i \in 1..n |-> pieces[i]]
        OBVIOUS
      <3> HIDE DEF pieces
      <3> QED
        BY <1>6, <3>1
    <2> HIDE DEF pieces, n
    <2> QED
      BY <1>4, <2>1, <2>2
  <1>8. sum \in [0..n -> Int] /\ sum[0] = 0 /\ sum[n] = total
    <2>1. \A k \in 0..n : (k - 1) * room \in Int
      BY <1>4
    <2>2. q * room = room * q
      BY <1>3
    <2>3. sum[n] = (total - rest) + Pictures!Smaller(rest, q * room)
      BY <1>4
    <2>4. sum[n] = total
      BY <1>2, <1>3, <2>2, <2>3 DEF Pictures!Smaller
    <2>5. sum[0] = 0
      BY <1>4
    <2>6. \A k \in 0..n : Pictures!Smaller(rest, (k - 1) * room) \in Int
      BY <1>2, <2>1 DEF Pictures!Smaller
    <2>7. sum \in [0..n -> Int]
      BY <1>2, <2>6
    <2> QED
      BY <2>4, <2>5, <2>7
  <1>9. \A i \in 1..n : sum[i] = sum[i - 1] + pieces[i]
    <2> SUFFICES ASSUME NEW i \in 1..n PROVE sum[i] = sum[i - 1] + pieces[i]
      BY Zenon
    <2>1. i \in 0..n /\ i - 1 \in 0..n /\ i # 0
      BY <1>4
    <2>2. CASE i = 1
      <3>1. sum[1] = (total - rest) + Pictures!Smaller(rest, (1 - 1) * room) /\ pieces[1] = total - rest
        BY <2>1, <2>2
      <3>2. sum[1 - 1] = 0
        BY <1>8, <2>2
      <3>3. Pictures!Smaller(rest, (1 - 1) * room) = 0
        BY <1>2 DEF Pictures!Smaller
      <3> HIDE DEF sum, pieces
      <3> QED
        BY <1>2, <2>2, <3>1, <3>2, <3>3
    <2>3. CASE i # 1
      <3> DEFINE x == (i - 2) * room
      <3>1. i \in 2..n /\ i - 1 # 0 /\ (i - 1) - 1 = i - 2
        BY <1>4, <2>3
      <3>2. sum[i] = (total - rest) + Pictures!Smaller(rest, (i - 1) * room)
            /\ sum[i - 1] = (total - rest) + Pictures!Smaller(rest, (i - 2) * room)
            /\ pieces[i] = Pictures!Smaller(room, rest - (i - 2) * room)
        <4>1. sum[i] = (total - rest) + Pictures!Smaller(rest, (i - 1) * room)
          BY <2>1, <2>3, Zenon
        <4>2. sum[i - 1] = (total - rest) + Pictures!Smaller(rest, ((i - 1) - 1) * room)
          BY <2>1, <3>1, Zenon
        <4>3. pieces[i] = Pictures!Smaller(room, rest - (i - 2) * room)
          BY <2>3, Zenon
        <4> QED
          BY <3>1, <4>1, <4>2, <4>3, Zenon
      <3>3. x \in Nat /\ (i - 1) * room = x + room /\ x < rest
        BY <1>5, <3>1
      <3> HIDE DEF sum, pieces
      <3>4. Pictures!Smaller(rest, x + room) = Pictures!Smaller(rest, x) + Pictures!Smaller(room, rest - x)
            /\ Pictures!Smaller(rest, x) \in Int /\ Pictures!Smaller(room, rest - x) \in Int
        <4> HIDE DEF x
        <4> QED
          BY <1>2, <3>3 DEF Pictures!Smaller
      <3> DEFINE small == Pictures!Smaller(rest, x)
                 piece == Pictures!Smaller(room, rest - x)
      <3>5. sum[i] = (total - rest) + (small + piece) /\ sum[i - 1] = (total - rest) + small /\ pieces[i] = piece
            /\ small \in Int /\ piece \in Int
        BY <3>2, <3>3, <3>4, Zenon
      <3> HIDE DEF small, piece
      <3> QED
        BY <1>2, <3>5
    <2> QED
      BY <2>2, <2>3
  <1> HIDE DEF pieces, sum, n
  <1>10. Total(pieces) = total
    BY <1>7, <1>8, <1>9, FoldSums DEF Total
  <1> QED
    BY <1>1, <1>4, <1>6, <1>7, <1>10, Zenon

LEMMA LengthsAre ==
  ASSUME NEW m \in PictureModes
  PROVE  /\ Pictures!DescriptorLen(m) \in {4, 5}
         /\ Pictures!StructureLen(m) \in Nat /\ Pictures!StructureLen(m) <= 11 + 4 * m.spatial
  <1>1. m.spatial \in Nat \ {0} /\ m.temporal \in 1..3
    BY DEF PictureModes
  <1>2. <<0, 5, 10>>[m.temporal] \in 0..10
    BY <1>1
  <1>3. Pictures!DescriptorLen(m) \in {4, 5}
    BY DEF Pictures!DescriptorLen
  <1>4. Pictures!StructureLen(m) = IF m.codec = "svc" THEN 1 + 4 * m.spatial + <<0, 5, 10>>[m.temporal] ELSE 5
    BY Zenon DEF Pictures!StructureLen
  <1> DEFINE group == <<0, 5, 10>>[m.temporal]
  <1> HIDE DEF group
  <1>5. Pictures!StructureLen(m) = IF m.codec = "svc" THEN 1 + 4 * m.spatial + group ELSE 5
    BY <1>4, Zenon DEF group
  <1>6. group \in 0..10
    BY <1>2, Zenon DEF group
  <1> QED
    BY <1>1, <1>3, <1>5, <1>6

\* The packets of one layer.
LEMMA FragmentsAre ==
  ASSUME PictureBounds, NEW m \in PictureModes, m.spatial <= MaxSpatial, NEW key \in BOOLEAN,
         NEW sid \in Nat, NEW size \in Nat, NEW highest
  PROVE  LET q == Pictures!Fragments(m, key, sid, size, highest) IN
         /\ q \in Seq(MediaPackets) /\ Len(q) \in Nat \ {0} /\ DOMAIN q = 1..Len(q)
         /\ \A i \in DOMAIN q :
               /\ q[i].sid = sid /\ (q[i].b <=> i = 1) /\ (q[i].e <=> i = Len(q))
               /\ q[i].last <=> i = Len(q) /\ sid = highest
               /\ q[i].ss <=> i = 1 /\ key /\ sid = 0 /\ m.codec # "vp8"
               /\ FitsNetwork(m, q[i])
         /\ Total(Lens(q, 1, Len(q))) = size
  <1> DEFINE structure == key /\ sid = 0 /\ m.codec # "vp8"
             room == Pictures!Larger(1, MaxPayload - Pictures!DescriptorLen(m))
             head == IF structure
                     THEN Pictures!Larger(1, MaxPayload - Pictures!DescriptorLen(m) - Pictures!StructureLen(m))
                     ELSE room
             pieces == Pictures!Pieces(size, head, room)
             q == [i \in DOMAIN pieces |->
                     [sid |-> sid, len |-> pieces[i], b |-> i = 1, e |-> i = Len(pieces),
                      ss |-> structure /\ i = 1, last |-> i = Len(pieces) /\ sid = highest]]
             n == Len(pieces)
  <1>1. Pictures!Fragments(m, key, sid, size, highest) = q
    BY Zenon DEF Pictures!Fragments
  <1>2. /\ room \in Nat \ {0} /\ room + Pictures!DescriptorLen(m) <= MaxPayload
        /\ head \in Nat \ {0} /\ head <= room
        /\ structure => head + Pictures!StructureLen(m) + Pictures!DescriptorLen(m) <= MaxPayload
    <2>1. MaxPayload \in Nat /\ MaxPayload > 16 + 4 * MaxSpatial /\ MaxSpatial \in Nat
      BY DEF PictureBounds
    <2>2. /\ Pictures!DescriptorLen(m) \in {4, 5} /\ m.spatial \in Nat
          /\ Pictures!StructureLen(m) \in Nat /\ Pictures!StructureLen(m) <= 11 + 4 * m.spatial
      BY LengthsAre DEF PictureModes
    <2> HIDE DEF structure
    <2> QED
      BY <2>1, <2>2 DEF Pictures!Larger
  <1> HIDE DEF room, head
  <1>3. /\ n \in Nat \ {0} /\ DOMAIN pieces = 1..n
        /\ \A i \in 1..n : pieces[i] \in Nat /\ (i = 1 => pieces[i] <= head) /\ (i # 1 => pieces[i] <= room)
        /\ Total(pieces) = size
    BY <1>2, PiecesAre, Zenon
  <1> HIDE DEF pieces
  <1>4. DOMAIN q = 1..n /\ Len(q) = n
    BY <1>3
  <1>5. ASSUME NEW i \in 1..n
        PROVE  q[i] = [sid |-> sid, len |-> pieces[i], b |-> i = 1, e |-> i = n,
                       ss |-> structure /\ i = 1, last |-> i = n /\ sid = highest]
    BY <1>3, Zenon
  <1>6. \A i \in 1..n : (i = 1) \in BOOLEAN /\ (i = n) \in BOOLEAN /\ (structure /\ i = 1) \in BOOLEAN
                        /\ (i = n /\ sid = highest) \in BOOLEAN
    BY Zenon
  <1> HIDE DEF structure, q, n
  <1>7. ASSUME NEW i \in 1..n
        PROVE  /\ q[i] \in MediaPackets
               /\ q[i].sid = sid /\ q[i].len = pieces[i]
               /\ q[i].b <=> i = 1
               /\ q[i].e <=> i = n
               /\ q[i].ss <=> structure /\ i = 1
               /\ q[i].last <=> i = n /\ sid = highest
    <2> DEFINE isFirst == i = 1
               isEnd == i = n
               isSs == structure /\ i = 1
               isLast == i = n /\ sid = highest
    <2>1. isFirst \in BOOLEAN /\ isEnd \in BOOLEAN /\ isSs \in BOOLEAN /\ isLast \in BOOLEAN
      OBVIOUS
    <2>2. q[i] = [sid |-> sid, len |-> pieces[i], b |-> isFirst, e |-> isEnd, ss |-> isSs, last |-> isLast]
      BY <1>5, Zenon
    <2> HIDE DEF isFirst, isEnd, isSs, isLast
    <2>3. pieces[i] \in Nat
      BY <1>3
    <2>4. q[i] \in MediaPackets
      BY <2>1, <2>2, <2>3 DEF MediaPackets
    <2>5. /\ q[i].sid = sid /\ q[i].len = pieces[i] /\ q[i].b = isFirst /\ q[i].e = isEnd
          /\ q[i].ss = isSs /\ q[i].last = isLast
      BY <2>2
    <2> QED
      BY <2>4, <2>5, Zenon DEF isFirst, isEnd, isSs, isLast
  <1>8. q \in Seq(MediaPackets)
    <2>1. q \in [1..n -> MediaPackets]
      <3>1. q = [i \in 1..n |-> q[i]]
        BY <1>4, Zenon DEF q
      <3> QED
        BY <1>7, <3>1, Zenon
    <2> QED
      BY <1>3, <2>1
  <1>9. Lens(q, 1, Len(q)) = pieces
    <2>1. n - 1 + 1 = n
      BY <1>3
    <2>2. \A k \in 1..n : 1 + k - 1 = k
      BY <1>3
    <2>3. Lens(q, 1, Len(q)) = [k \in 1..n |-> q[1 + k - 1].len]
      BY <1>4, <2>1, Zenon DEF Lens
    <2>4. [k \in 1..n |-> q[1 + k - 1].len] = [k \in 1..n |-> pieces[k]]
      <3>1. ASSUME NEW k \in 1..n
            PROVE  q[1 + k - 1].len = pieces[k]
        <4>1. 1 + k - 1 = k /\ q[k].len = pieces[k]
          BY <1>7, <2>2
        <4> QED
          BY <4>1, Zenon
      <3> QED
        BY <3>1, Zenon
    <2>5. pieces = [k \in 1..n |-> pieces[k]]
      <3>1. pieces = [k \in 1..(1 + ((size - Pictures!Smaller(head, size)) + room - 1) \div room) |-> pieces[k]]
        BY Zenon DEF pieces, Pictures!Pieces
      <3> QED
        BY <1>3, <3>1, Zenon
    <2> QED
      BY <2>3, <2>4, <2>5, Zenon
  <1>10. ASSUME NEW i \in 1..n
         PROVE  FitsNetwork(m, q[i])
    <2> DEFINE p == q[i]
               s == Pictures!StructureLen(m)
               d == Pictures!DescriptorLen(m)
    <2>1. p.len = pieces[i] /\ pieces[i] \in Nat /\ (i = 1 => pieces[i] <= head) /\ (i # 1 => pieces[i] <= room)
      BY <1>3, <1>7
    <2>2. p.ss <=> structure /\ i = 1
      BY <1>7
    <2>3. s \in Nat /\ d \in Nat
      BY LengthsAre
    <2> HIDE DEF p, s, d
    <2>4. room + d <= MaxPayload /\ head <= room /\ (structure => head + s + d <= MaxPayload)
          /\ room \in Nat /\ head \in Nat /\ MaxPayload \in Nat
      BY <1>2 DEF s, d, PictureBounds
    <2>5. ~p.ss => p.len + 0 + d <= MaxPayload
      BY <2>1, <2>3, <2>4
    <2>6. p.ss => p.len + s + d <= MaxPayload
      <3>1. p.ss => structure /\ i = 1
        BY <2>2, Zenon
      <3> QED
        BY <2>1, <2>3, <2>4, <3>1
    <2>7. p.len + (IF p.ss THEN s ELSE 0) + d <= MaxPayload
      BY <2>5, <2>6, Zenon
    <2> QED
      BY <2>7, Zenon DEF p, s, d, FitsNetwork
  <1>11. \A i \in 1..n : q[i].ss <=> i = 1 /\ key /\ sid = 0 /\ m.codec # "vp8"
    BY <1>7, Zenon DEF structure
  <1>12. /\ q \in Seq(MediaPackets) /\ Len(q) \in Nat \ {0} /\ DOMAIN q = 1..Len(q)
         /\ Total(Lens(q, 1, Len(q))) = size
    BY <1>3, <1>4, <1>8, <1>9, Zenon
  <1>13. \A i \in DOMAIN q :
               /\ q[i].sid = sid /\ (q[i].b <=> i = 1) /\ (q[i].e <=> i = Len(q))
               /\ q[i].last <=> i = Len(q) /\ sid = highest
               /\ q[i].ss <=> i = 1 /\ key /\ sid = 0 /\ m.codec # "vp8"
               /\ FitsNetwork(m, q[i])
    BY <1>4, <1>7, <1>10, <1>11, Zenon
  <1> QED
    BY <1>1, <1>12, <1>13, Zenon

\* Another layer above those there are, or none where nothing was encoded.
LEMMA LayerJoins ==
  ASSUME PictureBounds, NEW m \in PictureModes, m.spatial <= MaxSpatial, NEW key \in BOOLEAN,
         NEW k \in 1..(m.spatial - 1), NEW sizes \in [0..(m.spatial - 1) -> Nat],
         NEW highest \in Pictures!Layers(sizes), \A t \in Pictures!Layers(sizes) : t <= highest,
         NEW low, Readable(low, k, m, key, sizes, highest)
  PROVE  Readable(low \o (IF k \in Pictures!Layers(sizes)
                          THEN Pictures!Fragments(m, key, k, sizes[k], highest) ELSE <<>>),
                  k + 1, m, key, sizes, highest)
  <1>1. /\ Pictures!Layers(sizes) \subseteq 0..(m.spatial - 1) /\ m.spatial \in Nat
        /\ low \in Seq(MediaPackets) /\ low # <<>>
        /\ \A i \in DOMAIN low : low[i].sid \in Nat /\ low[i].sid < k
    <2>1. Pictures!Layers(sizes) \subseteq 0..(m.spatial - 1)
      BY DEF Pictures!Layers
    <2>2. low \in Seq(MediaPackets) /\ low # <<>> /\ \A i \in DOMAIN low : low[i].sid < k
      BY Zenon DEF Readable
    <2>3. \A i \in DOMAIN low : low[i].sid \in Nat
      <3>1. \A i \in DOMAIN low : low[i] \in MediaPackets
        BY <2>2
      <3> QED
        BY <3>1 DEF MediaPackets
    <2> QED
      BY <2>1, <2>2, <2>3 DEF PictureModes
  <1>2. CASE k \notin Pictures!Layers(sizes)
    <2>1. low \o <<>> = low
      BY <1>1
    <2>2. \A sid \in Pictures!Layers(sizes) : sid < k + 1 => sid < k
      BY <1>1, <1>2
    <2>3. highest < k + 1 <=> highest < k
      BY <1>1, <1>2
    <2>4. \A i \in DOMAIN low : low[i].sid < k + 1
      BY <1>1
    <2>5. Readable(low, k + 1, m, key, sizes, highest)
      BY <2>2, <2>3, <2>4, Zenon DEF Readable
    <2> QED
      BY <1>2, <2>1, <2>5, Zenon
  <1>3. CASE k \in Pictures!Layers(sizes)
    <2> DEFINE top == Pictures!Fragments(m, key, k, sizes[k], highest)
               all == low \o top
               n == Len(low)
               extra == Len(top)
    <2>1. /\ top \in Seq(MediaPackets) /\ extra \in Nat \ {0} /\ DOMAIN top = 1..extra
          /\ \A i \in DOMAIN top :
               /\ top[i].sid = k /\ (top[i].b <=> i = 1) /\ (top[i].e <=> i = extra)
               /\ top[i].last <=> i = extra /\ k = highest
               /\ top[i].ss <=> i = 1 /\ key /\ k = 0 /\ m.codec # "vp8"
               /\ FitsNetwork(m, top[i])
          /\ Total(Lens(top, 1, extra)) = sizes[k]
      <3>1. k \in Nat /\ sizes[k] \in Nat
        BY <1>1
      <3>2. LET q == Pictures!Fragments(m, key, k, sizes[k], highest) IN
            /\ q \in Seq(MediaPackets) /\ Len(q) \in Nat \ {0} /\ DOMAIN q = 1..Len(q)
            /\ \A i \in DOMAIN q :
                  /\ q[i].sid = k /\ (q[i].b <=> i = 1) /\ (q[i].e <=> i = Len(q))
                  /\ q[i].last <=> i = Len(q) /\ k = highest
                  /\ q[i].ss <=> i = 1 /\ key /\ k = 0 /\ m.codec # "vp8"
                  /\ FitsNetwork(m, q[i])
            /\ Total(Lens(q, 1, Len(q))) = sizes[k]
        BY <3>1, FragmentsAre
      <3> QED
        BY <3>2, Zenon
    <2> HIDE DEF top
    <2>2. /\ all \in Seq(MediaPackets) /\ Len(all) = n + extra /\ n \in Nat \ {0}
          /\ DOMAIN all = 1..(n + extra) /\ DOMAIN low = 1..n
          /\ \A i \in 1..n : all[i] = low[i]
          /\ \A j \in 1..extra : all[n + j] = top[j]
          /\ all # <<>>
      BY <1>1, <2>1
    <2> HIDE DEF all, n, extra
    <2>3. \A i \in 1..(n + extra) : i \in 1..n \/ (i - n \in 1..extra /\ i \notin 1..n /\ i = n + (i - n))
      BY <2>1, <2>2
    <2>4. ASSUME NEW i \in 1..(n + extra)
          PROVE  /\ i \in 1..n => all[i] = low[i] /\ all[i].sid < k
                 /\ i \notin 1..n => all[i] = top[i - n] /\ all[i].sid = k /\ i - n \in 1..extra
      <3>1. CASE i \in 1..n
        BY <1>1, <2>2, <3>1
      <3>2. CASE i \notin 1..n
        <4>1. i - n \in 1..extra /\ i = n + (i - n)
          BY <2>3, <3>2
        <4>2. all[n + (i - n)] = top[i - n] /\ top[i - n].sid = k
          BY <2>1, <2>2, <4>1, Zenon
        <4> QED
          BY <3>2, <4>1, <4>2, Zenon
      <3> QED
        BY <3>1, <3>2
    <2>5. WholeIn(all, k, sizes[k])
      <3> DEFINE from == n + 1
                 to == n + extra
      <3>1. from \in 1..(n + extra) /\ to \in 1..(n + extra)
        BY <2>1, <2>2
      <3>2. {i \in DOMAIN all : all[i].sid = k} = from..to
        <4>1. ASSUME NEW i \in 1..(n + extra)
              PROVE  all[i].sid = k <=> i \in from..to
          <5>1. CASE i \in 1..n
            BY <2>1, <2>2, <2>4, <5>1
          <5>2. CASE i \notin 1..n
            BY <2>1, <2>2, <2>4, <5>2
          <5> QED
            BY <5>1, <5>2
        <4>2. \A i \in from..to : i \in 1..(n + extra)
          BY <2>1, <2>2
        <4> HIDE DEF from, to
        <4> QED
          BY <2>2, <4>1, <4>2
      <3>3. Lens(all, from, to) = Lens(top, 1, extra)
        <4>1. to - from + 1 = extra /\ extra - 1 + 1 = extra
          BY <2>1, <2>2
        <4>2. ASSUME NEW j \in 1..extra
              PROVE  all[from + j - 1].len = top[1 + j - 1].len
          <5>1. from + j - 1 = n + j /\ 1 + j - 1 = j
            BY <2>1, <2>2
          <5> QED
            BY <2>2, <5>1, Zenon
        <4> HIDE DEF from, to
        <4>3. Lens(all, from, to) = [j \in 1..extra |-> all[from + j - 1].len]
          BY <4>1, Zenon DEF Lens
        <4>4. Lens(top, 1, extra) = [j \in 1..extra |-> top[1 + j - 1].len]
          BY <4>1, Zenon DEF Lens
        <4> QED
          BY <4>2, <4>3, <4>4, Zenon
      <3>4. ASSUME NEW i \in from..to
            PROVE  (all[i].b <=> i = from) /\ (all[i].e <=> i = to)
        <4>1. i - n \in 1..extra /\ i \in 1..(n + extra) /\ i \notin 1..n
          BY <2>1, <2>2
        <4>2. all[i] = top[i - n]
          BY <2>4, <4>1
        <4>3. (i - n = 1 <=> i = from) /\ (i - n = extra <=> i = to)
          BY <2>1, <2>2, <4>1
        <4> HIDE DEF from, to
        <4> QED
          BY <2>1, <4>1, <4>2, <4>3, Zenon
      <3> HIDE DEF from, to
      <3>5. /\ from \in DOMAIN all /\ to \in DOMAIN all
            /\ Total(Lens(all, from, to)) = sizes[k]
        BY <2>1, <2>2, <3>1, <3>3, Zenon
      <3>6. \E x, y \in DOMAIN all :
               /\ {i \in DOMAIN all : all[i].sid = k} = x..y
               /\ Total(Lens(all, x, y)) = sizes[k]
               /\ \A i \in x..y : (all[i].b <=> i = x) /\ (all[i].e <=> i = y)
        BY <3>2, <3>4, <3>5
      <3> QED
        BY <3>6, Zenon DEF WholeIn
    <2>6. ASSUME NEW sid \in Pictures!Layers(sizes), sid < k
          PROVE  WholeIn(all, sid, sizes[sid])
      <3>1. WholeIn(low, sid, sizes[sid])
        BY <2>6, Zenon DEF Readable
      <3>2. PICK from \in DOMAIN low, to \in DOMAIN low :
              /\ {i \in DOMAIN low : low[i].sid = sid} = from..to
              /\ Total(Lens(low, from, to)) = sizes[sid]
              /\ \A i \in from..to : (low[i].b <=> i = from) /\ (low[i].e <=> i = to)
        BY <3>1, Zenon DEF WholeIn
      <3>3. from \in 1..n /\ to \in 1..n /\ from \in 1..(n + extra) /\ to \in 1..(n + extra)
        BY <2>1, <2>2
      <3>4. {i \in DOMAIN all : all[i].sid = sid} = from..to
        <4>1. \A i \in from..to : i \in 1..n /\ i \in 1..(n + extra)
          BY <2>1, <2>2, <3>3
        <4>2. \A i \in 1..(n + extra) : i \notin 1..n => all[i].sid # sid
          <5>1. sid \in Int /\ k \in Int /\ sid # k
            BY <1>1, <2>6
          <5> QED
            BY <2>4, <5>1
        <4>3. ASSUME NEW i \in 1..(n + extra)
              PROVE  all[i].sid = sid <=> i \in from..to
          <5>1. CASE i \in 1..n
            <6>1. all[i] = low[i] /\ i \in DOMAIN low
              BY <2>2, <5>1
            <6> QED
              BY <3>2, <6>1, Zenon
          <5>2. CASE i \notin 1..n
            BY <4>1, <4>2, <5>2, Zenon
          <5> QED
            BY <5>1, <5>2
        <4>4. {i \in 1..(n + extra) : all[i].sid = sid} = from..to
          BY <4>1, <4>3, Zenon
        <4> QED
          BY <2>2, <4>4, Zenon
      <3>5. Lens(all, from, to) = Lens(low, from, to)
        <4>1. ASSUME NEW j \in 1..(to - from + 1)
              PROVE  all[from + j - 1].len = low[from + j - 1].len
          <5>1. from + j - 1 \in 1..n
            BY <2>2, <3>3
          <5> QED
            BY <2>2, <5>1, Zenon
        <4> QED
          BY <4>1, Zenon DEF Lens
      <3>6. ASSUME NEW i \in from..to
            PROVE  (all[i].b <=> i = from) /\ (all[i].e <=> i = to)
        <4>1. i \in 1..n
          BY <2>1, <2>2, <3>3
        <4> QED
          BY <2>2, <3>2, <4>1, Zenon
      <3>7. /\ from \in DOMAIN all /\ to \in DOMAIN all
            /\ Total(Lens(all, from, to)) = sizes[sid]
        BY <2>2, <3>2, <3>3, <3>5, Zenon
      <3>8. \E x, y \in DOMAIN all :
               /\ {i \in DOMAIN all : all[i].sid = sid} = x..y
               /\ Total(Lens(all, x, y)) = sizes[sid]
               /\ \A i \in x..y : (all[i].b <=> i = x) /\ (all[i].e <=> i = y)
        BY <3>4, <3>6, <3>7
      <3> QED
        BY <3>8, Zenon DEF WholeIn
    <2>7. \A sid \in Pictures!Layers(sizes) : sid < k + 1 => WholeIn(all, sid, sizes[sid])
      <3>1. \A sid \in Pictures!Layers(sizes) : sid < k + 1 => sid < k \/ sid = k
        BY <1>1
      <3> QED
        BY <2>5, <2>6, <3>1, Zenon
    <2>8. ASSUME NEW i \in 1..(n + extra)
          PROVE  /\ all[i].sid < k + 1
                 /\ all[i].last <=> i = n + extra /\ highest < k + 1
                 /\ all[i].ss <=> i = 1 /\ key /\ m.codec # "vp8"
                 /\ FitsNetwork(m, all[i])
      <3>1. highest \in Int /\ k <= highest /\ (highest < k + 1 <=> k = highest) /\ k # 0
        BY <1>1, <1>3
      <3>2. CASE i \in 1..n
        <4>1. all[i] = low[i] /\ i \in DOMAIN low /\ ~(highest < k) /\ i # n + extra
          BY <2>1, <2>2, <3>1, <3>2
        <4>2. /\ low[i].last <=> i = Len(low) /\ highest < k
              /\ low[i].ss <=> i = 1 /\ key /\ m.codec # "vp8"
              /\ FitsNetwork(m, low[i])
          BY <4>1, Zenon DEF Readable
        <4>3. all[i].sid < k + 1
          BY <1>1, <4>1
        <4> QED
          BY <4>1, <4>2, <4>3, Zenon
      <3>3. CASE i \notin 1..n
        <4>1. all[i] = top[i - n] /\ i - n \in 1..extra /\ all[i].sid = k /\ k < k + 1
          BY <2>4, <3>3
        <4>2. (i - n = extra <=> i = n + extra) /\ i # 1
          BY <2>1, <2>2, <3>3
        <4>3. /\ top[i - n].last <=> i - n = extra /\ k = highest
              /\ top[i - n].ss <=> i - n = 1 /\ key /\ k = 0 /\ m.codec # "vp8"
              /\ FitsNetwork(m, top[i - n])
          BY <2>1, <4>1, Zenon
        <4> QED
          BY <3>1, <4>1, <4>2, <4>3, Zenon
      <3> QED
        BY <3>2, <3>3
    <2>9. Readable(all, k + 1, m, key, sizes, highest)
      BY <2>2, <2>7, <2>8, Zenon DEF Readable
    <2> QED
      BY <1>3, <2>9, Zenon DEF all, top
  <1> QED
    BY <1>2, <1>3

\* What a receiver needs of the packets of a picture.
ReadablePicture(p) ==
    /\ \A sid \in Pictures!Layers(p.sizes) : WholeIn(p.packets, sid, p.sizes[sid])
    /\ \A i \in DOMAIN p.packets :
          /\ p.packets[i].last <=> i = Len(p.packets)
          /\ p.packets[i].ss <=> i = 1 /\ p.key /\ p.mode.codec # "vp8"
          /\ FitsNetwork(p.mode, p.packets[i])

\* The packets of a picture, whichever of its upper layers were dropped.
LEMMA AllFragmentsAre ==
  ASSUME PictureBounds, NEW m \in PictureModes, m.spatial <= MaxSpatial, NEW key \in BOOLEAN,
         NEW sizes \in [0..(m.spatial - 1) -> Nat], sizes[0] > 0
  PROVE  LET q == Pictures!AllFragments(m, key, sizes) IN
         /\ q # <<>>
         /\ \A sid \in Pictures!Layers(sizes) : WholeIn(q, sid, sizes[sid])
         /\ \A i \in DOMAIN q :
               /\ q[i].last <=> i = Len(q)
               /\ q[i].ss <=> i = 1 /\ key /\ m.codec # "vp8"
               /\ FitsNetwork(m, q[i])
  <1> DEFINE on == Pictures!Layers(sizes)
             highest == CHOOSE s \in on : \A t \in on : t <= s
             n == m.spatial
             portion(i) == IF i - 1 \in on THEN Pictures!Fragments(m, key, i - 1, sizes[i - 1], highest) ELSE <<>>
             portions == [i \in 1..n |-> portion(i)]
  <1>1. Pictures!AllFragments(m, key, sizes) = Pictures!FlattenSeq(portions)
    BY Zenon DEF Pictures!AllFragments
  <1>2. n \in Nat \ {0}
    BY DEF PictureModes
  <1>3. on \subseteq 0..(n - 1) /\ 0 \in on
    BY <1>2 DEF Pictures!Layers
  <1> HIDE DEF on, n
  <1>4. highest \in on /\ \A t \in on : t <= highest
    <2> DEFINE T == {n - t : t \in on}
    <2>1. T \in SUBSET Nat /\ T # {}
      <3>1. \A t \in on : n - t \in Nat
        BY <1>2, <1>3
      <3>2. T \subseteq Nat
        BY <3>1, Zenon
      <3>3. T # {}
        BY <1>3, Zenon
      <3> QED
        BY <3>2, <3>3
    <2>2. PICK low \in T : \A y \in T : low <= y
      <3> HIDE DEF T
      <3> QED
        BY <2>1, Earliest
    <2>3. PICK s \in on : low = n - s
      BY DEF T
    <2>4. ASSUME NEW t \in on
          PROVE  t <= s
      <3>1. n - t \in T
        OBVIOUS
      <3>2. n - s <= n - t
        BY <2>2, <2>3, <3>1
      <3>3. n \in Int /\ t \in Int /\ s \in Int
        BY <1>2, <1>3
      <3> HIDE DEF T
      <3> QED
        BY <3>2, <3>3
    <2>5. \E x \in on : \A t \in on : t <= x
      BY <2>4
    <2> QED
      BY <2>5, Zenon
  <1> HIDE DEF highest
  <1>5. DOMAIN portions = 1..n /\ Len(portions) = n /\ \A i \in 1..n : portions[i] = portion(i)
    <2> HIDE DEF portion
    <2> QED
      BY <1>2
  <1> HIDE DEF portions
  <1>6. \E f : /\ f[1] = portions[1]
               /\ \A i \in 2..n : f[i] = f[i - 1] \o portions[i]
               /\ Pictures!FlattenSeq(portions) = f[n]
    <2>1. DOMAIN portions = 1..n /\ Len(portions) = n
      BY <1>5
    <2> QED
      BY <1>2, <2>1, FlattenIs
  <1>12. PICK flat : /\ flat[1] = portions[1]
                     /\ \A i \in 2..n : flat[i] = flat[i - 1] \o portions[i]
                     /\ Pictures!FlattenSeq(portions) = flat[n]
    BY <1>6, Zenon
  <1>7. Readable(flat[1], 1, m, key, sizes, highest)
    <2> DEFINE q == Pictures!Fragments(m, key, 0, sizes[0], highest)
    <2>1. flat[1] = q
      <3>1. 1 \in 1..n /\ 1 - 1 = 0
        BY <1>2
      <3> QED
        BY <1>3, <1>5, <1>12, <3>1, Zenon
    <2>2. /\ q \in Seq(MediaPackets) /\ Len(q) \in Nat \ {0} /\ DOMAIN q = 1..Len(q)
          /\ \A i \in DOMAIN q :
               /\ q[i].sid = 0 /\ (q[i].b <=> i = 1) /\ (q[i].e <=> i = Len(q))
               /\ q[i].last <=> i = Len(q) /\ 0 = highest
               /\ q[i].ss <=> i = 1 /\ key /\ 0 = 0 /\ m.codec # "vp8"
               /\ FitsNetwork(m, q[i])
          /\ Total(Lens(q, 1, Len(q))) = sizes[0]
      <3>1. 0 \in Nat /\ sizes[0] \in Nat
        BY <1>2 DEF n
      <3> QED
        BY <3>1, FragmentsAre
    <2> HIDE DEF q
    <2>3. q # <<>> /\ 1 \in DOMAIN q /\ Len(q) \in DOMAIN q
      BY <2>2
    <2>4. {i \in DOMAIN q : q[i].sid = 0} = 1..Len(q)
      BY <2>2
    <2>5. \E x, y \in DOMAIN q :
             /\ {i \in DOMAIN q : q[i].sid = 0} = x..y
             /\ Total(Lens(q, x, y)) = sizes[0]
             /\ \A i \in x..y : (q[i].b <=> i = x) /\ (q[i].e <=> i = y)
      <3>1. \A i \in 1..Len(q) : (q[i].b <=> i = 1) /\ (q[i].e <=> i = Len(q))
        BY <2>2, Zenon
      <3> QED
        BY <2>2, <2>3, <2>4, <3>1, Zenon
    <2>6. WholeIn(q, 0, sizes[0])
      BY <2>5, Zenon DEF WholeIn
    <2>7. \A sid \in on : sid < 1 => sid = 0
      BY <1>2, <1>3
    <2>8. highest < 1 <=> 0 = highest
      BY <1>2, <1>3, <1>4
    <2>9. 0 < 1
      OBVIOUS
    <2> QED
      BY <2>1, <2>2, <2>3, <2>6, <2>7, <2>8, <2>9, Zenon DEF Readable, on
  <1>8. ASSUME NEW k \in 1..(n - 1), Readable(flat[k], k, m, key, sizes, highest)
        PROVE  Readable(flat[k + 1], k + 1, m, key, sizes, highest)
    <2>1. k + 1 \in 2..n /\ k + 1 \in 1..n /\ (k + 1) - 1 = k
      BY <1>2
    <2>2. flat[k + 1] = flat[k] \o (IF k \in on THEN Pictures!Fragments(m, key, k, sizes[k], highest) ELSE <<>>)
      BY <1>5, <1>12, <2>1, Zenon
    <2>3. Readable(flat[k] \o (IF k \in on THEN Pictures!Fragments(m, key, k, sizes[k], highest) ELSE <<>>),
                   k + 1, m, key, sizes, highest)
      BY <1>4, <1>8, LayerJoins DEF on, n
    <2> QED
      BY <2>2, <2>3, Zenon
  <1>9. Readable(flat[n], n, m, key, sizes, highest)
    <2> DEFINE Fails == {k \in 1..n : ~Readable(flat[k], k, m, key, sizes, highest)}
    <2> SUFFICES ASSUME Fails # {} PROVE FALSE
      BY <1>2
    <2>1. Fails \in SUBSET Nat
      OBVIOUS
    <2>2. PICK k \in Fails : \A y \in Fails : k <= y
      <3> HIDE DEF Fails
      <3> QED
        BY <2>1, Earliest
    <2>3. k # 1 /\ k \in 1..n
      BY <1>7
    <2>4. k - 1 \in 1..(n - 1) /\ k - 1 \in 1..n /\ k - 1 \notin Fails /\ (k - 1) + 1 = k
      <3> HIDE DEF Fails
      <3> QED
        BY <1>2, <2>2, <2>3
    <2>5. Readable(flat[k - 1], k - 1, m, key, sizes, highest)
      BY <2>4, Zenon
    <2>6. Readable(flat[(k - 1) + 1], (k - 1) + 1, m, key, sizes, highest)
      BY <1>8, <2>4, <2>5, Zenon
    <2>7. Readable(flat[k], k, m, key, sizes, highest)
      BY <2>4, <2>6, Zenon
    <2> QED
      BY <2>7, Zenon
  <1>10. \A sid \in on : sid < n
    BY <1>2, <1>3
  <1>11. highest < n
    BY <1>4, <1>10
  <1> QED
    BY <1>1, <1>12, <1>9, <1>10, <1>11, Zenon DEF Readable, on

\* The inductive invariant.
PicturesInv ==
    /\ Pictures!TypeOK /\ PlaceInv /\ CountsInv
    /\ picture.packets # <<>> => ReadablePicture(picture) /\ Pictures!NumbersFollow

LEMMA ModesAre ==
  ASSUME PictureBounds, NEW m \in Pictures!Modes
  PROVE  /\ m \in PictureModes /\ m.spatial \in 1..MaxSpatial /\ m.temporal \in 1..3
         /\ m.codec # "svc" => m.temporal = 1
  BY DEF PictureBounds, Pictures!Modes, PictureModes

\* The layer of a place in the pattern is the one that the structure announces.
LEMMA LayersOfPlaces ==
  ASSUME NEW m, m.temporal \in 1..3
  PROVE  /\ Pictures!PatternLen(m) \in {1, 2, 4}
         /\ m.temporal = 1 => /\ Len(Pictures!Announced(m)) = 0 /\ Pictures!PatternLen(m) = 1
                              /\ Pictures!TemporalId(m, 0) = 0 /\ Pictures!UpSwitch(m, 0) = TRUE
         /\ m.temporal # 1 => /\ Len(Pictures!Announced(m)) = Pictures!PatternLen(m)
                              /\ Pictures!TemporalId(m, 0) = 0
                              /\ \A i \in 0..(Pictures!PatternLen(m) - 1) :
                                    /\ Pictures!Announced(m)[i + 1].tid = Pictures!TemporalId(m, i)
                                    /\ Pictures!Announced(m)[i + 1].up = Pictures!UpSwitch(m, i)
                                    /\ Pictures!UpSwitch(m, i) \in BOOLEAN
  <1>1. CASE m.temporal = 1
    <2>1. Pictures!PatternLen(m) = 1 /\ Pictures!Announced(m) = <<>>
      BY <1>1 DEF Pictures!PatternLen, Pictures!Announced
    <2>2. Pictures!TemporalId(m, 0) = 0
      BY <1>1 DEF Pictures!TemporalId
    <2>3. Pictures!UpSwitch(m, 0) = TRUE
      BY <1>1, <2>1 DEF Pictures!UpSwitch
    <2> QED
      BY <1>1, <2>1, <2>2, <2>3
  <1>2. CASE m.temporal = 2
    <2>1. Pictures!PatternLen(m) = 2
      BY <1>2 DEF Pictures!PatternLen
    <2>2. Pictures!Announced(m) = <<Pictures!Gof(0, FALSE, <<2>>), Pictures!Gof(1, TRUE, <<1>>)>>
      <3> DEFINE a == <<>>
                 b == <<Pictures!Gof(0, FALSE, <<2>>), Pictures!Gof(1, TRUE, <<1>>)>>
                 c == <<Pictures!Gof(0, FALSE, <<4>>), Pictures!Gof(2, TRUE, <<1>>),
                        Pictures!Gof(1, TRUE, <<2>>), Pictures!Gof(2, FALSE, <<1, 2>>)>>
      <3>1. Pictures!Announced(m) = <<a, b, c>>[m.temporal]
        BY Zenon DEF Pictures!Announced
      <3> HIDE DEF a, b, c
      <3>2. Pictures!Announced(m) = b
        BY <1>2, <3>1
      <3> QED
        BY <3>2, Zenon DEF b
    <2>3. Len(Pictures!Announced(m)) = 2
      BY <2>2
    <2>4. Pictures!TemporalId(m, 0) = 0 /\ Pictures!TemporalId(m, 1) = 1
      BY <1>2 DEF Pictures!TemporalId
    <2>5. Pictures!UpSwitch(m, 0) = FALSE /\ Pictures!UpSwitch(m, 1) = TRUE
      BY <1>2, <2>1 DEF Pictures!UpSwitch
    <2>6. /\ Pictures!Announced(m)[1].tid = 0 /\ Pictures!Announced(m)[1].up = FALSE
          /\ Pictures!Announced(m)[2].tid = 1 /\ Pictures!Announced(m)[2].up = TRUE
      BY <2>2 DEF Pictures!Gof
    <2>7. \A i \in 0..1 : (i = 0 /\ i + 1 = 1) \/ (i = 1 /\ i + 1 = 2)
      OBVIOUS
    <2>8. 2 - 1 = 1
      OBVIOUS
    <2>9. \A i \in 0..1 : /\ Pictures!Announced(m)[i + 1].tid = Pictures!TemporalId(m, i)
                          /\ Pictures!Announced(m)[i + 1].up = Pictures!UpSwitch(m, i)
                          /\ Pictures!UpSwitch(m, i) \in BOOLEAN
      BY <2>4, <2>5, <2>6, <2>7, Zenon
    <2> QED
      BY <1>2, <2>1, <2>3, <2>4, <2>8, <2>9
  <1>3. CASE m.temporal = 3
    <2>1. Pictures!PatternLen(m) = 4
      BY <1>3 DEF Pictures!PatternLen
    <2>2. Pictures!Announced(m) = <<Pictures!Gof(0, FALSE, <<4>>), Pictures!Gof(2, TRUE, <<1>>),
                                    Pictures!Gof(1, TRUE, <<2>>), Pictures!Gof(2, FALSE, <<1, 2>>)>>
      <3> DEFINE a == <<>>
                 b == <<Pictures!Gof(0, FALSE, <<2>>), Pictures!Gof(1, TRUE, <<1>>)>>
                 c == <<Pictures!Gof(0, FALSE, <<4>>), Pictures!Gof(2, TRUE, <<1>>),
                        Pictures!Gof(1, TRUE, <<2>>), Pictures!Gof(2, FALSE, <<1, 2>>)>>
      <3>1. Pictures!Announced(m) = <<a, b, c>>[m.temporal]
        BY Zenon DEF Pictures!Announced
      <3> HIDE DEF a, b, c
      <3>2. Pictures!Announced(m) = c
        BY <1>3, <3>1
      <3> QED
        BY <3>2, Zenon DEF c
    <2>3. Len(Pictures!Announced(m)) = 4
      BY <2>2
    <2>4. /\ Pictures!TemporalId(m, 0) = 0 /\ Pictures!TemporalId(m, 1) = 2
          /\ Pictures!TemporalId(m, 2) = 1 /\ Pictures!TemporalId(m, 3) = 2
      BY <1>3 DEF Pictures!TemporalId
    <2>5. /\ Pictures!UpSwitch(m, 0) = FALSE /\ Pictures!UpSwitch(m, 1) = TRUE
          /\ Pictures!UpSwitch(m, 2) = TRUE /\ Pictures!UpSwitch(m, 3) = FALSE
      BY <1>3, <2>1 DEF Pictures!UpSwitch
    <2>6. /\ Pictures!Announced(m)[1].tid = 0 /\ Pictures!Announced(m)[1].up = FALSE
          /\ Pictures!Announced(m)[2].tid = 2 /\ Pictures!Announced(m)[2].up = TRUE
          /\ Pictures!Announced(m)[3].tid = 1 /\ Pictures!Announced(m)[3].up = TRUE
          /\ Pictures!Announced(m)[4].tid = 2 /\ Pictures!Announced(m)[4].up = FALSE
      BY <2>2 DEF Pictures!Gof
    <2>7. \A i \in 0..3 : \/ i = 0 /\ i + 1 = 1
                          \/ i = 1 /\ i + 1 = 2
                          \/ i = 2 /\ i + 1 = 3
                          \/ i = 3 /\ i + 1 = 4
      OBVIOUS
    <2>8. 4 - 1 = 3
      OBVIOUS
    <2>9. \A i \in 0..3 : /\ Pictures!Announced(m)[i + 1].tid = Pictures!TemporalId(m, i)
                          /\ Pictures!Announced(m)[i + 1].up = Pictures!UpSwitch(m, i)
                          /\ Pictures!UpSwitch(m, i) \in BOOLEAN
      BY <2>4, <2>5, <2>6, <2>7, Zenon
    <2> QED
      BY <1>3, <2>1, <2>3, <2>4, <2>8, <2>9
  <1>4. m.temporal = 1 \/ m.temporal = 2 \/ m.temporal = 3
    OBVIOUS
  <1> QED
    BY <1>1, <1>2, <1>3, <1>4, Zenon

\* The next place in a group is that of the next id, also where the ids wrap.
LEMMA PlacesWrap ==
  ASSUME PictureBounds, NEW n \in {1, 2, 4}, NEW a \in 0..(PidModulus - 1), NEW b \in 0..(PidModulus - 1)
  PROVE  (((a + 1) % PidModulus) - b) % n = (((a - b) % n) + 1) % n
  <1>1. PICK w \in Nat : PidModulus = 4 * w /\ w > 0
    <2>1. PidModulus \in Nat \ {0} /\ PidModulus % 4 = 0
      BY DEF PictureBounds
    <2> QED
      BY <2>1, DivisionIs
  <1>2. (a + 1) % PidModulus = IF a + 1 = PidModulus THEN 0 ELSE a + 1
    <2>1. PidModulus \in Nat \ {0}
      BY DEF PictureBounds
    <2>2. CASE a + 1 = PidModulus
      <3>1. (1 * PidModulus + 0) % PidModulus = 0
        BY <2>1, RemainderIs
      <3>2. 1 * PidModulus + 0 = a + 1
        BY <2>1, <2>2
      <3> QED
        BY <2>2, <3>1, <3>2
    <2>3. CASE a + 1 # PidModulus
      <3>1. a + 1 \in 0..(PidModulus - 1)
        BY <2>1, <2>3
      <3> QED
        BY <2>1, <2>3, <3>1, SmallStays
    <2> QED
      BY <2>2, <2>3
  <1> DEFINE c == (a + 1) % PidModulus
  <1>3. c = IF a + 1 = 4 * w THEN 0 ELSE a + 1
    BY <1>1, <1>2
  <1> HIDE DEF c
  <1>4. CASE n = 1
    BY <1>1, <1>3, <1>4 DEF c
  <1>5. CASE n = 2
    <2>1. (c - b) % 2 = (((a - b) % 2) + 1) % 2
      BY <1>1, <1>3
    <2> QED
      BY <1>5, <2>1 DEF c
  <1>6. CASE n = 4
    <2>1. (c - b) % 4 = (((a - b) % 4) + 1) % 4
      BY <1>1, <1>3
    <2> QED
      BY <1>6, <2>1 DEF c
  <1> QED
    BY <1>4, <1>5, <1>6

\* A decoder tells how far two timestamps are apart, across their wrap.
LEMMA StepIsSigned ==
  ASSUME PictureBounds, NEW t \in Nat, NEW step \in TimeSteps
  PROVE  Pictures!Signed(((t + step) % TsModulus) - (t % TsModulus)) = step
  <1>1. TsModulus \in Nat \ {0} /\ step \in Nat /\ step < TsModulus \div 2
    BY DEF PictureBounds
  <1>2. step \in 0..(TsModulus - 1)
    BY <1>1
  <1>3. (((t + step) % TsModulus) - (t % TsModulus)) % TsModulus = step
    <2>1. (((t + step) % TsModulus) - (t % TsModulus)) % TsModulus = ((t + step) - t) % TsModulus
      <3>1. t + step \in Int /\ t \in Int
        BY <1>1
      <3> QED
        BY <1>1, <3>1, RemaindersDiffer
    <2>2. (t + step) - t = step
      BY <1>1
    <2> QED
      BY <1>1, <1>2, <2>1, <2>2, SmallStays
  <1> QED
    BY <1>1, <1>3 DEF Pictures!Signed

LEMMA PicturesInit ==
  ASSUME PictureBounds, Pictures!Init
  PROVE  PicturesInv
  <1>1. /\ mode \in Pictures!Modes /\ vpx = -1 /\ time = 0 /\ picture = [packets |-> <<>>, pid |-> 0, tl0 |-> 0]
        /\ packetizer = [pid |-> PidModulus - 2, tl0 |-> Tl0Modulus - 1, gof |-> 0]
        /\ decoder = [last |-> -1, ticks |-> 0]
    BY Zenon DEF Pictures!Init, Pictures!NoPicture
  <1>2. picture.packets = <<>> /\ decoder.last = -1
    BY <1>1
  <1>3. packetizer \in [pid : 0..(PidModulus - 1), tl0 : 0..(Tl0Modulus - 1), gof : 0..3]
    <2>1. PidModulus \in Nat /\ PidModulus >= 2 /\ Tl0Modulus \in Nat \ {0}
      <3>1. PidModulus \in Nat \ {0} /\ PidModulus % 4 = 0
        BY DEF PictureBounds
      <3> QED
        BY <3>1 DEF PictureBounds
    <2> QED
      BY <1>1, <2>1
  <1>4. Pictures!TypeOK
    <2>1. vpx \in -1..3 /\ time \in 0..MaxTime
      BY <1>1 DEF PictureBounds
    <2> QED
      BY <1>1, <1>3, <2>1, Zenon DEF Pictures!TypeOK
  <1> QED
    BY <1>1, <1>2, <1>4, Zenon DEF PicturesInv, PlaceInv, CountsInv

\* What a receiver will have learned with the next picture.
Learned(key) == IF key THEN [pid |-> packetizer.pid, gof |-> Pictures!Announced(mode)] ELSE learned

\* The encoder, the packetizer and the receiver agree on the place of the next picture.
LEMMA PlacesAre ==
  ASSUME PictureBounds, PicturesInv, NEW key \in BOOLEAN, vpx = -1 => key
  PROVE  /\ Pictures!PatternLen(mode) \in {1, 2, 4} /\ mode.temporal \in 1..3
         /\ Pictures!Place(key) \in 0..(Pictures!PatternLen(mode) - 1)
         /\ Pictures!Start(key) = Pictures!Place(key)
         /\ Pictures!Tid(key) = Pictures!TemporalId(mode, Pictures!Place(key))
         /\ mode.codec # "svc" => mode.temporal = 1
         /\ mode.temporal = 1 => Pictures!Place(key) = 0 /\ Pictures!Tid(key) = 0
         /\ Learned(key).gof = Pictures!Announced(mode)
         /\ Learned(key).pid \in 0..(PidModulus - 1)
         /\ (packetizer.pid - Learned(key).pid) % Pictures!PatternLen(mode) = Pictures!Place(key)
  <1> DEFINE n == Pictures!PatternLen(mode)
  <1>1. mode.temporal \in 1..3 /\ (mode.codec # "svc" => mode.temporal = 1)
    BY ModesAre, Zenon DEF PicturesInv, Pictures!TypeOK
  <1>2. /\ n \in {1, 2, 4} /\ (mode.temporal = 1 => n = 1) /\ Pictures!TemporalId(mode, 0) = 0
    BY <1>1, LayersOfPlaces
  <1>3. packetizer.pid \in 0..(PidModulus - 1) /\ vpx \in -1..3
    <2>1. packetizer \in [pid : 0..(PidModulus - 1), tl0 : 0..(Tl0Modulus - 1), gof : 0..3] /\ vpx \in -1..3
      BY Zenon DEF PicturesInv, Pictures!TypeOK
    <2> QED
      BY <2>1
  <1> HIDE DEF n
  <1>4. CASE key
    <2>1. Pictures!Place(key) = 0 /\ Pictures!Start(key) = 0 /\ Pictures!Tid(key) = 0
      BY <1>4, Zenon DEF Pictures!Place, Pictures!Start, Pictures!Tid
    <2>2. Learned(key).pid = packetizer.pid /\ Learned(key).gof = Pictures!Announced(mode)
      <3>1. Learned(key) = [pid |-> packetizer.pid, gof |-> Pictures!Announced(mode)]
        BY <1>4, Zenon DEF Learned
      <3> QED
        BY <3>1
    <2>3. (packetizer.pid - packetizer.pid) % n = 0 /\ 0 \in 0..(n - 1)
      <3>1. packetizer.pid \in Int /\ packetizer.pid - packetizer.pid = 0
        BY <1>3 DEF PictureBounds
      <3>2. 0 % n = 0 /\ 0 \in 0..(n - 1)
        BY <1>2
      <3> QED
        BY <3>1, <3>2, Zenon
    <2> QED
      BY <1>1, <1>2, <1>3, <2>1, <2>2, <2>3, Zenon DEF n
  <1>5. CASE ~key
    <2>1. vpx # -1
      BY <1>5
    <2>2. /\ picture.packets # <<>> /\ vpx \in 0..(n - 1) /\ packetizer.gof = (vpx + 1) % n
          /\ learned.gof = Pictures!Announced(mode) /\ learned.pid \in 0..(PidModulus - 1)
          /\ (picture.pid - learned.pid) % n = vpx
      BY <2>1, Zenon DEF PicturesInv, PlaceInv, n
    <2>3. picture.pid \in 0..(PidModulus - 1) /\ packetizer.pid = (picture.pid + 1) % PidModulus
      BY <2>2, Zenon DEF PicturesInv, CountsInv
    <2>4. Pictures!Place(key) = (vpx + 1) % n /\ Pictures!Start(key) = packetizer.gof
          /\ Pictures!Tid(key) = Pictures!TemporalId(mode, Pictures!Place(key)) /\ Learned(key) = learned
      BY <1>5, Zenon DEF Pictures!Place, Pictures!Start, Pictures!Tid, Learned, n
    <2>5. (((picture.pid + 1) % PidModulus) - learned.pid) % n = (vpx + 1) % n
      <3> DEFINE a == picture.pid
                 b == learned.pid
      <3>1. n \in {1, 2, 4} /\ a \in 0..(PidModulus - 1) /\ b \in 0..(PidModulus - 1) /\ (a - b) % n = vpx
        BY <1>2, <2>2, <2>3, Zenon
      <3> HIDE DEF a, b
      <3>3. PidModulus \in Int /\ a \in Int /\ b \in Int
        BY <3>1 DEF PictureBounds
      <3>2. (((a + 1) % PidModulus) - b) % n = (vpx + 1) % n
        <4>1. (((a + 1) % PidModulus) - b) % n = (((a - b) % n) + 1) % n
          BY <3>1, <3>3, PlacesWrap
        <4> QED
          BY <3>1, <4>1, Zenon
      <3> QED
        BY <3>2 DEF a, b
    <2>6. (vpx + 1) % n \in 0..(n - 1) /\ (n = 1 => (vpx + 1) % n = 0)
      BY <1>2, <1>3
    <2> QED
      BY <1>1, <1>2, <2>2, <2>3, <2>4, <2>5, <2>6, Zenon DEF n
  <1> QED
    BY <1>4, <1>5

\* A new encoder changes nothing of what was sent.
LEMMA ReinitKeeps ==
  ASSUME PictureBounds, PicturesInv, NEW m \in Pictures!Modes, Pictures!Reinit(m)
  PROVE  PicturesInv'
  <1>1. /\ vpx # -1 /\ m.codec = mode.codec /\ mode' = m /\ vpx' = -1
        /\ packetizer' = packetizer /\ before' = before /\ picture' = picture /\ learned' = learned
        /\ decoder' = decoder /\ time' = time
    BY Zenon DEF Pictures!Reinit
  <1>2. picture.packets # <<>> /\ mode'.codec = mode.codec
    BY <1>1, Zenon DEF PicturesInv, PlaceInv
  <1>3. Pictures!TypeOK'
    <2>1. vpx' \in -1..3
      BY <1>1
    <2> QED
      BY <1>1, <2>1, Zenon DEF PicturesInv, Pictures!TypeOK
  <1>4. PlaceInv'
    BY <1>1, Zenon DEF PlaceInv
  <1>5. CountsInv'
    BY <1>1, <1>2, Zenon DEF PicturesInv, CountsInv, Pictures!Svc
  <1>6. (picture.packets # <<>> => ReadablePicture(picture) /\ Pictures!NumbersFollow)'
    BY <1>1, <1>2, Zenon DEF PicturesInv, ReadablePicture, Pictures!NumbersFollow, Pictures!Predicted
  <1> QED
    BY <1>3, <1>4, <1>5, <1>6, Zenon DEF PicturesInv

\* Another picture keeps the numbers in step.
LEMMA EncodesKeeps ==
  ASSUME PictureBounds, PicturesInv, NEW key \in BOOLEAN,
         NEW sizes \in [0..(mode.spatial - 1) -> {0} \cup Sizes], NEW step \in TimeSteps,
         Pictures!Encodes(key, sizes, step)
  PROVE  PicturesInv'
  <1> DEFINE n == Pictures!PatternLen(mode)
             first == picture.packets = <<>>
             sent0 == Pictures!AllFragments(mode, key, sizes)
             up == Pictures!Svc /\ Pictures!UpSwitch(mode, Pictures!Start(key))
  <1>1. /\ time + step <= MaxTime /\ (vpx = -1 => key) /\ sizes[0] > 0
        /\ time' = IF first THEN 0 ELSE time + step
        /\ vpx' = Pictures!Place(key) /\ Pictures!Numbers(key)
        /\ picture' = [mode |-> mode, key |-> key, sizes |-> sizes, pid |-> packetizer.pid,
                       tl0 |-> Pictures!Tl0(key), tid |-> Pictures!Tid(key), up |-> up, packets |-> sent0]
        /\ before' = [pid |-> picture.pid, tl0 |-> picture.tl0]
        /\ learned' = Learned(key) /\ Pictures!Decodes /\ mode' = mode
    BY Zenon DEF Pictures!Encodes, Learned
  <1>2. /\ n \in {1, 2, 4} /\ mode.temporal \in 1..3 /\ Pictures!Place(key) \in 0..(n - 1)
        /\ Pictures!Start(key) = Pictures!Place(key)
        /\ Pictures!Tid(key) = Pictures!TemporalId(mode, Pictures!Place(key))
        /\ (mode.codec # "svc" => mode.temporal = 1)
        /\ (mode.temporal = 1 => Pictures!Place(key) = 0 /\ Pictures!Tid(key) = 0)
        /\ Learned(key).gof = Pictures!Announced(mode) /\ Learned(key).pid \in 0..(PidModulus - 1)
        /\ (packetizer.pid - Learned(key).pid) % n = Pictures!Place(key)
    BY <1>1, PlacesAre, Zenon
  <1>3. /\ packetizer.pid \in 0..(PidModulus - 1) /\ packetizer.tl0 \in 0..(Tl0Modulus - 1)
        /\ mode \in Pictures!Modes /\ time \in 0..MaxTime
    <2>1. /\ packetizer \in [pid : 0..(PidModulus - 1), tl0 : 0..(Tl0Modulus - 1), gof : 0..3]
          /\ mode \in Pictures!Modes /\ time \in 0..MaxTime
      BY Zenon DEF PicturesInv, Pictures!TypeOK
    <2> QED
      BY <2>1
  <1>4. mode \in PictureModes /\ mode.spatial \in 1..MaxSpatial
    BY <1>3, ModesAre
  <1>5. /\ sent0 # <<>>
        /\ \A sid \in Pictures!Layers(sizes) : WholeIn(sent0, sid, sizes[sid])
        /\ \A i \in DOMAIN sent0 :
              /\ sent0[i].last <=> i = Len(sent0)
              /\ sent0[i].ss <=> i = 1 /\ key /\ mode.codec # "vp8"
              /\ FitsNetwork(mode, sent0[i])
    <2>1. mode.spatial <= MaxSpatial
      BY <1>4 DEF PictureBounds
    <2>2. sizes \in [0..(mode.spatial - 1) -> Nat]
      <3>1. {0} \cup Sizes \subseteq Nat
        BY DEF PictureBounds
      <3> QED
        BY <3>1
    <2>3. sizes[0] > 0
      BY <1>1
    <2> HIDE DEF up, n
    <2> QED
      BY <1>4, <2>1, <2>2, <2>3, AllFragmentsAre
  <1> HIDE DEF n, sent0, up
  <1>6. /\ picture'.mode = mode /\ picture'.key = key /\ picture'.sizes = sizes
        /\ picture'.pid = packetizer.pid /\ picture'.tl0 = Pictures!Tl0(key)
        /\ picture'.tid = Pictures!Tid(key) /\ picture'.packets = sent0
        /\ before'.pid = picture.pid /\ before'.tl0 = picture.tl0
    <2> DEFINE tl0 == Pictures!Tl0(key)
               tid == Pictures!Tid(key)
    <2>1. /\ picture' = [mode |-> mode, key |-> key, sizes |-> sizes, pid |-> packetizer.pid,
                         tl0 |-> tl0, tid |-> tid, up |-> up, packets |-> sent0]
          /\ before' = [pid |-> picture.pid, tl0 |-> picture.tl0]
      BY <1>1, Zenon
    <2> HIDE DEF tl0, tid
    <2>2. /\ picture'.mode = mode /\ picture'.key = key /\ picture'.sizes = sizes
          /\ picture'.pid = packetizer.pid /\ picture'.tl0 = tl0 /\ picture'.tid = tid
          /\ picture'.packets = sent0 /\ before'.pid = picture.pid /\ before'.tl0 = picture.tl0
      BY <2>1
    <2> QED
      BY <2>2, Zenon DEF tl0, tid
  <1>7. picture'.up = up
    <2>1. picture' = [mode |-> mode, key |-> key, sizes |-> sizes, pid |-> packetizer.pid,
                      tl0 |-> Pictures!Tl0(key), tid |-> Pictures!Tid(key), up |-> up, packets |-> sent0]
      BY <1>1
    <2> QED
      BY <2>1, Zenon
  <1>8. /\ packetizer'.pid = (packetizer.pid + 1) % PidModulus
        /\ packetizer'.tl0 = IF Pictures!Svc THEN Pictures!Tl0(key) ELSE (packetizer.tl0 + 1) % Tl0Modulus
        /\ packetizer'.gof = IF Pictures!Svc THEN (Pictures!Start(key) + 1) % n ELSE 0
        /\ packetizer' = [pid |-> packetizer'.pid, tl0 |-> packetizer'.tl0, gof |-> packetizer'.gof]
    <2> DEFINE a == (packetizer.pid + 1) % PidModulus
               b == IF Pictures!Svc THEN Pictures!Tl0(key) ELSE (packetizer.tl0 + 1) % Tl0Modulus
               c == IF Pictures!Svc THEN (Pictures!Start(key) + 1) % n ELSE 0
    <2>1. packetizer' = [pid |-> a, tl0 |-> b, gof |-> c]
      BY <1>1, Zenon DEF Pictures!Numbers, n
    <2> HIDE DEF a, b, c
    <2>2. packetizer'.pid = a /\ packetizer'.tl0 = b /\ packetizer'.gof = c
      BY <2>1
    <2> QED
      BY <2>1, <2>2, Zenon DEF a, b, c
  <1>9. /\ (packetizer.pid + 1) % PidModulus \in 0..(PidModulus - 1)
        /\ (packetizer.tl0 + 1) % Tl0Modulus \in 0..(Tl0Modulus - 1)
    <2>1. packetizer.pid + 1 \in Int /\ packetizer.tl0 + 1 \in Int
      BY <1>3 DEF PictureBounds
    <2> QED
      BY <2>1, RemainderInRange DEF PictureBounds
  <1>10. Pictures!Tl0(key) \in 0..(Tl0Modulus - 1)
    BY <1>3, <1>9, Zenon DEF Pictures!Tl0
  <1>11. packetizer'.gof = (Pictures!Place(key) + 1) % n /\ packetizer'.gof \in 0..3
    <2>1. CASE mode.codec = "svc"
      <3>1. packetizer'.gof = (Pictures!Place(key) + 1) % n
        BY <1>2, <1>8, <2>1, Zenon DEF Pictures!Svc
      <3> QED
        BY <1>2, <3>1
    <2>2. CASE mode.codec # "svc"
      <3>1. packetizer'.gof = 0 /\ mode.temporal = 1 /\ Pictures!Place(key) = 0
        BY <1>2, <1>8, <2>2, Zenon DEF Pictures!Svc
      <3>2. n = 1
        BY <3>1 DEF n, Pictures!PatternLen
      <3> QED
        BY <3>1, <3>2
    <2> QED
      BY <2>1, <2>2
  <1>12. Pictures!TypeOK'
    <2>1. vpx' \in -1..3
      BY <1>1, <1>2
    <2>2. time' \in 0..MaxTime
      BY <1>1, <1>3 DEF PictureBounds
    <2>3. packetizer'.tl0 \in 0..(Tl0Modulus - 1)
      BY <1>8, <1>9, <1>10, Zenon
    <2>4. packetizer' \in [pid : 0..(PidModulus - 1), tl0 : 0..(Tl0Modulus - 1), gof : 0..3]
      BY <1>8, <1>9, <1>11, <2>3
    <2> QED
      BY <1>1, <1>3, <2>1, <2>2, <2>4, Zenon DEF Pictures!TypeOK
  <1>13. PlaceInv'
    <2>1. picture'.packets # <<>> /\ picture'.mode = mode'
      BY <1>1, <1>5, <1>6, Zenon
    <2>2. Pictures!PatternLen(mode)' = n /\ Pictures!Announced(mode)' = Pictures!Announced(mode)
      BY <1>1, Zenon DEF n, Pictures!PatternLen, Pictures!Announced
    <2>3. /\ vpx' \in 0..(n - 1) /\ packetizer'.gof = (vpx' + 1) % n
          /\ learned'.gof = Pictures!Announced(mode) /\ learned'.pid \in 0..(PidModulus - 1)
          /\ (picture'.pid - learned'.pid) % n = vpx'
      BY <1>1, <1>2, <1>6, <1>11, Zenon
    <2> QED
      BY <2>1, <2>2, <2>3, Zenon DEF PlaceInv
  <1>14. decoder'.last = time' % TsModulus /\ decoder'.ticks = time'
    <2> DEFINE x == time' % TsModulus
               y == IF decoder.last = -1 THEN 0 ELSE decoder.ticks + Pictures!Signed((time' % TsModulus) - decoder.last)
    <2>1. decoder' = [last |-> x, ticks |-> y]
      BY <1>1, Zenon DEF Pictures!Decodes
    <2>2. y = time'
      <3>1. CASE first
        <4>1. decoder.last = -1 /\ time' = 0
          BY <1>1, <3>1, Zenon DEF PicturesInv, CountsInv
        <4> QED
          BY <4>1, Zenon
      <3>2. CASE ~first
        <4>1. decoder.last = time % TsModulus /\ decoder.ticks = time /\ time' = time + step
          BY <1>1, <3>2, Zenon DEF PicturesInv, CountsInv
        <4>2. time \in Nat
          BY <1>3 DEF PictureBounds
        <4>3. decoder.last # -1
          <5>1. time % TsModulus \in 0..(TsModulus - 1)
            BY <4>2, RemainderInRange DEF PictureBounds
          <5> QED
            BY <4>1, <5>1 DEF PictureBounds
        <4>4. Pictures!Signed(((time + step) % TsModulus) - (time % TsModulus)) = step
          BY <4>2, StepIsSigned
        <4> QED
          BY <4>1, <4>3, <4>4, Zenon
      <3> QED
        BY <3>1, <3>2
    <2> HIDE DEF x, y
    <2>3. decoder'.last = x /\ decoder'.ticks = y
      BY <2>1
    <2> QED
      BY <2>2, <2>3 DEF x
  <1>15. CountsInv'
    <2>1. Pictures!Svc' <=> Pictures!Svc
      BY <1>1, Zenon DEF Pictures!Svc
    <2>2. ~Pictures!Svc => Pictures!Tl0(key) = packetizer.tl0
      BY Zenon DEF Pictures!Tl0
    <2>3. picture'.packets # <<>> /\ picture'.mode.codec = mode'.codec
      BY <1>1, <1>5, <1>6, Zenon
    <2>4. /\ packetizer'.pid = (picture'.pid + 1) % PidModulus
          /\ packetizer'.tl0 = IF Pictures!Svc' THEN picture'.tl0 ELSE (picture'.tl0 + 1) % Tl0Modulus
      BY <1>6, <1>8, <2>1, <2>2, Zenon
    <2> QED
      BY <1>3, <1>6, <1>10, <1>14, <2>3, <2>4, Zenon DEF CountsInv
  <1>16. ReadablePicture(picture)'
    <2>1. picture' = [mode |-> mode, key |-> key, sizes |-> sizes, pid |-> packetizer.pid,
                      tl0 |-> Pictures!Tl0(key), tid |-> Pictures!Tid(key), up |-> up, packets |-> sent0]
      BY <1>1, Zenon DEF sent0, up
    <2> DEFINE p == [mode |-> mode, key |-> key, sizes |-> sizes, pid |-> packetizer.pid,
                     tl0 |-> Pictures!Tl0(key), tid |-> Pictures!Tid(key), up |-> up, packets |-> sent0]
    <2>2. p.mode = mode /\ p.key = key /\ p.sizes = sizes /\ p.packets = sent0
      BY <1>6, <2>1, Zenon
    <2> HIDE DEF p
    <2>3. ReadablePicture(p)
      <3>1. \A sid \in Pictures!Layers(p.sizes) : WholeIn(p.packets, sid, p.sizes[sid])
        BY <1>5, <2>2, Zenon
      <3>2. \A i \in DOMAIN p.packets :
               /\ p.packets[i].last <=> i = Len(p.packets)
               /\ p.packets[i].ss <=> i = 1 /\ p.key /\ p.mode.codec # "vp8"
               /\ FitsNetwork(p.mode, p.packets[i])
        BY <1>5, <2>2, Zenon
      <3> QED
        BY <3>1, <3>2, Zenon DEF ReadablePicture
    <2> QED
      BY <2>1, <2>3, Zenon DEF p
  <1>17. Pictures!NumbersFollow'
    <2>1. ASSUME time' > 0
          PROVE  /\ picture'.pid = (before'.pid + 1) % PidModulus
                 /\ picture'.tl0 = IF picture'.tid = 0 THEN (before'.tl0 + 1) % Tl0Modulus ELSE before'.tl0
      <3>1. ~first
        BY <1>1, <2>1
      <3>2. /\ packetizer.pid = (picture.pid + 1) % PidModulus
            /\ packetizer.tl0 = IF Pictures!Svc THEN picture.tl0 ELSE (picture.tl0 + 1) % Tl0Modulus
        BY <3>1, Zenon DEF PicturesInv, CountsInv
      <3>3. ~Pictures!Svc => Pictures!Tid(key) = 0
        BY <1>2, Zenon DEF Pictures!Svc
      <3>4. Pictures!Tl0(key) = IF Pictures!Tid(key) = 0 THEN (picture.tl0 + 1) % Tl0Modulus ELSE picture.tl0
        BY <3>2, <3>3, Zenon DEF Pictures!Tl0
      <3> QED
        BY <1>6, <3>2, <3>4, Zenon
    <2>2. ([tid |-> picture.tid, up |-> picture.up] = Pictures!Predicted)'
      <3> DEFINE place == Pictures!Place(key)
                 entry == Pictures!Announced(mode)[place + 1]
      <3>1. learned'.gof = Pictures!Announced(mode) /\ (picture'.pid - learned'.pid) % n = place
        BY <1>1, <1>2, <1>6, Zenon
      <3>2. picture'.tid = Pictures!TemporalId(mode, place)
            /\ picture'.up = (Pictures!Svc /\ Pictures!UpSwitch(mode, place)) /\ picture'.mode = mode
        BY <1>2, <1>6, <1>7, Zenon DEF up
      <3>3. CASE mode.temporal = 1
        <4>1. Len(Pictures!Announced(mode)) = 0 /\ Pictures!TemporalId(mode, 0) = 0 /\ Pictures!UpSwitch(mode, 0) = TRUE
              /\ place = 0
          BY <1>2, <3>3, LayersOfPlaces
        <4>2. Pictures!Predicted' = [tid |-> 0, up |-> mode.codec = "svc"]
          BY <3>1, <3>2, <4>1, Zenon DEF Pictures!Predicted
        <4> HIDE DEF place
        <4> QED
          BY <3>2, <4>1, <4>2, Zenon DEF Pictures!Svc
      <3>4. CASE mode.temporal # 1
        <4>1. /\ Len(Pictures!Announced(mode)) = n /\ place \in 0..(n - 1)
              /\ entry.tid = Pictures!TemporalId(mode, place)
              /\ entry.up = Pictures!UpSwitch(mode, place) /\ Pictures!UpSwitch(mode, place) \in BOOLEAN
          BY <1>2, <3>4, LayersOfPlaces DEF n
        <4>2. mode.codec = "svc" /\ n # 0
          BY <1>2, <3>4
        <4>3. Pictures!Predicted' = [tid |-> entry.tid, up |-> entry.up]
          BY <3>1, <4>1, <4>2, Zenon DEF Pictures!Predicted
        <4> HIDE DEF place, entry
        <4>4. picture'.up = entry.up
          BY <3>2, <4>1, <4>2, Zenon DEF Pictures!Svc
        <4> QED
          BY <3>2, <4>1, <4>3, <4>4, Zenon
      <3> QED
        BY <3>3, <3>4
    <2> QED
      BY <2>1, <2>2, Zenon DEF Pictures!NumbersFollow
  <1> QED
    BY <1>12, <1>13, <1>15, <1>16, <1>17, Zenon DEF PicturesInv

LEMMA PicturesStep ==
  ASSUME PictureBounds, PicturesInv, part = "pictures",
         [SuiteNext]_<<part, vars, encoderVars, audioVars, pacerVars, videoVars, pictureVars, layerVars, pcmVars>>
  PROVE  PicturesInv'
  <1>1. CASE UNCHANGED pictureVars
    BY <1>1, Zenon DEF pictureVars, PicturesInv, PlaceInv, CountsInv, ReadablePicture, Pictures!TypeOK,
           Pictures!NumbersFollow, Pictures!Predicted, Pictures!Svc
  <1>2. CASE Pictures!Next
    <2>1. CASE \E m \in Pictures!Modes : Pictures!Reinit(m)
      BY <2>1, ReinitKeeps, Zenon
    <2>2. CASE \E key \in BOOLEAN, sizes \in [0..(mode.spatial - 1) -> {0} \cup Sizes], step \in TimeSteps :
                  Pictures!Encodes(key, sizes, step)
      BY <2>2, EncodesKeeps, Zenon
    <2> QED
      BY <1>2, <2>1, <2>2, Zenon DEF Pictures!Next
  <1>3. UNCHANGED <<part, vars, encoderVars, audioVars, pacerVars, videoVars, pictureVars, layerVars, pcmVars>>
          => UNCHANGED pictureVars
    BY Zenon
  <1> QED
    BY <1>1, <1>2, <1>3, Zenon DEF SuiteNext

\* What the invariant says of the last picture is what a receiver needs.
LEMMA ReadableIs ==
  ASSUME PicturesInv
  PROVE  Pictures!TypeOK /\ Pictures!StreamIsReadable
  <1>1. ASSUME picture.packets # <<>>
        PROVE  /\ \A sid \in Pictures!Layers(picture.sizes) : Pictures!Whole(sid)
               /\ Pictures!PacketsFit /\ Pictures!NumbersFollow /\ decoder.ticks = time
    <2>1. ReadablePicture(picture) /\ Pictures!NumbersFollow /\ decoder.ticks = time
      BY <1>1, Zenon DEF PicturesInv, CountsInv
    <2>2. ASSUME NEW sid \in Pictures!Layers(picture.sizes)
          PROVE  Pictures!Whole(sid)
      <3>1. WholeIn(picture.packets, sid, picture.sizes[sid])
        BY <2>1, Zenon DEF ReadablePicture
      <3> QED
        BY <3>1, Zenon DEF WholeIn, Total, Lens, Pictures!Whole
    <2>3. Pictures!PacketsFit
      BY <2>1, Zenon DEF ReadablePicture, FitsNetwork, Pictures!PacketsFit
    <2> QED
      BY <2>1, <2>2, <2>3, Zenon
  <1> QED
    BY <1>1, Zenon DEF PicturesInv, Pictures!StreamIsReadable

\* A receiver can read the stream, whatever the pictures, the layers and the order
\* of keyframes, new encoders and new modes: every layer comes whole in packets that
\* fit the network, the ids stand for the layers announced and follow one another
\* also where they wrap, and the decoder counts the time of the stream.
THEOREM StreamStaysReadable == ASSUME PictureBounds PROVE Suite => []StreamIsReadable
  <1> DEFINE all == <<part, vars, encoderVars, audioVars, pacerVars, videoVars, pictureVars, layerVars, pcmVars>>
             Inv == part = "pictures" => PicturesInv
  <1>1. SuiteInit => Inv
    BY PicturesInit, Zenon DEF SuiteInit
  <1>2. Inv /\ [SuiteNext]_all => Inv'
    <2> SUFFICES ASSUME Inv, [SuiteNext]_all, part' = "pictures" PROVE PicturesInv'
      OBVIOUS
    <2>1. part = "pictures"
      BY Zenon DEF SuiteNext
    <2> QED BY <2>1, PicturesStep
  <1>3. Inv => StreamIsReadable
    BY ReadableIs, Zenon DEF StreamIsReadable
  <1> QED BY <1>1, <1>2, <1>3, PTL DEF Suite

-----------------------------------------------------------------------------
(* The line of audio from the writers to the encoder, for any writers and  *)
(* forwarders, any sizes of frame, queue and filter, and any flushes.      *)

\* Nobody and the pacer are no tasks of the application.
PaceBounds ==
    /\ MaxWrites \in Nat /\ MaxFlushes \in Nat /\ PacerControls \in Nat
    /\ PacerFrame \in Nat /\ Capacity \in Nat /\ FilterDelay \in Nat
    /\ Pacing!Nobody \notin Writers \cup Forwarders /\ Pacing!Pacer \notin Writers \cup Forwarders

Units == Pacing!Unit
WriterStates ==
    [at : {"idle", "begun", "resampled", "queued"}, flushes : 0..MaxFlushes, out : Seq(Units)]

Rising(q) == \A i, j \in DOMAIN q : i < j => q[i].n < q[j].n
Precede(p, q) == \A i \in DOMAIN p, j \in DOMAIN q : p[i].n < q[j].n
AllOf(q, flush) == \A i \in DOMAIN q : q[i].started = flush
Between(q, low, high) == \A i \in DOMAIN q : low < q[i].n /\ q[i].n <= high

QueueTyped ==
    /\ pcm \in Seq(Units) /\ Len(pcm) <= Capacity
    /\ filter \in Seq(Units) /\ Len(filter) <= FilterDelay
    /\ filterFlushes \in 0..MaxFlushes /\ flushes \in 0..MaxFlushes
    /\ frame \in [units : Seq(Units), at : 0..MaxFlushes]
    /\ writer \in [Writers -> WriterStates]
    /\ pushed \in 0..MaxWrites /\ last \in Nat

TasksTyped ==
    /\ pcmWritten \in BOOLEAN /\ pcmPacing \in BOOLEAN /\ pacingEnabled \in BOOLEAN
    /\ held \in BOOLEAN /\ audioStopped \in BOOLEAN /\ outputPaused \in BOOLEAN
    /\ bound \in BOOLEAN /\ started \in BOOLEAN /\ written \in BOOLEAN
    /\ pacer \in Pacing!Places
    /\ resampler \in Writers \cup {Pacing!Pacer, Pacing!Nobody}
    /\ guard \in Forwarders \cup {Pacing!Pacer, Pacing!Nobody}
    /\ level \in Forwarders \cup {Pacing!Pacer, Pacing!Nobody}
    /\ forwarder \in [Forwarders -> {"idle", "guard", "send"}]

\* Only who has locked the resampler has audio on its way from it.
HoldersInv ==
    /\ \A w \in Writers :
          /\ writer[w].at = "resampled" => resampler = w
          /\ writer[w].at # "resampled" => writer[w].out = <<>>
    /\ resampler = Pacing!Pacer => pacer = "short"
    /\ ~started => pacer = "off"

\* Each part of the line is of one count of flushes.
FlushInv ==
    /\ AllOf(frame.units, frame.at) /\ AllOf(pcm, flushes) /\ AllOf(filter, filterFlushes)
    /\ \A w \in Writers : writer[w].at = "resampled" =>
          filterFlushes = writer[w].flushes /\ AllOf(writer[w].out, writer[w].flushes)

\* The parts of the line follow one another.
OrderInv ==
    /\ last <= pushed
    /\ Rising(pcm) /\ Rising(filter) /\ Precede(pcm, filter)
    /\ Between(pcm, last, pushed) /\ Between(filter, last, pushed)
    /\ \A w \in Writers :
          /\ Rising(writer[w].out) /\ Between(writer[w].out, last, pushed)
          /\ Precede(pcm, writer[w].out) /\ Precede(writer[w].out, filter)

\* The inductive invariant.
PcmLineInv == TasksTyped /\ HoldersInv /\ QueueTyped /\ FlushInv /\ OrderInv

\* A part of a list, that begins d places into it.
PartOf(p, q, d) == \A i \in DOMAIN p : i + d \in DOMAIN q /\ p[i] = q[i + d]

LEMMA NewestIs ==
  ASSUME NEW S, NEW q \in Seq(S), NEW n \in Nat
  PROVE  LET p == Pacing!Newest(q, n) IN
         /\ p \in Seq(S) /\ Len(p) = (IF Len(q) > n THEN n ELSE Len(q))
         /\ PartOf(p, q, Len(q) - Len(p))
  <1> DEFINE m == IF Len(q) > n THEN Len(q) - n + 1 ELSE 1
             p == SubSeq(q, m, Len(q))
  <1>1. Pacing!Newest(q, n) = p
    BY Zenon DEF Pacing!Newest
  <1>2. m \in 1..(Len(q) + 1)
    OBVIOUS
  <1>3. Len(p) = Len(q) - m + 1 /\ DOMAIN p = 1..Len(p) /\ p \in Seq(S)
        /\ \A i \in 1..Len(p) : p[i] = q[m + i - 1] /\ m + i - 1 \in 1..Len(q)
    <2> HIDE DEF m
    <2> QED
      BY <1>2
  <1>4. Len(q) - m + 1 = (IF Len(q) > n THEN n ELSE Len(q)) /\ Len(q) - (Len(q) - m + 1) = m - 1
    OBVIOUS
  <1>5. \A i \in 1..Len(p) : m + i - 1 = i + (m - 1)
    <2> HIDE DEF m
    <2> QED
      BY <1>2, <1>3
  <1> HIDE DEF p, m
  <1>6. PartOf(p, q, m - 1)
    BY <1>3, <1>5 DEF PartOf
  <1> QED
    BY <1>1, <1>3, <1>4, <1>6, Zenon

LEMMA OldestIs ==
  ASSUME NEW S, NEW q \in Seq(S), NEW n \in Nat
  PROVE  LET p == Pacing!Oldest(q, n) IN
         /\ p \in Seq(S) /\ Len(p) = (IF Len(q) > n THEN n ELSE Len(q))
         /\ PartOf(p, q, 0)
  <1> DEFINE m == IF Len(q) > n THEN n ELSE Len(q)
             p == SubSeq(q, 1, m)
  <1>1. Pacing!Oldest(q, n) = p
    BY Zenon DEF Pacing!Oldest
  <1>2. m \in 0..Len(q)
    OBVIOUS
  <1> HIDE DEF m
  <1>3. Len(p) = m /\ DOMAIN p = 1..m /\ p \in Seq(S)
        /\ \A i \in 1..m : p[i] = q[i] /\ i \in 1..Len(q) /\ i + 0 = i
    BY <1>2
  <1> HIDE DEF p
  <1>4. PartOf(p, q, 0)
    BY <1>3 DEF PartOf
  <1> QED
    BY <1>1, <1>3, <1>4, Zenon DEF m

\* What holds of a list holds of its parts.
LEMMA PartKeeps ==
  ASSUME NEW p \in Seq(Units), NEW q \in Seq(Units), NEW d \in Nat, PartOf(p, q, d)
  PROVE  /\ Rising(q) => Rising(p)
         /\ \A c : AllOf(q, c) => AllOf(p, c)
         /\ \A low, high : Between(q, low, high) => Between(p, low, high)
         /\ \A r : Precede(q, r) => Precede(p, r)
         /\ \A r : Precede(r, q) => Precede(r, p)
         /\ \A i \in DOMAIN p : p[i] \in {q[k] : k \in DOMAIN q}
  <1>1. \A i \in DOMAIN p : i \in Nat /\ i + d \in DOMAIN q /\ p[i] = q[i + d]
    BY DEF PartOf
  <1>2. \A i, j \in DOMAIN p : i < j => i + d < j + d
    BY <1>1
  <1>3. Rising(q) => Rising(p)
    BY <1>1, <1>2, Zenon DEF Rising
  <1>4. \A c : AllOf(q, c) => AllOf(p, c)
    BY <1>1, Zenon DEF AllOf
  <1>5. \A low, high : Between(q, low, high) => Between(p, low, high)
    BY <1>1, Zenon DEF Between
  <1>6. \A r : Precede(q, r) => Precede(p, r)
    BY <1>1, Zenon DEF Precede
  <1>7. \A r : Precede(r, q) => Precede(r, p)
    BY <1>1, Zenon DEF Precede
  <1>8. \A i \in DOMAIN p : p[i] \in {q[k] : k \in DOMAIN q}
    BY <1>1, Zenon
  <1> QED
    BY <1>3, <1>4, <1>5, <1>6, <1>7, <1>8, Zenon

\* What holds of two lists of which one precedes the other holds of both together.
LEMMA JoinKeeps ==
  ASSUME NEW p \in Seq(Units), NEW q \in Seq(Units)
  PROVE  /\ p \o q \in Seq(Units) /\ Len(p \o q) = Len(p) + Len(q)
         /\ PartOf(p, p \o q, 0) /\ PartOf(q, p \o q, Len(p))
         /\ Rising(p) /\ Rising(q) /\ Precede(p, q) => Rising(p \o q)
         /\ \A c : AllOf(p, c) /\ AllOf(q, c) => AllOf(p \o q, c)
         /\ \A low, high : Between(p, low, high) /\ Between(q, low, high) => Between(p \o q, low, high)
         /\ \A r : Precede(p, r) /\ Precede(q, r) => Precede(p \o q, r)
         /\ \A r : Precede(r, p) /\ Precede(r, q) => Precede(r, p \o q)
  <1> DEFINE j == p \o q
  <1>1. j \in Seq(Units) /\ Len(j) = Len(p) + Len(q) /\ DOMAIN j = 1..(Len(p) + Len(q))
        /\ DOMAIN p = 1..Len(p) /\ DOMAIN q = 1..Len(q) /\ Len(p) \in Nat /\ Len(q) \in Nat
    OBVIOUS
  <1>2. \A i \in 1..Len(p) : j[i] = p[i]
    OBVIOUS
  <1>3. \A i \in 1..Len(q) : j[i + Len(p)] = q[i]
    OBVIOUS
  <1> HIDE DEF j
  <1>4. PartOf(p, j, 0)
    <2>1. \A i \in DOMAIN p : i + 0 \in DOMAIN j /\ p[i] = j[i + 0]
      BY <1>1, <1>2
    <2> QED
      BY <2>1, Zenon DEF PartOf
  <1>5. PartOf(q, j, Len(p))
    <2>1. \A i \in 1..Len(q) : i + Len(p) \in 1..(Len(p) + Len(q))
      BY <1>1
    <2> QED
      BY <1>1, <1>3, <2>1, Zenon DEF PartOf
  <1>6. \A i \in DOMAIN j : \/ i \in DOMAIN p /\ j[i] = p[i] /\ i <= Len(p)
                            \/ i - Len(p) \in DOMAIN q /\ j[i] = q[i - Len(p)] /\ i > Len(p)
    <2> SUFFICES ASSUME NEW i \in DOMAIN j
                 PROVE  \/ i \in DOMAIN p /\ j[i] = p[i] /\ i <= Len(p)
                        \/ i - Len(p) \in DOMAIN q /\ j[i] = q[i - Len(p)] /\ i > Len(p)
      BY Zenon
    <2>1. CASE i <= Len(p)
      BY <1>1, <1>2, <2>1
    <2>2. CASE ~(i <= Len(p))
      <3>1. i - Len(p) \in 1..Len(q) /\ (i - Len(p)) + Len(p) = i /\ i > Len(p)
        BY <1>1, <2>2
      <3> QED
        BY <1>1, <1>3, <3>1, Zenon
    <2> QED
      BY <2>1, <2>2
  <1>7. ASSUME Rising(p), Rising(q), Precede(p, q)
        PROVE  Rising(j)
    <2> SUFFICES ASSUME NEW i \in DOMAIN j, NEW k \in DOMAIN j, i < k
                 PROVE  j[i].n < j[k].n
      BY Zenon DEF Rising
    <2>1. CASE i \in DOMAIN p /\ j[i] = p[i] /\ k \in DOMAIN p /\ j[k] = p[k]
      BY <1>7, <2>1, Zenon DEF Rising
    <2>2. CASE i \in DOMAIN p /\ j[i] = p[i] /\ k - Len(p) \in DOMAIN q /\ j[k] = q[k - Len(p)]
      BY <1>7, <2>2, Zenon DEF Precede
    <2>3. CASE i - Len(p) \in DOMAIN q /\ j[i] = q[i - Len(p)] /\ k - Len(p) \in DOMAIN q /\ j[k] = q[k - Len(p)]
      <3>1. i - Len(p) < k - Len(p)
        BY <1>1
      <3> QED
        BY <1>7, <2>3, <3>1, Zenon DEF Rising
    <2>4. CASE i > Len(p) /\ k <= Len(p)
      BY <1>1, <2>4
    <2> QED
      BY <1>6, <2>1, <2>2, <2>3, <2>4, Zenon
  <1>8. \A c : AllOf(p, c) /\ AllOf(q, c) => AllOf(j, c)
    BY <1>6, Zenon DEF AllOf
  <1>9. \A low, high : Between(p, low, high) /\ Between(q, low, high) => Between(j, low, high)
    BY <1>6, Zenon DEF Between
  <1>10. \A r : Precede(p, r) /\ Precede(q, r) => Precede(j, r)
    BY <1>6, Zenon DEF Precede
  <1>11. \A r : Precede(r, p) /\ Precede(r, q) => Precede(r, j)
    BY <1>6, Zenon DEF Precede
  <1> QED
    BY <1>1, <1>4, <1>5, <1>7, <1>8, <1>9, <1>10, <1>11, Zenon DEF j

Elements(q) == {q[i] : i \in DOMAIN q}

\* Nothing is required of an empty list.
LEMMA EmptyIs ==
  /\ <<>> \in Seq(Units) /\ Len(<<>>) = 0 /\ Rising(<<>>) /\ Elements(<<>>) = {}
  /\ \A c : AllOf(<<>>, c)
  /\ \A low, high : Between(<<>>, low, high)
  /\ \A r : Precede(<<>>, r) /\ Precede(r, <<>>)
  <1>1. DOMAIN <<>> = {} /\ <<>> \in Seq(Units) /\ Len(<<>>) = 0
    OBVIOUS
  <1> QED
    BY <1>1, Zenon DEF Rising, Elements, AllOf, Between, Precede

LEMMA UnitsAre ==
  ASSUME PaceBounds, NEW q \in Seq(Units)
  PROVE  \A i \in DOMAIN q : q[i] \in Units /\ q[i].n \in Nat
  <1>1. \A i \in DOMAIN q : q[i] \in Units
    OBVIOUS
  <1>2. \A u \in Units : u.n \in Nat
    BY DEF Units, Pacing!Unit, PaceBounds
  <1> QED
    BY <1>1, <1>2, Zenon

LEMMA BetweenGrows ==
  ASSUME PaceBounds, NEW q \in Seq(Units), NEW low \in Nat, NEW high \in Nat, NEW higher \in Nat,
         Between(q, low, high), high <= higher
  PROVE  Between(q, low, higher)
  <1>1. \A i \in DOMAIN q : q[i].n \in Nat /\ low < q[i].n /\ q[i].n <= high
    BY UnitsAre, Zenon DEF Between
  <1>2. \A i \in DOMAIN q : q[i].n <= higher
    BY <1>1
  <1> QED
    BY <1>1, <1>2, Zenon DEF Between

\* The parts that a list is cut into.
LEMMA CutIs ==
  ASSUME PaceBounds, NEW q \in Seq(Units), NEW p \in Seq(Units), NEW r \in Seq(Units),
         Len(p) + Len(r) = Len(q), PartOf(p, q, 0), PartOf(r, q, Len(p))
  PROVE  /\ Elements(q) = Elements(p) \cup Elements(r)
         /\ Rising(q) => Precede(p, r)
  <1>1. /\ DOMAIN q = 1..Len(q) /\ DOMAIN p = 1..Len(p) /\ DOMAIN r = 1..Len(r)
        /\ Len(p) \in Nat /\ Len(r) \in Nat /\ Len(q) \in Nat
    OBVIOUS
  <1>2. \A i \in DOMAIN p : i + 0 = i
    BY <1>1
  <1>3. \A i \in DOMAIN p : i \in DOMAIN q /\ p[i] = q[i]
    BY <1>2, Zenon DEF PartOf
  <1>4. \A i \in DOMAIN r : i + Len(p) \in DOMAIN q /\ r[i] = q[i + Len(p)]
    BY Zenon DEF PartOf
  <1>5. \A i \in DOMAIN q : i \in DOMAIN p \/ (i - Len(p) \in DOMAIN r /\ (i - Len(p)) + Len(p) = i)
    BY <1>1
  <1>6. Elements(p) \subseteq Elements(q) /\ Elements(r) \subseteq Elements(q)
    BY <1>3, <1>4, Zenon DEF Elements
  <1>7. \A i \in DOMAIN q : q[i] \in Elements(p) \cup Elements(r)
    <2> SUFFICES ASSUME NEW i \in DOMAIN q
                 PROVE  q[i] \in Elements(p) \/ q[i] \in Elements(r)
      BY Zenon
    <2>1. CASE i \in DOMAIN p
      BY <1>3, <2>1, Zenon DEF Elements
    <2>2. CASE i - Len(p) \in DOMAIN r /\ (i - Len(p)) + Len(p) = i
      <3>1. r[i - Len(p)] = q[i]
        BY <1>4, <2>2, Zenon
      <3> QED
        BY <2>2, <3>1, Zenon DEF Elements
    <2> QED
      BY <1>5, <2>1, <2>2
  <1>8. Elements(q) \subseteq Elements(p) \cup Elements(r)
    BY <1>7, Zenon DEF Elements
  <1>9. ASSUME Rising(q)
        PROVE  Precede(p, r)
    <2>1. \A i \in DOMAIN p, k \in DOMAIN r : i < k + Len(p)
      BY <1>1
    <2> QED
      BY <1>3, <1>4, <1>9, <2>1, Zenon DEF Rising, Precede
  <1> QED
    BY <1>6, <1>8, <1>9

\* The filter keeps the newest audio and lets out what came before.
LEMMA FilterSplits ==
  ASSUME PaceBounds, NEW q \in Seq(Units)
  PROVE  LET stay == Pacing!StaysInFilter(q)
             out == Pacing!LeavesFilter(q)
         IN /\ stay \in Seq(Units) /\ Len(stay) <= FilterDelay /\ out \in Seq(Units)
            /\ PartOf(stay, q, Len(out)) /\ PartOf(out, q, 0)
            /\ Elements(q) = Elements(out) \cup Elements(stay)
            /\ Rising(q) => Precede(out, stay)
  <1> DEFINE stay == Pacing!StaysInFilter(q)
             out == Pacing!LeavesFilter(q)
  <1>1. stay = Pacing!Newest(q, FilterDelay) /\ out = Pacing!Oldest(q, Len(q) - Len(stay))
    BY Zenon DEF Pacing!StaysInFilter, Pacing!LeavesFilter
  <1>2. FilterDelay \in Nat /\ Len(q) \in Nat
    BY DEF PaceBounds
  <1> HIDE DEF stay, out
  <1>3. stay \in Seq(Units) /\ Len(stay) = (IF Len(q) > FilterDelay THEN FilterDelay ELSE Len(q))
        /\ PartOf(stay, q, Len(q) - Len(stay))
    BY <1>1, <1>2, NewestIs, Zenon
  <1>4. Len(stay) <= FilterDelay /\ Len(q) - Len(stay) \in Nat /\ ~(Len(q) < Len(q) - Len(stay)) /\ Len(stay) \in Nat
    BY <1>2, <1>3
  <1>5. out \in Seq(Units) /\ PartOf(out, q, 0)
        /\ Len(out) = (IF Len(q) > Len(q) - Len(stay) THEN Len(q) - Len(stay) ELSE Len(q))
    BY <1>1, <1>4, OldestIs, Zenon
  <1>6. Len(out) = Len(q) - Len(stay) /\ Len(out) + Len(stay) = Len(q)
    BY <1>2, <1>4, <1>5
  <1>7. PartOf(stay, q, Len(out))
    BY <1>3, <1>6
  <1>8. Elements(q) = Elements(out) \cup Elements(stay) /\ (Rising(q) => Precede(out, stay))
    BY <1>3, <1>5, <1>6, <1>7, CutIs
  <1> QED
    BY <1>3, <1>4, <1>5, <1>7, <1>8 DEF stay, out

\* The queue has the newest audio of both, all of it if there is room.
LEMMA PushedIs ==
  ASSUME PaceBounds, NEW p \in Seq(Units), NEW q \in Seq(Units), Rising(p), Rising(q), Precede(p, q)
  PROVE  LET queue == Pacing!PushBounded(p, q) IN
         /\ queue \in Seq(Units) /\ Len(queue) <= Capacity /\ Rising(queue)
         /\ \A c : AllOf(p, c) /\ AllOf(q, c) => AllOf(queue, c)
         /\ \A low, high : Between(p, low, high) /\ Between(q, low, high) => Between(queue, low, high)
         /\ \A r : Precede(p, r) /\ Precede(q, r) => Precede(queue, r)
         /\ ~(Len(p) + Len(q) > Capacity) => Elements(p) \cup Elements(q) \subseteq Elements(queue)
  <1> DEFINE j == p \o q
             queue == Pacing!PushBounded(p, q)
  <1>1. queue = Pacing!Newest(j, Capacity)
    BY Zenon DEF Pacing!PushBounded
  <1>2. /\ j \in Seq(Units) /\ Len(j) = Len(p) + Len(q) /\ PartOf(p, j, 0) /\ PartOf(q, j, Len(p)) /\ Rising(j)
        /\ \A c : AllOf(p, c) /\ AllOf(q, c) => AllOf(j, c)
        /\ \A low, high : Between(p, low, high) /\ Between(q, low, high) => Between(j, low, high)
        /\ \A r : Precede(p, r) /\ Precede(q, r) => Precede(j, r)
    BY JoinKeeps, Zenon
  <1> HIDE DEF j, queue
  <1>3. queue \in Seq(Units) /\ Len(queue) = (IF Len(j) > Capacity THEN Capacity ELSE Len(j))
        /\ PartOf(queue, j, Len(j) - Len(queue))
    <2>1. Capacity \in Nat
      BY DEF PaceBounds
    <2> QED
      BY <1>1, <1>2, <2>1, NewestIs, Zenon
  <1>4. Len(queue) <= Capacity /\ Len(j) - Len(queue) \in Nat /\ Len(j) \in Nat /\ Len(queue) \in Nat
        /\ Len(p) \in Nat /\ Len(q) \in Nat
    BY <1>2, <1>3 DEF PaceBounds
  <1>5. /\ Rising(queue)
        /\ \A c : AllOf(j, c) => AllOf(queue, c)
        /\ \A low, high : Between(j, low, high) => Between(queue, low, high)
        /\ \A r : Precede(j, r) => Precede(queue, r)
    BY <1>2, <1>3, <1>4, PartKeeps, Zenon
  <1>6. ASSUME ~(Len(p) + Len(q) > Capacity)
        PROVE  Elements(p) \cup Elements(q) \subseteq Elements(queue)
    <2>1. Len(queue) = Len(j) /\ Len(j) - Len(queue) = 0
      BY <1>2, <1>3, <1>4, <1>6
    <2>2. Elements(j) = Elements(p) \cup Elements(q)
      BY <1>2, CutIs
    <2>3. PartOf(queue, j, 0)
      BY <1>3, <2>1
    <2>4. /\ DOMAIN queue = DOMAIN j /\ \A i \in DOMAIN queue : i + 0 = i
      BY <1>2, <1>3, <2>1
    <2>5. \A i \in DOMAIN j : queue[i] = j[i]
      BY <2>3, <2>4, Zenon DEF PartOf
    <2> QED
      BY <2>2, <2>4, <2>5, Zenon DEF Elements
  <1> QED
    BY <1>2, <1>3, <1>4, <1>5, <1>6, Zenon DEF queue

\* A frame takes the oldest audio of the queue.
LEMMA FillsIs ==
  ASSUME PaceBounds, NEW queue \in Seq(Units), Rising(queue), Between(queue, last, pushed),
         AllOf(queue, flushes), last \in Nat, pushed \in Nat, last <= pushed, flushes \in 0..MaxFlushes,
         Pacing!Fills(queue)
  PROVE  /\ frame' \in [units : Seq(Units), at : 0..MaxFlushes]
         /\ frame'.at = flushes /\ AllOf(frame'.units, flushes)
         /\ pcm' \in Seq(Units) /\ Len(pcm') <= Len(queue) /\ AllOf(pcm', flushes)
         /\ Rising(pcm') /\ Between(pcm', last', pushed)
         /\ last' \in Nat /\ last' <= pushed
         /\ \A r : Precede(queue, r) => Precede(pcm', r)
         /\ \A r : Precede(queue, r) /\ Between(r, last, pushed) => Between(r, last', pushed)
         /\ Elements(queue) = Elements(frame'.units) \cup Elements(pcm')
  <1> DEFINE units == Pacing!Oldest(queue, PacerFrame)
             k == Len(queue) - Len(units)
             rest == Pacing!Newest(queue, k)
             taken == IF units = <<>> THEN last ELSE Pacing!Last(units).n
  <1>1. frame' = [units |-> units, at |-> flushes] /\ pcm' = rest /\ last' = taken
    BY Zenon DEF Pacing!Fills
  <1>2. PacerFrame \in Nat /\ Len(queue) \in Nat
    BY DEF PaceBounds
  <1>3. units \in Seq(Units) /\ PartOf(units, queue, 0)
        /\ Len(units) = (IF Len(queue) > PacerFrame THEN PacerFrame ELSE Len(queue))
    BY <1>2, OldestIs, Zenon
  <1> HIDE DEF units
  <1>4. k \in Nat /\ Len(units) \in Nat /\ k <= Len(queue) /\ k + Len(units) = Len(queue)
    BY <1>2, <1>3
  <1>5. rest \in Seq(Units) /\ PartOf(rest, queue, Len(queue) - Len(rest))
        /\ Len(rest) = (IF Len(queue) > k THEN k ELSE Len(queue))
    <2> HIDE DEF k
    <2> QED
      BY <1>4, NewestIs, Zenon
  <1> HIDE DEF k, rest
  <1>6. Len(rest) = k /\ Len(queue) - Len(rest) = Len(units) /\ Len(units) + Len(rest) = Len(queue)
        /\ Len(rest) <= Len(queue)
    BY <1>2, <1>4, <1>5
  <1>7. PartOf(rest, queue, Len(units))
    BY <1>5, <1>6
  <1>8. Elements(queue) = Elements(units) \cup Elements(rest) /\ Precede(units, rest)
    BY <1>3, <1>5, <1>6, <1>7, CutIs
  <1>9. /\ Rising(rest) /\ AllOf(rest, flushes) /\ AllOf(units, flushes) /\ Between(rest, last, pushed)
        /\ Between(units, last, pushed)
        /\ \A r : Precede(queue, r) => Precede(rest, r)
        /\ \A r : Precede(queue, r) => Precede(units, r)
    <2>1. 0 \in Nat
      OBVIOUS
    <2>2. /\ Rising(rest) /\ AllOf(rest, flushes) /\ Between(rest, last, pushed)
          /\ \A r : Precede(queue, r) => Precede(rest, r)
      BY <1>4, <1>5, <1>7, PartKeeps, Zenon
    <2>3. /\ AllOf(units, flushes) /\ Between(units, last, pushed)
          /\ \A r : Precede(queue, r) => Precede(units, r)
      BY <1>3, <2>1, PartKeeps, Zenon
    <2> QED
      BY <2>2, <2>3, Zenon
  <1>10. /\ taken \in Nat /\ taken <= pushed
         /\ \A r : Precede(units, r) /\ Between(r, last, pushed) => Between(r, taken, pushed)
    <2>1. CASE units = <<>>
      <3>1. taken = last
        BY <2>1, Zenon
      <3> QED
        BY <3>1
    <2>2. CASE units # <<>>
      <3>1. Len(units) \in DOMAIN units
        BY <1>3, <2>2
      <3>2. taken = units[Len(units)].n
        BY <2>2, Zenon DEF Pacing!Last
      <3>3. taken \in Nat
        BY <1>3, <3>1, <3>2, UnitsAre, Zenon
      <3>4. taken <= pushed
        BY <1>9, <3>1, <3>2, Zenon DEF Between
      <3>5. \A r : Precede(units, r) /\ Between(r, last, pushed) => Between(r, taken, pushed)
        BY <3>1, <3>2, Zenon DEF Precede, Between
      <3> QED
        BY <3>3, <3>4, <3>5, Zenon
    <2> QED
      BY <2>1, <2>2
  <1> HIDE DEF taken
  <1>11. frame'.units = units /\ frame'.at = flushes /\ frame' \in [units : Seq(Units), at : 0..MaxFlushes]
    BY <1>1, <1>3
  <1> QED
    BY <1>1, <1>5, <1>6, <1>8, <1>9, <1>10, <1>11, Zenon

\* The steps of the pacer's module.
LineSteps ==
    \/ \E w \in Writers : \/ Pacing!WriteBegins(w) \/ Pacing!WriteResamples(w) \/ Pacing!WriteRefused(w)
                          \/ Pacing!WriteQueues(w) \/ Pacing!WritePaces(w)
    \/ Pacing!PacerTicks \/ Pacing!PacerLocks \/ Pacing!TakeBegins \/ Pacing!TakeLooks \/ Pacing!TakeEnds
    \/ Pacing!PacerEncodes \/ Pacing!PacerSends
    \/ \E f \in Forwarders : Pacing!ForwardBegins(f) \/ Pacing!ForwardLocks(f) \/ Pacing!ForwardSends(f)
    \/ Pacing!Flush \/ Pacing!StartPacing \/ Pacing!PausePacing \/ Pacing!HoldPacing \/ Pacing!ReleasePacing
    \/ Pacing!SetPaused \/ Pacing!Bind \/ Pacing!Stop

LEMMA LineStepsAre == Pacing!Next => LineSteps
  BY Zenon DEF LineSteps, Pacing!Next, Pacing!WriterStep, Pacing!PacerStep, Pacing!ForwarderStep

LEMMA PlacesOfPacer ==
  /\ "off" \in Pacing!Places /\ "tick" \in Pacing!Places /\ "guard" \in Pacing!Places
  /\ "take" \in Pacing!Places /\ "look" \in Pacing!Places /\ "short" \in Pacing!Places
  /\ "encode" \in Pacing!Places /\ "send" \in Pacing!Places
  BY Zenon DEF Pacing!Places

\* ensure_pacer lets a task that runs go on.
LEMMA EnsuresPacer ==
  ASSUME TasksTyped, Pacing!EnsurePacer \/ UNCHANGED <<pacer, started>>
  PROVE  /\ started' \in BOOLEAN /\ pacer' \in Pacing!Places
         /\ started => pacer' = pacer
         /\ ~started' => ~started /\ pacer' = pacer
  <1>1. started \in BOOLEAN /\ pacer \in Pacing!Places /\ "tick" \in Pacing!Places
    BY PlacesOfPacer, Zenon DEF TasksTyped
  <1>2. CASE UNCHANGED <<pacer, started>>
    BY <1>1, <1>2, Zenon
  <1>3. CASE started' = TRUE /\ started /\ pacer' = pacer
    BY <1>1, <1>3, Zenon
  <1>4. CASE started' = TRUE /\ ~started /\ pacer' = "tick"
    BY <1>1, <1>4, Zenon
  <1> QED
    BY <1>2, <1>3, <1>4, Zenon DEF Pacing!EnsurePacer

LEMMA TasksKeep ==
  ASSUME TasksTyped, LineSteps
  PROVE  TasksTyped'
  <1>a. /\ pacer \in Pacing!Places /\ resampler \in Writers \cup {Pacing!Pacer, Pacing!Nobody}
        /\ guard \in Forwarders \cup {Pacing!Pacer, Pacing!Nobody}
        /\ level \in Forwarders \cup {Pacing!Pacer, Pacing!Nobody}
        /\ forwarder \in [Forwarders -> {"idle", "guard", "send"}]
    BY SMT DEF TasksTyped
  <1>b. pcmWritten \in BOOLEAN /\ written \in BOOLEAN
    BY SMT DEF TasksTyped
  <1>1. ASSUME NEW w \in Writers, Pacing!WriteBegins(w)
        PROVE  TasksTyped'
    <2>1. /\ UNCHANGED <<pcmWritten, pacingEnabled, held, audioStopped, outputPaused, bound>>
          /\ UNCHANGED <<pacer, started, written, resampler, guard, level, forwarder>>
      BY <1>1, Zenon DEF Pacing!WriteBegins, Pacing!track, Pacing!audio, Pacing!task
    <2>2. pcmPacing' \in BOOLEAN
      BY <1>1, Zenon DEF Pacing!WriteBegins
    <2> QED
      BY <2>1, <2>2, SMT DEF TasksTyped
  <1>2. ASSUME NEW w \in Writers, Pacing!WriteResamples(w)
        PROVE  TasksTyped'
    <2>1. /\ UNCHANGED <<pcmPacing, pacingEnabled, held, audioStopped, outputPaused, bound>>
          /\ UNCHANGED <<pacer, started, written, guard, level, forwarder>>
      BY <1>2, Zenon DEF Pacing!WriteResamples, Pacing!track, Pacing!audio, Pacing!task
    <2>2. pcmWritten' \in BOOLEAN /\ resampler' \in Writers \cup {Pacing!Pacer, Pacing!Nobody}
      BY <1>2, <1>a, Zenon DEF Pacing!WriteResamples
    <2> QED
      BY <2>1, <2>2, SMT DEF TasksTyped
  <1>3. ASSUME NEW w \in Writers, Pacing!WriteRefused(w)
        PROVE  TasksTyped'
    <2>1. /\ UNCHANGED <<pcmWritten, pcmPacing, pacingEnabled, held, audioStopped, outputPaused, bound>>
          /\ UNCHANGED <<pacer, started, written, resampler, guard, level, forwarder>>
      BY <1>3, Zenon DEF Pacing!WriteRefused, Pacing!track, Pacing!audio, Pacing!task
    <2> QED
      BY <2>1, SMT DEF TasksTyped
  <1>4. ASSUME NEW w \in Writers, Pacing!WriteQueues(w)
        PROVE  TasksTyped'
    <2>1. /\ UNCHANGED <<pcmWritten, pcmPacing, pacingEnabled, held, audioStopped, outputPaused, bound>>
          /\ UNCHANGED <<pacer, started, written, guard, level, forwarder>>
      BY <1>4, Zenon DEF Pacing!WriteQueues, Pacing!track, Pacing!audio, Pacing!task
    <2>2. resampler' \in Writers \cup {Pacing!Pacer, Pacing!Nobody}
      BY <1>4, <1>a, Zenon DEF Pacing!WriteQueues
    <2> QED
      BY <2>1, <2>2, SMT DEF TasksTyped
  <1>5. ASSUME NEW w \in Writers, Pacing!WritePaces(w)
        PROVE  TasksTyped'
    <2>1. /\ UNCHANGED <<pcmWritten, pcmPacing, pacingEnabled, held, audioStopped, outputPaused, bound>>
          /\ UNCHANGED <<written, resampler, guard, level, forwarder>>
      BY <1>5, Zenon DEF Pacing!WritePaces, Pacing!track, Pacing!audio, Pacing!task
    <2>2. started' \in BOOLEAN /\ pacer' \in Pacing!Places
      BY <1>5, EnsuresPacer, <1>a, PlacesOfPacer, Zenon DEF Pacing!WritePaces
    <2> QED
      BY <2>1, <2>2, SMT DEF TasksTyped
  <1>6. ASSUME NEW f \in Forwarders, Pacing!ForwardBegins(f)
        PROVE  TasksTyped'
    <2>1. /\ UNCHANGED <<pcmWritten, pacingEnabled, held, audioStopped, outputPaused, bound>>
          /\ UNCHANGED <<pacer, started, written, resampler, guard, level>>
      BY <1>6, Zenon DEF Pacing!ForwardBegins, Pacing!track, Pacing!audio, Pacing!task
    <2>2. pcmPacing' \in BOOLEAN /\ forwarder' \in [Forwarders -> {"idle", "guard", "send"}]
      BY <1>6, <1>a, Zenon DEF Pacing!ForwardBegins
    <2> QED
      BY <2>1, <2>2, SMT DEF TasksTyped
  <1>7. ASSUME NEW f \in Forwarders, Pacing!ForwardLocks(f)
        PROVE  TasksTyped'
    <2>1. /\ UNCHANGED <<pcmWritten, pcmPacing, pacingEnabled, held, audioStopped, outputPaused, bound>>
          /\ UNCHANGED <<pacer, started, written, resampler>>
      BY <1>7, Zenon DEF Pacing!ForwardLocks, Pacing!track, Pacing!audio, Pacing!task
    <2>2. /\ forwarder' \in [Forwarders -> {"idle", "guard", "send"}]
          /\ guard' \in Forwarders \cup {Pacing!Pacer, Pacing!Nobody}
          /\ level' \in Forwarders \cup {Pacing!Pacer, Pacing!Nobody}
      BY <1>7, <1>a, Zenon DEF Pacing!ForwardLocks
    <2> QED
      BY <2>1, <2>2, SMT DEF TasksTyped
  <1>8. ASSUME NEW f \in Forwarders, Pacing!ForwardSends(f)
        PROVE  TasksTyped'
    <2>1. /\ UNCHANGED <<pcmWritten, pcmPacing, pacingEnabled, held, audioStopped, outputPaused, bound>>
          /\ UNCHANGED <<pacer, started, written, resampler, level>>
      BY <1>8, Zenon DEF Pacing!ForwardSends, Pacing!track, Pacing!audio, Pacing!task
    <2>2. /\ forwarder' \in [Forwarders -> {"idle", "guard", "send"}]
          /\ guard' \in Forwarders \cup {Pacing!Pacer, Pacing!Nobody}
      BY <1>8, <1>a, Zenon DEF Pacing!ForwardSends
    <2> QED
      BY <2>1, <2>2, SMT DEF TasksTyped
  <1>9. CASE Pacing!PacerTicks
    <2>1. /\ UNCHANGED <<pcmWritten, pcmPacing, pacingEnabled, held, audioStopped, outputPaused, bound>>
          /\ UNCHANGED <<started, written, resampler, guard, level, forwarder>>
      BY <1>9, Zenon DEF Pacing!PacerTicks, Pacing!track, Pacing!audio, Pacing!task
    <2>2. pacer' \in Pacing!Places
      BY <1>9, <1>a, PlacesOfPacer, Zenon DEF Pacing!PacerTicks
    <2> QED
      BY <2>1, <2>2, SMT DEF TasksTyped
  <1>10. CASE Pacing!PacerLocks
    <2>1. /\ UNCHANGED <<pcmWritten, pcmPacing, pacingEnabled, held, audioStopped, outputPaused, bound>>
          /\ UNCHANGED <<started, written, resampler, level, forwarder>>
      BY <1>10, Zenon DEF Pacing!PacerLocks, Pacing!track, Pacing!audio, Pacing!task
    <2>2. pacer' \in Pacing!Places /\ guard' \in Forwarders \cup {Pacing!Pacer, Pacing!Nobody}
      BY <1>10, <1>a, PlacesOfPacer, Zenon DEF Pacing!PacerLocks
    <2> QED
      BY <2>1, <2>2, SMT DEF TasksTyped
  <1>11. CASE Pacing!TakeBegins
    <2>1. /\ UNCHANGED <<pcmPacing, pacingEnabled, held, audioStopped, outputPaused, bound>>
          /\ UNCHANGED <<started, resampler, guard, level, forwarder>>
      BY <1>11, Zenon DEF Pacing!TakeBegins, Pacing!track, Pacing!audio, Pacing!task
    <2>2. pacer' \in Pacing!Places /\ written' \in BOOLEAN /\ pcmWritten' \in BOOLEAN
      BY <1>11, <1>a, <1>b, PlacesOfPacer, Zenon DEF Pacing!TakeBegins
    <2> QED
      BY <2>1, <2>2, SMT DEF TasksTyped
  <1>12. CASE Pacing!TakeLooks
    <2>1. /\ UNCHANGED <<pcmWritten, pcmPacing, pacingEnabled, held, audioStopped, outputPaused, bound>>
          /\ UNCHANGED <<started, guard, level, forwarder>>
      BY <1>12, Zenon DEF Pacing!TakeLooks, Pacing!track, Pacing!audio, Pacing!task, Pacing!Fills
    <2>2. /\ pacer' \in Pacing!Places
          /\ resampler' \in Writers \cup {Pacing!Pacer, Pacing!Nobody}
          /\ written' \in BOOLEAN
      BY <1>12, <1>a, <1>b, PlacesOfPacer, Zenon DEF Pacing!TakeLooks, Pacing!Fills
    <2> QED
      BY <2>1, <2>2, SMT DEF TasksTyped
  <1>13. CASE Pacing!TakeEnds
    <2>1. /\ UNCHANGED <<pcmWritten, pcmPacing, pacingEnabled, held, audioStopped, outputPaused, bound>>
          /\ UNCHANGED <<started, guard, level, forwarder>>
      BY <1>13, Zenon DEF Pacing!TakeEnds, Pacing!track, Pacing!audio, Pacing!task, Pacing!Fills
    <2>2. /\ pacer' \in Pacing!Places
          /\ resampler' \in Writers \cup {Pacing!Pacer, Pacing!Nobody}
          /\ written' \in BOOLEAN
      BY <1>13, <1>a, <1>b, PlacesOfPacer, Zenon DEF Pacing!TakeEnds, Pacing!Fills
    <2> QED
      BY <2>1, <2>2, SMT DEF TasksTyped
  <1>14. CASE Pacing!PacerEncodes
    <2>1. /\ UNCHANGED <<pcmWritten, pcmPacing, pacingEnabled, held, audioStopped, outputPaused, bound>>
          /\ UNCHANGED <<started, written, resampler, forwarder>>
      BY <1>14, Zenon DEF Pacing!PacerEncodes, Pacing!track, Pacing!audio, Pacing!task
    <2>2. /\ pacer' \in Pacing!Places
          /\ guard' \in Forwarders \cup {Pacing!Pacer, Pacing!Nobody}
          /\ level' \in Forwarders \cup {Pacing!Pacer, Pacing!Nobody}
      BY <1>14, <1>a, PlacesOfPacer, Zenon DEF Pacing!PacerEncodes
    <2> QED
      BY <2>1, <2>2, SMT DEF TasksTyped
  <1>15. CASE Pacing!PacerSends
    <2>1. /\ UNCHANGED <<pcmWritten, pcmPacing, pacingEnabled, held, audioStopped, outputPaused, bound>>
          /\ UNCHANGED <<started, written, resampler, level, forwarder>>
      BY <1>15, Zenon DEF Pacing!PacerSends, Pacing!track, Pacing!audio, Pacing!task
    <2>2. pacer' \in Pacing!Places /\ guard' \in Forwarders \cup {Pacing!Pacer, Pacing!Nobody}
      BY <1>15, <1>a, PlacesOfPacer, Zenon DEF Pacing!PacerSends
    <2> QED
      BY <2>1, <2>2, SMT DEF TasksTyped
  <1>16. CASE Pacing!Flush
    <2>1. /\ UNCHANGED <<pcmWritten, pcmPacing, pacingEnabled, held, audioStopped, outputPaused, bound>>
          /\ UNCHANGED <<pacer, started, written, resampler, guard, level, forwarder>>
      BY <1>16, Zenon DEF Pacing!Flush, Pacing!track, Pacing!audio, Pacing!task
    <2> QED
      BY <2>1, SMT DEF TasksTyped
  <1>17. CASE Pacing!StartPacing
    <2>1. /\ UNCHANGED <<pcmWritten, pcmPacing, held, audioStopped, outputPaused, bound>>
          /\ UNCHANGED <<written, resampler, guard, level, forwarder>>
      BY <1>17, Zenon DEF Pacing!StartPacing, Pacing!track, Pacing!audio, Pacing!task
    <2>2. pacingEnabled' \in BOOLEAN /\ started' \in BOOLEAN /\ pacer' \in Pacing!Places
      BY <1>17, EnsuresPacer, <1>a, PlacesOfPacer, Zenon DEF Pacing!StartPacing
    <2> QED
      BY <2>1, <2>2, SMT DEF TasksTyped
  <1>18. CASE Pacing!PausePacing
    <2>1. /\ UNCHANGED <<pcmWritten, pcmPacing, held, audioStopped, outputPaused, bound>>
          /\ UNCHANGED <<pacer, started, written, resampler, guard, level, forwarder>>
      BY <1>18, Zenon DEF Pacing!PausePacing, Pacing!track, Pacing!audio, Pacing!task
    <2>2. pacingEnabled' \in BOOLEAN
      BY <1>18, Zenon DEF Pacing!PausePacing
    <2> QED
      BY <2>1, <2>2, SMT DEF TasksTyped
  <1>19. CASE Pacing!HoldPacing
    <2>1. /\ UNCHANGED <<pcmWritten, pcmPacing, pacingEnabled, audioStopped, outputPaused, bound>>
          /\ UNCHANGED <<pacer, started, written, resampler, guard, level, forwarder>>
      BY <1>19, Zenon DEF Pacing!HoldPacing, Pacing!track, Pacing!audio, Pacing!task
    <2>2. held' \in BOOLEAN
      BY <1>19, Zenon DEF Pacing!HoldPacing
    <2> QED
      BY <2>1, <2>2, SMT DEF TasksTyped
  <1>20. CASE Pacing!ReleasePacing
    <2>1. /\ UNCHANGED <<pcmWritten, pcmPacing, pacingEnabled, audioStopped, outputPaused, bound>>
          /\ UNCHANGED <<written, resampler, guard, level, forwarder>>
      BY <1>20, Zenon DEF Pacing!ReleasePacing, Pacing!track, Pacing!audio, Pacing!task
    <2>2. held' \in BOOLEAN /\ started' \in BOOLEAN /\ pacer' \in Pacing!Places
      BY <1>20, EnsuresPacer, <1>a, PlacesOfPacer, Zenon DEF Pacing!ReleasePacing
    <2> QED
      BY <2>1, <2>2, SMT DEF TasksTyped
  <1>21. CASE Pacing!SetPaused
    <2>1. /\ UNCHANGED <<pcmWritten, pcmPacing, pacingEnabled, held, audioStopped, bound>>
          /\ UNCHANGED <<pacer, started, written, resampler, guard, level, forwarder>>
      BY <1>21, Zenon DEF Pacing!SetPaused, Pacing!track, Pacing!audio, Pacing!task
    <2>2. outputPaused' \in BOOLEAN
      BY <1>21, Zenon DEF Pacing!SetPaused
    <2> QED
      BY <2>1, <2>2, SMT DEF TasksTyped
  <1>22. CASE Pacing!Bind
    <2>1. /\ UNCHANGED <<pcmWritten, pcmPacing, pacingEnabled, held, audioStopped, outputPaused>>
          /\ UNCHANGED <<pacer, started, written, resampler, guard, level, forwarder>>
      BY <1>22, Zenon DEF Pacing!Bind, Pacing!track, Pacing!audio, Pacing!task
    <2>2. bound' \in BOOLEAN
      BY <1>22, Zenon DEF Pacing!Bind
    <2> QED
      BY <2>1, <2>2, SMT DEF TasksTyped
  <1>23. CASE Pacing!Stop
    <2>1. /\ UNCHANGED <<pcmWritten, pcmPacing, pacingEnabled, held, outputPaused, bound>>
          /\ UNCHANGED <<started, written, resampler, level, forwarder>>
      BY <1>23, Zenon DEF Pacing!Stop, Pacing!track, Pacing!audio, Pacing!task
    <2>2. /\ audioStopped' \in BOOLEAN
          /\ pacer' \in Pacing!Places
          /\ guard' \in Forwarders \cup {Pacing!Pacer, Pacing!Nobody}
      BY <1>23, <1>a, PlacesOfPacer, Zenon DEF Pacing!Stop
    <2> QED
      BY <2>1, <2>2, SMT DEF TasksTyped
  <1> QED
    BY <1>1, <1>2, <1>3, <1>4, <1>5, <1>6, <1>7, <1>8, <1>9, <1>10, <1>11, <1>12, <1>13, <1>14, <1>15,
       <1>16, <1>17, <1>18, <1>19, <1>20, <1>21, <1>22, <1>23, Zenon DEF LineSteps

\* One writer gets a new state.
LEMMA WriterSetIs ==
  ASSUME writer \in [Writers -> WriterStates], NEW w \in Writers, NEW state \in WriterStates,
         writer' = [writer EXCEPT ![w] = state]
  PROVE  /\ writer' \in [Writers -> WriterStates] /\ writer'[w] = state
         /\ \A v \in Writers : v # w => writer'[v] = writer[v]
  OBVIOUS

LEMMA WriterIs ==
  ASSUME writer \in [Writers -> WriterStates], NEW w \in Writers
  PROVE  writer[w].flushes \in 0..MaxFlushes /\ writer[w].out \in Seq(Units) /\ writer[w] \in WriterStates
  BY DEF WriterStates

\* The states a writer goes to.
LEMMA StatesAre ==
  ASSUME NEW at \in {"idle", "begun", "resampled", "queued"}, NEW flush \in 0..MaxFlushes, NEW out \in Seq(Units)
  PROVE  LET state == [at |-> at, flushes |-> flush, out |-> out] IN
         state \in WriterStates /\ state.at = at /\ state.flushes = flush /\ state.out = out
  BY DEF WriterStates

LEMMA IdleIs ==
  ASSUME PaceBounds
  PROVE  Pacing!Idle \in WriterStates /\ Pacing!Idle.at = "idle" /\ Pacing!Idle.out = <<>>
  <1>1. 0 \in 0..MaxFlushes /\ <<>> \in Seq(Units)
    BY EmptyIs DEF PaceBounds
  <1> QED
    BY <1>1 DEF Pacing!Idle, WriterStates

\* What each step of a writer makes of it.
LEMMA WritersAre ==
  ASSUME PaceBounds, QueueTyped, NEW w \in Writers
  PROVE  /\ (\/ Pacing!WriteBegins(w) \/ Pacing!WriteResamples(w) \/ Pacing!WriteRefused(w)
             \/ Pacing!WriteQueues(w) \/ Pacing!WritePaces(w))
              => \A v \in Writers : v # w => writer'[v] = writer[v]
         /\ Pacing!WriteBegins(w) =>
              writer' \in [Writers -> WriterStates] /\ writer'[w].at = "begun" /\ writer'[w].out = <<>>
         /\ Pacing!WriteRefused(w) \/ Pacing!WritePaces(w) =>
              writer' \in [Writers -> WriterStates] /\ writer'[w].at = "idle" /\ writer'[w].out = <<>>
         /\ Pacing!WriteQueues(w) =>
              writer' \in [Writers -> WriterStates] /\ writer'[w].at = "queued" /\ writer'[w].out = <<>>
  <1>1. writer \in [Writers -> WriterStates] /\ flushes \in 0..MaxFlushes
    BY Zenon DEF QueueTyped
  <1>2. <<>> \in Seq(Units) /\ 0 \in 0..MaxFlushes
    BY EmptyIs DEF PaceBounds
  <1>3. ASSUME Pacing!WriteBegins(w)
        PROVE  /\ writer' \in [Writers -> WriterStates] /\ writer'[w].at = "begun" /\ writer'[w].out = <<>>
               /\ \A v \in Writers : v # w => writer'[v] = writer[v]
    <2> DEFINE state == [at |-> "begun", flushes |-> flushes, out |-> <<>>]
    <2>1. writer' = [writer EXCEPT ![w] = state]
      BY <1>3, Zenon DEF Pacing!WriteBegins
    <2>2. state \in WriterStates /\ state.at = "begun" /\ state.out = <<>>
      BY <1>1, <1>2, StatesAre
    <2> HIDE DEF state
    <2> QED
      BY <1>1, <2>1, <2>2, WriterSetIs
  <1>4. ASSUME Pacing!WriteRefused(w) \/ Pacing!WritePaces(w)
        PROVE  /\ writer' \in [Writers -> WriterStates] /\ writer'[w].at = "idle" /\ writer'[w].out = <<>>
               /\ \A v \in Writers : v # w => writer'[v] = writer[v]
    <2>1. writer' = [writer EXCEPT ![w] = Pacing!Idle]
      BY <1>4, Zenon DEF Pacing!WriteRefused, Pacing!WritePaces, Pacing!Returns
    <2> QED
      BY <1>1, <2>1, IdleIs, WriterSetIs
  <1>5. ASSUME Pacing!WriteQueues(w)
        PROVE  /\ writer' \in [Writers -> WriterStates] /\ writer'[w].at = "queued" /\ writer'[w].out = <<>>
               /\ \A v \in Writers : v # w => writer'[v] = writer[v]
    <2> DEFINE state == [at |-> "queued", flushes |-> 0, out |-> <<>>]
    <2>1. writer' = [writer EXCEPT ![w] = state]
      BY <1>5, Zenon DEF Pacing!WriteQueues
    <2>2. state \in WriterStates /\ state.at = "queued" /\ state.out = <<>>
      BY <1>2, StatesAre
    <2> HIDE DEF state
    <2> QED
      BY <1>1, <2>1, <2>2, WriterSetIs
  <1>6. ASSUME Pacing!WriteResamples(w), NEW v \in Writers, v # w
        PROVE  writer'[v] = writer[v]
    <2>1. PICK out : writer' = [writer EXCEPT ![w].at = "resampled", ![w].out = out]
      BY <1>6, Zenon DEF Pacing!WriteResamples
    <2> QED
      BY <1>1, <1>6, <2>1
  <1> QED
    BY <1>3, <1>4, <1>5, <1>6, Zenon

LEMMA ResampledIs ==
  ASSUME QueueTyped, NEW w \in Writers, NEW out \in Seq(Units),
         writer' = [writer EXCEPT ![w].at = "resampled", ![w].out = out]
  PROVE  /\ writer' \in [Writers -> WriterStates] /\ writer'[w].at = "resampled" /\ writer'[w].out = out
         /\ writer'[w].flushes = writer[w].flushes
  <1>1. writer \in [Writers -> WriterStates]
    BY Zenon DEF QueueTyped
  <1> DEFINE state == [writer[w] EXCEPT !.at = "resampled", !.out = out]
  <1>2. writer[w] \in WriterStates
    BY <1>1
  <1>3. state \in WriterStates /\ state.at = "resampled" /\ state.out = out /\ state.flushes = writer[w].flushes
    BY <1>2 DEF WriterStates
  <1>4. writer' = [writer EXCEPT ![w] = state]
    BY <1>1
  <1> HIDE DEF state
  <1> QED
    BY <1>1, <1>3, <1>4, WriterSetIs

\* The audio of the line is found again after a step, or the step is one of those
\* that the property excepts.
KeptStep ==
    \/ \A u \in Pacing!Waiting : u \in Pacing!Waiting' \cup Pacing!Range(frame'.units)
    \/ flushes' # flushes
    \/ Pacing!Overflows
    \/ \E w \in Writers : Pacing!At(w, "begun") /\ writer'[w].at # "begun" /\ writer[w].flushes # flushes

\* What is on the line.
OnLine == Elements(pcm) \cup Elements(filter) \cup UNION {Elements(writer[w].out) : w \in Writers}

LEMMA WaitingIs == Pacing!Waiting = {u \in OnLine : u.started = flushes}
  BY Zenon DEF Pacing!Waiting, OnLine, Elements, Pacing!Range

LEMMA KeptIs ==
  ASSUME flushes' = flushes,
         \A u \in OnLine : u.started = flushes => u \in OnLine' \cup Elements(frame'.units)
  PROVE  KeptStep
  <1>1. Pacing!Waiting' = {u \in OnLine' : u.started = flushes'}
    BY WaitingIs, Zenon DEF Pacing!Waiting, OnLine, Elements, Pacing!Range
  <1>2. Pacing!Range(frame'.units) = Elements(frame'.units)
    BY Zenon DEF Elements, Pacing!Range
  <1>3. ASSUME NEW u \in Pacing!Waiting
        PROVE  u \in Pacing!Waiting' \cup Pacing!Range(frame'.units)
    <2>1. u \in OnLine /\ u.started = flushes
      BY WaitingIs, Zenon
    <2>2. u \in OnLine' \/ u \in Elements(frame'.units)
      BY <2>1, Zenon
    <2> QED
      BY <1>1, <1>2, <2>1, <2>2, Zenon
  <1> QED
    BY <1>3, Zenon DEF KeptStep

\* Nobody else has audio on the way while one has locked the resampler, and none
\* has while nobody or the pacer has locked it.
LEMMA OthersAreIdle ==
  ASSUME PaceBounds, HoldersInv, NEW w \in Writers, resampler # w
  PROVE  writer[w].at # "resampled" /\ writer[w].out = <<>>
  BY Zenon DEF HoldersInv

LEMMA HoldersKeep ==
  ASSUME PaceBounds, TasksTyped, QueueTyped, HoldersInv, LineSteps
  PROVE  HoldersInv'
  <1>1. ASSUME NEW w \in Writers,
               \/ Pacing!WriteBegins(w) \/ Pacing!WriteRefused(w) \/ Pacing!WritePaces(w),
               UNCHANGED resampler,
               resampler = Pacing!Pacer => pacer' = pacer,
               ~started' => ~started /\ pacer' = pacer
        PROVE  HoldersInv'
    <2>1. /\ writer'[w].at # "resampled" /\ writer'[w].out = <<>>
          /\ \A v \in Writers : v # w => writer'[v] = writer[v]
      <3>1. "begun" # "resampled" /\ "idle" # "resampled"
        OBVIOUS
      <3> QED
        BY <1>1, <3>1, WritersAre, Zenon
    <2> QED
      BY <1>1, <2>1, Zenon DEF HoldersInv
  <1>2. ASSUME NEW w \in Writers, Pacing!WriteBegins(w) \/ Pacing!WriteRefused(w)
        PROVE  HoldersInv'
    <2>1. UNCHANGED <<resampler, pacer, started>>
      BY <1>2, Zenon DEF Pacing!WriteBegins, Pacing!WriteRefused, Pacing!task
    <2> QED
      BY <1>1, <1>2, <2>1, Zenon
  <1>3. ASSUME NEW w \in Writers, Pacing!WritePaces(w)
        PROVE  HoldersInv'
    <2>1. UNCHANGED resampler /\ (Pacing!EnsurePacer \/ UNCHANGED <<pacer, started>>)
      BY <1>3, Zenon DEF Pacing!WritePaces
    <2>2. resampler = Pacing!Pacer => started
      <3>1. "short" # "off"
        OBVIOUS
      <3> QED
        BY <3>1, Zenon DEF HoldersInv
    <2>3. (resampler = Pacing!Pacer => pacer' = pacer) /\ (~started' => ~started /\ pacer' = pacer)
      BY <2>1, <2>2, EnsuresPacer, Zenon
    <2> QED
      BY <1>1, <1>3, <2>1, <2>3, Zenon
  <1>4. ASSUME NEW w \in Writers, Pacing!WriteResamples(w)
        PROVE  HoldersInv'
    <2>1. resampler = Pacing!Nobody /\ resampler' = w /\ UNCHANGED <<pacer, started>>
      BY <1>4, Zenon DEF Pacing!WriteResamples, Pacing!ResamplerFree, Pacing!task
    <2>2. \A v \in Writers : v # w => writer'[v] = writer[v]
      BY <1>4, WritersAre, Zenon
    <2>3. \A v \in Writers : resampler # v
      BY <2>1, Zenon DEF PaceBounds
    <2>4. \A v \in Writers : v # w => writer'[v].at # "resampled" /\ writer'[v].out = <<>>
      BY <2>2, <2>3, OthersAreIdle, Zenon
    <2>5. writer'[w].at = "resampled"
      <3>1. PICK out : writer' = [writer EXCEPT ![w].at = "resampled", ![w].out = out]
        BY <1>4, Zenon DEF Pacing!WriteResamples
      <3> QED
        BY <3>1, WriterIs DEF QueueTyped, WriterStates
    <2>6. w # Pacing!Pacer
      BY Zenon DEF PaceBounds
    <2> QED
      BY <2>1, <2>4, <2>5, <2>6, Zenon DEF HoldersInv
  <1>5. ASSUME NEW w \in Writers, Pacing!WriteQueues(w)
        PROVE  HoldersInv'
    <2>1. writer[w].at = "resampled" /\ resampler' = Pacing!Nobody /\ UNCHANGED <<pacer, started>>
      BY <1>5, Zenon DEF Pacing!WriteQueues, Pacing!At, Pacing!task
    <2>2. /\ writer'[w].at # "resampled" /\ writer'[w].out = <<>>
          /\ \A v \in Writers : v # w => writer'[v] = writer[v]
      <3>1. "queued" # "resampled"
        OBVIOUS
      <3> QED
        BY <1>5, <3>1, WritersAre, Zenon
    <2>3. \A v \in Writers : v # w => writer'[v].at # "resampled" /\ writer'[v].out = <<>>
      BY <2>1, <2>2, Zenon DEF HoldersInv
    <2>4. Pacing!Nobody # Pacing!Pacer
      BY DEF Pacing!Nobody, Pacing!Pacer
    <2> QED
      BY <2>1, <2>2, <2>3, <2>4, Zenon DEF HoldersInv
  <1>6. ASSUME UNCHANGED <<writer, resampler>>,
               resampler = Pacing!Pacer => pacer' = pacer,
               ~started' => ~started /\ pacer' = pacer
        PROVE  HoldersInv'
    BY <1>6, Zenon DEF HoldersInv
  <1>7. /\ "off" # "tick" /\ "off" # "guard" /\ "off" # "take" /\ "off" # "look" /\ "off" # "short"
        /\ "off" # "encode" /\ "off" # "send" /\ "short" # "tick" /\ "short" # "guard" /\ "short" # "take"
        /\ "short" # "look" /\ "short" # "encode" /\ "short" # "send"
    OBVIOUS
  <1>8. /\ pacer # "off" => started
        /\ pacer # "short" => resampler # Pacing!Pacer
        /\ resampler = Pacing!Pacer => started
    BY <1>7, Zenon DEF HoldersInv
  <1>9. CASE Pacing!PacerTicks
    BY <1>6, <1>7, <1>8, <1>9, Zenon DEF Pacing!PacerTicks
  <1>10. CASE Pacing!PacerLocks
    BY <1>6, <1>7, <1>8, <1>10, Zenon DEF Pacing!PacerLocks
  <1>11. CASE Pacing!TakeBegins
    BY <1>6, <1>7, <1>8, <1>11, Zenon DEF Pacing!TakeBegins
  <1>12. CASE Pacing!TakeLooks
    <2>1. pacer = "look" /\ UNCHANGED <<writer, started>>
      BY <1>12, Zenon DEF Pacing!TakeLooks
    <2>2. CASE UNCHANGED resampler
      BY <1>6, <1>7, <1>8, <2>1, <2>2, Zenon
    <2>3. CASE pacer' = "short" /\ resampler = Pacing!Nobody /\ resampler' = Pacing!Pacer
      <3>1. \A v \in Writers : resampler # v
        BY <2>3, Zenon DEF PaceBounds
      <3>2. \A v \in Writers : writer'[v].at # "resampled" /\ writer'[v].out = <<>>
        BY <2>1, <3>1, OthersAreIdle, Zenon
      <3> QED
        BY <1>7, <1>8, <2>1, <2>3, <3>2, Zenon DEF HoldersInv
    <2> QED
      BY <1>12, <2>2, <2>3, Zenon DEF Pacing!TakeLooks
  <1>13. CASE Pacing!TakeEnds
    <2>1. /\ pacer = "short" /\ UNCHANGED <<writer, started>>
          /\ resampler' = IF resampler = Pacing!Pacer THEN Pacing!Nobody ELSE resampler
      BY <1>13, Zenon DEF Pacing!TakeEnds
    <2>2. Pacing!Nobody # Pacing!Pacer
      BY DEF Pacing!Nobody, Pacing!Pacer
    <2>3. CASE resampler = Pacing!Pacer
      <3>1. \A v \in Writers : resampler # v
        BY <2>3, Zenon DEF PaceBounds
      <3>2. \A v \in Writers : writer'[v].at # "resampled" /\ writer'[v].out = <<>>
        BY <2>1, <3>1, OthersAreIdle, Zenon
      <3> QED
        BY <1>7, <1>8, <2>1, <2>2, <2>3, <3>2, Zenon DEF HoldersInv
    <2>4. CASE resampler # Pacing!Pacer
      BY <1>6, <1>7, <1>8, <2>1, <2>4, Zenon
    <2> QED
      BY <2>3, <2>4
  <1>14. CASE Pacing!PacerEncodes
    BY <1>6, <1>7, <1>8, <1>14, Zenon DEF Pacing!PacerEncodes
  <1>15. CASE Pacing!PacerSends
    BY <1>6, <1>7, <1>8, <1>15, Zenon DEF Pacing!PacerSends
  <1>16. ASSUME NEW f \in Forwarders,
                Pacing!ForwardBegins(f) \/ Pacing!ForwardLocks(f) \/ Pacing!ForwardSends(f)
         PROVE  HoldersInv'
    BY <1>6, <1>16, Zenon DEF Pacing!ForwardBegins, Pacing!ForwardLocks, Pacing!ForwardSends
  <1>17. CASE Pacing!Flush
    BY <1>6, <1>17, Zenon DEF Pacing!Flush, Pacing!task
  <1>18. CASE Pacing!StartPacing \/ Pacing!ReleasePacing
    <2>1. UNCHANGED <<writer, resampler>> /\ (Pacing!EnsurePacer \/ UNCHANGED <<pacer, started>>)
      BY <1>18, Zenon DEF Pacing!StartPacing, Pacing!ReleasePacing
    <2>2. (resampler = Pacing!Pacer => pacer' = pacer) /\ (~started' => ~started /\ pacer' = pacer)
      BY <1>8, <2>1, EnsuresPacer, Zenon
    <2> QED
      BY <1>6, <2>1, <2>2, Zenon
  <1>19. CASE Pacing!PausePacing \/ Pacing!HoldPacing \/ Pacing!SetPaused \/ Pacing!Bind
    BY <1>6, <1>19, Zenon DEF Pacing!PausePacing, Pacing!HoldPacing, Pacing!SetPaused, Pacing!Bind, Pacing!task
  <1>20. CASE Pacing!Stop
    <2>1. UNCHANGED <<writer, resampler, started>>
          /\ (UNCHANGED pacer \/ pacer = "tick" \/ pacer = "guard" \/ pacer = "send")
      BY <1>20, Zenon DEF Pacing!Stop
    <2> QED
      BY <1>6, <1>7, <1>8, <2>1, Zenon
  <1> QED
    BY <1>2, <1>3, <1>4, <1>5, <1>9, <1>10, <1>11, <1>12, <1>13, <1>14, <1>15, <1>16, <1>17, <1>18, <1>19, <1>20,
       Zenon DEF LineSteps

\* A step that adds nothing to the line and takes nothing from it.
LEMMA LineStays ==
  ASSUME QueueTyped, FlushInv, OrderInv,
         UNCHANGED <<pcm, filter, filterFlushes, flushes, pushed, last>>,
         \/ UNCHANGED frame
         \/ AllOf(frame'.units, frame'.at) /\ frame' \in [units : Seq(Units), at : 0..MaxFlushes],
         writer' \in [Writers -> WriterStates],
         \A w \in Writers : \/ writer'[w] = writer[w]
                            \/ writer'[w].out = writer[w].out /\ writer'[w].at # "resampled"
  PROVE  QueueTyped' /\ FlushInv' /\ OrderInv' /\ KeptStep
  <1>1. \A w \in Writers : writer'[w].out = writer[w].out
    BY Zenon
  <1>2. QueueTyped'
    BY Zenon DEF QueueTyped
  <1>3. AllOf(frame'.units, frame'.at)
    BY Zenon DEF FlushInv
  <1>4. \A w \in Writers : writer'[w].at = "resampled" =>
          filterFlushes' = writer'[w].flushes /\ AllOf(writer'[w].out, writer'[w].flushes)
    BY Zenon DEF FlushInv
  <1>5. FlushInv'
    BY <1>3, <1>4, Zenon DEF FlushInv
  <1>6. OrderInv'
    BY <1>1, Zenon DEF OrderInv
  <1>7. OnLine \subseteq OnLine'
    BY <1>1, Zenon DEF OnLine
  <1>8. KeptStep
    BY <1>7, KeptIs, Zenon
  <1> QED
    BY <1>2, <1>5, <1>6, <1>8

\* What is held back in the filter for a write is of the flushes it began with.
LEMMA HeldIs ==
  ASSUME PaceBounds, QueueTyped, FlushInv, OrderInv, NEW w \in Writers
  PROVE  LET back == Pacing!HeldBack(w) IN
         /\ back \in Seq(Units) /\ Len(back) <= FilterDelay
         /\ Rising(back) /\ AllOf(back, writer[w].flushes)
         /\ Between(back, last, pushed) /\ Precede(pcm, back)
         /\ filterFlushes = writer[w].flushes => back = filter
  <1>1. CASE filterFlushes # writer[w].flushes
    <2>1. Pacing!HeldBack(w) = <<>>
      BY <1>1, Zenon DEF Pacing!HeldBack
    <2>2. 0 <= FilterDelay
      BY DEF PaceBounds
    <2> QED
      BY <1>1, <2>1, <2>2, EmptyIs, Zenon
  <1>2. CASE filterFlushes = writer[w].flushes
    <2>1. Pacing!HeldBack(w) = filter
      BY <1>2, Zenon DEF Pacing!HeldBack
    <2> QED
      BY <1>2, <2>1, Zenon DEF QueueTyped, FlushInv, OrderInv
  <1> QED
    BY <1>1, <1>2

\* Without a writer that has locked the resampler, what waits is in queue and filter.
LEMMA NothingOnTheWay ==
  ASSUME FlushInv, \A v \in Writers : writer[v].out = <<>>
  PROVE  /\ OnLine = Elements(pcm) \cup Elements(filter)
         /\ \A u \in Elements(filter) : u.started = filterFlushes
  <1>1. \A v \in Writers : Elements(writer[v].out) = {}
    BY EmptyIs, Zenon
  <1> QED
    BY <1>1, Zenon DEF OnLine, FlushInv, AllOf, Elements

LEMMA QueueIsTyped ==
  ASSUME PaceBounds, QueueTyped
  PROVE  pushed \in Nat /\ last \in Nat /\ flushes \in Nat /\ MaxFlushes \in Nat /\ Capacity \in Nat
  BY DEF PaceBounds, QueueTyped

LEMMA ResamplesKeep ==
  ASSUME PaceBounds, HoldersInv, QueueTyped, FlushInv, OrderInv, NEW w \in Writers, Pacing!WriteResamples(w)
  PROVE  QueueTyped' /\ FlushInv' /\ OrderInv' /\ KeptStep
  <1> DEFINE flush == writer[w].flushes
             back == Pacing!HeldBack(w)
             unit == [n |-> pushed + 1, started |-> flush]
             single == <<unit>>
             all == back \o single
             stay == Pacing!StaysInFilter(all)
             out == Pacing!LeavesFilter(all)
  <1>1. /\ writer[w].at = "begun" /\ resampler = Pacing!Nobody /\ pushed < MaxWrites
        /\ filter' = stay /\ writer' = [writer EXCEPT ![w].at = "resampled", ![w].out = out]
        /\ filterFlushes' = flush /\ pushed' = pushed + 1
        /\ UNCHANGED <<pcm, flushes, frame, last>>
    <2>1. all = Append(back, unit)
      <3>1. back \in Seq(Units)
        BY HeldIs, Zenon
      <3> HIDE DEF back, unit
      <3> QED
        BY <3>1
    <2> HIDE DEF unit, back
    <2>2. Pacing!WriteResamples(w) =>
            /\ filter' = Pacing!StaysInFilter(Append(back, unit))
            /\ writer' = [writer EXCEPT ![w].at = "resampled", ![w].out = Pacing!LeavesFilter(Append(back, unit))]
      BY Zenon DEF Pacing!WriteResamples, back, unit
    <2>3. /\ writer[w].at = "begun" /\ resampler = Pacing!Nobody /\ pushed < MaxWrites
          /\ filterFlushes' = flush /\ pushed' = pushed + 1 /\ UNCHANGED <<pcm, flushes, frame, last>>
      BY Zenon DEF Pacing!WriteResamples, Pacing!At, Pacing!ResamplerFree, Pacing!track, Pacing!task
    <2> QED
      BY <2>1, <2>2, <2>3, Zenon
  <1>2. /\ back \in Seq(Units) /\ Rising(back) /\ AllOf(back, flush) /\ Between(back, last, pushed)
        /\ Precede(pcm, back) /\ (filterFlushes = flush => back = filter)
    BY HeldIs, Zenon
  <1>3. flush \in 0..MaxFlushes /\ pushed \in Nat /\ last \in Nat /\ last <= pushed
        /\ pcm \in Seq(Units) /\ filter \in Seq(Units)
    BY WriterIs, QueueIsTyped, Zenon DEF QueueTyped, OrderInv
  <1>4. \A v \in Writers : writer[v].at # "resampled" /\ writer[v].out = <<>>
    BY <1>1, OthersAreIdle, Zenon DEF PaceBounds
  <1> HIDE DEF back, flush
  <1>5. /\ single \in Seq(Units) /\ Rising(single) /\ AllOf(single, flush) /\ Between(single, last, pushed + 1)
        /\ Precede(back, single) /\ Precede(pcm, single)
    <2>1. unit \in Units
      BY <1>1, <1>3 DEF Units, Pacing!Unit, PaceBounds
    <2>2. unit.n = pushed + 1 /\ unit.started = flush
      OBVIOUS
    <2> HIDE DEF unit
    <2>3. single \in Seq(Units) /\ DOMAIN single = {1} /\ single[1] = unit
      BY <2>1
    <2> HIDE DEF single
    <2>4. \A x : x \in DOMAIN single => x = 1
      BY <2>3
    <2>5. Rising(single)
      BY <2>3 DEF Rising
    <2>6. AllOf(single, flush)
      BY <2>2, <2>3, <2>4, Zenon DEF AllOf
    <2>7. last < pushed + 1 /\ pushed + 1 <= pushed + 1
      BY <1>3
    <2>8. Between(single, last, pushed + 1)
      BY <2>2, <2>3, <2>4, <2>7, Zenon DEF Between
    <2>9. \A i \in DOMAIN back : back[i].n < pushed + 1
      <3>1. \A i \in DOMAIN back : back[i].n \in Nat /\ back[i].n <= pushed
        BY <1>2, UnitsAre, Zenon DEF Between
      <3> QED
        BY <1>3, <3>1
    <2>10. \A i \in DOMAIN pcm : pcm[i].n < pushed + 1
      <3>1. \A i \in DOMAIN pcm : pcm[i].n \in Nat /\ pcm[i].n <= pushed
        BY <1>3, UnitsAre, Zenon DEF Between, OrderInv
      <3> QED
        BY <1>3, <3>1
    <2>11. Precede(back, single)
      BY <2>2, <2>3, <2>4, <2>9, Zenon DEF Precede
    <2>12. Precede(pcm, single)
      BY <2>2, <2>3, <2>4, <2>10, Zenon DEF Precede
    <2> QED
      BY <2>3, <2>5, <2>6, <2>8, <2>11, <2>12
  <1> HIDE DEF single
  <1>6. pushed + 1 \in Nat /\ pushed <= pushed + 1
    BY <1>3
  <1>7. Between(back, last, pushed + 1) /\ Between(pcm, last, pushed + 1)
    BY <1>2, <1>3, <1>6, BetweenGrows, Zenon DEF OrderInv
  <1>8. /\ all \in Seq(Units) /\ Rising(all) /\ AllOf(all, flush) /\ Between(all, last, pushed + 1)
        /\ Precede(pcm, all) /\ PartOf(back, all, 0)
    BY <1>2, <1>5, <1>7, JoinKeeps, Zenon
  <1> HIDE DEF all
  <1>9. /\ stay \in Seq(Units) /\ Len(stay) <= FilterDelay /\ out \in Seq(Units)
        /\ PartOf(stay, all, Len(out)) /\ PartOf(out, all, 0)
        /\ Elements(all) = Elements(out) \cup Elements(stay) /\ Precede(out, stay)
    BY <1>8, FilterSplits, Zenon
  <1> HIDE DEF stay, out
  <1>10. 0 \in Nat /\ Len(out) \in Nat
    BY <1>9
  <1>11. /\ Rising(stay) /\ AllOf(stay, flush) /\ Between(stay, last, pushed + 1) /\ Precede(pcm, stay)
         /\ Rising(out) /\ AllOf(out, flush) /\ Between(out, last, pushed + 1) /\ Precede(pcm, out)
    <2>1. Rising(stay) /\ AllOf(stay, flush) /\ Between(stay, last, pushed + 1) /\ Precede(pcm, stay)
      BY <1>8, <1>9, <1>10, PartKeeps, Zenon
    <2>2. Rising(out) /\ AllOf(out, flush) /\ Between(out, last, pushed + 1) /\ Precede(pcm, out)
      BY <1>8, <1>9, <1>10, PartKeeps, Zenon
    <2> QED
      BY <2>1, <2>2
  <1>12. /\ writer' \in [Writers -> WriterStates] /\ writer'[w].at = "resampled" /\ writer'[w].out = out
         /\ writer'[w].flushes = flush
    BY <1>1, <1>9, ResampledIs, Zenon DEF flush
  <1>13. \A v \in Writers : v # w => writer'[v].at # "resampled" /\ writer'[v].out = <<>>
    <2>1. \A v \in Writers : v # w => writer'[v] = writer[v]
      BY WritersAre, Zenon
    <2> QED
      BY <1>4, <2>1, Zenon
  <1>14. QueueTyped'
    <2>1. pushed + 1 \in 0..MaxWrites
      BY <1>1, <1>3 DEF PaceBounds
    <2> QED
      BY <1>1, <1>3, <1>9, <1>12, <2>1, Zenon DEF QueueTyped
  <1>15. FlushInv'
    BY <1>1, <1>11, <1>12, <1>13, Zenon DEF FlushInv
  <1>16. OrderInv'
    <2>1. last <= pushed + 1
      BY <1>3
    <2>2. \A v \in Writers : /\ Rising(writer'[v].out) /\ Between(writer'[v].out, last, pushed + 1)
                             /\ Precede(pcm, writer'[v].out) /\ Precede(writer'[v].out, stay)
      BY <1>9, <1>11, <1>12, <1>13, EmptyIs, Zenon
    <2> QED
      BY <1>1, <1>7, <1>11, <2>1, <2>2, Zenon DEF OrderInv
  <1>17. KeptStep
    <2>1. CASE flush # flushes
      <3>1. "resampled" # "begun"
        OBVIOUS
      <3> QED
        BY <1>1, <1>12, <2>1, <3>1, Zenon DEF KeptStep, Pacing!At, flush
    <2>2. CASE flush = flushes
      <3>1. OnLine = Elements(pcm) \cup Elements(filter) /\ \A u \in Elements(filter) : u.started = filterFlushes
        BY <1>4, NothingOnTheWay, Zenon
      <3>2. \A i \in DOMAIN back : i + 0 = i
        BY <1>2
      <3>3. \A i \in DOMAIN back : i \in DOMAIN all /\ back[i] = all[i]
        BY <1>8, <3>2, Zenon DEF PartOf
      <3>4. Elements(back) \subseteq Elements(all)
        BY <3>3, Zenon DEF Elements
      <3>5. /\ Elements(pcm') \subseteq OnLine' /\ Elements(filter') \subseteq OnLine'
            /\ Elements(writer'[w].out) \subseteq OnLine'
        BY Zenon DEF OnLine
      <3>6. Elements(all) \subseteq OnLine'
        BY <1>1, <1>9, <1>12, <3>5, Zenon
      <3>7. ASSUME NEW u \in OnLine, u.started = flushes
            PROVE  u \in OnLine'
        <4>1. CASE u \in Elements(pcm)
          BY <1>1, <3>5, <4>1, Zenon
        <4>2. CASE u \in Elements(filter)
          <5>1. back = filter
            BY <1>2, <2>2, <3>1, <3>7, <4>2, Zenon
          <5> QED
            BY <3>4, <3>6, <4>2, <5>1, Zenon
        <4> QED
          BY <3>1, <4>1, <4>2, Zenon
      <3> QED
        BY <1>1, <3>7, KeptIs, Zenon
    <2> QED
      BY <2>1, <2>2
  <1> QED
    BY <1>14, <1>15, <1>16, <1>17

LEMMA RefusedKeeps ==
  ASSUME PaceBounds, HoldersInv, QueueTyped, FlushInv, OrderInv, NEW w \in Writers, Pacing!WriteRefused(w)
  PROVE  QueueTyped' /\ FlushInv' /\ OrderInv' /\ KeptStep
  <1> DEFINE flush == writer[w].flushes
             back == Pacing!HeldBack(w)
  <1>1. /\ writer[w].at = "begun" /\ resampler = Pacing!Nobody /\ filter' = back /\ filterFlushes' = flush
        /\ UNCHANGED <<pcm, flushes, frame, last, pushed>>
    BY Zenon DEF Pacing!WriteRefused, Pacing!At, Pacing!track, Pacing!task
  <1>2. /\ back \in Seq(Units) /\ Len(back) <= FilterDelay
        /\ Rising(back) /\ AllOf(back, flush) /\ Between(back, last, pushed)
        /\ Precede(pcm, back) /\ (filterFlushes = flush => back = filter)
    BY HeldIs, Zenon
  <1>3. flush \in 0..MaxFlushes
    BY WriterIs, Zenon DEF QueueTyped
  <1>4. \A v \in Writers : writer[v].at # "resampled" /\ writer[v].out = <<>>
    BY <1>1, OthersAreIdle, Zenon DEF PaceBounds
  <1> HIDE DEF back, flush
  <1>5. writer' \in [Writers -> WriterStates] /\ writer'[w].at = "idle" /\ writer'[w].out = <<>>
        /\ \A v \in Writers : v # w => writer'[v] = writer[v]
    BY WritersAre, Zenon
  <1>6. \A v \in Writers : writer'[v].at # "resampled" /\ writer'[v].out = <<>>
    <2>1. "idle" # "resampled"
      OBVIOUS
    <2> QED
      BY <1>4, <1>5, <2>1, Zenon
  <1>7. QueueTyped'
    BY <1>1, <1>2, <1>3, <1>5, Zenon DEF QueueTyped
  <1>8. FlushInv'
    BY <1>1, <1>2, <1>6, Zenon DEF FlushInv
  <1>9. OrderInv'
    BY <1>1, <1>2, <1>6, EmptyIs, Zenon DEF OrderInv
  <1>10. KeptStep
    <2>1. CASE flush # flushes
      <3>1. "idle" # "begun"
        OBVIOUS
      <3> QED
        BY <1>1, <1>5, <2>1, <3>1, Zenon DEF KeptStep, Pacing!At, flush
    <2>2. CASE flush = flushes
      <3>1. OnLine = Elements(pcm) \cup Elements(filter) /\ \A u \in Elements(filter) : u.started = filterFlushes
        BY <1>4, NothingOnTheWay, Zenon
      <3>2. Elements(pcm') \subseteq OnLine' /\ Elements(filter') \subseteq OnLine'
        BY Zenon DEF OnLine
      <3>3. ASSUME NEW u \in OnLine, u.started = flushes
            PROVE  u \in OnLine'
        <4>1. CASE u \in Elements(filter)
          <5>1. back = filter
            BY <1>2, <2>2, <3>1, <3>3, <4>1, Zenon
          <5> QED
            BY <1>1, <3>2, <4>1, <5>1, Zenon
        <4> QED
          BY <1>1, <3>1, <3>2, <4>1, Zenon
      <3> QED
        BY <1>1, <3>3, KeptIs, Zenon
    <2> QED
      BY <2>1, <2>2
  <1> QED
    BY <1>7, <1>8, <1>9, <1>10

LEMMA QueuesKeep ==
  ASSUME PaceBounds, HoldersInv, QueueTyped, FlushInv, OrderInv, NEW w \in Writers, Pacing!WriteQueues(w)
  PROVE  QueueTyped' /\ FlushInv' /\ OrderInv' /\ KeptStep
  <1> DEFINE flush == writer[w].flushes
             out == writer[w].out
             both == Pacing!PushBounded(pcm, out)
  <1>1. /\ writer[w].at = "resampled" /\ pcm' = (IF flushes = flush THEN both ELSE pcm)
        /\ UNCHANGED <<filter, filterFlushes, flushes, frame, last, pushed>>
    BY Zenon DEF Pacing!WriteQueues, Pacing!At, Pacing!track, Pacing!task, Pacing!StillWanted
  <1>2. writer' \in [Writers -> WriterStates] /\ writer'[w].at = "queued" /\ writer'[w].out = <<>>
        /\ \A v \in Writers : v # w => writer'[v] = writer[v]
    BY WritersAre, Zenon
  <1>3. \A v \in Writers : v # w => writer[v].at # "resampled" /\ writer[v].out = <<>>
    BY <1>1, Zenon DEF HoldersInv
  <1>4. \A v \in Writers : writer'[v].at # "resampled" /\ writer'[v].out = <<>>
    <2>1. "queued" # "resampled"
      OBVIOUS
    <2> QED
      BY <1>2, <1>3, <2>1, Zenon
  <1>5. /\ out \in Seq(Units) /\ pcm \in Seq(Units) /\ Rising(pcm) /\ Rising(out) /\ Precede(pcm, out)
        /\ AllOf(out, flush) /\ AllOf(pcm, flushes) /\ Between(pcm, last, pushed) /\ Between(out, last, pushed)
        /\ Precede(pcm, filter) /\ Precede(out, filter)
    BY <1>1, WriterIs, Zenon DEF QueueTyped, FlushInv, OrderInv
  <1> HIDE DEF out, flush
  <1>6. /\ pcm' \in Seq(Units) /\ Len(pcm') <= Capacity /\ Rising(pcm') /\ AllOf(pcm', flushes)
        /\ Between(pcm', last, pushed) /\ Precede(pcm', filter)
    <2>1. CASE flushes = flush
      <3>1. /\ both \in Seq(Units) /\ Len(both) <= Capacity /\ Rising(both)
            /\ AllOf(both, flushes) /\ Between(both, last, pushed) /\ Precede(both, filter)
        BY <1>5, <2>1, PushedIs, Zenon
      <3> QED
        BY <1>1, <2>1, <3>1, Zenon
    <2>2. CASE flushes # flush
      BY <1>1, <1>5, <2>2, Zenon DEF QueueTyped
    <2> QED
      BY <2>1, <2>2
  <1>7. QueueTyped'
    BY <1>1, <1>2, <1>6, Zenon DEF QueueTyped
  <1>8. FlushInv'
    BY <1>1, <1>4, <1>6, Zenon DEF FlushInv
  <1>9. OrderInv'
    BY <1>1, <1>4, <1>6, EmptyIs, Zenon DEF OrderInv
  <1>10. KeptStep
    <2>1. OnLine = Elements(pcm) \cup Elements(filter) \cup Elements(out)
      <3>1. \A v \in Writers : v # w => Elements(writer[v].out) = {}
        BY <1>3, EmptyIs, Zenon
      <3> QED
        BY <3>1, Zenon DEF OnLine, out
    <2>2. Elements(pcm') \subseteq OnLine' /\ Elements(filter) \subseteq OnLine'
      BY <1>1, Zenon DEF OnLine
    <2>3. CASE flushes = flush /\ Len(pcm) + Len(out) > Capacity
      BY <1>1, <1>2, <2>3, Zenon DEF KeptStep, Pacing!Overflows, Pacing!At, out
    <2>4. CASE flushes = flush /\ ~(Len(pcm) + Len(out) > Capacity)
      <3>1. Elements(pcm) \cup Elements(out) \subseteq Elements(pcm')
        <4>1. Elements(pcm) \cup Elements(out) \subseteq Elements(both)
          BY <1>5, <2>4, PushedIs, Zenon
        <4> QED
          BY <1>1, <2>4, <4>1, Zenon
      <3>2. OnLine \subseteq OnLine'
        BY <2>1, <2>2, <3>1, Zenon
      <3> QED
        BY <1>1, <3>2, KeptIs, Zenon
    <2>5. CASE flushes # flush
      <3>1. \A u \in Elements(out) : u.started = flush
        BY <1>5, Zenon DEF AllOf, Elements
      <3>2. \A u \in OnLine : u.started = flushes => u \in OnLine'
        BY <1>1, <2>1, <2>2, <2>5, <3>1, Zenon
      <3> QED
        BY <1>1, <3>2, KeptIs, Zenon
    <2> QED
      BY <2>3, <2>4, <2>5
  <1> QED
    BY <1>7, <1>8, <1>9, <1>10

LEMMA FlushKeeps ==
  ASSUME PaceBounds, QueueTyped, FlushInv, OrderInv, Pacing!Flush
  PROVE  QueueTyped' /\ FlushInv' /\ OrderInv' /\ KeptStep
  <1>1. /\ flushes < MaxFlushes /\ flushes' = flushes + 1 /\ pcm' = <<>>
        /\ UNCHANGED <<filter, filterFlushes, frame, last, writer, pushed>>
    BY Zenon DEF Pacing!Flush, Pacing!task
  <1>2. flushes + 1 \in 0..MaxFlushes /\ flushes + 1 # flushes /\ 0 <= Capacity
    BY <1>1 DEF QueueTyped, PaceBounds
  <1>3. QueueTyped'
    BY <1>1, <1>2, EmptyIs, Zenon DEF QueueTyped
  <1>4. FlushInv'
    BY <1>1, EmptyIs, Zenon DEF FlushInv
  <1>5. OrderInv'
    BY <1>1, EmptyIs, Zenon DEF OrderInv
  <1>6. KeptStep
    BY <1>1, <1>2, Zenon DEF KeptStep
  <1> QED
    BY <1>3, <1>4, <1>5, <1>6

\* A frame is taken from a queue of which the rest of the line is the continuation.
LEMMA FrameKeeps ==
  ASSUME PaceBounds, QueueTyped, FlushInv, OrderInv, NEW queue \in Seq(Units),
         Pacing!Fills(queue), UNCHANGED <<filterFlushes, flushes, writer, pushed>>,
         Len(queue) <= Capacity, Rising(queue), Between(queue, last, pushed), AllOf(queue, flushes),
         filter' \in Seq(Units), Len(filter') <= FilterDelay, Rising(filter'), AllOf(filter', filterFlushes),
         Between(filter', last, pushed), Precede(queue, filter'),
         \A w \in Writers : Precede(queue, writer[w].out) /\ Precede(writer[w].out, filter')
  PROVE  /\ QueueTyped' /\ FlushInv' /\ OrderInv'
         /\ Elements(queue) \subseteq OnLine' \cup Elements(frame'.units)
  <1>1. /\ last \in Nat /\ pushed \in Nat /\ last <= pushed /\ flushes \in 0..MaxFlushes
    BY QueueIsTyped, Zenon DEF QueueTyped, OrderInv
  <1>2. /\ frame' \in [units : Seq(Units), at : 0..MaxFlushes]
        /\ frame'.at = flushes /\ AllOf(frame'.units, flushes)
        /\ pcm' \in Seq(Units) /\ Len(pcm') <= Len(queue) /\ AllOf(pcm', flushes)
        /\ Rising(pcm') /\ Between(pcm', last', pushed)
        /\ last' \in Nat /\ last' <= pushed
        /\ \A r : Precede(queue, r) => Precede(pcm', r)
        /\ \A r : Precede(queue, r) /\ Between(r, last, pushed) => Between(r, last', pushed)
        /\ Elements(queue) = Elements(frame'.units) \cup Elements(pcm')
    BY <1>1, FillsIs, Zenon
  <1>3. Len(pcm') <= Capacity
    <2>1. Len(pcm') \in Nat /\ Len(queue) \in Nat /\ Capacity \in Nat
      BY <1>2, QueueIsTyped
    <2> QED
      BY <1>2, <2>1
  <1>4. QueueTyped'
    BY <1>1, <1>2, <1>3, Zenon DEF QueueTyped
  <1>5. FlushInv'
    BY <1>2, Zenon DEF FlushInv
  <1>6. \A w \in Writers : Rising(writer[w].out) /\ Between(writer[w].out, last, pushed)
    BY Zenon DEF OrderInv
  <1>7. OrderInv'
    BY <1>2, <1>6, Zenon DEF OrderInv
  <1>8. Elements(pcm') \subseteq OnLine'
    BY Zenon DEF OnLine
  <1> QED
    BY <1>2, <1>4, <1>5, <1>7, <1>8, Zenon

LEMMA LooksKeep ==
  ASSUME PaceBounds, QueueTyped, FlushInv, OrderInv, Pacing!TakeLooks
  PROVE  QueueTyped' /\ FlushInv' /\ OrderInv' /\ KeptStep
  <1>1. UNCHANGED <<filter, filterFlushes, flushes, writer, pushed>>
        /\ (Pacing!Fills(pcm) \/ UNCHANGED <<frame, pcm, last>>)
    BY Zenon DEF Pacing!TakeLooks, Pacing!track
  <1>2. CASE UNCHANGED <<frame, pcm, last>>
    <2>1. writer' \in [Writers -> WriterStates]
      BY <1>1, Zenon DEF QueueTyped
    <2> QED
      BY <1>1, <1>2, <2>1, LineStays, Zenon
  <1>3. CASE Pacing!Fills(pcm)
    <2>1. /\ QueueTyped' /\ FlushInv' /\ OrderInv'
          /\ Elements(pcm) \subseteq OnLine' \cup Elements(frame'.units)
      BY <1>1, <1>3, FrameKeeps, Zenon DEF QueueTyped, FlushInv, OrderInv
    <2>2. OnLine \subseteq OnLine' \cup Elements(frame'.units)
      BY <1>1, <2>1, Zenon DEF OnLine
    <2>3. KeptStep
      BY <1>1, <2>2, KeptIs, Zenon
    <2> QED
      BY <2>1, <2>3
  <1> QED
    BY <1>1, <1>2, <1>3

LEMMA EndsKeep ==
  ASSUME PaceBounds, HoldersInv, QueueTyped, FlushInv, OrderInv, Pacing!TakeEnds
  PROVE  QueueTyped' /\ FlushInv' /\ OrderInv' /\ KeptStep
  <1>1. /\ UNCHANGED <<filterFlushes, flushes, writer, pushed>> /\ pacer = "short" /\ pacer' = "encode"
        /\ IF Pacing!TailPlays THEN Pacing!Fills(Pacing!PushBounded(pcm, filter)) /\ filter' = <<>>
           ELSE Pacing!Fills(pcm) /\ UNCHANGED filter
    BY Zenon DEF Pacing!TakeEnds, Pacing!track, Pacing!Fills
  <1>2. CASE ~Pacing!TailPlays
    <2>1. /\ QueueTyped' /\ FlushInv' /\ OrderInv'
          /\ Elements(pcm) \subseteq OnLine' \cup Elements(frame'.units)
      BY <1>1, <1>2, FrameKeeps, Zenon DEF QueueTyped, FlushInv, OrderInv
    <2>2. OnLine \subseteq OnLine' \cup Elements(frame'.units)
      BY <1>1, <1>2, <2>1, Zenon DEF OnLine
    <2>3. KeptStep
      BY <1>1, <2>2, KeptIs, Zenon
    <2> QED
      BY <2>1, <2>3
  <1>3. CASE Pacing!TailPlays
    <2> DEFINE queue == Pacing!PushBounded(pcm, filter)
    <2>1. resampler = Pacing!Pacer /\ filterFlushes = flushes
      BY <1>3, Zenon DEF Pacing!TailPlays
    <2>2. \A v \in Writers : writer[v].out = <<>>
      BY <2>1, OthersAreIdle, Zenon DEF PaceBounds
    <2>3. /\ pcm \in Seq(Units) /\ filter \in Seq(Units) /\ Rising(pcm) /\ Rising(filter) /\ Precede(pcm, filter)
          /\ AllOf(pcm, flushes) /\ AllOf(filter, flushes)
          /\ Between(pcm, last, pushed) /\ Between(filter, last, pushed)
      BY <2>1, Zenon DEF QueueTyped, FlushInv, OrderInv
    <2>4. /\ queue \in Seq(Units) /\ Len(queue) <= Capacity /\ Rising(queue)
          /\ AllOf(queue, flushes) /\ Between(queue, last, pushed)
          /\ (~(Len(pcm) + Len(filter) > Capacity) => Elements(pcm) \cup Elements(filter) \subseteq Elements(queue))
      BY <2>3, PushedIs, Zenon
    <2>5. Pacing!Fills(queue) /\ filter' = <<>>
      BY <1>1, <1>3, Zenon
    <2> HIDE DEF queue
    <2>6. 0 <= FilterDelay
      BY DEF PaceBounds
    <2>7. /\ QueueTyped' /\ FlushInv' /\ OrderInv'
          /\ Elements(queue) \subseteq OnLine' \cup Elements(frame'.units)
      <3>1. /\ filter' \in Seq(Units) /\ Len(filter') <= FilterDelay /\ Rising(filter')
            /\ AllOf(filter', filterFlushes) /\ Between(filter', last, pushed) /\ Precede(queue, filter')
            /\ \A w \in Writers : Precede(queue, writer[w].out) /\ Precede(writer[w].out, filter')
        BY <2>2, <2>5, <2>6, EmptyIs, Zenon
      <3> QED
        BY <1>1, <2>4, <2>5, <3>1, FrameKeeps, Zenon
    <2>8. KeptStep
      <3>1. CASE Len(pcm) + Len(filter) > Capacity
        <4>1. "encode" # "short"
          OBVIOUS
        <4> QED
          BY <1>1, <3>1, <4>1, Zenon DEF KeptStep, Pacing!Overflows
      <3>2. CASE ~(Len(pcm) + Len(filter) > Capacity)
        <4>1. OnLine = Elements(pcm) \cup Elements(filter)
          BY <2>2, NothingOnTheWay, Zenon
        <4>2. OnLine \subseteq OnLine' \cup Elements(frame'.units)
          BY <2>4, <2>7, <3>2, <4>1, Zenon
        <4> QED
          BY <1>1, <4>2, KeptIs, Zenon
      <3> QED
        BY <3>1, <3>2
    <2> QED
      BY <2>7, <2>8
  <1> QED
    BY <1>2, <1>3

\* Every step of the pacer's module keeps the parts of the line in order, and loses
\* no audio but where the property says so.
LEMMA LineKeeps ==
  ASSUME PaceBounds, TasksTyped, HoldersInv, QueueTyped, FlushInv, OrderInv, LineSteps
  PROVE  QueueTyped' /\ FlushInv' /\ OrderInv' /\ KeptStep
  <1>1. writer \in [Writers -> WriterStates]
    BY Zenon DEF QueueTyped
  <1>2. "idle" # "resampled" /\ "begun" # "resampled" /\ "queued" # "resampled"
    OBVIOUS
  <1>3. ASSUME NEW w \in Writers, Pacing!WriteBegins(w) \/ Pacing!WritePaces(w)
        PROVE  QueueTyped' /\ FlushInv' /\ OrderInv' /\ KeptStep
    <2>1. UNCHANGED <<pcm, filter, filterFlushes, flushes, pushed, last, frame>>
      BY <1>3, Zenon DEF Pacing!WriteBegins, Pacing!WritePaces, Pacing!audio, Pacing!task, Pacing!track
    <2>2. writer[w].at # "resampled"
      BY <1>2, <1>3, Zenon DEF Pacing!WriteBegins, Pacing!WritePaces, Pacing!At
    <2>3. writer[w].out = <<>>
      BY <2>2, Zenon DEF HoldersInv
    <2>4. /\ writer' \in [Writers -> WriterStates] /\ writer'[w].at # "resampled" /\ writer'[w].out = <<>>
          /\ \A v \in Writers : v # w => writer'[v] = writer[v]
      BY <1>2, <1>3, WritersAre, Zenon
    <2>5. \A v \in Writers : \/ writer'[v] = writer[v]
                             \/ writer'[v].out = writer[v].out /\ writer'[v].at # "resampled"
      BY <2>3, <2>4, Zenon
    <2> QED
      BY <2>1, <2>4, <2>5, LineStays, Zenon
  <1>4. ASSUME UNCHANGED <<pcm, filter, filterFlushes, flushes, pushed, last, frame, writer>>
        PROVE  QueueTyped' /\ FlushInv' /\ OrderInv' /\ KeptStep
    <2>1. writer' \in [Writers -> WriterStates]
      BY <1>1, <1>4, Zenon
    <2> QED
      BY <1>4, <2>1, LineStays, Zenon
  <1>5. CASE Pacing!PacerEncodes
    <2>1. UNCHANGED <<pcm, filter, filterFlushes, flushes, pushed, last, writer>> /\ frame' = Pacing!Taken
      BY <1>5, Zenon DEF Pacing!PacerEncodes, Pacing!audio, Pacing!track
    <2>2. Pacing!Taken.units = <<>> /\ Pacing!Taken.at = 0 /\ Pacing!Taken \in [units : Seq(Units), at : 0..MaxFlushes]
      BY EmptyIs DEF Pacing!Taken, PaceBounds
    <2>3. AllOf(frame'.units, frame'.at) /\ frame' \in [units : Seq(Units), at : 0..MaxFlushes]
      BY <2>1, <2>2, EmptyIs, Zenon
    <2>4. writer' \in [Writers -> WriterStates]
      BY <1>1, <2>1, Zenon
    <2> QED
      BY <2>1, <2>3, <2>4, LineStays, Zenon
  <1>6. ASSUME NEW w \in Writers,
               Pacing!WriteResamples(w) \/ Pacing!WriteRefused(w) \/ Pacing!WriteQueues(w)
        PROVE  QueueTyped' /\ FlushInv' /\ OrderInv' /\ KeptStep
    BY <1>6, ResamplesKeep, RefusedKeeps, QueuesKeep, Zenon
  <1>7. CASE Pacing!TakeLooks \/ Pacing!TakeEnds \/ Pacing!Flush
    BY <1>7, LooksKeep, EndsKeep, FlushKeeps, Zenon
  <1>8. CASE Pacing!PacerTicks \/ Pacing!PacerLocks \/ Pacing!TakeBegins \/ Pacing!PacerSends
    BY <1>4, <1>8, Zenon DEF Pacing!PacerTicks, Pacing!PacerLocks, Pacing!TakeBegins, Pacing!PacerSends,
           Pacing!audio, Pacing!track
  <1>9. ASSUME NEW f \in Forwarders,
               Pacing!ForwardBegins(f) \/ Pacing!ForwardLocks(f) \/ Pacing!ForwardSends(f)
        PROVE  QueueTyped' /\ FlushInv' /\ OrderInv' /\ KeptStep
    BY <1>4, <1>9, Zenon DEF Pacing!ForwardBegins, Pacing!ForwardLocks, Pacing!ForwardSends,
           Pacing!audio, Pacing!track
  <1>10. CASE Pacing!StartPacing \/ Pacing!PausePacing \/ Pacing!HoldPacing \/ Pacing!ReleasePacing
    BY <1>4, <1>10, Zenon DEF Pacing!StartPacing, Pacing!PausePacing, Pacing!HoldPacing, Pacing!ReleasePacing,
           Pacing!audio, Pacing!task
  <1>11. CASE Pacing!SetPaused \/ Pacing!Bind \/ Pacing!Stop
    BY <1>4, <1>11, Zenon DEF Pacing!SetPaused, Pacing!Bind, Pacing!Stop, Pacing!audio, Pacing!task
  <1> QED
    BY <1>3, <1>5, <1>6, <1>7, <1>8, <1>9, <1>10, <1>11, Zenon DEF LineSteps

LEMMA PcmLineInit ==
  ASSUME PaceBounds, Pacing!Init
  PROVE  PcmLineInv
  <1>1. 0 \in 0..MaxFlushes /\ 0 \in 0..MaxWrites /\ 0 \in Nat /\ 0 <= 0 /\ 0 <= Capacity /\ 0 <= FilterDelay
    BY DEF PaceBounds
  <1> DEFINE resting == [at |-> "idle", flushes |-> 0, out |-> <<>>]
  <1>2. resting \in WriterStates /\ resting.at # "resampled" /\ resting.out = <<>>
    BY <1>1, EmptyIs DEF WriterStates
  <1>3. writer = [w \in Writers |-> resting]
    BY Zenon DEF Pacing!Init
  <1> HIDE DEF resting
  <1>4. /\ writer \in [Writers -> WriterStates]
        /\ \A w \in Writers : writer[w].at # "resampled" /\ writer[w].out = <<>>
    BY <1>2, <1>3
  <1>5. frame \in [units : Seq(Units), at : 0..MaxFlushes] /\ frame.units = <<>>
    <2>1. frame = [units |-> <<>>, at |-> 0]
      BY Zenon DEF Pacing!Init
    <2> QED
      BY <1>1, <2>1, EmptyIs
  <1>6. QueueTyped
    BY <1>1, <1>4, <1>5, EmptyIs, Zenon DEF Pacing!Init, QueueTyped
  <1>7. FlushInv
    BY <1>4, <1>5, EmptyIs, Zenon DEF Pacing!Init, FlushInv
  <1>8. OrderInv
    BY <1>1, <1>4, EmptyIs, Zenon DEF Pacing!Init, OrderInv
  <1>9. HoldersInv
    <2>1. Pacing!Nobody # Pacing!Pacer
      BY DEF Pacing!Nobody, Pacing!Pacer
    <2> QED
      BY <1>4, <2>1, Zenon DEF Pacing!Init, HoldersInv
  <1>10. TasksTyped
    <2>1. forwarder \in [Forwarders -> {"idle", "guard", "send"}]
      <3>1. forwarder = [f \in Forwarders |-> "idle"]
        BY Zenon DEF Pacing!Init
      <3> QED
        BY <3>1
    <2> QED
      BY <2>1, PlacesOfPacer, Zenon DEF Pacing!Init, TasksTyped
  <1> QED
    BY <1>6, <1>7, <1>8, <1>9, <1>10, Zenon DEF PcmLineInv

LEMMA PcmLineStep ==
  ASSUME PaceBounds, PcmLineInv, Pacing!Next
  PROVE  PcmLineInv' /\ KeptStep
  <1>1. LineSteps
    BY LineStepsAre, Zenon
  <1>2. TasksTyped /\ HoldersInv /\ QueueTyped /\ FlushInv /\ OrderInv
    BY Zenon DEF PcmLineInv
  <1>3. TasksTyped' /\ HoldersInv'
    BY <1>1, <1>2, TasksKeep, HoldersKeep, Zenon
  <1>4. QueueTyped' /\ FlushInv' /\ OrderInv' /\ KeptStep
    BY <1>1, <1>2, LineKeeps, Zenon
  <1> QED
    BY <1>3, <1>4, Zenon DEF PcmLineInv

\* A line whose numbers rise and that lies behind what was taken ascends from it.
LEMMA LineAscends ==
  ASSUME PaceBounds, last \in Nat, NEW line \in Seq(Units), Rising(line), Between(line, last, pushed)
  PROVE  Pacing!Ascends(line)
  <1>1. \A i \in DOMAIN line : line[i].n \in Nat
    BY UnitsAre, Zenon
  <1>2. ASSUME NEW i \in DOMAIN line
        PROVE  line[i].n > IF i = 1 THEN last ELSE line[i - 1].n
    <2>1. CASE i = 1
      <3>1. last < line[i].n
        BY Zenon DEF Between
      <3> QED
        BY <1>1, <2>1, <3>1
    <2>2. CASE i # 1
      <3>1. i - 1 \in DOMAIN line /\ i - 1 < i
        BY <2>2
      <3>2. line[i - 1].n < line[i].n
        BY <3>1, Zenon DEF Rising
      <3>3. line[i - 1].n \in Nat /\ line[i].n \in Nat
        BY <1>1, <3>1, Zenon
      <3> QED
        BY <2>2, <3>2, <3>3
    <2> QED
      BY <2>1, <2>2
  <1> QED
    BY <1>2, Zenon DEF Pacing!Ascends

\* The parts of the line, one behind the other.
LEMMA OutIsInOrder ==
  ASSUME PaceBounds, QueueTyped, OrderInv, NEW out \in Seq(Units), Rising(out),
         Between(out, last, pushed), Precede(pcm, out), Precede(out, filter)
  PROVE  Pacing!Ascends(pcm \o out \o filter)
  <1> DEFINE front == pcm \o out
             line == front \o filter
  <1>1. /\ pcm \in Seq(Units) /\ filter \in Seq(Units) /\ Rising(pcm) /\ Rising(filter)
        /\ Precede(pcm, filter) /\ Between(pcm, last, pushed) /\ Between(filter, last, pushed) /\ last \in Nat
    BY Zenon DEF QueueTyped, OrderInv
  <1>2. /\ front \in Seq(Units) /\ Rising(front) /\ Between(front, last, pushed) /\ Precede(front, filter)
    BY <1>1, JoinKeeps, Zenon
  <1> HIDE DEF front
  <1>3. line \in Seq(Units) /\ Rising(line) /\ Between(line, last, pushed)
    BY <1>1, <1>2, JoinKeeps, Zenon
  <1> HIDE DEF line
  <1>4. Pacing!Ascends(line)
    BY <1>1, <1>3, LineAscends, Zenon
  <1> QED
    BY <1>4, Zenon DEF line, front

\* What the invariant says of the line is what the property asks of it.
LEMMA LineIsWhole ==
  ASSUME PaceBounds, PcmLineInv
  PROVE  Pacing!TypeOK /\ Pacing!LineStaysWhole
  <1>1. TasksTyped /\ HoldersInv /\ QueueTyped /\ FlushInv /\ OrderInv
    BY Zenon DEF PcmLineInv
  <1>2. Pacing!TypeOK
    <2>1. frame.units \in Seq(Units) /\ frame.at \in 0..MaxFlushes
      BY <1>1 DEF QueueTyped
    <2>2. {pcmWritten, pcmPacing, pacingEnabled, held, audioStopped, outputPaused, bound, started, written}
              \subseteq BOOLEAN
      <3>1. /\ pcmWritten \in BOOLEAN /\ pcmPacing \in BOOLEAN /\ pacingEnabled \in BOOLEAN
            /\ held \in BOOLEAN /\ audioStopped \in BOOLEAN /\ outputPaused \in BOOLEAN
            /\ bound \in BOOLEAN /\ started \in BOOLEAN /\ written \in BOOLEAN
        BY <1>1, Zenon DEF TasksTyped
      <3> QED
        BY <3>1
    <2>3. /\ pacer \in Pacing!Places
          /\ resampler \in Writers \cup {Pacing!Pacer, Pacing!Nobody}
          /\ guard \in Forwarders \cup {Pacing!Pacer, Pacing!Nobody}
          /\ level \in Forwarders \cup {Pacing!Pacer, Pacing!Nobody}
          /\ forwarder \in [Forwarders -> {"idle", "guard", "send"}]
      BY <1>1, SMT DEF TasksTyped
    <2>4. /\ pcm \in Seq(Units) /\ Len(pcm) <= Capacity
          /\ filter \in Seq(Units) /\ Len(filter) <= FilterDelay
          /\ filterFlushes \in 0..MaxFlushes /\ flushes \in 0..MaxFlushes
      BY <1>1, Zenon DEF QueueTyped
    <2> QED
      BY <2>1, <2>2, <2>3, <2>4, Zenon DEF Pacing!TypeOK, Units
  <1>3. Pacing!FlushedAudioStaysSilent
    BY <1>1, Zenon DEF Pacing!FlushedAudioStaysSilent, FlushInv, AllOf, Pacing!Range
  <1>4. ASSUME NEW v \in Writers, NEW w \in Writers, writer[v].out # <<>>, writer[w].out # <<>>
        PROVE  v = w
    BY <1>1, <1>4, Zenon DEF HoldersInv
  <1>5. ASSUME NEW out \in {<<>>} \cup {writer[w].out : w \in Writers}
        PROVE  Pacing!Ascends(pcm \o out \o filter)
    <2>1. CASE out = <<>>
      <3>1. out \in Seq(Units) /\ Rising(out) /\ Between(out, last, pushed) /\ Precede(pcm, out)
            /\ Precede(out, filter)
        BY <2>1, EmptyIs, Zenon
      <3> QED
        BY <1>1, <3>1, OutIsInOrder, Zenon
    <2>2. ASSUME NEW w \in Writers, out = writer[w].out
          PROVE  Pacing!Ascends(pcm \o out \o filter)
      <3>1. out \in Seq(Units)
        BY <1>1, <2>2, WriterIs, Zenon DEF QueueTyped
      <3>2. Rising(out) /\ Between(out, last, pushed) /\ Precede(pcm, out) /\ Precede(out, filter)
        BY <1>1, <2>2, Zenon DEF OrderInv
      <3> QED
        BY <1>1, <3>1, <3>2, OutIsInOrder, Zenon
    <2> QED
      BY <1>5, <2>1, <2>2, Zenon
  <1>6. Pacing!AudioInOrder
    BY <1>4, <1>5, Zenon DEF Pacing!AudioInOrder
  <1> QED
    BY <1>2, <1>3, <1>6, Zenon DEF Pacing!LineStaysWhole

LEMMA PacerStays ==
  ASSUME UNCHANGED pacerVars
  PROVE  UNCHANGED Pacing!vars /\ (PcmLineInv => PcmLineInv')
  <1>1. UNCHANGED Pacing!vars
    BY Zenon DEF pacerVars, Pacing!vars, Pacing!track, Pacing!audio, Pacing!task
  <1>2. UNCHANGED <<pcm, filter, filterFlushes, flushes, pcmWritten, pcmPacing, pacingEnabled, held>>
        /\ UNCHANGED <<audioStopped, outputPaused, bound, pacer, started, written, frame, resampler>>
        /\ UNCHANGED <<guard, level, writer, forwarder, pushed, last>>
    BY Zenon DEF pacerVars
  <1>3. TasksTyped => TasksTyped'
    BY <1>2, SMT DEF TasksTyped
  <1>4. HoldersInv => HoldersInv'
    BY <1>2, Zenon DEF HoldersInv
  <1>5. (QueueTyped => QueueTyped') /\ (FlushInv => FlushInv') /\ (OrderInv => OrderInv')
    BY <1>2, Zenon DEF QueueTyped, FlushInv, OrderInv
  <1> QED
    BY <1>1, <1>3, <1>4, <1>5, Zenon DEF PcmLineInv

\* The line of audio stays whole, whatever the writers, the pacer, the forwarders and
\* the flushes do: audio that a flush silenced is never taken, the rest is taken in
\* the order in which it was written and once, and nothing is lost on the way but
\* where the queue overflows or a write from before a flush clears the filter.
THEOREM AudioStaysWhole == ASSUME PaceBounds PROVE Suite => LineStaysWhole
  <1> DEFINE all == <<part, vars, encoderVars, audioVars, pacerVars, videoVars, pictureVars, layerVars, pcmVars>>
             Inv == part = "pacer" => PcmLineInv
             Whole == part = "pacer" => Pacing!TypeOK /\ Pacing!LineStaysWhole
  <1>1. SuiteInit => Inv
    BY PcmLineInit, Zenon DEF SuiteInit
  <1>2. Inv /\ [SuiteNext]_all => Inv' /\ [KeptStep]_(Pacing!vars)
    <2> SUFFICES ASSUME Inv, [SuiteNext]_all PROVE Inv' /\ (KeptStep \/ UNCHANGED Pacing!vars)
      BY Zenon
    <2>1. CASE UNCHANGED pacerVars /\ UNCHANGED part
      BY <2>1, PacerStays, Zenon
    <2>2. CASE part = "pacer" /\ Pacing!Next
      BY <2>2, PcmLineStep, Zenon
    <2>3. UNCHANGED all => UNCHANGED pacerVars /\ UNCHANGED part
      BY Zenon
    <2> QED
      BY <2>1, <2>2, <2>3, Zenon DEF SuiteNext
  <1>3. Inv => Whole
    BY LineIsWhole, Zenon
  <1>4. Suite => []Whole /\ [][KeptStep]_(Pacing!vars)
    <2> HIDE DEF Inv, Whole
    <2> QED
      BY <1>1, <1>2, <1>3, PTL DEF Suite
  <1> QED
    BY <1>4, PTL DEF LineStaysWhole, Pacing!AudioIsKept, KeptStep
=============================================================================
