--------------------------- MODULE OdasCoreProofs ---------------------------
(***************************************************************************)
(* The hops that the source of odascore takes from its ring, for any number  *)
(* of samples per frame, any number of frames, both thread types and whatever *)
(* reads and writes come in between: each is one captured frame, and they     *)
(* never go back to an earlier one.                                          *)
(*                                                                         *)
(* The code writes what fits and reads what is there, so that a hop stays     *)
(* whole only because neither is ever a part of a frame: the invariant says    *)
(* that the ring holds a whole number of whole frames (its capacity is one,   *)
(* too), from the oldest to the newest and none older than the hop taken last. *)
(***************************************************************************)
EXTENDS OdasCore, SequenceTheorems, TLAPS

\* The samples behind offset o are one frame, from its first to its last.
FrameAt(q, o) == \A i \in 1 .. PerFrame : q[o + i] = <<q[o + 1][1], i>>

WholeFrames(q) ==
  \E k \in 0 .. RB_COUNT : /\ Len(q) = k * PerFrame
                           /\ \A j \in 0 .. k - 1 : FrameAt(q, j * PerFrame)

OldestFirst(q) ==
  /\ \A i \in 1 .. Len(q) : buffer[1][1] <= q[i][1] /\ q[i][1] <= frame
  /\ \A i, j \in 1 .. Len(q) : i <= j => q[i][1] <= q[j][1]

IInv == /\ TypeOK /\ HopsAreWhole
        /\ buffer[1][1] <= frame /\ (capture = "put" => frame >= 1)
        /\ WholeFrames(ring) /\ OldestFirst(ring)

-----------------------------------------------------------------------------
(* Sequences of whole frames *)

LEMMA FrameSizes ==
  ASSUME CoreParameters, NEW k \in Nat
  PROVE  /\ k * PerFrame \in Nat /\ (k + 1) * PerFrame = k * PerFrame + PerFrame
         /\ (k < RB_COUNT => k * PerFrame + PerFrame <= Capacity)
         /\ (k = RB_COUNT => k * PerFrame = Capacity)
<1>1. PerFrame \in Nat /\ Capacity = 4 * PerFrame /\ RB_COUNT = 4
  BY DEF CoreParameters, Capacity, RB_COUNT
<1>2. k * PerFrame \in Nat /\ (k + 1) * PerFrame = k * PerFrame + PerFrame
  BY <1>1
<1>3. ASSUME k < 4
      PROVE  k * PerFrame + PerFrame <= 4 * PerFrame
  <2>1. k = 0 \/ k = 1 \/ k = 2 \/ k = 3
    BY <1>3
  <2> QED BY <1>1, <2>1
<1> QED BY <1>1, <1>2, <1>3

LEMMA FrameStarts ==
  ASSUME CoreParameters, NEW k \in Nat, NEW j \in 0 .. k - 1
  PROVE  j * PerFrame \in Nat /\ j * PerFrame + PerFrame <= k * PerFrame
<1>1. PerFrame \in Nat /\ j \in Nat
  BY DEF CoreParameters
<1>2. PICK d \in Nat : k = j + 1 + d
  <2>1. k - (j + 1) \in Nat /\ k = j + 1 + (k - (j + 1))
    BY <1>1
  <2> QED BY <2>1
<1>3. k * PerFrame = j * PerFrame + PerFrame + d * PerFrame /\ d * PerFrame \in Nat
      /\ j * PerFrame \in Nat
  BY <1>1, <1>2
<1> QED BY <1>1, <1>3

LEMMA FrameSamples ==
  ASSUME CoreParameters, NEW f \in 1 .. MaxFrames
  PROVE  /\ Samples(f) \in Seq(Sample) /\ Len(Samples(f)) = PerFrame
         /\ \A i \in 1 .. PerFrame : Samples(f)[i] = <<f, i>>
<1>1. PerFrame \in Nat /\ MaxFrames \in Nat /\ f \in 0 .. MaxFrames
  BY DEF CoreParameters
<1>2. Samples(f) \in [1 .. PerFrame -> Sample]
  BY <1>1 DEF Samples, Sample
<1> QED BY <1>1, <1>2 DEF Samples

LEMMA SampleFrame == \A x \in Sample : x[1] \in Int
BY DEF Sample

(* What a write of a frame f makes of the ring.                               *)
LEMMA FrameWritten ==
  ASSUME CoreParameters, NEW q \in Seq(Sample), NEW f \in 1 .. MaxFrames, NEW k \in 0 .. RB_COUNT - 1,
         Len(q) = k * PerFrame, \A j \in 0 .. k - 1 : FrameAt(q, j * PerFrame)
  PROVE  /\ q \o Samples(f) \in Seq(Sample) /\ Len(q \o Samples(f)) = (k + 1) * PerFrame
         /\ \A i \in 1 .. Len(q) : (q \o Samples(f))[i] = q[i]
         /\ \A i \in 1 .. PerFrame : (q \o Samples(f))[Len(q) + i] = <<f, i>>
         /\ WholeFrames(q \o Samples(f))
<1> DEFINE r == q \o Samples(f)
<1>1. PerFrame \in Nat \ {0} /\ k \in Nat /\ k + 1 \in 0 .. RB_COUNT
  BY DEF CoreParameters, RB_COUNT
<1>2. /\ Samples(f) \in Seq(Sample) /\ Len(Samples(f)) = PerFrame
      /\ \A i \in 1 .. PerFrame : Samples(f)[i] = <<f, i>>
  BY FrameSamples
<1>3. Len(q) \in Nat /\ (k + 1) * PerFrame = Len(q) + PerFrame
  BY <1>1, FrameSizes
<1>4. /\ r \in Seq(Sample) /\ Len(r) = Len(q) + PerFrame
      /\ \A i \in 1 .. Len(q) + PerFrame : r[i] = IF i <= Len(q) THEN q[i] ELSE Samples(f)[i - Len(q)]
  BY <1>2, ConcatProperties
<1> HIDE DEF r
<1>5. \A i \in 1 .. Len(q) : r[i] = q[i]
  BY <1>1, <1>3, <1>4
<1>6. ASSUME NEW i \in 1 .. PerFrame
      PROVE  r[Len(q) + i] = <<f, i>>
  <2>1. PICK m \in Nat : m = Len(q) + i
    BY <1>1, <1>3
  <2>2. m \in 1 .. Len(q) + PerFrame /\ ~ (m <= Len(q)) /\ m - Len(q) = i
    BY <1>1, <1>3, <2>1
  <2>3. r[m] = Samples(f)[i]
    BY <1>4, <2>2
  <2> QED BY <1>2, <2>1, <2>3
<1>7. ASSUME NEW j \in 0 .. k
      PROVE  FrameAt(r, j * PerFrame)
  <2>1. CASE j = k
    <3>1. r[Len(q) + 1] = <<f, 1>>
      BY <1>1, <1>6
    <3> QED BY <1>6, <2>1, <3>1 DEF FrameAt
  <2>2. CASE j # k
    <3>1. j \in 0 .. k - 1
      BY <1>1, <2>2
    <3>2. j * PerFrame \in Nat /\ j * PerFrame + PerFrame <= Len(q)
      BY <1>1, <3>1, FrameStarts
    <3>3. \A i \in 1 .. PerFrame : r[j * PerFrame + i] = q[j * PerFrame + i]
      BY <1>1, <1>3, <1>5, <3>2
    <3>4. r[j * PerFrame + 1] = q[j * PerFrame + 1]
      BY <1>1, <3>3
    <3> QED BY <3>1, <3>3, <3>4 DEF FrameAt
  <2> QED BY <2>1, <2>2
<1>8. WholeFrames(r)
  <2>1. (k + 1) - 1 = k
    BY <1>1
  <2> QED BY <1>1, <1>3, <1>4, <1>7, <2>1 DEF WholeFrames
<1> QED BY <1>3, <1>4, <1>5, <1>6, <1>8 DEF r

(* What a read of the oldest frame leaves in the ring.                        *)
LEMMA FrameRead ==
  ASSUME CoreParameters, NEW q \in Seq(Sample), NEW k \in 1 .. RB_COUNT,
         Len(q) = k * PerFrame, \A j \in 0 .. k - 1 : FrameAt(q, j * PerFrame)
  PROVE  /\ PerFrame <= Len(q)
         /\ SubSeq(q, PerFrame + 1, Len(q)) \in Seq(Sample)
         /\ Len(SubSeq(q, PerFrame + 1, Len(q))) = Len(q) - PerFrame
         /\ \A i \in 1 .. Len(q) - PerFrame : SubSeq(q, PerFrame + 1, Len(q))[i] = q[PerFrame + i]
         /\ WholeFrames(SubSeq(q, PerFrame + 1, Len(q)))
         /\ FrameAt(q, 0)
<1> DEFINE r == SubSeq(q, PerFrame + 1, Len(q))
<1>1. /\ PerFrame \in Nat \ {0} /\ k \in Nat /\ k - 1 \in 0 .. RB_COUNT /\ k - 1 \in Nat
      /\ 0 \in 0 .. k - 1 /\ 0 * PerFrame = 0 /\ (k - 1) + 1 = k
  BY DEF CoreParameters, RB_COUNT
<1>2. Len(q) \in Nat /\ (k - 1) * PerFrame \in Nat /\ Len(q) = (k - 1) * PerFrame + PerFrame
  BY <1>1, FrameSizes
<1>3. /\ r \in Seq(Sample) /\ Len(r) = Len(q) - PerFrame
      /\ \A i \in 1 .. Len(q) - PerFrame : r[i] = q[PerFrame + i]
  <2>1. \A i \in PerFrame + 1 .. Len(q) : q[i] \in Sample
    BY <1>1, <1>2
  <2>2. /\ r \in Seq(Sample) /\ Len(r) = IF PerFrame + 1 <= Len(q) THEN Len(q) - (PerFrame + 1) + 1 ELSE 0
        /\ \A i \in 1 .. Len(q) - (PerFrame + 1) + 1 : r[i] = q[PerFrame + 1 + i - 1]
    BY <1>1, <1>2, <2>1, SubSeqProperties
  <2> HIDE DEF r
  <2>3. Len(q) - (PerFrame + 1) + 1 = Len(q) - PerFrame
    BY <1>1, <1>2
  <2>4. \A i \in 1 .. Len(q) - PerFrame : PerFrame + 1 + i - 1 = PerFrame + i
    BY <1>1, <1>2
  <2> QED BY <1>1, <1>2, <2>2, <2>3, <2>4
<1> HIDE DEF r
<1>4. ASSUME NEW j \in 0 .. (k - 1) - 1
      PROVE  FrameAt(r, j * PerFrame)
  <2>1. j \in Nat /\ j + 1 \in 0 .. k - 1
    BY <1>1
  <2>2. j * PerFrame \in Nat /\ (j + 1) * PerFrame = j * PerFrame + PerFrame
    BY <2>1, FrameSizes
  <2>3. j * PerFrame + PerFrame <= (k - 1) * PerFrame
    BY <1>1, FrameStarts
  <2>4. ASSUME NEW i \in 1 .. PerFrame
        PROVE  r[j * PerFrame + i] = q[(j + 1) * PerFrame + i]
    <3>1. j * PerFrame + i \in 1 .. Len(q) - PerFrame
      BY <1>1, <1>2, <2>2, <2>3
    <3>2. PerFrame + (j * PerFrame + i) = (j + 1) * PerFrame + i
      BY <1>1, <2>2
    <3> QED BY <1>3, <3>1, <3>2
  <2>5. r[j * PerFrame + 1] = q[(j + 1) * PerFrame + 1]
    BY <1>1, <2>4
  <2> QED BY <2>1, <2>4, <2>5 DEF FrameAt
<1>5. Len(r) = (k - 1) * PerFrame
  BY <1>1, <1>2, <1>3
<1>6. WholeFrames(r)
  BY <1>1, <1>4, <1>5 DEF WholeFrames
<1>7. FrameAt(q, 0)
  <2>1. FrameAt(q, 0 * PerFrame)
    BY <1>1
  <2> QED BY <1>1, <2>1
<1>8. PerFrame <= Len(q)
  BY <1>1, <1>2
<1> QED BY <1>3, <1>6, <1>7, <1>8 DEF r

-----------------------------------------------------------------------------
(* The steps *)

LEMMA Initially == ASSUME CoreParameters, Init PROVE IInv
<1>1. PerFrame \in Nat \ {0} /\ Channels \in Nat /\ MaxFrames \in Nat /\ 1 \in 1 .. PerFrame
  BY DEF CoreParameters
<1>2. buffer \in [1 .. PerFrame -> Sample] /\ \A i \in 1 .. PerFrame : buffer[i] = <<0, i>>
  BY <1>1 DEF Init, Silence, Sample
<1>3. /\ ring = <<>> /\ ring \in Seq(Sample) /\ Len(ring) = 0 /\ frame = 0 /\ held = 0
      /\ putResult = 0 /\ capture = "off"
  BY DEF Init
<1>8. {quit, running, objs, aobjs, crashed} = {FALSE}
  BY DEF Init
<1>4. main \in {InitSteps[i] : i \in DOMAIN InitSteps}
  <2>1. 1 \in DOMAIN InitSteps /\ InitSteps[1] = "audio_init"
    BY DEF InitSteps
  <2> QED BY <2>1 DEF Init
<1>5. TypeOK
  <2>1. 0 <= Capacity /\ 0 \in -1 .. PerFrame /\ 0 \in 0 .. Channels /\ 0 \in 0 .. MaxFrames
    BY <1>1 DEF Capacity, RB_COUNT
  <2>2. core = "none" /\ worker = "off" /\ sps = "raw" /\ source = "off"
    BY DEF Init
  <2> QED BY <1>2, <1>3, <1>4, <1>8, <2>1, <2>2 DEF TypeOK
<1>6. WholeFrames(ring)
  <2>1. 0 \in 0 .. RB_COUNT /\ 0 * PerFrame = 0 /\ \A j \in 0 .. 0 - 1 : FALSE
    BY <1>1 DEF RB_COUNT
  <2> QED BY <1>3, <2>1 DEF WholeFrames
<1>7. HopsAreWhole /\ buffer[1][1] = 0
  <2>1. buffer[1] = <<0, 1>> /\ <<0, 1>>[1] = 0 /\ DOMAIN buffer = 1 .. PerFrame
    BY <1>1, <1>2
  <2> QED BY <1>2, <2>1 DEF HopsAreWhole
<1> QED BY <1>3, <1>5, <1>6, <1>7 DEF IInv, OldestFirst

(* A step that leaves the ring, the hop and the count of frames alone.         *)
LEMMA Beside ==
  ASSUME IInv, TypeOK', UNCHANGED <<ring, buffer, frame>>, capture' = "put" => capture = "put"
  PROVE  IInv'
BY DEF IInv, HopsAreWhole, WholeFrames, OldestFirst, FrameAt

(* A frame is captured: nothing in the ring is of a later one.                 *)
LEMMA Captured ==
  ASSUME CoreParameters, IInv, GetFrames
  PROVE  IInv'
<1>1. /\ frame \in 0 .. MaxFrames /\ frame < MaxFrames /\ frame' = frame + 1
      /\ held' \in 0 .. Channels /\ capture' = "put" /\ MaxFrames \in Nat
      /\ UNCHANGED <<mainVars, quit, putResult, workerVars, sourceVars, ring, crashed>>
  BY DEF GetFrames, IInv, TypeOK, CoreParameters
<1>2. frame' \in 0 .. MaxFrames
  BY <1>1
<1>3. TypeOK'
  BY <1>1, <1>2 DEF IInv, TypeOK, mainVars, workerVars, sourceVars
<1>4. /\ ring \in Seq(Sample) /\ 1 \in DOMAIN buffer /\ buffer \in [1 .. PerFrame -> Sample]
  BY DEF IInv, TypeOK, CoreParameters
<1>5. buffer[1][1] \in Nat /\ \A i \in 1 .. Len(ring) : ring[i][1] \in Nat
  <2>1. \A x \in Sample : x[1] \in Nat
    BY DEF Sample
  <2> QED BY <1>4, <2>1
<1>6. buffer[1][1] <= frame' /\ \A i \in 1 .. Len(ring) : ring[i][1] <= frame'
  BY <1>1, <1>5 DEF IInv, OldestFirst
<1>7. WholeFrames(ring') /\ OldestFirst(ring)' /\ HopsAreWhole'
  <2>1. UNCHANGED <<ring, buffer>>
    BY <1>1 DEF sourceVars
  <2> QED BY <1>6, <2>1 DEF IInv, OldestFirst, HopsAreWhole
<1>8. frame' >= 1
  BY <1>1
<1>9. UNCHANGED <<ring, buffer>>
  BY <1>1 DEF sourceVars
<1> QED BY <1>3, <1>6, <1>7, <1>8, <1>9 DEF IInv, WholeFrames, FrameAt

(* The write of a frame: the ring has room for all of it or for nothing.       *)
LEMMA Written ==
  ASSUME CoreParameters, IInv, PutFrame
  PROVE  IInv'
<1>1. /\ frame \in 1 .. MaxFrames /\ frame \in Nat /\ PerFrame \in Nat \ {0} /\ ring \in Seq(Sample)
      /\ buffer \in [1 .. PerFrame -> Sample] /\ buffer[1][1] <= frame /\ OldestFirst(ring)
      /\ capture = "put" /\ capture' = "release"
      /\ UNCHANGED <<mainVars, quit, held, frame, workerVars, sourceVars, crashed>>
  BY DEF IInv, TypeOK, PutFrame, CoreParameters
<1> DEFINE fit == Least(PerFrame, Capacity - Len(ring))
<1>2. ring' = ring \o SubSeq(Samples(frame), 1, fit) /\ putResult' = fit
  BY DEF PutFrame
<1>3. PICK k \in 0 .. RB_COUNT : /\ Len(ring) = k * PerFrame
                                 /\ \A j \in 0 .. k - 1 : FrameAt(ring, j * PerFrame)
  BY DEF IInv, WholeFrames
<1>4. Samples(frame) \in Seq(Sample) /\ Len(Samples(frame)) = PerFrame
  BY <1>1, FrameSamples
<1>5. k \in Nat /\ RB_COUNT = 4 /\ Capacity \in Nat /\ Len(ring) \in Nat
  BY <1>1 DEF RB_COUNT, Capacity
<1>6. CASE k < RB_COUNT
  <2>1. Len(ring) + PerFrame <= Capacity /\ k \in 0 .. RB_COUNT - 1
    BY <1>3, <1>5, <1>6, FrameSizes
  <2>2. fit = PerFrame
    BY <1>1, <1>5, <2>1 DEF Least
  <2>3. ring' = ring \o Samples(frame)
    BY <1>2, <1>4, <2>2, SubSeqFull
  <2> HIDE DEF fit
  <2>4. /\ ring' \in Seq(Sample) /\ Len(ring') = (k + 1) * PerFrame
        /\ \A i \in 1 .. Len(ring) : ring'[i] = ring[i]
        /\ \A i \in 1 .. PerFrame : ring'[Len(ring) + i] = <<frame, i>>
        /\ WholeFrames(ring')
    BY <1>1, <1>3, <2>1, <2>3, FrameWritten
  <2>5. Len(ring') = Len(ring) + PerFrame
    BY <1>3, <1>5, <2>4, FrameSizes
  <2>6. TypeOK'
    BY <1>1, <1>2, <1>5, <2>1, <2>2, <2>4, <2>5
       DEF IInv, TypeOK, mainVars, workerVars, sourceVars
  <2>7. ASSUME NEW i \in 1 .. Len(ring'), ~ i \in 1 .. Len(ring)
        PROVE  ring'[i][1] = frame
    <3>1. PICK d \in 1 .. PerFrame : i = Len(ring) + d
      <4>1. i - Len(ring) \in 1 .. PerFrame /\ i = Len(ring) + (i - Len(ring))
        BY <1>1, <1>5, <2>5, <2>7
      <4> QED BY <4>1
    <3>2. ring'[i] = <<frame, d>> /\ <<frame, d>>[1] = frame
      BY <2>4, <3>1
    <3> QED BY <3>2
  <2>8. OldestFirst(ring)'
    <3>1. UNCHANGED <<buffer, frame>>
      BY <1>1 DEF sourceVars
    <3>2. \A i \in 1 .. Len(ring) : buffer[1][1] <= ring'[i][1] /\ ring'[i][1] <= frame
      BY <1>1, <2>4 DEF OldestFirst
    <3>3. ASSUME NEW i \in 1 .. Len(ring'), NEW j \in 1 .. Len(ring'), i <= j
          PROVE  ring'[i][1] <= ring'[j][1]
      <4>1. CASE j \in 1 .. Len(ring)
        <5>1. i \in 1 .. Len(ring)
          BY <3>3, <4>1
        <5> QED BY <1>1, <2>4, <3>3, <4>1, <5>1 DEF OldestFirst
      <4>2. CASE ~ j \in 1 .. Len(ring)
        <5>1. ring'[j][1] = frame
          BY <2>7, <4>2
        <5> QED BY <1>1, <2>7, <3>2, <5>1
      <4> QED BY <4>1, <4>2
    <3>4. \A i \in 1 .. Len(ring') : buffer[1][1] <= ring'[i][1] /\ ring'[i][1] <= frame
      BY <1>1, <2>7, <3>2
    <3> QED BY <3>1, <3>3, <3>4 DEF OldestFirst
  <2> QED BY <1>1, <2>4, <2>6, <2>8 DEF IInv, HopsAreWhole, WholeFrames, FrameAt, sourceVars
<1>7. CASE k = RB_COUNT
  <2>1. Len(ring) = Capacity
    BY <1>3, <1>5, <1>7, FrameSizes
  <2>2. fit = 0
    BY <1>1, <1>5, <2>1 DEF Least
  <2>3. SubSeq(Samples(frame), 1, 0) = <<>>
    BY SubSeqEmpty
  <2>4. ring' = ring
    BY <1>1, <1>2, <2>2, <2>3, ConcatEmptySeq
  <2> HIDE DEF fit
  <2>5. TypeOK'
    BY <1>1, <1>2, <2>2, <2>4 DEF IInv, TypeOK, mainVars, workerVars, sourceVars
  <2> QED BY <1>1, <2>4, <2>5, Beside DEF sourceVars
<1> QED BY <1>3, <1>5, <1>6, <1>7

(* The read of a hop: the ring has a whole frame for it or nothing.            *)
LEMMA ReadSteps ==
  ASSUME CoreParameters, IInv, ReadHop
  PROVE  IInv' /\ HopsInOrder
<1>1. /\ PerFrame \in Nat \ {0} /\ ring \in Seq(Sample) /\ buffer \in [1 .. PerFrame -> Sample]
      /\ OldestFirst(ring) /\ frame \in Nat /\ 1 \in 1 .. PerFrame
      /\ UNCHANGED <<mainVars, quit, captureVars, workerVars, sps, source, crashed>>
  BY DEF IInv, TypeOK, ReadHop, CoreParameters
<1> DEFINE n == Least(PerFrame, Len(ring))
<1>2. /\ buffer' = [i \in 1 .. PerFrame |-> IF i <= n THEN ring[i] ELSE buffer[i]]
      /\ ring' = SubSeq(ring, n + 1, Len(ring))
  BY DEF ReadHop
<1>3. PICK k \in 0 .. RB_COUNT : /\ Len(ring) = k * PerFrame
                                 /\ \A j \in 0 .. k - 1 : FrameAt(ring, j * PerFrame)
  BY DEF IInv, WholeFrames
<1>4. k \in Nat /\ RB_COUNT = 4 /\ Len(ring) \in Nat
  BY <1>1 DEF RB_COUNT
<1>5. CASE k = 0
  <2>1. Len(ring) = 0
    BY <1>1, <1>3, <1>5
  <2>2. n = 0
    BY <1>1, <2>1 DEF Least
  <2>3. ring' = ring
    BY <1>1, <1>2, <2>2, SubSeqFull
  <2>4. buffer' = buffer
    BY <1>1, <1>2, <2>2
  <2> HIDE DEF n
  <2>5. TypeOK'
    BY <1>1, <2>3, <2>4 DEF IInv, TypeOK, mainVars, workerVars, captureVars
  <2>6. buffer[1][1] \in Int
    BY <1>1, SampleFrame
  <2> QED BY <1>1, <2>3, <2>4, <2>5, <2>6, Beside DEF HopsInOrder, captureVars
<1>6. CASE k # 0
  <2>1. k \in 1 .. RB_COUNT
    BY <1>4, <1>6
  <2>2. n = PerFrame
    BY <1>1, <1>3, <1>4, <2>1, FrameRead DEF Least
  <2> HIDE DEF n
  <2>3. /\ PerFrame <= Len(ring) /\ ring' \in Seq(Sample) /\ Len(ring') = Len(ring) - PerFrame
        /\ \A i \in 1 .. Len(ring) - PerFrame : ring'[i] = ring[PerFrame + i]
        /\ WholeFrames(ring') /\ FrameAt(ring, 0)
    BY <1>1, <1>2, <1>3, <2>1, <2>2, FrameRead
  <2>4. buffer' \in [1 .. PerFrame -> Sample] /\ \A i \in 1 .. PerFrame : buffer'[i] = ring[i]
    <3>1. \A i \in 1 .. PerFrame : i <= PerFrame /\ i \in 1 .. Len(ring) /\ ring[i] \in Sample
      BY <1>1, <1>4, <2>3
    <3>2. buffer' = [i \in 1 .. PerFrame |-> ring[i]]
      BY <1>1, <1>2, <2>2, <3>1
    <3> QED BY <3>1, <3>2
  <2>5. \A i \in 1 .. PerFrame : ring[i] = <<ring[1][1], i>>
    <3>1. \A i \in 1 .. PerFrame : 0 + i = i
      BY <1>1
    <3> QED BY <1>1, <2>3, <3>1 DEF FrameAt
  <2>6. HopsAreWhole'
    BY <1>1, <2>4, <2>5 DEF HopsAreWhole
  <2>7. TypeOK'
    <3>1. Len(ring') <= Capacity
      BY <1>1, <1>4, <2>3 DEF IInv, TypeOK, Capacity, RB_COUNT
    <3> QED BY <1>1, <2>3, <2>4, <3>1 DEF IInv, TypeOK, mainVars, workerVars, captureVars
  <2>8. buffer'[1][1] = ring[1][1] /\ 1 \in 1 .. Len(ring) /\ frame' = frame
    BY <1>1, <1>4, <2>3, <2>4 DEF captureVars
  <2>9. OldestFirst(ring)'
    <3>1. ASSUME NEW i \in 1 .. Len(ring')
          PROVE  /\ PerFrame + i \in 1 .. Len(ring) /\ ring'[i] = ring[PerFrame + i]
                 /\ 1 <= PerFrame + i
      BY <1>1, <1>4, <2>3
    <3>2. \A i \in 1 .. Len(ring') : ring[1][1] <= ring'[i][1] /\ ring'[i][1] <= frame
      BY <1>1, <2>8, <3>1 DEF OldestFirst
    <3>3. ASSUME NEW i \in 1 .. Len(ring'), NEW j \in 1 .. Len(ring'), i <= j
          PROVE  ring'[i][1] <= ring'[j][1]
      <4>1. PerFrame + i <= PerFrame + j
        BY <1>1, <2>3, <3>3, <1>4
      <4> QED BY <1>1, <3>1, <4>1 DEF OldestFirst
    <3> QED BY <2>8, <3>2, <3>3 DEF OldestFirst
  <2>10. HopsInOrder /\ buffer'[1][1] <= frame'
    <3>1. ring[1][1] \in Int
      BY <1>1, <2>8, SampleFrame
    <3> QED BY <1>1, <2>8, <3>1 DEF OldestFirst, HopsInOrder
  <2>11. capture' = capture /\ frame' = frame
    BY <1>1 DEF captureVars
  <2> QED BY <2>3, <2>6, <2>7, <2>9, <2>10, <2>11 DEF IInv, WholeFrames, FrameAt
<1> QED BY <1>5, <1>6

LEMMA InitStepNames ==
  /\ DOMAIN InitSteps = 1 .. 4 /\ Len(InitSteps) = 4
  /\ {InitSteps[i] : i \in DOMAIN InitSteps} = {"audio_init", "start_ai", "dmic_gain", "items"}
BY DEF InitSteps

(* The other steps: start-up, the signal, the threads that build and open, and  *)
(* the ends of the capture thread.                                            *)
LEMMA Others ==
  ASSUME CoreParameters, IInv,
         \/ \E i \in DOMAIN InitSteps : AudioStep(i)
         \/ Construct \/ SpawnCapture \/ StopCapture \/ JoinCapture \/ DestroyCore \/ Signal
         \/ PutRefused \/ PutFault \/ ReleaseFrames \/ EndCapture
         \/ BuildMulti \/ BuildSingle \/ StartSource \/ OpenSource
  PROVE  IInv' /\ UNCHANGED buffer
<1> USE DEF captureVars, workerVars, sourceVars, mainVars
<1>1. TypeOK /\ PerFrame \in Nat \ {0} /\ Channels \in Nat /\ -1 \in -1 .. PerFrame /\ 0 \in 0 .. Channels
  BY DEF IInv, CoreParameters
<1>2. CASE \E i \in DOMAIN InitSteps : AudioStep(i)
  <2>1. PICK i \in DOMAIN InitSteps : AudioStep(i)
    BY <1>2
  <2>2. /\ main' \in {"failed", IF i = Len(InitSteps) THEN "construct" ELSE InitSteps[i + 1]}
        /\ UNCHANGED <<quit, running, core, captureVars, workerVars, sourceVars, ring, crashed>>
    BY <2>1 DEF AudioStep
  <2>3. i # Len(InitSteps) => InitSteps[i + 1] \in {InitSteps[j] : j \in DOMAIN InitSteps}
    BY InitStepNames
  <2>4. main' \in {"failed", "construct"} \cup {InitSteps[j] : j \in DOMAIN InitSteps}
    BY <2>2, <2>3
  <2>5. TypeOK'
    BY <1>1, <2>2, <2>4 DEF TypeOK
  <2> QED BY <2>2, <2>5, Beside
<1>3. CASE Construct \/ SpawnCapture \/ StopCapture \/ JoinCapture \/ DestroyCore \/ Signal
  <2>1. TypeOK' /\ UNCHANGED <<ring, buffer, frame>> /\ (capture' = "put" => capture = "put")
    BY <1>1, <1>3
       DEF TypeOK, Construct, SpawnCapture, StopCapture, JoinCapture, DestroyCore, Signal
  <2> QED BY <2>1, Beside
<1>4. CASE PutRefused \/ PutFault \/ ReleaseFrames \/ EndCapture
  <2>1. TypeOK' /\ UNCHANGED <<ring, buffer, frame>> /\ (capture' = "put" => capture = "put")
    BY <1>1, <1>4 DEF TypeOK, PutRefused, PutFault, ReleaseFrames, EndCapture
  <2> QED BY <2>1, Beside
<1>5. CASE BuildMulti \/ BuildSingle \/ StartSource \/ OpenSource
  <2>1. TypeOK' /\ UNCHANGED <<ring, buffer, frame>> /\ (capture' = "put" => capture = "put")
    BY <1>1, <1>5 DEF TypeOK, BuildMulti, BuildSingle, StartSource, OpenSource
  <2> QED BY <2>1, Beside
<1> QED BY <1>2, <1>3, <1>4, <1>5

LEMMA Step ==
  ASSUME CoreParameters, IInv, [Next]_vars
  PROVE  IInv' /\ [HopsInOrder]_vars
<1>1. buffer[1][1] \in Int
  BY SampleFrame DEF IInv, TypeOK, CoreParameters
<1>2. CASE UNCHANGED vars
  <2>1. UNCHANGED <<ring, buffer, frame, capture>> /\ TypeOK'
    BY <1>2 DEF vars, IInv, TypeOK
  <2> QED BY <1>2, <2>1, Beside
<1>3. CASE GetFrames
  <2>1. buffer' = buffer
    BY <1>3 DEF GetFrames, sourceVars
  <2> QED BY <1>1, <1>3, <2>1, Captured DEF HopsInOrder
<1>4. CASE PutFrame
  <2>1. buffer' = buffer
    BY <1>4 DEF PutFrame, sourceVars
  <2> QED BY <1>1, <1>4, <2>1, Written DEF HopsInOrder
<1>5. CASE ReadHop
  BY <1>5, ReadSteps
<1>6. CASE ~ UNCHANGED vars /\ ~ GetFrames /\ ~ PutFrame /\ ~ ReadHop
  <2>1. IInv' /\ UNCHANGED buffer
    BY <1>6, Others DEF Next, Main, Capture, Worker, Source, Over
  <2> QED BY <1>1, <2>1 DEF HopsInOrder
<1> QED BY <1>2, <1>3, <1>4, <1>5, <1>6

-----------------------------------------------------------------------------
(* Theorems *)

(* The ring never holds more than src_pcm_init made room for.                  *)
THEOREM Spec_TypeOK ==
  ASSUME CoreParameters PROVE Spec => []TypeOK
<1>1. IInv => TypeOK
  BY DEF IInv
<1> QED BY <1>1, Initially, Step, PTL DEF Spec

(* src_hops_process_interface_uac_in never hands on a hop that is a part of one *)
(* captured frame and a part of another.                                      *)
THEOREM Spec_HopsAreWhole ==
  ASSUME CoreParameters PROVE Spec => []HopsAreWhole
<1>1. IInv => HopsAreWhole
  BY DEF IInv
<1> QED BY <1>1, Initially, Step, PTL DEF Spec

(* The frames of the hops never go back, whatever odascore_put_frames drops.    *)
THEOREM Spec_HopsInOrder ==
  ASSUME CoreParameters PROVE Spec => [][HopsInOrder]_vars
BY Initially, Step, PTL DEF Spec
=============================================================================
