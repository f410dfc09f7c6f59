----------------------------- MODULE RunnerProofs -----------------------------
(***************************************************************************)
(* The harness serves its program one input stream, for any segments:      *)
(* Runner implements InputStream through StdinRunner.  The invariant is    *)
(* IoInv: what a read in progress has copied so far.                       *)
(*                                                                         *)
(* And a replay runs on the witness of its analysis, for any runner config *)
(* and any sizes.  The invariant is WInv: what the executions, the witness *)
(* and the files have in common; it rests on the byte orders undoing each  *)
(* other, which is proved by induction over the bytes of a buffer.         *)
(***************************************************************************)
EXTENDS Runner, WellFoundedInduction, SequenceTheorems, TLAPS

\* the total does not end before any segment does
LEMMA SegmentEnds ==
  ASSUME NEW s \in Segment
  PROVE  /\ Size[s] \in Nat /\ Start[s] \in Nat /\ Start[Count] \in Nat
         /\ s + 1 \in 0..Count /\ Start[s + 1] = Start[s] + Size[s]
         /\ Start[s] + Size[s] <= Start[Count]
  BY SegmentsAssumption DEF Segment

\* The place in the segments is a place in the stream.
LEMMA PlaceInStream ==
  ASSUME IoInv
  PROVE  /\ Start[segIndex] \in Nat /\ Start[Count] \in Nat
         /\ Start[segIndex] + segOffset <= Start[Count]
         /\ segIndex = Count => Start[segIndex] + segOffset = Start[Count]
<1>1. CASE segIndex = Count
  BY <1>1, SegmentsAssumption DEF IoInv
<1>2. CASE segIndex # Count
  <2>1. segIndex \in Segment /\ segIndex < Count
    BY <1>2, SegmentsAssumption DEF IoInv, Segment
  <2>2. segOffset \in Nat /\ segOffset <= Size[segIndex]
    BY <2>1 DEF IoInv
  <2> QED
    BY <2>1, <2>2, <1>2, SegmentEnds
<1> QED
  BY <1>1, <1>2

-----------------------------------------------------------------------------
(* Every step of the harness is a step of StdinRunner or leaves it alone *)

\* A step of the harness that is not a call leaves the stream alone.
LEMMA HarnessStep ==
  ASSUME [HarnessNext]_harnessVars
  PROVE  IoNext \/ UNCHANGED ioVars
<1>1. CASE Analyse \/ Report \/ Convert
  BY <1>1 DEF Analyse, Report, Convert
<1>2. CASE AssertArgc \/ LoadFails \/ DriverReturns
  BY <1>2 DEF AssertArgc, LoadFails, DriverReturns
<1>3. CASE Main
  BY <1>3 DEF Main, IoNext
<1>4. CASE Call
  BY <1>4 DEF Call, IoNext
<1>5. CASE Copy \/ Return
  BY <1>5 DEF Copy, Return, IoNext
<1>6. CASE UNCHANGED harnessVars
  BY <1>6 DEF harnessVars
<1> QED
  BY <1>1, <1>2, <1>3, <1>4, <1>5, <1>6 DEF HarnessNext

-----------------------------------------------------------------------------
(* The invariant *)

\* The invariant of the replaced read() holds initially.
LEMMA IoInitInv ==
  ASSUME IoInit
  PROVE  IoInv
<1>1. 0 < Count => Size[0] \in Nat
  BY SegmentsAssumption DEF Segment
<1>2. io = "idle" /\ ioFailed = FALSE /\ segIndex = 0 /\ segOffset = 0
  BY DEF IoInit
<1>3. segIndex \in 0..Count /\ segOffset \in Nat
  BY <1>2, SegmentsAssumption
<1>4. segIndex < Count => segOffset <= Size[segIndex]
  BY <1>1, <1>2
<1>5. io \in {"idle", "reading"} /\ io # "reading" /\ ioFailed \in BOOLEAN
  BY <1>2
<1>6. segIndex = Count => segOffset = 0
  BY <1>2
<1> QED
  BY <1>3, <1>4, <1>5, <1>6 DEF IoInv

\* a step of the copy loop keeps what was copied and adds the next bytes
LEMMA CopyInv ==
  ASSUME IoInv, CopySegment
  PROVE  IoInv'
<1> DEFINE available == Size[segIndex] - segOffset
           chunk == IF available < remaining THEN available ELSE remaining
           filled == want - remaining
           usedUp == segOffset + chunk = Size[segIndex]
<1>1. /\ segIndex \in Segment /\ segIndex < Count /\ segOffset \in Nat
      /\ segOffset <= Size[segIndex]
      /\ want \in 0..MaxRead /\ want \in Nat /\ remaining \in 0..want /\ remaining > 0
      /\ io = "reading"
      /\ filled <= Start[segIndex] + segOffset
  BY SegmentsAssumption DEF IoInv, CopySegment, Segment
<1>2. /\ dst \in [0..(want - 1) -> Int]
      /\ \A k \in 0..(filled - 1) : dst[k] = Start[segIndex] + segOffset - filled + k
  BY <1>1 DEF IoInv, Delivered
<1>3. /\ Size[segIndex] \in Nat /\ Start[segIndex] \in Nat /\ segIndex + 1 \in 0..Count
      /\ Start[segIndex + 1] = Start[segIndex] + Size[segIndex] /\ Count \in Nat
  BY <1>1, SegmentEnds, SegmentsAssumption
<1>4. /\ chunk \in Nat /\ chunk <= remaining /\ segOffset + chunk <= Size[segIndex]
      /\ filled \in Nat /\ filled + chunk <= want /\ remaining - chunk \in 0..want
      /\ want - (remaining - chunk) = filled + chunk
  BY <1>1, <1>3
<1>5. /\ dst' = [k \in DOMAIN dst |->
                   IF k >= filled /\ k < filled + chunk
                     THEN Start[segIndex] + segOffset + (k - filled) ELSE dst[k]]
      /\ remaining' = remaining - chunk
      /\ io' = io /\ want' = want /\ ioFailed' = ioFailed
  BY DEF CopySegment
<1>6. \/ usedUp /\ segIndex' = segIndex + 1 /\ segOffset' = 0
      \/ ~ usedUp /\ segIndex' = segIndex /\ segOffset' = segOffset + chunk
  BY DEF CopySegment
<1>7. usedUp <=> segOffset + chunk = Size[segIndex]
  OBVIOUS
<1> HIDE DEF chunk, filled, usedUp
<1>8. /\ Start[segIndex'] \in Nat
      /\ Start[segIndex'] + segOffset' = Start[segIndex] + segOffset + chunk
      /\ segIndex' \in 0..Count /\ segOffset' \in Nat
      /\ segIndex' = Count => segOffset' = 0
      /\ segIndex' < Count => segOffset' <= Size[segIndex']
  <2>1. CASE usedUp
    <3>1. segIndex' = segIndex + 1 /\ segOffset' = 0
      BY <2>1, <1>6
    <3>2. segIndex' < Count => segIndex' \in Segment
      BY <3>1, <1>1, <1>3 DEF Segment
    <3>3. segIndex' < Count => Size[segIndex'] \in Nat
      BY <3>2, SegmentsAssumption
    <3> QED
      BY <3>1, <3>3, <2>1, <1>1, <1>3, <1>4, <1>7
  <2>2. CASE ~ usedUp
    <3>1. segIndex' = segIndex /\ segOffset' = segOffset + chunk
      BY <2>2, <1>6
    <3> QED
      BY <3>1, <1>1, <1>3, <1>4 DEF Segment
  <2> QED
    BY <2>1, <2>2
<1>9. \A k \in 0..(filled + chunk - 1) : dst'[k] = Start[segIndex] + segOffset - filled + k
  <2> TAKE k \in 0..(filled + chunk - 1)
  <2>1. k \in 0..(want - 1) /\ k \in DOMAIN dst
    BY <1>1, <1>2, <1>4
  <2>2. dst'[k] = IF k >= filled /\ k < filled + chunk
                    THEN Start[segIndex] + segOffset + (k - filled) ELSE dst[k]
    BY <2>1, <1>5
  <2>3. CASE k >= filled
    BY <2>2, <2>3, <1>1, <1>3, <1>4
  <2>4. CASE k < filled
    <3>1. k \in 0..(filled - 1) /\ dst'[k] = dst[k]
      BY <2>2, <2>4, <1>4
    <3> QED
      BY <3>1, <1>2
  <2> QED
    BY <2>3, <2>4, <1>4
<1>10. dst' \in [0..(want' - 1) -> Int]
  <2>1. DOMAIN dst = 0..(want - 1) /\ want' = want
    BY <1>2, <1>5
  <2>2. \A k \in 0..(want - 1) :
          (IF k >= filled /\ k < filled + chunk
             THEN Start[segIndex] + segOffset + (k - filled) ELSE dst[k]) \in Int
    BY <1>1, <1>2, <1>3, <1>4
  <2> QED
    BY <2>1, <2>2, <1>5
<1>11. want' - remaining' = filled + chunk
  BY <1>4, <1>5
<1>12. Delivered' = Start[segIndex] + segOffset - filled
  <2>1. Delivered' = Start[segIndex'] + segOffset' - (want' - remaining')
    BY <1>1, <1>5 DEF Delivered
  <2> QED
    BY <2>1, <1>1, <1>3, <1>4, <1>8, <1>11 DEF filled
<1>13. want' - remaining' <= Start[segIndex'] + segOffset'
  BY <1>1, <1>3, <1>4, <1>8, <1>11 DEF filled
<1>14. \A k \in 0..(want' - remaining' - 1) : dst'[k] = Delivered' + k
  <2>1. \A k \in 0..(filled + chunk - 1) : dst'[k] = Delivered' + k
    BY <1>9, <1>12, Zenon
  <2>2. want' - remaining' - 1 = filled + chunk - 1
    BY <1>1, <1>4, <1>5, <1>11
  <2> SUFFICES ASSUME NEW k \in 0..(want' - remaining' - 1) PROVE dst'[k] = Delivered' + k
    OBVIOUS
  <2>3. k \in 0..(filled + chunk - 1)
    BY <2>2
  <2> QED
    BY <2>1, <2>3
<1>15. /\ io' = "reading" /\ ioFailed' \in BOOLEAN
       /\ want' \in 0..MaxRead /\ remaining' \in 0..want'
  BY <1>1, <1>4, <1>5 DEF IoInv
<1> QED
  BY <1>8, <1>10, <1>13, <1>14, <1>15 DEF IoInv

\* Every step of read() and write() preserves it.
LEMMA IoStepInv ==
  ASSUME IoInv, IoNext \/ UNCHANGED ioVars
  PROVE  IoInv'
<1>1. CASE IoReset
  <2>1. 0 < Count => Size[0] \in Nat
    BY SegmentsAssumption DEF Segment
  <2>2. io' = "idle" /\ ioFailed' = FALSE /\ segIndex' = 0 /\ segOffset' = 0
    BY <1>1 DEF IoReset
  <2>3. /\ segIndex' \in 0..Count /\ segOffset' \in Nat
        /\ segIndex' = Count => segOffset' = 0
    BY <2>2, SegmentsAssumption
  <2>4. io' \in {"idle", "reading"} /\ io' # "reading" /\ ioFailed' \in BOOLEAN
    BY <2>2
  <2>5. 0 < Count => 0 <= Size[0]
    BY <2>1
  <2>6. segIndex' < Count => segOffset' <= Size[segIndex']
    BY <2>2, <2>5, Zenon
  <2> QED
    BY <2>3, <2>4, <2>6 DEF IoInv
<1>2. CASE IoCall
  <2>1. PICK fd \in 0..2, count \in 0..MaxRead : IoRead(fd, count) \/ IoWrite(fd, count)
    BY <1>2 DEF IoCall
  <2>2. count \in Nat
    BY SegmentsAssumption
  <2>3. CASE IoWrite(fd, count)
    BY <2>3 DEF IoWrite, IoInv
  <2>4. CASE IoRead(fd, count) /\ fd # 0
    BY <2>4 DEF IoRead, IoInv
  <2>5. CASE IoRead(fd, count) /\ fd = 0
    <3>1. /\ io' = "reading" /\ want' = count /\ remaining' = count
          /\ dst' = [k \in 0..(count - 1) |-> Old]
          /\ UNCHANGED <<ioFailed, segIndex, segOffset>>
      BY <2>5 DEF IoRead
    <3>2. Start[segIndex'] + segOffset' \in Nat
      BY <3>1, PlaceInStream DEF IoInv
    <3>3. dst' \in [0..(want' - 1) -> Int]
      BY <3>1 DEF Old
    <3>4. want' - remaining' = 0
      BY <3>1, <2>2
    <3> QED
      BY <3>1, <3>2, <3>3, <3>4, <2>2 DEF IoInv
  <2> QED
    BY <2>1, <2>3, <2>4, <2>5
<1>3. CASE CopySegment
  BY <1>3, CopyInv
<1>4. CASE ReadDone
  BY <1>4 DEF ReadDone, IoInv
<1>5. CASE UNCHANGED ioVars
  BY <1>5 DEF ioVars, IoInv, Delivered
<1> QED
  BY <1>1, <1>2, <1>3, <1>4, <1>5 DEF IoNext

(* What a read in progress has copied (runner_io_read): for every list of       *)
(* segments and every sequence of calls, the cells filled so far hold           *)
(* consecutive bytes from where the call started, and the place never leaves    *)
(* the segments.                                                                *)
THEOREM HarnessInvariant == HarnessSpec => []IoInv
<1>1. HarnessInit => IoInv
  BY IoInitInv DEF HarnessInit
<1>2. IoInv /\ [HarnessNext]_harnessVars => IoInv'
  BY HarnessStep, IoStepInv
<1> QED
  BY <1>1, <1>2, PTL DEF HarnessSpec

-----------------------------------------------------------------------------
(* The refinement *)

\* the loop is invisible: bytes count as delivered when the call returns
LEMMA CopyStutters ==
  ASSUME IoInv, CopySegment
  PROVE  UNCHANGED <<Delivered, ioFailed, reply>>
<1> DEFINE available == Size[segIndex] - segOffset
           chunk == IF available < remaining THEN available ELSE remaining
<1>1. /\ segIndex \in Segment /\ segIndex < Count /\ segOffset \in Nat
      /\ segOffset <= Size[segIndex]
      /\ want \in Nat /\ remaining \in 0..want /\ io = "reading"
  BY SegmentsAssumption DEF IoInv, CopySegment, Segment
<1>2. /\ Size[segIndex] \in Nat /\ Start[segIndex] \in Nat
      /\ Start[segIndex + 1] = Start[segIndex] + Size[segIndex]
  BY <1>1, SegmentEnds
<1>3. /\ remaining' = remaining - chunk
      /\ segIndex' = IF segOffset + chunk = Size[segIndex] THEN segIndex + 1 ELSE segIndex
      /\ segOffset' = IF segOffset + chunk = Size[segIndex] THEN 0 ELSE segOffset + chunk
      /\ io' = io /\ want' = want /\ ioFailed' = ioFailed /\ reply' = reply
  BY DEF CopySegment
<1>4. Start[segIndex'] + segOffset' = Start[segIndex] + segOffset + chunk
  BY <1>1, <1>2, <1>3
<1>5. /\ Delivered = Start[segIndex] + segOffset - (want - remaining)
      /\ Delivered' = Start[segIndex'] + segOffset' - (want' - remaining')
  BY <1>1, <1>3 DEF Delivered
<1> QED
  BY <1>1, <1>2, <1>3, <1>4, <1>5

\* the return of runner_io_read is one Read of the stream
LEMMA DoneReads ==
  ASSUME IoInv, ReadDone
  PROVE  Stream!Read(want)
<1> DEFINE filled == want - remaining
           P == Delivered
<1>1. /\ io = "reading" /\ want \in Nat /\ remaining \in 0..want
      /\ dst \in [0..(want - 1) -> Int]
      /\ remaining = 0 \/ segIndex = Count
      /\ \A k \in 0..(filled - 1) : dst[k] = P + k
      /\ segOffset \in Nat /\ filled <= Start[segIndex] + segOffset
  BY DEF IoInv, ReadDone
<1>2. /\ Start[segIndex] \in Nat /\ Start[Count] \in Nat
      /\ Start[segIndex] + segOffset <= Start[Count]
      /\ segIndex = Count => Start[segIndex] + segOffset = Start[Count]
  BY PlaceInStream
<1>3. P + filled = Start[segIndex] + segOffset /\ P \in Nat
  BY <1>1, <1>2 DEF Delivered
<1>4. Delivered' = P + filled
  <2>1. Delivered' = Start[segIndex] + segOffset
    BY <1>2, <1>1 DEF ReadDone, Delivered
  <2> QED
    BY <2>1, <1>3
<1>5. filled \in 0..want /\ (remaining # 0 => P + filled = Start[Count])
  BY <1>1, <1>2, <1>3
<1>6. Delivered' = IF P + want < Start[Count] THEN P + want ELSE Start[Count]
  BY <1>1, <1>2, <1>3, <1>4, <1>5
<1>7. ioFailed' = (ioFailed \/ P + want > Start[Count])
  <2>1. (remaining # 0) <=> (P + want > Start[Count])
    BY <1>1, <1>2, <1>3, <1>5
  <2> QED
    BY <2>1 DEF ReadDone
<1>8. reply' = [ret |-> want,
                cell |-> [k \in 0..(want - 1) |->
                            IF P + k < Start[Count] THEN P + k ELSE Stream!Zero]]
  <2>1. \A k \in 0..(want - 1) :
          (IF k >= filled THEN Zero ELSE dst[k])
            = (IF P + k < Start[Count] THEN P + k ELSE Stream!Zero)
    <3> TAKE k \in 0..(want - 1)
    <3>1. CASE k >= filled
      <4>1. remaining # 0 /\ P + k >= Start[Count]
        BY <3>1, <1>1, <1>3, <1>5
      <4> QED
        BY <3>1, <4>1, <1>2, <1>3 DEF Zero, Stream!Zero
    <3>2. CASE k < filled
      <4>1. k \in 0..(filled - 1) /\ dst[k] = P + k
        BY <3>2, <1>1, <1>5
      <4>2. P + k < Start[Count]
        BY <4>1, <1>2, <1>3, <1>5
      <4> QED
        BY <3>2, <4>1, <4>2, <1>5
    <3> QED
      BY <3>1, <3>2, <1>5
  <2>2. DOMAIN dst = 0..(want - 1)
    BY <1>1
  <2>3. reply' = [ret |-> want,
                  cell |-> [k \in 0..(want - 1) |-> IF k >= filled THEN Zero ELSE dst[k]]]
    BY <2>2 DEF ReadDone
  <2> QED
    BY <2>1, <2>3
<1> QED
  BY <1>6, <1>7, <1>8 DEF Stream!Read

\* Every step of read() and write() is a call of the stream or a stutter.
LEMMA IoRefines ==
  ASSUME IoInv, IoInv', IoNext \/ UNCHANGED ioVars
  PROVE  [Stream!Next]_(Stream!vars)
<1>1. CASE IoReset
  <2>1. Delivered' = 0
    BY <1>1, SegmentsAssumption DEF IoReset, Delivered
  <2> QED
    BY <1>1, <2>1 DEF IoReset, Nothing, Zero, Stream!Next, Stream!Reset, Stream!NoReply, Stream!Nothing, Stream!Zero
<1>2. CASE IoCall
  <2>1. PICK fd \in 0..2, count \in 0..MaxRead : IoRead(fd, count) \/ IoWrite(fd, count)
    BY <1>2 DEF IoCall
  <2>3. CASE IoWrite(fd, count)
    <3>1. Delivered' = Delivered
      BY <2>3 DEF IoWrite, Delivered
    <3>2. CASE fd # 1
      BY <2>3, <3>1, <3>2
      DEF IoWrite, Nothing, Zero, Stream!Next, Stream!Refuse, Stream!Nothing, Stream!Zero
    <3>3. CASE fd = 1
      <4>1. Stream!Write(count)
        BY <2>3, <3>1, <3>3 DEF IoWrite, Nothing, Zero, Stream!Write, Stream!Nothing, Stream!Zero
      <4> QED
        BY <4>1, <2>1 DEF Stream!Next
    <3> QED
      BY <3>2, <3>3
  <2>4. CASE IoRead(fd, count) /\ fd # 0
    <3>1. Delivered' = Delivered
      BY <2>4 DEF IoRead, Delivered
    <3> QED
      BY <2>4, <3>1
      DEF IoRead, Nothing, Zero, Stream!Next, Stream!Refuse, Stream!Nothing, Stream!Zero
  <2>5. CASE IoRead(fd, count) /\ fd = 0
    <3>1. /\ io = "idle" /\ io' = "reading" /\ want' = count /\ remaining' = count
          /\ UNCHANGED <<ioFailed, reply, segIndex, segOffset>>
      BY <2>5 DEF IoRead
    <3>2. Start[segIndex] + segOffset \in Nat /\ count - count = 0
      BY PlaceInStream, SegmentsAssumption DEF IoInv
    <3>3. Delivered' = Delivered
      BY <3>1, <3>2 DEF Delivered
    <3> QED
      BY <3>1, <3>3 DEF Stream!vars
  <2> QED
    BY <2>1, <2>3, <2>4, <2>5
<1>3. CASE CopySegment
  BY <1>3, CopyStutters DEF Stream!vars
<1>4. CASE ReadDone
  <2>1. Stream!Read(want) /\ want \in 0..MaxRead
    BY <1>4, DoneReads DEF ReadDone, IoInv
  <2> QED
    BY <2>1 DEF Stream!Next
<1>5. CASE UNCHANGED ioVars
  BY <1>5 DEF ioVars, Delivered, Stream!vars
<1> QED
  BY <1>1, <1>2, <1>3, <1>4, <1>5 DEF IoNext

(* The segments serve as one stream (runner_io_read, runner_io_write): the      *)
(* harness implements InputStream for every list of segments.                   *)
THEOREM HarnessRefinesStream == HarnessSpec => StreamSpec
<1>1. HarnessInit => Stream!Init
  BY SegmentsAssumption DEF HarnessInit, IoInit, Delivered, Nothing, Zero,
     Stream!Init, Stream!NoReply, Stream!Nothing, Stream!Zero
<1>2. IoInv /\ IoInv' /\ [HarnessNext]_harnessVars => [Stream!Next]_(Stream!vars)
  BY HarnessStep, IoRefines
<1> QED
  BY <1>1, <1>2, HarnessInvariant, PTL DEF HarnessSpec, StreamSpec, Stream!Spec

-----------------------------------------------------------------------------
(* Induction over numbers *)

\* A set of numbers that is not empty has a least element.
LEMMA LeastNumber ==
  ASSUME NEW S \in SUBSET Nat, S # {}
  PROVE  \E m \in S : \A k \in S : m <= k
<1>1. \E m \in S : \A k \in S : ~ (<<k, m>> \in OpToRel(<, Nat))
  BY WFMin, NatLessThanWellFounded, Zenon
<1>2. \E m \in S : \A k \in S : ~ (k < m)
  BY <1>1, Zenon DEF OpToRel
<1> QED BY <1>2

\* Induction up to a number, over a set instead of a formula.
LEMMA UpTo ==
  ASSUME NEW n \in Nat, NEW S, 0 \in S, \A m \in 0..(n - 1) : m \in S => m + 1 \in S
  PROVE  0..n \subseteq S
<1> SUFFICES ASSUME (0..n) \ S # {} PROVE FALSE
  OBVIOUS
<1>1. (0..n) \ S \in SUBSET Nat
  OBVIOUS
<1>2. PICK m \in (0..n) \ S : \A k \in (0..n) \ S : m <= k
  BY <1>1, LeastNumber
<1>3. m # 0 /\ m - 1 \in 0..(n - 1) /\ m - 1 \in 0..n /\ (m - 1) + 1 = m
  BY <1>2
<1>4. m - 1 \in S
  BY <1>2, <1>3
<1> QED BY <1>2, <1>3, <1>4

-----------------------------------------------------------------------------
(* Byte orders *)

\* Dividing by the base takes off the last digit.
LEMMA DivMod ==
  ASSUME NEW a \in Nat, NEW c \in 0..(Base - 1)
  PROVE  (a * Base + c) \div Base = a /\ (a * Base + c) % Base = c
<1>1. Base \in Nat /\ Base > 1
  BY RunnerAssumption
<1> QED BY <1>1

\* what FromBig has computed after k bytes
Value(b) == CHOOSE v : v = [k \in 0..Len(b) |-> IF k = 0 THEN 0 ELSE v[k - 1] * Base + b[k]]

\* The bytes of a buffer are a sequence of the buffer's size.
LEMMA BytesLen ==
  ASSUME NEW n \in Nat, NEW b \in Bytes(n)
  PROVE  Len(b) = n /\ b \in Seq(0..(Base - 1))
<1>1. b \in [1..n -> 0..(Base - 1)] /\ DOMAIN b = 1..n
  BY DEF Bytes
<1>2. b \in Seq(0..(Base - 1))
  BY <1>1, SeqDef, Zenon
<1>3. DOMAIN b = 1..Len(b) /\ Len(b) \in Nat
  BY <1>2, LenProperties
<1> QED BY <1>1, <1>2, <1>3

\* FromBig takes in one byte after the other.
LEMMA ValueProperties ==
  ASSUME NEW n \in Nat, NEW b \in Bytes(n)
  PROVE  /\ FromBig(b) = Value(b)[n]
         /\ Value(b)[0] = 0
         /\ \A k \in 0..n : Value(b)[k] \in Nat
         /\ \A k \in 1..n : Value(b)[k] = Value(b)[k - 1] * Base + b[k]
<1> DEFINE Fits(v, m) == /\ v \in [0..m -> Nat] /\ v[0] = 0
                         /\ \A k \in 1..m : v[k] = v[k - 1] * Base + b[k]
           S == {m \in 0..n : \E v : Fits(v, m)}
<1>0. Base \in Nat /\ \A k \in 1..n : b[k] \in Nat
  BY RunnerAssumption DEF Bytes
<1>1. 0 \in S
  <2>1. Fits([k \in 0..0 |-> 0], 0)
    OBVIOUS
  <2>2. \E v : Fits(v, 0)
    BY <2>1, Zenon
  <2> QED BY <2>2
<1>2. ASSUME NEW m \in 0..(n - 1), m \in S PROVE m + 1 \in S
  <2>1. PICK v : Fits(v, m)
    BY <1>2
  <2> DEFINE w == [k \in 0..(m + 1) |-> IF k = m + 1 THEN v[m] * Base + b[m + 1] ELSE v[k]]
  <2>2. m \in 0..m /\ v[m] \in Nat /\ b[m + 1] \in Nat /\ Base \in Nat
    BY <1>0, <2>1
  <2>3. v[m] * Base + b[m + 1] \in Nat
    BY <2>2
  <2>4. w \in [0..(m + 1) -> Nat]
    <3>1. \A k \in 0..(m + 1) : k # m + 1 => k \in 0..m
      OBVIOUS
    <3> QED BY <2>1, <2>3, <3>1
  <2>5. \A k \in 1..(m + 1) : w[k] = w[k - 1] * Base + b[k]
    <3> TAKE k \in 1..(m + 1)
    <3>1. k - 1 \in 0..(m + 1) /\ k - 1 # m + 1 /\ w[k - 1] = v[k - 1]
      OBVIOUS
    <3>2. CASE k = m + 1
      BY <3>1, <3>2
    <3>3. CASE k # m + 1
      BY <2>1, <3>1, <3>3
    <3> QED BY <3>2, <3>3
  <2>6. w[0] = 0
    BY <2>1
  <2>7. Fits(w, m + 1)
    BY <2>4, <2>5, <2>6
  <2>8. \E u : Fits(u, m + 1)
    BY <2>7, Zenon
  <2> QED BY <2>8
<1>3. n \in S
  <2> HIDE DEF S
  <2>1. 0..n \subseteq S
    BY <1>1, <1>2, UpTo
  <2> QED BY <2>1
<1>4. PICK v : Fits(v, n)
  BY <1>3
<1>5. v = [k \in 0..n |-> IF k = 0 THEN 0 ELSE v[k - 1] * Base + b[k]]
  BY <1>4
<1>6. Value(b) = [k \in 0..n |-> IF k = 0 THEN 0 ELSE Value(b)[k - 1] * Base + b[k]]
  BY <1>5, BytesLen, Zenon DEF Value
<1>7. Value(b)[0] = 0 /\ \A k \in 1..n : Value(b)[k] = Value(b)[k - 1] * Base + b[k]
  <2> DEFINE V == Value(b)
  <2>1. V = [k \in 0..n |-> IF k = 0 THEN 0 ELSE V[k - 1] * Base + b[k]]
    BY <1>6
  <2> HIDE DEF V
  <2>2. V[0] = 0 /\ \A k \in 1..n : V[k] = V[k - 1] * Base + b[k]
    BY <2>1
  <2> QED BY <2>2 DEF V
<1>8. \A k \in 0..n : Value(b)[k] \in Nat
  <2> DEFINE N == {m \in 0..n : Value(b)[m] \in Nat}
  <2>1. 0 \in N
    BY <1>7
  <2>2. ASSUME NEW m \in 0..(n - 1), m \in N PROVE m + 1 \in N
    <3>1. m + 1 \in 1..n /\ (m + 1) - 1 = m /\ Value(b)[m] \in Nat
      BY <2>2
    <3>2. Value(b)[m + 1] = Value(b)[m] * Base + b[m + 1]
      BY <1>7, <3>1
    <3>3. Value(b)[m] * Base + b[m + 1] \in Nat
      BY <1>0, <3>1
    <3> QED BY <3>1, <3>2, <3>3
  <2> HIDE DEF N
  <2>3. 0..n \subseteq N
    BY <2>1, <2>2, UpTo
  <2> QED BY <2>3 DEF N
<1>9. FromBig(b) = Value(b)[n]
  <2>1. FromBig(b) = Value(b)[Len(b)]
    BY DEF FromBig, Value
  <2> QED BY <2>1, BytesLen
<1> QED BY <1>7, <1>8, <1>9

\* to_bytes undoes from_bytes
LEMMA ToBigFromBig ==
  ASSUME NEW n \in Nat, NEW b \in Bytes(n)
  PROVE  ToBig(FromBig(b), n) = b
<1> DEFINE V == Value(b)
           R == CHOOSE r : r = [j \in 0..n |-> IF j = 0 THEN FromBig(b) ELSE r[j - 1] \div Base]
           W == [j \in 0..n |-> V[n - j]]
<1>0. /\ FromBig(b) = V[n]
      /\ \A k \in 0..n : V[k] \in Nat
      /\ \A k \in 1..n : V[k] = V[k - 1] * Base + b[k]
  BY ValueProperties
<1>b. \A k \in 1..n : b[k] \in 0..(Base - 1)
  BY DEF Bytes
<1> HIDE DEF V
<1>1. \A k \in 1..n : V[k] \div Base = V[k - 1] /\ V[k] % Base = b[k]
  <2> TAKE k \in 1..n
  <2>1. V[k - 1] \in Nat
    BY <1>0
  <2> QED BY <1>0, <1>b, <2>1, DivMod
<1>2. W = [j \in 0..n |-> IF j = 0 THEN FromBig(b) ELSE W[j - 1] \div Base]
  <2>1. ASSUME NEW j \in 0..n PROVE W[j] = IF j = 0 THEN FromBig(b) ELSE W[j - 1] \div Base
    <3>1. CASE j = 0
      BY <1>0, <3>1
    <3>2. CASE j # 0
      <4>1. j - 1 \in 0..n /\ n - j + 1 \in 1..n /\ n - (j - 1) = n - j + 1 /\ (n - j + 1) - 1 = n - j
        BY <3>2
      <4>2. W[j] = V[n - j] /\ W[j - 1] = V[n - j + 1]
        BY <4>1
      <4>3. V[n - j + 1] \div Base = V[n - j]
        BY <1>1, <4>1
      <4> QED BY <3>2, <4>2, <4>3
    <3> QED BY <3>1, <3>2
  <2>2. W = [j \in 0..n |-> W[j]]
    OBVIOUS
  <2> HIDE DEF W
  <2> QED BY <2>1, <2>2
<1>3. R = [j \in 0..n |-> IF j = 0 THEN FromBig(b) ELSE R[j - 1] \div Base]
  <2> HIDE DEF W
  <2> QED BY <1>2, Zenon
<1> HIDE DEF R
<1>4. R[0] = V[n] /\ \A j \in 1..n : R[j] = R[j - 1] \div Base
  <2>1. R[0] = FromBig(b) /\ \A j \in 1..n : R[j] = R[j - 1] \div Base
    BY <1>3
  <2> QED BY <1>0, <2>1
<1>5. \A j \in 0..n : R[j] = V[n - j]
  <2> DEFINE S == {j \in 0..n : R[j] = V[n - j]}
  <2>1. 0 \in S
    BY <1>4
  <2>2. ASSUME NEW m \in 0..(n - 1), m \in S PROVE m + 1 \in S
    <3>1. m + 1 \in 1..n /\ (m + 1) - 1 = m /\ n - m \in 1..n /\ n - (m + 1) = (n - m) - 1
      OBVIOUS
    <3>2. R[m + 1] = R[m] \div Base /\ R[m] = V[n - m]
      BY <1>4, <2>2, <3>1
    <3>3. V[n - m] \div Base = V[(n - m) - 1]
      BY <1>1, <3>1
    <3> QED BY <3>1, <3>2, <3>3
  <2> HIDE DEF S
  <2>3. 0..n \subseteq S
    BY <2>1, <2>2, UpTo
  <2> QED BY <2>3 DEF S
<1>6. ToBig(FromBig(b), n) = [k \in 1..n |-> R[n - k] % Base]
  BY DEF ToBig, R
<1>7. \A k \in 1..n : R[n - k] % Base = b[k]
  <2> TAKE k \in 1..n
  <2>1. n - k \in 0..n /\ n - (n - k) = k
    OBVIOUS
  <2> QED BY <1>1, <1>5, <2>1
<1>8. b = [k \in 1..n |-> b[k]]
  BY DEF Bytes
<1> QED BY <1>6, <1>7, <1>8

\* Reversing the bytes of a buffer twice changes nothing.
LEMMA ReversedBytes ==
  ASSUME NEW n \in Nat, NEW b \in Bytes(n)
  PROVE  Reversed(b) \in Bytes(n) /\ Reversed(Reversed(b)) = b
<1>1. Reversed(b) = [k \in 1..n |-> b[n + 1 - k]]
  BY BytesLen DEF Reversed
<1>2. \A k \in 1..n : n + 1 - k \in 1..n /\ n + 1 - (n + 1 - k) = k
  OBVIOUS
<1>3. Reversed(b) \in Bytes(n)
  BY <1>1, <1>2 DEF Bytes
<1> DEFINE c == Reversed(b)
<1>4. Reversed(c) = [k \in 1..n |-> c[n + 1 - k]]
  <2> HIDE DEF c
  <2>1. c \in Bytes(n)
    BY <1>3 DEF c
  <2> QED BY <2>1, BytesLen DEF Reversed
<1>5. \A k \in 1..n : c[n + 1 - k] = b[k]
  BY <1>1, <1>2
<1>6. b = [k \in 1..n |-> b[k]]
  BY DEF Bytes
<1> QED BY <1>3, <1>4, <1>5, <1>6

\* A value that the Binsec model gives as a number reaches the file as the bytes
\* of the memory it was read from.
LEMMA CanonicalBytes ==
  ASSUME NEW n \in Nat, NEW b \in Bytes(n)
  PROVE  ToBig(CanonicalizeInputValue(FromLittle(b), n), n) = b
<1>1. Reversed(b) \in Bytes(n) /\ Reversed(Reversed(b)) = b
  BY ReversedBytes
<1>2. ToBig(FromBig(Reversed(b)), n) = Reversed(b)
  BY <1>1, ToBigFromBig
<1>3. CanonicalizeInputValue(FromLittle(b), n) = FromBig(b)
  BY <1>1, <1>2 DEF CanonicalizeInputValue, FromLittle, ToLittle
<1> QED BY <1>3, ToBigFromBig

-----------------------------------------------------------------------------
(* The order of the inputs *)

\* f[k] is what Ids has collected of the first k inputs
Among(f, kind, m) ==
  /\ f[0] = << >>
  /\ \A k \in 1..m :
       f[k] = IF InputOrder[k] \in kind THEN Append(f[k - 1], InputOrder[k]) ELSE f[k - 1]

\* The ids of a kind are all inputs of the kind, and no others.
LEMMA IdsOfKind ==
  ASSUME NEW kind
  PROVE  /\ Ids(kind) \in Seq(Input)
         /\ \A k \in 1..Len(Ids(kind)) : Ids(kind)[k] \in Input \cap kind
         /\ \A i \in Input \cap kind : \E k \in 1..Len(Ids(kind)) : Ids(kind)[k] = i
<1> DEFINE n == Len(InputOrder)
           F == CHOOSE f : f = [k \in 0..n |->
                  IF k = 0 THEN << >>
                  ELSE IF InputOrder[k] \in kind THEN Append(f[k - 1], InputOrder[k]) ELSE f[k - 1]]
           E == {m \in 0..n : \E f \in [0..m -> Seq(Input)] : Among(f, kind, m)}
<1>0. n \in Nat /\ \A k \in 1..n : InputOrder[k] \in Input
  BY RunnerAssumption
<1>n. DOMAIN InputOrder = 1..n
  BY RunnerAssumption
<1> HIDE DEF n
<1>1. 0 \in E
  <2> DEFINE f == [k \in 0..0 |-> << >>]
  <2>1. f \in [0..0 -> Seq(Input)] /\ Among(f, kind, 0)
    BY DEF Among
  <2>2. \E g \in [0..0 -> Seq(Input)] : Among(g, kind, 0)
    BY <2>1, Zenon
  <2> QED BY <1>0, <2>2
<1>2. ASSUME NEW m \in 0..(n - 1), m \in E PROVE m + 1 \in E
  <2>1. PICK f \in [0..m -> Seq(Input)] : Among(f, kind, m)
    BY <1>2
  <2> DEFINE x == IF InputOrder[m + 1] \in kind THEN Append(f[m], InputOrder[m + 1]) ELSE f[m]
             g == [k \in 0..(m + 1) |-> IF k = m + 1 THEN x ELSE f[k]]
  <2>x. x \in Seq(Input)
    <3>1. f[m] \in Seq(Input) /\ InputOrder[m + 1] \in Input
      BY <1>0
    <3> QED BY <3>1
  <2> HIDE DEF x
  <2>g. g \in [0..(m + 1) -> Seq(Input)]
    <3>1. \A k \in 0..(m + 1) : k # m + 1 => k \in 0..m
      BY <1>0
    <3> QED BY <2>x, <3>1
  <2>2. g[0] = << >>
    BY <1>0, <2>1 DEF Among
  <2>3. ASSUME NEW k \in 1..(m + 1)
        PROVE  g[k] = IF InputOrder[k] \in kind THEN Append(g[k - 1], InputOrder[k]) ELSE g[k - 1]
    <3>1. k - 1 \in 0..(m + 1) /\ k - 1 # m + 1 /\ g[k - 1] = f[k - 1]
      BY <1>0
    <3>2. CASE k = m + 1
      <4>1. g[k] = x /\ k - 1 = m
        BY <1>0, <3>2
      <4> QED BY <3>1, <3>2, <4>1 DEF x
    <3>3. CASE k # m + 1
      <4>1. k \in 1..m /\ g[k] = f[k]
        BY <1>0, <3>3
      <4> QED BY <2>1, <3>1, <4>1 DEF Among
    <3> QED BY <3>2, <3>3
  <2>4. Among(g, kind, m + 1)
    <3> HIDE DEF g
    <3> QED BY <2>2, <2>3, Zenon DEF Among
  <2>5. \E h \in [0..(m + 1) -> Seq(Input)] : Among(h, kind, m + 1)
    BY <2>4, <2>g, Zenon
  <2> QED BY <1>0, <2>5
<1>3. n \in E
  <2> HIDE DEF E
  <2>1. 0..n \subseteq E
    BY <1>0, <1>1, <1>2, UpTo
  <2> QED BY <1>0, <2>1
<1>4. \E f : f = [k \in 0..n |->
                  IF k = 0 THEN << >>
                  ELSE IF InputOrder[k] \in kind THEN Append(f[k - 1], InputOrder[k]) ELSE f[k - 1]]
  <2>1. PICK f \in [0..n -> Seq(Input)] : Among(f, kind, n)
    BY <1>3
  <2>2. ASSUME NEW k \in 0..n
        PROVE  f[k] = IF k = 0 THEN << >>
                      ELSE IF InputOrder[k] \in kind THEN Append(f[k - 1], InputOrder[k]) ELSE f[k - 1]
    <3>1. CASE k = 0
      BY <2>1, <3>1 DEF Among
    <3>2. CASE k # 0
      <4>1. k \in 1..n
        BY <1>0, <3>2
      <4> QED BY <2>1, <3>2, <4>1 DEF Among
    <3> QED BY <3>1, <3>2
  <2>3. f = [k \in 0..n |->
               IF k = 0 THEN << >>
               ELSE IF InputOrder[k] \in kind THEN Append(f[k - 1], InputOrder[k]) ELSE f[k - 1]]
    BY <2>2
  <2> QED BY <2>3, Zenon
<1>5. F = [k \in 0..n |->
            IF k = 0 THEN << >>
            ELSE IF InputOrder[k] \in kind THEN Append(F[k - 1], InputOrder[k]) ELSE F[k - 1]]
  BY <1>4, Zenon
<1>6. Ids(kind) = F[n]
  BY DEF Ids, n
<1> HIDE DEF F
<1>7. Among(F, kind, n)
  <2>1. F[0] = << >>
    BY <1>0, <1>5
  <2>2. ASSUME NEW k \in 1..n
        PROVE  F[k] = IF InputOrder[k] \in kind THEN Append(F[k - 1], InputOrder[k]) ELSE F[k - 1]
    <3>1. k \in 0..n /\ k # 0
      BY <1>0
    <3> QED BY <1>5, <3>1, Zenon
  <2> QED BY <2>1, <2>2, Zenon DEF Among
<1> DEFINE Good(m) == /\ F[m] \in Seq(Input)
                      /\ \A k \in 1..Len(F[m]) : F[m][k] \in Input \cap kind
                      /\ \A j \in 1..m : InputOrder[j] \in kind =>
                           \E k \in 1..Len(F[m]) : F[m][k] = InputOrder[j]
           S == {m \in 0..n : Good(m)}
<1>8. 0 \in S
  <2>1. F[0] = << >>
    BY <1>7 DEF Among
  <2>2. << >> \in Seq(Input) /\ 1..Len(<< >>) = {} /\ 1..0 = {}
    OBVIOUS
  <2>3. Good(0)
    BY <2>1, <2>2, Zenon
  <2> QED BY <1>0, <2>3
<1>9. ASSUME NEW m \in 0..(n - 1), m \in S PROVE m + 1 \in S
  <2>1. Good(m) /\ m + 1 \in 1..n /\ (m + 1) - 1 = m
    BY <1>0, <1>9
  <2>2. F[m + 1] = IF InputOrder[m + 1] \in kind THEN Append(F[m], InputOrder[m + 1]) ELSE F[m]
    BY <1>7, <2>1 DEF Among
  <2>3. CASE InputOrder[m + 1] \notin kind
    <3>1. F[m + 1] = F[m] /\ \A j \in 1..(m + 1) : j \in 1..m \/ j = m + 1
      BY <1>0, <2>2, <2>3
    <3> QED BY <2>1, <2>3, <3>1
  <2>4. CASE InputOrder[m + 1] \in kind
    <3> DEFINE s == F[m]
               x == InputOrder[m + 1]
               t == F[m + 1]
    <3>1. s \in Seq(Input) /\ x \in Input \cap kind /\ t = Append(s, x)
      BY <1>0, <2>1, <2>2, <2>4
    <3>2. \A k \in 1..Len(s) : s[k] \in Input \cap kind
      BY <2>1
    <3>3. \A j \in 1..m : InputOrder[j] \in kind => \E k \in 1..Len(s) : s[k] = InputOrder[j]
      BY <2>1
    <3> HIDE DEF s, x, t
    <3>4. /\ t \in Seq(Input) /\ Len(s) \in Nat /\ Len(t) = Len(s) + 1 /\ t[Len(s) + 1] = x
          /\ \A k \in 1..Len(s) : t[k] = s[k]
      BY <3>1
    <3>5. \A k \in 1..Len(t) : t[k] \in Input \cap kind
      BY <3>1, <3>2, <3>4
    <3>6. \A j \in 1..(m + 1) : InputOrder[j] \in kind => \E k \in 1..Len(t) : t[k] = InputOrder[j]
      <4> SUFFICES ASSUME NEW j \in 1..(m + 1), InputOrder[j] \in kind
                   PROVE  \E k \in 1..Len(t) : t[k] = InputOrder[j]
        OBVIOUS
      <4>1. CASE j = m + 1
        <5>1. Len(s) + 1 \in 1..Len(t) /\ t[Len(s) + 1] = InputOrder[j]
          BY <3>4, <4>1 DEF x
        <5> QED BY <5>1
      <4>2. CASE j # m + 1
        <5>1. j \in 1..m
          BY <1>0, <4>2
        <5>2. PICK k \in 1..Len(s) : s[k] = InputOrder[j]
          BY <3>3, <5>1
        <5>3. k \in 1..Len(t) /\ t[k] = InputOrder[j]
          BY <3>4, <5>2
        <5> QED BY <5>3
      <4> QED BY <4>1, <4>2
    <3>7. Good(m + 1)
      BY <3>4, <3>5, <3>6 DEF t
    <3> QED BY <1>0, <3>7
  <2> QED BY <2>3, <2>4
<1>10. Good(n)
  <2> HIDE DEF S
  <2>1. 0..n \subseteq S
    BY <1>0, <1>8, <1>9, UpTo
  <2>2. n \in S
    BY <1>0, <2>1
  <2> QED BY <2>2 DEF S
<1>11. \A i \in Input : \E j \in 1..n : InputOrder[j] = i
  BY <1>n DEF Input
<1> QED BY <1>6, <1>10, <1>11
-----------------------------------------------------------------------------
(* The pipeline from an analysis to its replays *)

\* buffers of the sizes of the config
Memory ==
  {m \in [Input -> UNION {Bytes(InSize[i]) : i \in Input}] : \A i \in Input : m[i] \in Bytes(InSize[i])}

PipeType ==
  /\ tool \in {"KLEE_CF", "BINSEC", "ABACUS"} /\ fix \in BOOLEAN /\ run \in Replays
  /\ stage \in {"analyse", "report", "convert", "load", "drive", "done"}
  /\ tool = "ABACUS" => stage \in {"analyse", "done"}
  /\ stage \in {"analyse", "report", "convert"} => run = 1

\* the executions of the analysis share their publics, which the preset may fix
WorldInv ==
  stage # "analyse" =>
    /\ \A r \in Replays : world[r] \in Memory
    /\ \A i \in Public : /\ world[2][i] = world[1][i]
                         /\ ConcretePubs => world[1][i] = Preset[i]

\* a witness says what the executions held, bytes or numbers
WitnessInv ==
  stage = "convert" =>
    \A x \in DOMAIN witness :
      witness[x] = IF tool = "KLEE_CF" THEN world[x[2]][x[1]] ELSE FromLittle(world[x[2]][x[1]])

\* the files are in the order in which the replay loads them
ArgvInv ==
  Agrees /\ stage \in {"load", "drive"} =>
    \A r \in Replays :
      /\ Len(argv[r]) = Len(LoadOrder)
      /\ \A k \in 1..Len(LoadOrder) : argv[r][k] = world[r][LoadOrder[k]]

ReachedInv ==
  Agrees =>
    /\ reached \subseteq Replays
    /\ stage \in {"load", "drive"} /\ run = 2 => 1 \in reached
    /\ stage = "drive" => run \in reached
    /\ BothReplayed

WInv == /\ PipeType /\ WorldInv /\ WitnessInv /\ ArgvInv /\ ReachedInv
        /\ ReplayMatchesAnalysis

\* A function on 1..n is a sequence of length n.
LEMMA FunctionIsSeq ==
  ASSUME NEW S, NEW n \in Nat, NEW f \in [1..n -> S]
  PROVE  f \in Seq(S) /\ Len(f) = n
<1>1. f \in Seq(S) /\ DOMAIN f = 1..n
  BY SeqDef, Zenon
<1>2. DOMAIN f = 1..Len(f) /\ Len(f) \in Nat
  BY <1>1, LenProperties
<1> QED BY <1>1, <1>2

\* The replay loads every secret, and every public that is not fixed.
LEMMA LoadOrderProperties ==
  ASSUME fix \in BOOLEAN
  PROVE  /\ SecretIds \in Seq(Input) /\ PublicIds \in Seq(Input) /\ LoadOrder \in Seq(Input)
         /\ Len(LoadOrder) = ExpectedArgc /\ Len(SecretIds) \in Nat /\ Len(PublicIds) \in Nat
         /\ \A k \in 1..Len(SecretIds) : SecretIds[k] \in Secret
         /\ \A k \in 1..Len(PublicIds) : PublicIds[k] \in Public
         /\ \A i \in Secret : \E k \in 1..Len(LoadOrder) : LoadOrder[k] = i
         /\ ~ fix => \A i \in Public : \E k \in 1..Len(LoadOrder) : LoadOrder[k] = i
         /\ \A k \in 1..Len(LoadOrder) :
              LoadOrder[k] = IF k <= Len(SecretIds) THEN SecretIds[k] ELSE PublicIds[k - Len(SecretIds)]
<1>1. Input \cap Secret = Secret /\ Input \cap Public = Public
  BY RunnerAssumption DEF Public
<1>2. /\ SecretIds \in Seq(Input) /\ \A k \in 1..Len(SecretIds) : SecretIds[k] \in Secret
      /\ \A i \in Secret : \E k \in 1..Len(SecretIds) : SecretIds[k] = i
  BY <1>1, IdsOfKind DEF SecretIds
<1>3. /\ PublicIds \in Seq(Input) /\ \A k \in 1..Len(PublicIds) : PublicIds[k] \in Public
      /\ \A i \in Public : \E k \in 1..Len(PublicIds) : PublicIds[k] = i
  BY <1>1, IdsOfKind DEF PublicIds
<1>4. Len(SecretIds) \in Nat /\ Len(PublicIds) \in Nat
  BY <1>2, <1>3
<1>5. CASE fix
  <2>1. LoadOrder = SecretIds /\ ExpectedArgc = Len(SecretIds)
    BY <1>4, <1>5 DEF LoadOrder, ExpectedArgc
  <2> QED BY <1>2, <1>3, <1>4, <1>5, <2>1
<1>6. CASE ~ fix
  <2>1. LoadOrder = SecretIds \o PublicIds /\ ExpectedArgc = Len(SecretIds) + Len(PublicIds)
    BY <1>6 DEF LoadOrder, ExpectedArgc
  <2>2. /\ LoadOrder \in Seq(Input) /\ Len(LoadOrder) = Len(SecretIds) + Len(PublicIds)
        /\ \A k \in 1..Len(LoadOrder) :
             LoadOrder[k] = IF k <= Len(SecretIds) THEN SecretIds[k] ELSE PublicIds[k - Len(SecretIds)]
    BY <1>2, <1>3, <2>1, ConcatProperties
  <2>3. ASSUME NEW i \in Secret PROVE \E k \in 1..Len(LoadOrder) : LoadOrder[k] = i
    <3>1. PICK k \in 1..Len(SecretIds) : SecretIds[k] = i
      BY <1>2
    <3>2. k \in 1..Len(LoadOrder) /\ LoadOrder[k] = i
      BY <1>4, <2>2, <3>1
    <3> QED BY <3>2
  <2>4. ASSUME NEW i \in Public PROVE \E k \in 1..Len(LoadOrder) : LoadOrder[k] = i
    <3>1. PICK k \in 1..Len(PublicIds) : PublicIds[k] = i
      BY <1>3
    <3> DEFINE j == k + Len(SecretIds)
    <3>2. j \in 1..Len(LoadOrder) /\ ~ (j <= Len(SecretIds)) /\ j - Len(SecretIds) = k
      BY <1>4, <2>2
    <3>3. LoadOrder[j] = i
      BY <2>2, <3>1, <3>2
    <3> QED BY <3>2, <3>3
  <2> QED BY <1>2, <1>3, <1>4, <2>1, <2>2, <2>3, <2>4
<1> QED BY <1>5, <1>6

\* The files of a witness hold what the executions held, in the order of the loader.
LEMMA FilesInOrder ==
  ASSUME WInv, Agrees, stage = "convert", Needed \subseteq DOMAIN witness, NEW r \in Replays
  PROVE  /\ Len(ArgvOf(r)) = Len(LoadOrder)
         /\ \A k \in 1..Len(LoadOrder) : ArgvOf(r)[k] = world[r][LoadOrder[k]]
<1> DEFINE S == UNION {Bytes(InSize[i]) : i \in Input}
           f == [k \in 1..Len(SecretIds) |-> FileOf(SecretIds[k], r)]
           g == [k \in 1..Len(Publics) |-> FileOf(Publics[k], 1)]
<1>0. /\ PipeType /\ tool \in {"KLEE_CF", "BINSEC"} /\ 1 \in Replays
      /\ fix \in BOOLEAN /\ decl.secrets = SecretIds /\ Publics = IF fix THEN << >> ELSE PublicIds
  BY DEF WInv, PipeType, Agrees, Replays
<1>1. \A q \in Replays : world[q] \in Memory
  BY DEF WInv, WorldInv
<1>2. ASSUME NEW i \in Input, NEW q \in Replays, <<i, q>> \in Needed
      PROVE  FileOf(i, q) = world[q][i] /\ world[q][i] \in Bytes(InSize[i]) /\ world[q][i] \in S
  <2>1. world[q][i] \in Bytes(InSize[i]) /\ InSize[i] \in Nat
    BY <1>1, RunnerAssumption DEF Memory
  <2>2. witness[<<i, q>>] = IF tool = "KLEE_CF" THEN world[q][i] ELSE FromLittle(world[q][i])
    <3>1. <<i, q>> \in DOMAIN witness /\ <<i, q>>[1] = i /\ <<i, q>>[2] = q
      BY <1>2
    <3> QED BY <3>1, Zenon DEF WInv, WitnessInv
  <2>3. CASE tool = "KLEE_CF"
    BY <2>1, <2>2, <2>3 DEF FileOf
  <2>4. CASE tool # "KLEE_CF"
    <3>1. FileOf(i, q) = ToBig(CanonicalizeInputValue(FromLittle(world[q][i]), InSize[i]), InSize[i])
      BY <2>2, <2>4 DEF FileOf
    <3> QED BY <2>1, <3>1, CanonicalBytes
  <2> QED BY <2>3, <2>4
<1>3. /\ SecretIds \in Seq(Input) /\ PublicIds \in Seq(Input)
      /\ Len(SecretIds) \in Nat /\ Len(PublicIds) \in Nat /\ Len(LoadOrder) = ExpectedArgc
      /\ \A k \in 1..Len(PublicIds) : PublicIds[k] \in Public
      /\ \A k \in 1..Len(LoadOrder) :
           LoadOrder[k] = IF k <= Len(SecretIds) THEN SecretIds[k] ELSE PublicIds[k - Len(SecretIds)]
  BY <1>0, LoadOrderProperties
<1>4. ASSUME NEW k \in 1..Len(SecretIds)
      PROVE  f[k] = world[r][SecretIds[k]] /\ f[k] \in S
  <2>1. k \in DOMAIN decl.secrets /\ SecretIds[k] \in Input
    BY <1>0, <1>3
  <2>2. <<SecretIds[k], r>> \in Needed
    BY <1>0, <2>1 DEF Needed
  <2> HIDE DEF S
  <2> QED BY <1>2, <2>1, <2>2
<1>5. ASSUME NEW k \in 1..Len(Publics)
      PROVE  g[k] = world[1][Publics[k]] /\ g[k] \in S /\ ~ fix
  <2>1. ~ fix /\ Publics = PublicIds
    BY <1>0
  <2>2. k \in DOMAIN Publics /\ Publics[k] \in Input
    BY <1>3, <2>1
  <2>3. <<Publics[k], 1>> \in Needed
    BY <2>2 DEF Needed
  <2> HIDE DEF S
  <2> QED BY <1>0, <1>2, <2>1, <2>2, <2>3
<1>6. Len(Publics) \in Nat /\ Len(LoadOrder) = Len(SecretIds) + Len(Publics)
  <2>1. CASE fix
    BY <1>0, <1>3, <2>1 DEF ExpectedArgc
  <2>2. CASE ~ fix
    BY <1>0, <1>3, <2>2 DEF ExpectedArgc
  <2> QED BY <2>1, <2>2
<1>7. f \in Seq(S) /\ Len(f) = Len(SecretIds) /\ g \in Seq(S) /\ Len(g) = Len(Publics)
  <2> HIDE DEF S
  <2>1. f \in [1..Len(SecretIds) -> S] /\ g \in [1..Len(Publics) -> S]
    BY <1>4, <1>5
  <2> HIDE DEF f, g
  <2> QED BY <1>3, <1>6, <2>1, FunctionIsSeq
<1>8. ArgvOf(r) = f \o g
  BY <1>0 DEF ArgvOf
<1> HIDE DEF f, g, S
<1>9. /\ Len(ArgvOf(r)) = Len(SecretIds) + Len(Publics)
      /\ \A k \in 1..(Len(SecretIds) + Len(Publics)) :
           ArgvOf(r)[k] = IF k <= Len(SecretIds) THEN f[k] ELSE g[k - Len(SecretIds)]
  <2>1. /\ Len(f \o g) = Len(f) + Len(g)
        /\ \A k \in 1..(Len(f) + Len(g)) : (f \o g)[k] = IF k <= Len(f) THEN f[k] ELSE g[k - Len(f)]
    BY <1>7, ConcatProperties, Zenon
  <2> QED BY <1>7, <1>8, <2>1, Zenon
<1>10. ASSUME NEW k \in 1..Len(LoadOrder) PROVE ArgvOf(r)[k] = world[r][LoadOrder[k]]
  <2>0. k \in 1..(Len(SecretIds) + Len(Publics))
    BY <1>6
  <2>1. CASE k <= Len(SecretIds)
    <3>1. k \in 1..Len(SecretIds) /\ ArgvOf(r)[k] = f[k] /\ LoadOrder[k] = SecretIds[k]
      BY <1>3, <1>9, <2>0, <2>1
    <3> QED BY <1>4, <3>1
  <2>2. CASE ~ (k <= Len(SecretIds))
    <3> DEFINE j == k - Len(SecretIds)
    <3>1. j \in 1..Len(Publics)
      BY <1>3, <1>6, <2>0, <2>2
    <3>2. ArgvOf(r)[k] = g[j] /\ LoadOrder[k] = PublicIds[j]
      BY <1>3, <1>9, <2>0, <2>2
    <3> HIDE DEF j
    <3>3. g[j] = world[1][Publics[j]] /\ ~ fix
      BY <1>5, <3>1
    <3>4. Publics = PublicIds /\ Publics[j] \in Public
      BY <1>0, <1>3, <3>1, <3>3
    <3>5. world[r][Publics[j]] = world[1][Publics[j]]
      BY <3>4 DEF WInv, WorldInv, Replays
    <3> QED BY <3>2, <3>3, <3>4, <3>5
  <2> QED BY <2>1, <2>2
<1> QED BY <1>6, <1>9, <1>10

\* What main() loads is what the execution held.
LEMMA LoadsWorld ==
  ASSUME WInv, Agrees, stage = "load"
  PROVE  /\ Len(argv[run]) = ExpectedArgc
         /\ \A k \in DOMAIN LoadOrder : Loads(k)
         /\ (IF fix THEN runner_apply_preset(Loaded) ELSE Loaded) = world[run]
<1>0. /\ fix \in BOOLEAN /\ tool # "ABACUS" /\ run \in Replays /\ world[run] \in Memory
  BY DEF WInv, PipeType, WorldInv
<1>1. /\ Len(argv[run]) = Len(LoadOrder)
      /\ \A k \in 1..Len(LoadOrder) : argv[run][k] = world[run][LoadOrder[k]]
  BY <1>0 DEF WInv, ArgvInv
<1>2. /\ LoadOrder \in Seq(Input) /\ Len(LoadOrder) = ExpectedArgc
      /\ \A i \in Secret : \E k \in 1..Len(LoadOrder) : LoadOrder[k] = i
      /\ ~ fix => \A i \in Public : \E k \in 1..Len(LoadOrder) : LoadOrder[k] = i
  BY <1>0, LoadOrderProperties
<1>3. DOMAIN LoadOrder = 1..Len(LoadOrder) /\ \A k \in 1..Len(LoadOrder) : LoadOrder[k] \in Input
  BY <1>2
<1>4. ASSUME NEW i \in Input
      PROVE  /\ world[run][i] \in Bytes(InSize[i]) /\ InSize[i] \in Nat
             /\ Len(world[run][i]) = InSize[i] /\ SubSeq(world[run][i], 1, InSize[i]) = world[run][i]
  <2>1. world[run][i] \in Bytes(InSize[i]) /\ InSize[i] \in Nat
    BY <1>0, RunnerAssumption DEF Memory
  <2>2. Len(world[run][i]) = InSize[i] /\ world[run][i] \in Seq(0..(Base - 1))
    BY <2>1, BytesLen
  <2> QED BY <2>1, <2>2, SubSeqFull
<1>5. ASSUME NEW k \in DOMAIN LoadOrder PROVE Loads(k)
  <2>1. argv[run][k] = world[run][LoadOrder[k]] /\ LoadOrder[k] \in Input
    BY <1>1, <1>3
  <2>2. Len(argv[run][k]) = InSize[LoadOrder[k]] /\ InSize[LoadOrder[k]] \in Nat
    BY <1>4, <2>1
  <2> QED BY <2>2 DEF Loads
<1>6. ASSUME NEW i \in Input, \E k \in DOMAIN LoadOrder : LoadOrder[k] = i
      PROVE  Loaded[i] = world[run][i]
  <2> DEFINE k == CHOOSE j \in DOMAIN LoadOrder : LoadOrder[j] = i
  <2>1. k \in DOMAIN LoadOrder /\ LoadOrder[k] = i
    BY <1>6, Zenon
  <2>2. Loaded[i] = SubSeq(argv[run][k], 1, InSize[i])
    BY <1>6 DEF Loaded
  <2> HIDE DEF k
  <2>3. argv[run][k] = world[run][i]
    BY <1>1, <1>3, <2>1
  <2> QED BY <1>4, <2>2, <2>3
<1>7. CASE fix
  <2>1. ASSUME NEW i \in Input PROVE runner_apply_preset(Loaded)[i] = world[run][i]
    <3>1. CASE i \in Public
      <4>1. runner_apply_preset(Loaded)[i] = runner_copy_bytes(Preset[i], InSize[i])
        BY <3>1 DEF runner_apply_preset
      <4>2. runner_copy_bytes(Preset[i], InSize[i]) = Preset[i]
        BY <3>1, RunnerAssumption DEF runner_copy_bytes, Bytes
      <4>3. world[run][i] = Preset[i]
        BY <1>0, <1>7, <3>1 DEF WInv, WorldInv, ConcretePubs, Replays
      <4> QED BY <4>1, <4>2, <4>3
    <3>2. CASE i \notin Public
      <4>1. i \in Secret /\ runner_apply_preset(Loaded)[i] = Loaded[i]
        BY <3>2 DEF runner_apply_preset, Public
      <4> QED BY <1>2, <1>3, <1>6, <4>1
    <3> QED BY <3>1, <3>2
  <2>2. runner_apply_preset(Loaded) = [i \in Input |-> runner_apply_preset(Loaded)[i]]
    BY DEF runner_apply_preset
  <2>3. world[run] = [i \in Input |-> world[run][i]]
    BY <1>0 DEF Memory
  <2>4. runner_apply_preset(Loaded) = world[run]
    BY <2>1, <2>2, <2>3
  <2> QED BY <1>1, <1>2, <1>5, <1>7, <2>4
<1>8. CASE ~ fix
  <2>1. ASSUME NEW i \in Input PROVE Loaded[i] = world[run][i]
    BY <1>2, <1>3, <1>6, <1>8 DEF Public
  <2>2. Loaded = [i \in Input |-> Loaded[i]]
    BY DEF Loaded
  <2>3. world[run] = [i \in Input |-> world[run][i]]
    BY <1>0 DEF Memory
  <2>4. Loaded = world[run]
    BY <2>1, <2>2, <2>3
  <2> QED BY <1>1, <1>2, <1>5, <1>8, <2>4
<1> QED BY <1>0, <1>7, <1>8

\* Nothing has been compared yet.
LEMMA WitnessInit == HarnessInit => WInv
<1> SUFFICES ASSUME HarnessInit PROVE WInv
  OBVIOUS
<1>1. PipeType
  BY DEF HarnessInit, PipeType, Replays
<1>2. stage = "analyse" /\ reached = {}
  BY DEF HarnessInit
<1> QED BY <1>1, <1>2 DEF WInv, WorldInv, WitnessInv, ArgvInv, ReachedInv, BothReplayed, ReplayMatchesAnalysis

\* The two executions start from the same publics.
LEMMA AnalyseStep == WInv /\ Analyse => WInv'
<1> SUFFICES ASSUME WInv, Analyse PROVE WInv'
  OBVIOUS
<1>0. /\ stage = "analyse" /\ stage' = IF tool = "ABACUS" THEN "done" ELSE "report"
      /\ UNCHANGED <<tool, fix, decl, run, reached>>
  BY DEF Analyse
<1>1. PICK s1, s2 \in {f \in SymbolicSecrets : \A i \in Secret : f[i] \in Bytes(InSize[i])} :
      \E p \in {f \in [Public -> UNION {Bytes(InSize[i]) : i \in Public}] :
                  \A i \in Public : f[i] \in Bytes(InSize[i])} :
        LET start(s) == [i \in Input |-> IF i \in Secret THEN s[i] ELSE p[i]]
            made(s) == IF ConcretePubs THEN runner_apply_preset(start(s)) ELSE start(s)
        IN /\ ConcretePubs => \A i \in Public : p[i] = Preset[i]
           /\ world' = [r \in Replays |-> IF r = 1 THEN made(s1) ELSE made(s2)]
  BY DEF Analyse
<1>2. PICK p \in {f \in [Public -> UNION {Bytes(InSize[i]) : i \in Public}] :
                  \A i \in Public : f[i] \in Bytes(InSize[i])} :
        LET start(s) == [i \in Input |-> IF i \in Secret THEN s[i] ELSE p[i]]
            made(s) == IF ConcretePubs THEN runner_apply_preset(start(s)) ELSE start(s)
        IN /\ ConcretePubs => \A i \in Public : p[i] = Preset[i]
           /\ world' = [r \in Replays |-> IF r = 1 THEN made(s1) ELSE made(s2)]
  BY <1>1
<1> DEFINE start(s) == [i \in Input |-> IF i \in Secret THEN s[i] ELSE p[i]]
           made(s) == IF ConcretePubs THEN runner_apply_preset(start(s)) ELSE start(s)
<1>3. /\ ConcretePubs => \A i \in Public : p[i] = Preset[i]
      /\ world' = [r \in Replays |-> IF r = 1 THEN made(s1) ELSE made(s2)]
  BY <1>2
<1>4. /\ \A i \in Secret : s1[i] \in Bytes(InSize[i]) /\ s2[i] \in Bytes(InSize[i])
      /\ \A i \in Public : p[i] \in Bytes(InSize[i])
  BY <1>1, <1>2
<1>5. ASSUME NEW s, \A i \in Secret : s[i] \in Bytes(InSize[i]), NEW i \in Input
      PROVE  /\ made(s)[i] = IF i \in Secret THEN s[i] ELSE p[i]
             /\ made(s)[i] \in Bytes(InSize[i])
  <2>1. start(s)[i] = IF i \in Secret THEN s[i] ELSE p[i]
    OBVIOUS
  <2>2. CASE ConcretePubs
    <3>1. made(s)[i] = IF i \in Public THEN runner_copy_bytes(Preset[i], InSize[i]) ELSE start(s)[i]
      BY <2>2 DEF runner_apply_preset
    <3>2. CASE i \in Public
      <4>1. runner_copy_bytes(Preset[i], InSize[i]) = Preset[i]
        BY <3>2, RunnerAssumption DEF runner_copy_bytes, Bytes
      <4>2. i \notin Secret /\ p[i] = Preset[i] /\ p[i] \in Bytes(InSize[i])
        BY <1>3, <1>4, <2>2, <3>2 DEF Public
      <4> HIDE DEF made, start
      <4> QED BY <3>1, <3>2, <4>1, <4>2
    <3>3. CASE i \notin Public
      <4>1. i \in Secret
        BY <3>3 DEF Public
      <4> HIDE DEF made, start
      <4> QED BY <1>5, <2>1, <3>1, <3>3, <4>1
    <3> QED BY <3>2, <3>3
  <2>3. CASE ~ ConcretePubs
    <3>1. made(s)[i] = start(s)[i] /\ (i \in Secret \/ i \in Public)
      BY <2>3 DEF Public
    <3> HIDE DEF made, start
    <3> QED BY <1>4, <1>5, <2>1, <3>1
  <2> QED BY <2>2, <2>3
<1>6. ASSUME NEW s PROVE made(s) = [i \in Input |-> made(s)[i]]
  <2>1. CASE ConcretePubs
    BY <2>1 DEF runner_apply_preset
  <2>2. CASE ~ ConcretePubs
    BY <2>2
  <2> QED BY <2>1, <2>2
<1> HIDE DEF made, start
<1>7. ASSUME NEW s, \A i \in Secret : s[i] \in Bytes(InSize[i]) PROVE made(s) \in Memory
  <2>1. \A i \in Input : made(s)[i] \in Bytes(InSize[i])
    BY <1>5, <1>7
  <2>2. made(s) \in [Input -> UNION {Bytes(InSize[i]) : i \in Input}]
    BY <1>6, <2>1
  <2> QED BY <2>1, <2>2 DEF Memory
<1>8. world'[1] = made(s1) /\ world'[2] = made(s2)
  BY <1>3 DEF Replays
<1>9. made(s1) \in Memory /\ made(s2) \in Memory
  BY <1>4, <1>7
<1>10. ASSUME NEW i \in Public
       PROVE  world'[2][i] = world'[1][i] /\ (ConcretePubs => world'[1][i] = Preset[i])
  <2>1. i \in Input /\ i \notin Secret
    BY DEF Public
  <2>2. made(s1)[i] = p[i] /\ made(s2)[i] = p[i]
    BY <1>4, <1>5, <2>1
  <2> QED BY <1>3, <1>8, <2>2
<1>11. WorldInv'
  <2>1. ConcretePubs' = ConcretePubs
    BY <1>0 DEF ConcretePubs
  <2>2. \A r \in Replays : world'[r] \in Memory
    BY <1>8, <1>9 DEF Replays
  <2>3. \A i \in Public : world'[2][i] = world'[1][i] /\ (ConcretePubs' => world'[1][i] = Preset[i])
    BY <1>10, <2>1
  <2> QED BY <2>2, <2>3 DEF WorldInv
<1>12. PipeType' /\ WitnessInv' /\ ArgvInv'
  BY <1>0 DEF WInv, PipeType, WitnessInv, ArgvInv
<1>13. ReachedInv' /\ ReplayMatchesAnalysis'
  BY <1>0 DEF WInv, ReachedInv, BothReplayed, ReplayMatchesAnalysis, Agrees, Publics
<1> QED BY <1>11, <1>12, <1>13 DEF WInv

\* The witness of either tool says what the executions held.
LEMMA ReportStep == WInv /\ Report => WInv'
<1> SUFFICES ASSUME WInv, Report PROVE WInv'
  OBVIOUS
<1>0. /\ stage = "report" /\ stage' = "convert" /\ UNCHANGED <<tool, fix, decl, run, world, reached>>
  BY DEF Report
<1>1. WitnessInv'
  <2>1. CASE tool = "KLEE_CF" /\ witness' = [x \in Symbols |-> world[x[2]][x[1]]]
    BY <1>0, <2>1 DEF WitnessInv
  <2>2. CASE tool = "BINSEC" /\ \E given \in SUBSET Symbols :
               witness' = [y \in given |-> FromLittle(world[y[2]][y[1]])]
    <3>1. PICK D \in SUBSET Symbols : witness' = [y \in D |-> FromLittle(world[y[2]][y[1]])]
      BY <2>2
    <3> QED BY <1>0, <2>2, <3>1 DEF WitnessInv
  <2> QED BY <2>1, <2>2 DEF Report
<1>2. PipeType' /\ WorldInv' /\ ArgvInv'
  BY <1>0 DEF WInv, PipeType, WorldInv, ArgvInv, ConcretePubs
<1>3. ReachedInv' /\ ReplayMatchesAnalysis'
  BY <1>0 DEF WInv, ReachedInv, BothReplayed, ReplayMatchesAnalysis, Agrees, Publics
<1> QED BY <1>1, <1>2, <1>3 DEF WInv

\* Where the configs agree, a witness that names all symbols becomes files in the
\* order of the loader; one that does not is no failure of the replay.
LEMMA ConvertStep == WInv /\ Convert => WInv'
<1> SUFFICES ASSUME WInv, Convert PROVE WInv'
  OBVIOUS
<1>0. /\ stage = "convert" /\ UNCHANGED <<tool, fix, decl, run, world, witness, reached>>
      /\ stage' \in {"load", "done"} /\ tool # "ABACUS" /\ run = 1
  BY DEF Convert, WInv, PipeType
<1>a. Agrees' <=> Agrees
  BY <1>0 DEF Agrees, Publics
<1>1. PipeType' /\ WorldInv' /\ WitnessInv'
  BY <1>0 DEF WInv, PipeType, WorldInv, WitnessInv, ConcretePubs
<1>2. ReplayMatchesAnalysis'
  BY <1>0 DEF ReplayMatchesAnalysis
<1>3. CASE Given
  <2>1. argv' = [r \in Replays |-> ArgvOf(r)] /\ stage' = "load"
    BY <1>3 DEF Convert
  <2>2. ASSUME Agrees, NEW r \in Replays
        PROVE  /\ Len(argv'[r]) = Len(LoadOrder)
               /\ \A k \in 1..Len(LoadOrder) : argv'[r][k] = world[r][LoadOrder[k]]
    <3>1. argv'[r] = ArgvOf(r)
      BY <2>1
    <3> QED BY <1>0, <1>3, <2>2, <3>1, FilesInOrder DEF Given
  <2>3. LoadOrder' = LoadOrder
    BY <1>0 DEF LoadOrder
  <2>4. ArgvInv'
    BY <1>0, <1>a, <2>2, <2>3 DEF ArgvInv
  <2>5. ReachedInv'
    BY <1>0, <1>a, <2>1 DEF WInv, ReachedInv, BothReplayed
  <2> QED BY <1>1, <1>2, <2>4, <2>5 DEF WInv
<1>4. CASE ~ Given
  <2>1. stage' = "done"
    BY <1>4 DEF Convert
  <2>2. ArgvInv'
    BY <2>1 DEF ArgvInv
  <2>3. ASSUME Agrees
        PROVE  Needed \subseteq Symbols /\ \A k \in DOMAIN Publics : Publics[k] \in Public
    <3>0. /\ decl.secrets = SecretIds /\ Publics = IF fix THEN << >> ELSE PublicIds
          /\ fix \in BOOLEAN
      BY <2>3 DEF Agrees, WInv, PipeType
    <3>1. /\ \A k \in DOMAIN SecretIds : SecretIds[k] \in Secret
          /\ \A k \in DOMAIN PublicIds : PublicIds[k] \in Public
      BY <3>0, LoadOrderProperties, LenProperties
    <3>2. \A k \in DOMAIN decl.secrets, r \in Replays : <<decl.secrets[k], r>> \in Symbols
      BY <3>0, <3>1 DEF Symbols
    <3>3. ASSUME NEW k \in DOMAIN Publics PROVE <<Publics[k], 1>> \in Symbols
      <4>1. ~ fix /\ Publics = PublicIds
        BY <3>0
      <4>2. Publics[k] \in Public /\ ~ ConcretePubs
        BY <1>0, <3>1, <4>1 DEF ConcretePubs
      <4> QED BY <4>2 DEF Symbols
    <3>4. \A k \in DOMAIN Publics : Publics[k] \in Public
      BY <3>0, <3>1
    <3> QED BY <3>2, <3>3, <3>4 DEF Needed
  <2>4. (Symbols \ DOMAIN witness)' = Symbols \ DOMAIN witness
    BY <1>0 DEF Symbols, ConcretePubs
  <2>5. ReachedInv'
    BY <1>0, <1>4, <1>a, <2>1, <2>3, <2>4 DEF WInv, ReachedInv, BothReplayed, Given
  <2> QED BY <1>1, <1>2, <2>2, <2>5 DEF WInv
<1> QED BY <1>3, <1>4

\* main() puts into the buffers what the execution held.
LEMMA MainStep == WInv /\ Main => WInv'
<1> SUFFICES ASSUME WInv, Main PROVE WInv'
  OBVIOUS
<1>0. /\ stage = "load" /\ stage' = "drive" /\ reached' = reached \cup {run} /\ run \in Replays
      /\ mem' = IF fix THEN runner_apply_preset(Loaded) ELSE Loaded
      /\ UNCHANGED <<tool, fix, decl, run, world, witness, argv>>
  BY DEF Main, WInv, PipeType
<1>a. (Agrees' <=> Agrees) /\ LoadOrder' = LoadOrder
  BY <1>0 DEF Agrees, Publics, LoadOrder
<1>1. PipeType' /\ WorldInv' /\ WitnessInv'
  BY <1>0 DEF WInv, PipeType, WorldInv, WitnessInv, ConcretePubs
<1>2. ArgvInv'
  BY <1>0, <1>a DEF WInv, ArgvInv
<1>3. ReachedInv'
  BY <1>0, <1>a DEF WInv, ReachedInv, BothReplayed, Replays
<1>4. ASSUME Agrees PROVE mem' = world'[run']
  <2>1. (IF fix THEN runner_apply_preset(Loaded) ELSE Loaded) = world[run]
    BY <1>0, <1>4, LoadsWorld
  <2> QED BY <1>0, <2>1, Zenon
<1> QED BY <1>1, <1>2, <1>3, <1>4, <1>a DEF WInv, ReplayMatchesAnalysis

\* The end of a replay: driver_main returned, or the configs disagree.
LEMMA ExitStep ==
  ASSUME WInv, stage \in {"load", "drive"}, NEW c, Exit(c), Agrees => stage = "drive",
         UNCHANGED <<tool, fix, decl, world, witness, argv, reached>>
  PROVE  WInv'
<1>0. run \in Replays /\ run' = 2 /\ stage' = IF run = 1 THEN "load" ELSE "done"
  BY DEF Exit, WInv, PipeType
<1>a. (Agrees' <=> Agrees) /\ LoadOrder' = LoadOrder
  BY DEF Agrees, Publics, LoadOrder
<1>1. PipeType' /\ WorldInv' /\ WitnessInv'
  BY <1>0 DEF WInv, PipeType, WorldInv, WitnessInv, ConcretePubs, Replays
<1>2. ArgvInv'
  BY <1>0, <1>a DEF WInv, ArgvInv
<1>3. ReachedInv'
  <2>1. CASE run = 1
    BY <1>0, <1>a, <2>1 DEF WInv, ReachedInv, BothReplayed, Replays
  <2>2. CASE run = 2
    BY <1>0, <1>a, <2>2 DEF WInv, ReachedInv, BothReplayed, Replays
  <2> QED BY <1>0, <2>1, <2>2 DEF Replays
<1>4. ReplayMatchesAnalysis'
  BY <1>0 DEF ReplayMatchesAnalysis
<1> QED BY <1>1, <1>2, <1>3, <1>4 DEF WInv

\* The invariant is about the pipeline, not about the stream.
LEMMA StreamStep ==
  ASSUME WInv, UNCHANGED <<tool, fix, decl, stage, run, world, witness, argv, mem, reached>>
  PROVE  WInv'
<1>a. /\ (Agrees' <=> Agrees) /\ LoadOrder' = LoadOrder /\ Symbols' = Symbols
      /\ (ConcretePubs' <=> ConcretePubs)
  BY DEF Agrees, Publics, LoadOrder, Symbols, ConcretePubs
<1>1. PipeType' /\ WorldInv' /\ WitnessInv'
  BY <1>a DEF WInv, PipeType, WorldInv, WitnessInv
<1>2. ArgvInv' /\ ReachedInv' /\ ReplayMatchesAnalysis'
  BY <1>a DEF WInv, ArgvInv, ReachedInv, BothReplayed, ReplayMatchesAnalysis
<1> QED BY <1>1, <1>2 DEF WInv

\* Every step of the pipeline keeps the invariant.
LEMMA WitnessStep == WInv /\ [HarnessNext]_harnessVars => WInv'
<1> SUFFICES ASSUME WInv, [HarnessNext]_harnessVars PROVE WInv'
  OBVIOUS
<1>1. CASE Analyse
  BY <1>1, AnalyseStep
<1>2. CASE Report
  BY <1>2, ReportStep
<1>3. CASE Convert
  BY <1>3, ConvertStep
<1>4. CASE AssertArgc
  <2>1. /\ stage = "load" /\ Len(argv[run]) # ExpectedArgc /\ Exit(134)
        /\ UNCHANGED <<tool, fix, decl, world, witness, argv, reached>>
    BY <1>4 DEF AssertArgc
  <2>2. ~ Agrees
    BY <2>1, LoadsWorld
  <2> QED BY <2>1, <2>2, ExitStep
<1>5. CASE LoadFails
  <2>1. /\ stage = "load" /\ (\E k \in DOMAIN LoadOrder : ~ Loads(k)) /\ Exit(1)
        /\ UNCHANGED <<tool, fix, decl, world, witness, argv, reached>>
    BY <1>5 DEF LoadFails
  <2>2. ~ Agrees
    BY <2>1, LoadsWorld
  <2> QED BY <2>1, <2>2, ExitStep
<1>6. CASE Main
  BY <1>6, MainStep
<1>7. CASE Call \/ Copy \/ Return
  <2>1. UNCHANGED <<tool, fix, decl, stage, run, world, witness, argv, mem, reached>>
    BY <1>7 DEF Call, Copy, Return, pipeVars
  <2> QED BY <2>1, StreamStep
<1>8. CASE DriverReturns
  <2>1. /\ stage = "drive" /\ Exit(IoStatus)
        /\ UNCHANGED <<tool, fix, decl, world, witness, argv, reached>>
    BY <1>8 DEF DriverReturns
  <2> QED BY <2>1, ExitStep
<1>9. CASE UNCHANGED harnessVars
  <2>1. UNCHANGED <<tool, fix, decl, stage, run, world, witness, argv, mem, reached>>
    BY <1>9 DEF harnessVars, pipeVars
  <2> QED BY <2>1, StreamStep
<1> QED BY <1>1, <1>2, <1>3, <1>4, <1>5, <1>6, <1>7, <1>8, <1>9 DEF HarnessNext

(* For every runner config, every size of the buffers and every value of a      *)
(* byte: where the experiment config declares the inputs of the runner config,  *)
(* driver_main replays on exactly the buffers of the analysed execution (main   *)
(* of runner.h, _canonicalize_input_value, write_int_file, analyze_input_bytes, *)
(* runner_load_replay_inputs).                                                  *)
THEOREM HarnessReplaysWitness == HarnessSpec => []ReplayMatchesAnalysis
<1>1. WInv => ReplayMatchesAnalysis
  BY DEF WInv
<1> QED BY <1>1, WitnessInit, WitnessStep, PTL DEF HarnessSpec

(* Under the same declaration both replays of a complete witness reach          *)
(* driver_main: no argument count, no short file and no missing name ends one   *)
(* (the assertions of main, load_bytes, extract_ktest_inputs).                  *)
THEOREM HarnessReplaysAll == HarnessSpec => []WitnessReplayed
<1>1. WInv => WitnessReplayed
  BY DEF WInv, ReachedInv, WitnessReplayed
<1> QED BY <1>1, WitnessInit, WitnessStep, PTL DEF HarnessSpec
=============================================================================
