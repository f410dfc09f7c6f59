------------------------------ MODULE StdinRunner ------------------------------
(***************************************************************************)
(* include/original_stdin_runner.h: read() and write() of an unmodified    *)
(* benchmark program, served from the runner's input buffers.  The static  *)
(* variables are the state; a loop iteration of runner_io_read is a step.  *)
(* The byte at offset o of segment s is named by its place in the          *)
(* concatenation of all segments, Start[s] + o.                            *)
(***************************************************************************)
EXTENDS Integers

CONSTANTS
  Count,     \* runner_io_segment_count
  Size,      \* segment -> its size
  Start,     \* segment -> the bytes before it
  MaxRead    \* bound: the largest count of a call

Segment == 0..(Count - 1)

ASSUME SegmentsAssumption ==
  /\ Count \in Nat /\ MaxRead \in Nat
  /\ Size \in [Segment -> Nat] /\ Start \in [0..Count -> Nat]
  /\ Start[0] = 0
  /\ \A s \in Segment : Start[s + 1] = Start[s] + Size[s]
  /\ \A s \in 0..Count : Start[s] <= Start[Count]

VARIABLES
  io,         \* "idle", or "reading" inside runner_io_read
  segIndex,   \* runner_io_segment_index
  segOffset,  \* runner_io_segment_offset
  ioFailed,   \* runner_io_failed
  want,       \* count of the read that is running
  remaining,  \* remaining
  dst,        \* the caller's buffer
  reply       \* what the last call returned, and the cells of its buffer

ioVars == <<io, segIndex, segOffset, ioFailed, want, remaining, dst, reply>>

Zero    == -1      \* a cell that memset cleared
Old     == -2      \* a cell the call has not written
Nothing == [k \in {} |-> Zero]

IoInit ==
  /\ io = "idle" /\ segIndex = 0 /\ segOffset = 0 /\ ioFailed = FALSE
  /\ want = 0 /\ remaining = 0 /\ dst = Nothing
  /\ reply = [ret |-> 0, cell |-> Nothing]

\* runner_io_reset, called by driver_main
IoReset ==
  /\ io = "idle"
  /\ segIndex' = 0 /\ segOffset' = 0 /\ ioFailed' = FALSE
  /\ reply' = [ret |-> 0, cell |-> Nothing]
  /\ UNCHANGED <<io, want, remaining, dst>>

\* runner_io_status
IoStatus == IF ioFailed THEN 1 ELSE 0

\* runner_io_read: a wrong descriptor, or the start of the loop
IoRead(fd, count) ==
  /\ io = "idle"
  /\ IF fd # 0
       THEN /\ ioFailed' = TRUE
            /\ reply' = [ret |-> -1, cell |-> Nothing]
            /\ UNCHANGED <<io, want, remaining, dst>>
       ELSE /\ io' = "reading" /\ want' = count /\ remaining' = count
            /\ dst' = [k \in 0..(count - 1) |-> Old]
            /\ UNCHANGED <<ioFailed, reply>>
  /\ UNCHANGED <<segIndex, segOffset>>

CopyKeepsOffset ==
  /\ io = "reading" /\ remaining > 0 /\ segIndex < Count
  /\ LET available == Size[segIndex] - segOffset
         chunk == IF available < remaining THEN available ELSE remaining
         filled == want - remaining
     IN /\ dst' = [k \in DOMAIN dst |->
                     IF k >= filled /\ k < filled + chunk
                       THEN Start[segIndex] + segOffset + (k - filled) ELSE dst[k]]
        /\ remaining' = remaining - chunk
        /\ segIndex' = IF segOffset + chunk = Size[segIndex] THEN segIndex + 1 ELSE segIndex
        /\ segOffset' = 0
  /\ UNCHANGED <<io, ioFailed, want, reply>>

CopyNeverAdvances ==
  /\ io = "reading" /\ remaining > 0 /\ segIndex < Count
  /\ LET available == Size[segIndex] - segOffset
         chunk == IF available < remaining THEN available ELSE remaining
     IN /\ remaining' = remaining - chunk
        /\ segOffset' = segOffset + chunk
  /\ UNCHANGED <<io, segIndex, ioFailed, want, dst, reply>>

\* one iteration: copy what the segment still has, and go on to the next segment
\* when this one is used up
CopySegment ==
  /\ io = "reading" /\ remaining > 0 /\ segIndex < Count
  /\ LET available == Size[segIndex] - segOffset
         chunk == IF available < remaining THEN available ELSE remaining
         filled == want - remaining
         usedUp == segOffset + chunk = Size[segIndex]
     IN /\ dst' = [k \in DOMAIN dst |->
                     IF k >= filled /\ k < filled + chunk
                       THEN Start[segIndex] + segOffset + (k - filled) ELSE dst[k]]
        /\ remaining' = remaining - chunk
        /\ segIndex' = IF usedUp THEN segIndex + 1 ELSE segIndex
        /\ segOffset' = IF usedUp THEN 0 ELSE segOffset + chunk
  /\ UNCHANGED <<io, ioFailed, want, reply>>

\* after the loop: clear the rest of the buffer, remember that, return count
ReadDone ==
  /\ io = "reading" /\ (remaining = 0 \/ segIndex = Count)
  /\ io' = "idle"
  /\ ioFailed' = (ioFailed \/ remaining # 0)
  /\ reply' = [ret |-> want,
               cell |-> [k \in DOMAIN dst |-> IF k >= want - remaining THEN Zero ELSE dst[k]]]
  /\ UNCHANGED <<segIndex, segOffset, want, remaining, dst>>

\* runner_io_write
IoWrite(fd, count) ==
  /\ io = "idle"
  /\ IF fd # 1
       THEN ioFailed' = TRUE /\ reply' = [ret |-> -1, cell |-> Nothing]
       ELSE reply' = [ret |-> count, cell |-> Nothing] /\ UNCHANGED ioFailed
  /\ UNCHANGED <<io, segIndex, segOffset, want, remaining, dst>>

\* the calls a program makes
IoCall == \E fd \in 0..2, count \in 0..MaxRead : IoRead(fd, count) \/ IoWrite(fd, count)

IoNext == IoReset \/ IoCall \/ CopySegment \/ ReadDone

-----------------------------------------------------------------------------
\* bytes delivered before the call that is running
Delivered == Start[segIndex] + segOffset - (IF io = "reading" THEN want - remaining ELSE 0)

Stream == INSTANCE InputStream WITH
            Total <- Start[Count], pos <- Delivered, failed <- ioFailed, reply <- reply

(* The segments serve as one stream (runner_io_read, runner_io_write): reads    *)
(* deliver consecutive bytes whatever segments they span, every cell of the     *)
(* buffer is written, the end is padded with zeros, and each request that could *)
(* not be met is remembered.                                                    *)
StreamSpec == Stream!Spec

(* A read in progress has copied the bytes before the current place, in order,  *)
(* and the place is inside a segment or at the end (runner_io_read).            *)
IoInv ==
  /\ io \in {"idle", "reading"} /\ ioFailed \in BOOLEAN
  /\ segIndex \in 0..Count /\ segOffset \in Nat
  /\ segIndex = Count => segOffset = 0
  /\ segIndex < Count => segOffset <= Size[segIndex]
  /\ io = "reading" =>
       /\ want \in 0..MaxRead /\ remaining \in 0..want
       /\ dst \in [0..(want - 1) -> Int]
       /\ want - remaining <= Start[segIndex] + segOffset
       /\ \A k \in 0..(want - remaining - 1) : dst[k] = Delivered + k
=============================================================================
