------------------------- MODULE OutputCaptureProofs -------------------------
(***************************************************************************)
(* Proofs about module OutputCapture, for any number of chunks, any pipe   *)
(* and any combination of faults.  What the log holds depends on what the  *)
(* pipe and the reader hold, so the invariant accounts for every chunk     *)
(* from the worker to the log.                                             *)
(***************************************************************************)
EXTENDS OutputCapture, SequenceTheorems, TLAPS

Over == {"closing", "exited"}

CaptureType ==
  /\ main \in Launching \cup ReapPath \cup StopPath
  /\ worker \in {"none", "run", "send", "handler", "finally", "closing", "exited"}
  /\ sent \in 0..MaxChunks /\ (worker = "send" => sent < MaxChunks)
  /\ pipe \in Seq(Nat)
  /\ reader \in {"none", "open", "poll", "check", "write", "drain", "drainWrite",
                 "done", "crashed", "stopped"}
  /\ got \in Nat /\ log \in Seq(Nat)

\* what the main thread's position says of the handles, the worker and the reader; the
\* last two lines say when the pipe is closed under a live worker: then nobody reads it
Reading == reader \in {"none", "open", "poll", "check", "write", "drain", "drainWrite"}

HandleInv ==
  /\ worker = "none" <=> main = "start"
  /\ reader = "none" => main \in {"start", "closeChild", "startReader", "unwind"}
  /\ main \in {"start", "closeChild", "startReader"} => reader = "none"
  /\ main \in Launching \cup {"active", "joinReader", "cleanup"} => readEnd /\ procOpen
  /\ main \in {"joinReader", "cleanup", "reaped"} => worker = "exited"
  /\ main \in {"cleanup", "reaped"} => reader \in {"done", "crashed"}
  /\ main \in {"gone", "killed"} => reader \in {"done", "crashed", "stopped"}
  /\ main \in {"start", "killed"} => ~ readEnd
  /\ (main \notin {"start", "killed"} /\ ~ procOpen) => worker = "exited"
  /\ main = "unwind" => "launch" \in cut
  /\ "launch" \in cut => main \in {"unwind", "exiting", "gone", "killed"}
  /\ ("launch" \in cut /\ ~ readEnd) => ~ Reading
  /\ QueueOutlivesWorker

\* the chunk the reader has taken and not yet written
Held == IF reader \in {"write", "drainWrite"} THEN 1 ELSE 0

\* how many whole chunks are in the pipe
Queued == sent - (Len(log) + Held)

\* from the log over the reader and the pipe to the worker no chunk is missing; behind
\* the whole chunks the pipe holds at most a torn message and then the end marker
StreamInv ==
  Reading =>
    /\ reader \in {"write", "drainWrite"} => got = Len(log) + 1
    /\ Queued >= 0 /\ Len(pipe) >= Queued /\ Len(pipe) <= Queued + 2
    /\ \A i \in 1..Queued : pipe[i] = Len(log) + Held + i
    /\ Len(pipe) = Queued + 1 => pipe[Queued + 1] \in {TORN, EOS}
    /\ Len(pipe) = Queued + 2 => pipe[Queued + 1] = TORN /\ pipe[Queued + 2] = EOS
    /\ worker \in {"none", "run"} => Len(pipe) = Queued
    /\ worker = "send" => Len(pipe) = Queued + 1
    /\ worker \notin Over => /\ Len(pipe) <= Queued + 1
                             /\ Len(pipe) = Queued + 1 => pipe[Queued + 1] = TORN

\* a reader leaves its first loop when the worker is over; one that ended, other than
\* by a failed write or by the end of the orchestrator, has written everything
EndInv ==
  /\ reader \in {"drain", "drainWrite"} => worker \in Over
  /\ reader = "done" => worker \in Over /\ Len(log) = sent
  /\ (reader = "crashed" /\ ~ diskFailed
        /\ main \in {"append", "active", "joinReader", "cleanup", "reaped"}) =>
       worker \in Over /\ Len(log) = sent

CInv == CaptureType /\ HandleInv /\ StreamInv /\ EndInv /\ LogIsPrefix

-----------------------------------------------------------------------------

(* The assumption on the constants is used throughout. *)
USE CaptureAssumption

\* The type of the state is preserved by every step.
LEMMA TypeStep ==
  ASSUME CInv, [Next]_vars
  PROVE  CaptureType'
<1>0. CaptureType /\ HandleInv
  BY DEF CInv
<1>1. CASE StartProcess \/ CloseChildEnd \/ StartReader \/ Track \/ SeeExit
  BY <1>0, <1>1 DEF StartProcess, CloseChildEnd, StartReader, Track, SeeExit, CaptureType,
       Launching, ReapPath, StopPath, mainVars, workerVars, readerVars
<1>2. CASE JoinReader \/ Cleanup \/ SendTerm \/ SendKill
  BY <1>0, <1>2 DEF JoinReader, Cleanup, SendTerm, SendKill, CaptureType, Launching, ReapPath,
       StopPath, mainVars, workerVars, readerVars
<1>3. CASE WaitAgain \/ CloseIfDead \/ InterpreterExit \/ Interrupt \/ OrchestratorDies
          \/ Unwind \/ LastReference
  BY <1>0, <1>3 DEF WaitAgain, CloseIfDead, InterpreterExit, Interrupt,
       OrchestratorDies, Unwind, LastReference, CaptureType, Launching, ReapPath, StopPath, mainVars, workerVars,
       readerVars
<1>4. CASE WriteBegin
  <2>1. TORN \in Nat
    BY DEF TORN
  <2>2. Append(pipe, TORN) \in Seq(Nat)
    BY <1>0, <2>1 DEF CaptureType
  <2>3. QED
    BY <1>0, <1>4, <2>2 DEF WriteBegin, CaptureType, mainVars, readerVars
<1>5. CASE WriteEnd
  <2>1. sent + 1 \in 0..MaxChunks
    BY <1>0, <1>5 DEF WriteEnd, CaptureType
  <2>2. [pipe EXCEPT ![Len(pipe)] = sent + 1] \in Seq(Nat)
    <3>1. pipe \in [1..Len(pipe) -> Nat] /\ Len(pipe) \in Nat /\ sent + 1 \in Nat
      BY <1>0, <2>1 DEF CaptureType
    <3>2. ASSUME NEW n \in Nat, NEW f \in [1..n -> Nat], NEW x \in Nat
          PROVE  [f EXCEPT ![n] = x] \in [1..n -> Nat]
      OBVIOUS
    <3>3. [pipe EXCEPT ![Len(pipe)] = sent + 1] \in [1..Len(pipe) -> Nat]
      BY <3>1, <3>2
    <3>4. QED
      BY <3>1, <3>3, SeqDef
  <2>3. QED
    BY <1>0, <1>5, <2>1, <2>2 DEF WriteEnd, CaptureType, mainVars, readerVars
<1>6. CASE WriteBroken \/ BodyEnds \/ WorkerExit \/ TakeTerm \/ HandlerDone \/ TakeKill \/ OutsideKill
  BY <1>0, <1>6 DEF WriteBroken, BodyEnds, WorkerExit, TakeTerm, HandlerDone, TakeKill,
       OutsideKill, CaptureType, Launching, ReapPath, StopPath, mainVars, workerVars, readerVars
<1>7. CASE SendEnd
  <2>1. Append(pipe, EOS) \in Seq(Nat)
    BY <1>0 DEF CaptureType, EOS
  <2>2. pipe' \in Seq(Nat)
    BY <1>0, <1>7, <2>1 DEF SendEnd, CaptureType
  <2>3. QED
    BY <1>0, <1>7, <2>2 DEF SendEnd, CaptureType, mainVars, readerVars
<1>8. CASE Receive
  <2>1. Tail(pipe) \in Seq(Nat) /\ Head(pipe) \in Nat
    BY <1>0, <1>8 DEF Receive, CaptureType
  <2>2. QED
    BY <1>0, <1>8, <2>1 DEF Receive, CaptureType, mainVars, workerVars
<1>9. CASE WriteLog
  <2>1. Append(log, got) \in Seq(Nat)
    BY <1>0 DEF CaptureType
  <2>2. QED
    BY <1>0, <1>9, <2>1 DEF WriteLog, CaptureType, mainVars, workerVars
<1>10. CASE OpenLog \/ ReceiveTorn \/ ReceiveEof \/ PollTimeout \/ CheckExit \/ WriteFails \/ DrainEmpty \/ ReadClosed
  BY <1>0, <1>10 DEF OpenLog, ReceiveTorn, ReceiveEof, PollTimeout, CheckExit,
       WriteFails, DrainEmpty, ReadClosed, CaptureType, Launching, ReapPath, StopPath, mainVars,
       workerVars, readerVars
<1>11. CASE UNCHANGED vars
  BY <1>0, <1>11 DEF vars, CaptureType
<1>12. QED
  BY <1>1, <1>2, <1>3, <1>4, <1>5, <1>6, <1>7, <1>8, <1>9, <1>10, <1>11
     DEF Next, MainStep, Launch, Reap, Stop, WorkerStep, TakeSignal, ReaderStep, Finished

\* The handles, the worker and the reader stay in step with the main thread.
LEMMA HandleStep ==
  ASSUME CInv, [Next]_vars
  PROVE  HandleInv'
<1>0. CaptureType /\ HandleInv
  BY DEF CInv
<1>1. CASE StartProcess
  BY <1>0, <1>1 DEF StartProcess, CaptureType, HandleInv, QueueOutlivesWorker, Reading, Launching, ReapPath,
       StopPath, Alive, mainVars, workerVars, readerVars
<1>2. CASE CloseChildEnd
  BY <1>0, <1>2 DEF CloseChildEnd, CaptureType, HandleInv, QueueOutlivesWorker, Reading,
       Launching, ReapPath, StopPath, Alive, mainVars, workerVars, readerVars
<1>3. CASE StartReader
  BY <1>0, <1>3 DEF StartReader, CaptureType, HandleInv, QueueOutlivesWorker, Reading, Launching, ReapPath,
       StopPath, Alive, mainVars, workerVars, readerVars
<1>3a. CASE Track
  BY <1>0, <1>3a DEF Track, CaptureType, HandleInv, QueueOutlivesWorker, Reading, Launching,
       ReapPath, StopPath, Alive, mainVars, workerVars, readerVars
<1>4. CASE SeeExit
  BY <1>0, <1>4 DEF SeeExit, CaptureType, HandleInv, QueueOutlivesWorker, Reading, Launching, ReapPath,
       StopPath, Alive, mainVars, workerVars, readerVars
<1>5. CASE JoinReader
  BY <1>0, <1>5 DEF JoinReader, CaptureType, HandleInv, QueueOutlivesWorker, Reading, Launching, ReapPath,
       StopPath, Alive, mainVars, workerVars, readerVars
<1>6. CASE Cleanup
  BY <1>0, <1>6 DEF Cleanup, CaptureType, HandleInv, QueueOutlivesWorker, Reading, Launching, ReapPath,
       StopPath, Alive, mainVars, workerVars, readerVars
<1>7. CASE SendTerm
  BY <1>0, <1>7 DEF SendTerm, CaptureType, HandleInv, QueueOutlivesWorker, Reading, Launching, ReapPath,
       StopPath, Alive, mainVars, workerVars, readerVars
<1>8. CASE SendKill
  BY <1>0, <1>8 DEF SendKill, CaptureType, HandleInv, QueueOutlivesWorker, Reading, Launching, ReapPath,
       StopPath, Alive, mainVars, workerVars, readerVars
<1>9. CASE WaitAgain
  BY <1>0, <1>9 DEF WaitAgain, CaptureType, HandleInv, QueueOutlivesWorker, Reading, Launching, ReapPath,
       StopPath, Alive, mainVars, workerVars, readerVars
<1>10. CASE CloseIfDead
  BY <1>0, <1>10 DEF CloseIfDead, CaptureType, HandleInv, QueueOutlivesWorker, Reading, Launching, ReapPath,
       StopPath, Alive, mainVars, workerVars, readerVars
<1>11. CASE InterpreterExit
  BY <1>0, <1>11 DEF InterpreterExit, CaptureType, HandleInv, QueueOutlivesWorker, Reading,
       Launching, ReapPath, StopPath, Alive, mainVars, workerVars, readerVars
<1>12. CASE Interrupt
  BY <1>0, <1>12 DEF Interrupt, CaptureType, HandleInv, QueueOutlivesWorker, Reading, Launching, ReapPath,
       StopPath, Alive, mainVars, workerVars, readerVars
<1>12a. CASE Unwind
  BY <1>0, <1>12a DEF Unwind, CaptureType, HandleInv, QueueOutlivesWorker, Reading, Launching,
       ReapPath, StopPath, Alive, mainVars, workerVars, readerVars
<1>12b. CASE LastReference
  BY <1>0, <1>12b DEF LastReference, CaptureType, HandleInv, QueueOutlivesWorker, Reading,
       Launching, ReapPath, StopPath, Alive, mainVars, workerVars, readerVars
<1>13. CASE OrchestratorDies
  BY <1>0, <1>13 DEF OrchestratorDies, CaptureType, HandleInv, QueueOutlivesWorker, Reading,
       Launching, ReapPath, StopPath, Alive, mainVars, workerVars, readerVars
<1>14. CASE WriteBegin \/ WriteEnd \/ WriteBroken \/ BodyEnds \/ SendEnd
  BY <1>0, <1>14 DEF WriteBegin, WriteEnd, WriteBroken, BodyEnds, SendEnd, CaptureType,
       HandleInv, QueueOutlivesWorker, Reading, Launching, ReapPath, StopPath, Alive, mainVars, workerVars,
       readerVars
<1>15. CASE WorkerExit \/ TakeTerm \/ HandlerDone \/ TakeKill \/ OutsideKill
  BY <1>0, <1>15 DEF WorkerExit, TakeTerm, HandlerDone, TakeKill, OutsideKill,
       CaptureType, HandleInv, QueueOutlivesWorker, Reading, Launching, ReapPath, StopPath, Alive, mainVars,
       workerVars, readerVars
<1>16. CASE OpenLog \/ Receive \/ ReceiveTorn \/ ReceiveEof \/ PollTimeout
  BY <1>0, <1>16 DEF OpenLog, Receive, ReceiveTorn, ReceiveEof, PollTimeout,
       CaptureType, HandleInv, QueueOutlivesWorker, Reading, Launching, ReapPath, StopPath, Alive, mainVars,
       workerVars, readerVars
<1>17. CASE CheckExit \/ WriteLog \/ WriteFails \/ DrainEmpty \/ ReadClosed
  BY <1>0, <1>17 DEF CheckExit, WriteLog, WriteFails, DrainEmpty, ReadClosed,
       CaptureType, HandleInv, QueueOutlivesWorker, Reading, Launching, ReapPath, StopPath, Alive, mainVars,
       workerVars, readerVars
<1>18. CASE UNCHANGED vars
  BY <1>0, <1>18 DEF vars, HandleInv, QueueOutlivesWorker, Reading, Launching
<1>19. QED
  BY <1>1, <1>2, <1>3, <1>3a, <1>4, <1>5, <1>6, <1>7, <1>8, <1>9, <1>10, <1>11, <1>12, <1>12a, <1>12b, <1>13,
       <1>14, <1>15, <1>16, <1>17, <1>18
     DEF Next, MainStep, Launch, Reap, Stop, WorkerStep, TakeSignal, ReaderStep, Finished

\* No step of the main thread, the worker or the reader loses, repeats or reorders a
\* chunk between the worker and the log.
LEMMA StreamStep ==
  ASSUME CInv, [Next]_vars
  PROVE  StreamInv'
<1>0. CaptureType /\ HandleInv /\ StreamInv /\ EndInv
  BY DEF CInv
<1>a. MaxChunks \in Nat /\ TORN = MaxChunks + 1 /\ EOS = 0 /\ sent \in Nat /\ sent <= MaxChunks
      /\ Len(pipe) \in Nat /\ Len(log) \in Nat
  BY <1>0 DEF CaptureType, TORN, EOS
<1>1. CASE StartProcess \/ CloseChildEnd \/ StartReader \/ Track \/ SeeExit \/ JoinReader \/ Cleanup
  BY <1>0, <1>1 DEF StartProcess, CloseChildEnd, StartReader, Track, SeeExit, JoinReader,
       Cleanup, HandleInv, StreamInv, Reading, Held, Queued, Over, workerVars, readerVars
<1>2. CASE SendTerm \/ SendKill \/ WaitAgain \/ CloseIfDead \/ Interrupt \/ LastReference
  BY <1>0, <1>2 DEF SendTerm, SendKill, WaitAgain, CloseIfDead, Interrupt, LastReference, StreamInv,
       Reading, Held, Queued, Over, workerVars, readerVars
<1>3. CASE InterpreterExit \/ OrchestratorDies \/ Unwind
  BY <1>0, <1>3 DEF InterpreterExit, OrchestratorDies, Unwind, StreamInv, Reading, Held, Queued,
       Over, workerVars
<1>4. CASE WriteBegin
  <2>1. SUFFICES ASSUME Reading PROVE StreamInv'
    BY <1>4 DEF WriteBegin, StreamInv, Reading, readerVars
  <2>2. UNCHANGED <<sent, reader, got, log>> /\ worker' = "send" /\ pipe' = Append(pipe, TORN)
    BY <1>4 DEF WriteBegin, readerVars
  <2>3. Held' = Held /\ Queued' = Queued /\ Held \in {0, 1}
    BY <2>2 DEF Held, Queued
  <2>4. Len(pipe) = Queued
    BY <1>0, <1>4, <2>1 DEF WriteBegin, StreamInv
  <2>5. Len(pipe') = Len(pipe) + 1 /\ pipe'[Len(pipe) + 1] = TORN
        /\ \A i \in 1..Len(pipe) : pipe'[i] = pipe[i]
    BY <1>0, <2>2 DEF CaptureType
  <2>6. \A i \in 1..Queued : pipe'[i] = Len(log) + Held + i
    BY <1>0, <2>1, <2>4, <2>5 DEF StreamInv
  <2>7. QED
    BY <1>0, <1>a, <2>1, <2>2, <2>3, <2>4, <2>5, <2>6 DEF StreamInv, Over
<1>5. CASE WriteEnd
  <2>1. SUFFICES ASSUME Reading PROVE StreamInv'
    BY <1>5 DEF WriteEnd, StreamInv, Reading, readerVars
  <2>2. UNCHANGED <<reader, got, log>> /\ sent' = sent + 1 /\ worker' = "run"
        /\ pipe' = [pipe EXCEPT ![Len(pipe)] = sent + 1]
    BY <1>5 DEF WriteEnd, readerVars
  <2>3. Held' = Held /\ Queued' = Queued + 1 /\ Held \in {0, 1}
    BY <1>a, <2>2 DEF Held, Queued
  <2>4. Len(pipe) = Queued + 1 /\ Queued >= 0
    BY <1>0, <1>5, <2>1 DEF WriteEnd, StreamInv
  <2>5. Len(pipe') = Len(pipe) /\ pipe'[Len(pipe)] = sent + 1
        /\ \A i \in 1..Len(pipe) : i # Len(pipe) => pipe'[i] = pipe[i]
    BY <1>0, <1>a, <2>2, <2>3, <2>4 DEF CaptureType, Queued
  <2>6. \A i \in 1..(Queued + 1) : pipe'[i] = Len(log) + Held + i
    <3>1. TAKE i \in 1..(Queued + 1)
    <3>2. CASE i = Queued + 1
      BY <1>a, <2>3, <2>4, <2>5, <3>2 DEF Queued
    <3>3. CASE i # Queued + 1
      <4>1. i \in 1..Queued
        BY <1>a, <2>3, <2>4, <3>3 DEF Queued
      <4>2. QED
        BY <1>0, <2>1, <2>4, <2>5, <3>3, <4>1 DEF StreamInv
    <3>4. QED
      BY <3>2, <3>3
  <2>7. QED
    BY <1>0, <1>a, <2>1, <2>2, <2>3, <2>4, <2>5, <2>6 DEF StreamInv, Over, Queued
<1>6. CASE WriteBroken
  <2>1. ~ Reading
    BY <1>0, <1>6 DEF WriteBroken, HandleInv, QueueOutlivesWorker, Reading, CaptureType
  <2>2. QED
    BY <1>6, <2>1 DEF WriteBroken, StreamInv, Reading, readerVars
<1>7. CASE BodyEnds \/ WorkerExit \/ HandlerDone
  <2>1. UNCHANGED <<sent, pipe, reader, got, log>> /\ worker' # "none" /\ worker' # "run" /\ worker' # "send"
    BY <1>7 DEF BodyEnds, WorkerExit, HandlerDone, readerVars
  <2>2. worker \in Over <=> worker' \in Over
    BY <1>7 DEF BodyEnds, WorkerExit, HandlerDone, Over
  <2>3. QED
    BY <1>0, <2>1, <2>2 DEF StreamInv, Reading, Held, Queued
<1>8. CASE SendEnd
  <2>1. SUFFICES ASSUME Reading PROVE StreamInv'
    BY <1>8 DEF SendEnd, StreamInv, Reading, readerVars
  <2>2. UNCHANGED <<sent, reader, got, log>> /\ worker' = "closing" /\ worker = "finally"
    BY <1>8 DEF SendEnd, readerVars
  <2>3. Held' = Held /\ Queued' = Queued /\ Held \in {0, 1} /\ Queued \in Int
    BY <1>a, <2>2 DEF Held, Queued
  <2>4. Queued >= 0 /\ Len(pipe) >= Queued /\ Len(pipe) <= Queued + 1
        /\ (Len(pipe) = Queued + 1 => pipe[Queued + 1] = TORN)
        /\ \A i \in 1..Queued : pipe[i] = Len(log) + Held + i
    BY <1>0, <2>1, <2>2 DEF StreamInv, Over
  <2>5. readEnd /\ pipe' = Append(pipe, EOS)
    BY <1>0, <1>8, <2>1 DEF SendEnd, HandleInv, QueueOutlivesWorker, Reading
  <2>6. Len(pipe') = Len(pipe) + 1 /\ pipe'[Len(pipe) + 1] = EOS
        /\ \A i \in 1..Len(pipe) : pipe'[i] = pipe[i]
    BY <1>0, <2>5 DEF CaptureType, EOS
  <2>7. \A i \in 1..Queued : pipe'[i] = Len(log) + Held + i
    BY <1>a, <2>3, <2>4, <2>6
  <2>8. CASE Len(pipe) = Queued
    BY <1>0, <1>a, <2>1, <2>2, <2>3, <2>4, <2>6, <2>7, <2>8 DEF StreamInv, Over
  <2>9. CASE Len(pipe) = Queued + 1
    <3>1. pipe'[Queued + 1] = TORN /\ pipe'[Queued + 2] = EOS /\ Len(pipe') = Queued + 2
      BY <1>a, <2>3, <2>4, <2>6, <2>9
    <3>2. QED
      BY <1>0, <1>a, <2>1, <2>2, <2>3, <2>4, <2>7, <2>9, <3>1 DEF StreamInv, Over
  <2>10. QED
    BY <1>a, <2>3, <2>4, <2>8, <2>9
<1>9. CASE TakeTerm \/ TakeKill \/ OutsideKill
  <2>1. UNCHANGED <<sent, pipe, reader, got, log>>
    BY <1>9 DEF TakeTerm, TakeKill, OutsideKill, readerVars
  <2>2. worker' = "exited" \/ (worker' = "handler" /\ worker \in {"run", "send"})
    BY <1>9 DEF TakeTerm, TakeKill, OutsideKill
  <2>3. QED
    BY <1>0, <2>1, <2>2 DEF StreamInv, Reading, Held, Queued, Over
<1>10. CASE OpenLog \/ ReceiveTorn \/ ReceiveEof \/ PollTimeout \/ CheckExit \/ WriteFails \/ DrainEmpty \/ ReadClosed
  <2>1. UNCHANGED <<sent, pipe, got, log, worker>>
    BY <1>10 DEF OpenLog, ReceiveTorn, ReceiveEof, PollTimeout, CheckExit, WriteFails,
         DrainEmpty, ReadClosed, workerVars
  <2>2. Reading' => Reading /\ Held' = 0 /\ Held = 0 /\ reader' \notin {"write", "drainWrite"}
    BY <1>10 DEF OpenLog, ReceiveTorn, ReceiveEof, PollTimeout, CheckExit, WriteFails,
         DrainEmpty, ReadClosed, Reading, Held
  <2>3. Reading' => Queued' = Queued
    BY <2>1, <2>2 DEF Queued
  <2>4. QED
    BY <1>0, <2>1, <2>2, <2>3 DEF StreamInv
<1>11. CASE Receive
  <2>1. /\ UNCHANGED <<sent, worker, log>> /\ reader \in {"poll", "drain"} /\ pipe' = Tail(pipe)
        /\ pipe # << >> /\ Head(pipe) # TORN
    BY <1>11 DEF Receive, workerVars
  <2>2. Reading /\ Held = 0 /\ Queued = sent - Len(log) /\ Queued \in Int
    BY <1>a, <2>1 DEF Reading, Held, Queued
  <2>3. Len(pipe) > 0 /\ Head(pipe) = pipe[1] /\ Len(pipe') = Len(pipe) - 1
        /\ \A i \in 1..(Len(pipe) - 1) : pipe'[i] = pipe[i + 1]
    BY <1>0, <2>1 DEF CaptureType
  <2>4. /\ Queued >= 0 /\ Len(pipe) >= Queued /\ Len(pipe) <= Queued + 2
        /\ \A i \in 1..Queued : pipe[i] = Len(log) + i
        /\ Len(pipe) = Queued + 1 => pipe[Queued + 1] \in {TORN, EOS}
        /\ Len(pipe) = Queued + 2 => pipe[Queued + 1] = TORN /\ pipe[Queued + 2] = EOS
        /\ worker \in {"none", "run"} => Len(pipe) = Queued
        /\ worker = "send" => Len(pipe) = Queued + 1
        /\ worker \notin Over => /\ Len(pipe) <= Queued + 1
                                 /\ Len(pipe) = Queued + 1 => pipe[Queued + 1] = TORN
    BY <1>0, <1>a, <2>2 DEF StreamInv
  <2>5. CASE Head(pipe) = EOS
    <3>1. reader' = "drain" /\ got' = got
      BY <1>11, <2>5 DEF Receive
    <3>2. Reading' /\ Held' = 0 /\ Queued' = Queued
      BY <2>1, <2>2, <3>1 DEF Reading, Held, Queued
    <3>3. Queued = 0
      <4>1. Queued > 0 => pipe[1] = Len(log) + 1
        BY <2>2, <2>4
      <4>2. QED
        BY <1>a, <2>2, <2>3, <2>4, <2>5, <4>1
    <3>4. Len(pipe) = 1 /\ worker \in Over
      BY <1>a, <2>1, <2>3, <2>4, <2>5, <3>3
    <3>5. Len(pipe') = 0
      BY <2>3, <3>4
    <3>6. worker' \notin {"none", "run", "send"} /\ worker' \in Over
      BY <2>1, <3>4 DEF Over
    <3>7. QED
      BY <1>a, <3>1, <3>2, <3>3, <3>5, <3>6 DEF StreamInv
  <2>6. CASE Head(pipe) # EOS
    <3>1. reader' \in {"write", "drainWrite"} /\ got' = pipe[1]
      BY <1>11, <2>1, <2>3, <2>6 DEF Receive
    <3>2. Held' = 1 /\ Queued' = Queued - 1
      BY <1>a, <2>1, <2>2, <3>1 DEF Held, Queued
    <3>3. Queued > 0
      BY <1>a, <2>1, <2>2, <2>3, <2>4, <2>6
    <3>4. got' = Len(log) + 1
      BY <2>2, <2>4, <3>1, <3>3
    <3>5. \A i \in 1..(Queued - 1) : pipe'[i] = Len(log) + 1 + i
      <4>1. TAKE i \in 1..(Queued - 1)
      <4>2. i \in 1..(Len(pipe) - 1) /\ i + 1 \in 1..Queued
        BY <1>a, <2>2, <2>4
      <4>3. pipe'[i] = pipe[i + 1] /\ pipe[i + 1] = Len(log) + (i + 1)
        BY <2>3, <2>4, <4>2
      <4>4. QED
        BY <1>a, <4>2, <4>3
    <3>6. Len(pipe) >= Queued + 1 => pipe'[Queued] = pipe[Queued + 1]
      BY <1>a, <2>2, <2>3, <3>3
    <3>7. Len(pipe) >= Queued + 2 => pipe'[Queued + 1] = pipe[Queued + 2]
      BY <1>a, <2>2, <2>3, <3>3
    <3>8. QED
      BY <1>a, <2>1, <2>2, <2>3, <2>4, <3>1, <3>2, <3>3, <3>4, <3>5, <3>6, <3>7 DEF StreamInv
  <2>7. QED
    BY <2>5, <2>6
<1>12. CASE WriteLog
  <2>1. UNCHANGED <<sent, worker, pipe>> /\ log' = Append(log, got) /\ Held = 1 /\ Held' = 0 /\ Reading
        /\ reader' \notin {"write", "drainWrite"} /\ got' = got
    BY <1>12 DEF WriteLog, workerVars, Held, Reading
  <2>2. Len(log') = Len(log) + 1
    BY <1>0, <2>1 DEF CaptureType
  <2>3. Queued' = Queued /\ Len(log') + Held' = Len(log) + Held
    BY <1>a, <2>1, <2>2 DEF Queued
  <2>4. QED
    BY <1>0, <2>1, <2>3 DEF StreamInv
<1>13. CASE UNCHANGED vars
  BY <1>0, <1>13 DEF vars, StreamInv, Reading, Held, Queued, Over
<1>14. QED
  BY <1>1, <1>2, <1>3, <1>4, <1>5, <1>6, <1>7, <1>8, <1>9, <1>10, <1>11, <1>12, <1>13
     DEF Next, MainStep, Launch, Reap, Stop, WorkerStep, TakeSignal, ReaderStep, Finished

\* When the reader ends by itself the worker is over and the log is complete.
LEMMA EndStep ==
  ASSUME CInv, [Next]_vars
  PROVE  EndInv'
<1>0. CaptureType /\ HandleInv /\ StreamInv /\ EndInv
  BY DEF CInv
<1>a. MaxChunks \in Nat /\ TORN = MaxChunks + 1 /\ EOS = 0 /\ sent \in Nat /\ sent <= MaxChunks
      /\ Len(pipe) \in Nat /\ Len(log) \in Nat
  BY <1>0 DEF CaptureType, TORN, EOS
<1>1. CASE StartProcess \/ CloseChildEnd \/ StartReader \/ Track \/ SeeExit \/ JoinReader \/ Cleanup
  BY <1>0, <1>1 DEF StartProcess, CloseChildEnd, StartReader, Track, SeeExit, JoinReader,
       Cleanup, HandleInv, EndInv, Over, workerVars, readerVars
<1>2. CASE SendTerm \/ SendKill \/ WaitAgain \/ CloseIfDead \/ Interrupt \/ InterpreterExit \/ OrchestratorDies
          \/ Unwind \/ LastReference
  BY <1>0, <1>2 DEF SendTerm, SendKill, WaitAgain, CloseIfDead, Interrupt,
       InterpreterExit, OrchestratorDies, Unwind, LastReference, HandleInv, EndInv, Over, workerVars, readerVars
<1>3. CASE WriteBegin \/ WriteEnd \/ WriteBroken \/ BodyEnds \/ SendEnd \/ WorkerExit
  BY <1>0, <1>3 DEF WriteBegin, WriteEnd, WriteBroken, BodyEnds, SendEnd, WorkerExit,
       EndInv, Over, mainVars, readerVars
<1>4. CASE TakeTerm \/ HandlerDone \/ TakeKill \/ OutsideKill
  BY <1>0, <1>4 DEF TakeTerm, HandlerDone, TakeKill, OutsideKill, EndInv, Over, mainVars,
       readerVars
<1>5. CASE OpenLog \/ PollTimeout \/ WriteFails \/ WriteLog
  BY <1>0, <1>5 DEF OpenLog, PollTimeout, WriteFails, WriteLog, EndInv, Over, mainVars,
       workerVars
<1>6. CASE Receive
  <2>1. /\ UNCHANGED <<sent, worker, log, main, diskFailed>>
        /\ reader \in {"poll", "drain"} /\ pipe # << >>
        /\ reader' \in {"write", "drain", "drainWrite"}
        /\ reader' = "drainWrite" => reader = "drain"
        /\ reader' = "drain" => Head(pipe) = EOS
    BY <1>6 DEF Receive, workerVars, mainVars
  <2>2. ASSUME Head(pipe) = EOS PROVE worker \in Over
    <3>1. Reading /\ Held = 0 /\ Queued = sent - Len(log) /\ Queued \in Int
      BY <1>a, <2>1 DEF Reading, Held, Queued
    <3>2. Len(pipe) > 0 /\ pipe[1] = EOS
      BY <1>0, <2>1, <2>2 DEF CaptureType
    <3>3. Queued > 0 => pipe[1] = Len(log) + 1
      BY <1>0, <1>a, <3>1 DEF StreamInv
    <3>4. Queued = 0
      BY <1>0, <1>a, <3>1, <3>2, <3>3 DEF StreamInv
    <3>5. QED
      BY <1>0, <1>a, <3>1, <3>2, <3>4 DEF StreamInv
  <2>3. QED
    BY <1>0, <2>1, <2>2 DEF EndInv
<1>7. CASE ReceiveTorn
  <2>1. /\ UNCHANGED <<sent, worker, log, main, diskFailed>> /\ reader' = "crashed"
        /\ reader \in {"poll", "drain"} /\ pipe # << >> /\ Head(pipe) = TORN
        /\ ~ Writers \/ Len(pipe) > 1
    BY <1>7 DEF ReceiveTorn, workerVars, mainVars
  <2>2. Reading /\ Held = 0 /\ Queued = sent - Len(log) /\ Queued \in Int
    BY <1>a, <2>1 DEF Reading, Held, Queued
  <2>3. Len(pipe) > 0 /\ pipe[1] = TORN
    BY <1>0, <2>1 DEF CaptureType
  <2>4. Queued = 0
    <3>1. Queued > 0 => pipe[1] = Len(log) + 1
      BY <1>0, <1>a, <2>2 DEF StreamInv
    <3>2. QED
      BY <1>0, <1>a, <2>2, <2>3, <3>1 DEF StreamInv
  <2>5. Len(log) = sent
    BY <1>a, <2>2, <2>4
  <2>6. worker \in Over
    <3>1. Len(pipe) > 1 => worker \in Over
      BY <1>0, <1>a, <2>2, <2>4 DEF StreamInv
    <3>2. ~ Writers => worker \in {"none", "exited"}
      BY DEF Writers, Alive
    <3>3. worker # "none"
      BY <1>0, <2>1 DEF HandleInv
    <3>4. QED
      BY <2>1, <3>1, <3>2, <3>3 DEF Over
  <2>7. QED
    BY <2>1, <2>5, <2>6 DEF EndInv
<1>8. CASE ReceiveEof
  <2>1. worker \in Over
    BY <1>0, <1>8 DEF ReceiveEof, Writers, Alive, HandleInv, Over
  <2>2. QED
    BY <1>0, <1>8, <2>1 DEF ReceiveEof, EndInv, mainVars, workerVars
<1>9. CASE CheckExit
  <2>1. main \in {"append", "active", "joinReader", "cleanup", "reaped"} => procOpen
    BY <1>0, <1>9 DEF CheckExit, HandleInv, Launching
  <2>2. QED
    BY <1>0, <1>9, <2>1 DEF CheckExit, EndInv, Over, mainVars, workerVars
<1>10. CASE DrainEmpty
  <2>1. Reading /\ Held = 0 /\ Queued = sent - Len(log) /\ Len(pipe) = 0
    BY <1>10 DEF DrainEmpty, Reading, Held, Queued
  <2>2. Len(log) = sent
    BY <1>0, <1>a, <2>1 DEF StreamInv
  <2>3. QED
    BY <1>0, <1>10, <2>2 DEF DrainEmpty, EndInv, mainVars, workerVars
<1>11. CASE ReadClosed
  <2>1. main \notin {"append", "active", "joinReader", "cleanup", "reaped"}
    BY <1>0, <1>11 DEF ReadClosed, HandleInv, Launching
  <2>2. QED
    BY <1>0, <1>11, <2>1 DEF ReadClosed, EndInv, mainVars, workerVars
<1>12. CASE UNCHANGED vars
  BY <1>0, <1>12 DEF vars, EndInv
<1>13. QED
  BY <1>1, <1>2, <1>3, <1>4, <1>5, <1>6, <1>7, <1>8, <1>9, <1>10, <1>11, <1>12
     DEF Next, MainStep, Launch, Reap, Stop, WorkerStep, TakeSignal, ReaderStep, Finished

\* The log grows by the next chunk only.
LEMMA PrefixStep ==
  ASSUME CInv, [Next]_vars
  PROVE  LogIsPrefix'
<1>0. CaptureType /\ StreamInv /\ LogIsPrefix
  BY DEF CInv
<1>1. CASE WriteLog
  <2>1. log' = Append(log, got) /\ got = Len(log) + 1
    BY <1>0, <1>1 DEF WriteLog, StreamInv, Reading
  <2>2. Len(log) \in Nat /\ Len(log') = Len(log) + 1 /\ log'[Len(log) + 1] = got
        /\ \A i \in 1..Len(log) : log'[i] = log[i]
    BY <1>0, <2>1 DEF CaptureType
  <2>3. QED
    BY <1>0, <2>1, <2>2 DEF LogIsPrefix
<1>2. CASE UNCHANGED log
  BY <1>0, <1>2 DEF LogIsPrefix
<1>3. CASE ~ WriteLog
  <2>1. UNCHANGED log
    BY <1>3 DEF Next, MainStep, Launch, Reap, Stop, WorkerStep, TakeSignal, ReaderStep, Finished,
      StartProcess, CloseChildEnd, StartReader, Track, SeeExit, JoinReader, Cleanup, SendTerm,
      SendKill, WaitAgain, CloseIfDead, InterpreterExit, Interrupt, Unwind, LastReference,
      OrchestratorDies, WriteBegin, WriteEnd, WriteBroken, BodyEnds, SendEnd, WorkerExit, TakeTerm, HandlerDone,
      TakeKill, OutsideKill, OpenLog, Receive, ReceiveTorn, ReceiveEof, PollTimeout, CheckExit,
      WriteFails, DrainEmpty, ReadClosed, readerVars, vars
  <2>2. QED
    BY <1>2, <2>1
<1>4. QED
  BY <1>1, <1>3

\* The invariant holds initially.
LEMMA InitInv == Init => CInv
<1>1. SUFFICES ASSUME Init PROVE CInv
  OBVIOUS
<1>2. Len(pipe) = 0 /\ Len(log) = 0 /\ sent = 0 /\ reader = "none"
  BY <1>1 DEF Init
<1>3. CaptureType
  BY <1>1 DEF Init, CaptureType, Launching, ReapPath, StopPath, EOS
<1>4. HandleInv
  BY <1>1 DEF Init, HandleInv, QueueOutlivesWorker, Launching
<1>5. StreamInv
  <2>1. Held = 0 /\ Queued = 0
    <3>1. Held = 0
      BY <1>2 DEF Held
    <3>2. QED
      BY <1>2, <3>1 DEF Queued
  <2>2. QED
    <3>1. worker \notin {"run", "send"} /\ reader \notin {"write", "drainWrite"}
      BY <1>1 DEF Init
    <3>2. QED
      BY <1>2, <2>1, <3>1 DEF StreamInv
<1>6. EndInv /\ LogIsPrefix
  BY <1>2 DEF EndInv, LogIsPrefix
<1>7. QED
  BY <1>3, <1>4, <1>5, <1>6 DEF CInv

\* Every step preserves the invariant.
LEMMA NextInv == CInv /\ [Next]_vars => CInv'
  BY TypeStep, HandleStep, StreamStep, EndStep, PrefixStep DEF CInv

\* The accounting of chunks holds in every reachable state, for any number of chunks,
\* any pipe capacity and any faults.
THEOREM CaptureInvariant == Spec => []CInv
  BY InitInv, NextInv, PTL DEF Spec

\* The log file is always the printed text up to some point: no chunk is missing,
\* repeated or out of order, whatever is killed, interrupted or fails.
THEOREM CapturePrefix == Spec => []LogIsPrefix
<1>1. CInv => LogIsPrefix
  BY DEF CInv
<1>2. QED
  BY <1>1, CaptureInvariant, PTL

\* When reap_finished has collected a worker, also one that was killed in the middle
\* of a message, its log holds everything it finished printing, unless the log itself
\* could not be written.
THEOREM CaptureComplete == Spec => []NothingLost
<1>1. CInv => NothingLost
  BY DEF CInv, HandleInv, EndInv, NothingLost
<1>2. QED
  BY <1>1, CaptureInvariant, PTL

\* Neither reaping, nor terminate_processes, nor the interpreter's exit closes the
\* pipe before the worker is dead, unless a signal cut the worker's launch or the exit
\* itself short.
THEOREM CaptureQueue == Spec => []QueueOutlivesWorker
<1>1. CInv => QueueOutlivesWorker
  BY DEF CInv, HandleInv
<1>2. QED
  BY <1>1, CaptureInvariant, PTL
=============================================================================
