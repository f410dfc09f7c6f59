---------------------------- MODULE OutputCapture ----------------------------
(***************************************************************************)
(* One captured worker of scripts/experiments/common.py: the spawned       *)
(* process, the one-way pipe that carries its printed text, the daemon     *)
(* thread that copies the pipe into the worker's log, and the part of the  *)
(* orchestrator's main thread that launches, reaps or stops it.            *)
(*                                                                         *)
(* A message is a chunk of text, numbered in the order it is printed, or   *)
(* the end marker (None in the code).  A message is put into the pipe in   *)
(* two steps, so a worker that dies between them leaves a torn one.        *)
(***************************************************************************)
EXTENDS Naturals, Sequences

CONSTANTS
  MaxChunks,    \* bound: how many chunks the worker prints
  PipeCap,      \* bound: how many messages fit in the pipe
  MaxSignals,   \* bound: how many SIGINT and SIGTERM the orchestrator receives
  Faults        \* what may go wrong: a subset of FaultKinds

FaultKinds == {"kill", "disk", "interrupt", "orphan"}

ASSUME CaptureAssumption ==
  /\ MaxChunks \in Nat
  /\ PipeCap \in Nat \ {0}
  /\ MaxSignals \in Nat
  /\ Faults \subseteq FaultKinds

Chunk == 1..MaxChunks
EOS   == 0                 \* the None that ends the stream
TORN  == MaxChunks + 1     \* a message whose last bytes have not been written

VARIABLES
  main,        \* where the orchestrator's main thread is
  parentEnd,   \* the orchestrator still holds its copy of the write end
  readEnd,     \* the read end is open
  procOpen,    \* the Process object has not been closed
  taken,       \* signals the orchestrator has received
  cut,         \* what a signal has cut short: the "launch", the interpreter's "exit"
  handlesTerm, \* the worker installs its own SIGTERM handler (fallback modules do)
  worker,      \* where the worker process is
  how,         \* how the worker ended: "-", "normal" or "signal"
  sent,        \* chunks the worker has finished printing
  pipe,        \* messages in the pipe
  signals,     \* signals sent to the worker and not yet taken
  reader,      \* where the reader thread is
  got,         \* the chunk the reader holds
  log,         \* the chunks in the log file
  diskFailed   \* a write to the log failed

mainVars   == <<main, parentEnd, readEnd, procOpen, taken, cut>>
workerVars == <<handlesTerm, worker, how, sent>>
readerVars == <<reader, got, log, diskFailed>>
vars == <<main, parentEnd, readEnd, procOpen, taken, cut, handlesTerm, worker, how, sent, pipe,
          signals, reader, got, log, diskFailed>>

\* inside the launch, with the process started and not yet in the list of runs
Launching == {"closeChild", "startReader", "append"}
ReapPath  == {"start", "active", "joinReader", "cleanup", "reaped"}
StopPath  == {"term1", "term2", "term3", "term4", "unwind", "exiting", "gone", "killed"}

Alive   == worker \notin {"none", "exited"}
Writers == parentEnd \/ Alive

Init ==
  /\ main = "start" /\ parentEnd = FALSE /\ readEnd = FALSE /\ procOpen = FALSE
  /\ taken = 0 /\ cut = {}
  /\ handlesTerm \in BOOLEAN /\ worker = "none" /\ how = "-" /\ sent = 0
  /\ pipe = << >> /\ signals = {}
  /\ reader = "none" /\ got = EOS /\ log = << >> /\ diskFailed = FALSE

-----------------------------------------------------------------------------
(* The main thread: launch_output_captured_process / launch_prefixed_module *)

\* Pipe() and process.start()
StartProcess ==
  /\ main = "start"
  /\ main' = "closeChild"
  /\ parentEnd' = TRUE /\ readEnd' = TRUE /\ procOpen' = TRUE
  /\ worker' = "run"
  /\ UNCHANGED <<taken, cut, handlesTerm, how, sent, pipe, signals, readerVars>>

KeepChildEnd ==
  /\ main = "closeChild"
  /\ main' = "startReader"
  /\ UNCHANGED <<parentEnd, readEnd, procOpen, taken, cut, workerVars, pipe, signals, readerVars>>

\* child_output_queue.close()
CloseChildEnd ==
  /\ main = "closeChild"
  /\ main' = "startReader"
  /\ parentEnd' = FALSE
  /\ UNCHANGED <<readEnd, procOpen, taken, cut, workerVars, pipe, signals, readerVars>>

\* reader.start()
StartReader ==
  /\ main = "startReader"
  /\ main' = "append"
  /\ reader' = "open"
  /\ UNCHANGED <<parentEnd, readEnd, procOpen, taken, cut, workerVars, pipe, signals, got, log, diskFailed>>

\* active_runs.append(...): the worker is tracked
Track ==
  /\ main = "append"
  /\ main' = "active"
  /\ UNCHANGED <<parentEnd, readEnd, procOpen, taken, cut, workerVars, pipe, signals, readerVars>>

-----------------------------------------------------------------------------
(* The main thread: reaping one finished worker *)

\* exitcode is not None; the worker is moved to the finished list
SeeExit ==
  /\ main = "active"
  /\ worker = "exited"
  /\ main' = "joinReader"
  /\ UNCHANGED <<parentEnd, readEnd, procOpen, taken, cut, workerVars, pipe, signals, readerVars>>

\* launched.reader.join()
JoinReader ==
  /\ main = "joinReader"
  /\ reader \in {"done", "crashed"}
  /\ main' = "cleanup"
  /\ UNCHANGED <<parentEnd, readEnd, procOpen, taken, cut, workerVars, pipe, signals, readerVars>>

\* cleanup_launched_process(launched)
Cleanup ==
  /\ main = "cleanup"
  /\ main' = "reaped"
  /\ readEnd' = FALSE
  /\ procOpen' = FALSE
  /\ UNCHANGED <<parentEnd, taken, cut, workerVars, pipe, signals, readerVars>>

-----------------------------------------------------------------------------
(* The main thread: terminate_processes, entered from a signal handler *)

\* The handler runs in the main thread wherever it is, also inside an earlier handler.
\* It stops the workers in active_runs, which one that is being launched is not, and
\* its SystemExit abandons what was under way.
Interrupt ==
  /\ "interrupt" \in Faults /\ taken < MaxSignals
  /\ main \notin {"start", "reaped", "gone", "killed"}
  /\ taken' = taken + 1
  /\ cut' = cut \cup {c \in {"launch"} : main \in Launching}
                \cup {c \in {"exit"} : main = "exiting"}
  /\ main' = IF "launch" \in cut' THEN "unwind" ELSE "term1"
  /\ UNCHANGED <<parentEnd, readEnd, procOpen, workerVars, pipe, signals, readerVars>>

\* SystemExit leaves launch_output_captured_process: its ends of the pipe are freed, the
\* read end only if no reader thread holds it; the Process stays among multiprocessing's
\* children
Unwind ==
  /\ main = "unwind"
  /\ main' = "exiting"
  /\ parentEnd' = FALSE
  /\ readEnd' = (readEnd /\ reader # "none")
  /\ reader' = IF reader = "none" THEN "stopped" ELSE reader
  /\ UNCHANGED <<procOpen, taken, cut, workerVars, pipe, signals, got, log, diskFailed>>

\* the reader thread of such a worker was the last to hold the read end
LastReference ==
  /\ main = "exiting" /\ "launch" \in cut
  /\ reader \in {"done", "crashed"} /\ readEnd
  /\ readEnd' = FALSE
  /\ UNCHANGED <<main, parentEnd, procOpen, taken, cut, workerVars, pipe, signals, readerVars>>

\* process.terminate() if it is alive
SendTerm ==
  /\ main = "term1"
  /\ main' = "term2"
  /\ signals' = IF Alive /\ procOpen THEN signals \cup {"TERM"} ELSE signals
  /\ UNCHANGED <<parentEnd, readEnd, procOpen, taken, cut, workerVars, pipe, readerVars>>

NoEscalation ==
  /\ main = "term2"
  /\ main' = "term3"
  /\ UNCHANGED <<parentEnd, readEnd, procOpen, taken, cut, workerVars, pipe, signals, readerVars>>

\* join(timeout=2), then process.kill() if it is still alive
SendKill ==
  /\ main = "term2"
  /\ main' = "term3"
  /\ signals' = IF Alive /\ procOpen THEN signals \cup {"KILL"} ELSE signals
  /\ UNCHANGED <<parentEnd, readEnd, procOpen, taken, cut, workerVars, pipe, readerVars>>

\* the second join(timeout=2) ends, by the worker's death or by the timeout
WaitAgain ==
  /\ main = "term3"
  /\ main' = "term4"
  /\ UNCHANGED <<parentEnd, readEnd, procOpen, taken, cut, workerVars, pipe, signals, readerVars>>

CloseAnyway ==
  /\ main = "term4"
  /\ main' = "exiting"
  /\ readEnd' = FALSE
  /\ procOpen' = (procOpen /\ Alive)
  /\ UNCHANGED <<parentEnd, taken, cut, workerVars, pipe, signals, readerVars>>

\* reader.join(timeout=1) ends, and the handles are released: the queue only if
\* the worker is dead; Process.close() of a live worker raises and is ignored
CloseIfDead ==
  /\ main = "term4"
  /\ main' = "exiting"
  /\ readEnd' = (readEnd /\ procOpen /\ Alive)
  /\ procOpen' = (procOpen /\ Alive)
  /\ UNCHANGED <<parentEnd, taken, cut, workerVars, pipe, signals, readerVars>>

\* interpreter exit: multiprocessing joins the children that are still open, unless a
\* signal cuts the joins short; then the daemon thread and every descriptor are gone
InterpreterExit ==
  /\ main = "exiting"
  /\ "exit" \in cut \/ ~ (procOpen /\ Alive)
  /\ main' = "gone"
  /\ readEnd' = FALSE
  /\ reader' = IF reader \in {"done", "crashed"} THEN reader ELSE "stopped"
  /\ UNCHANGED <<parentEnd, procOpen, taken, cut, workerVars, pipe, signals, got, log, diskFailed>>

\* the orchestrator itself is killed: no handler runs and its descriptors close
OrchestratorDies ==
  /\ "orphan" \in Faults
  /\ main \notin {"start", "reaped", "gone", "killed"}
  /\ main' = "killed"
  /\ parentEnd' = FALSE /\ readEnd' = FALSE
  /\ reader' = IF reader \in {"done", "crashed"} THEN reader ELSE "stopped"
  /\ UNCHANGED <<procOpen, taken, cut, workerVars, pipe, signals, got, log, diskFailed>>

-----------------------------------------------------------------------------
(* The worker process: _QueueWriter, execute_output_captured_worker *)

\* the first bytes of a message enter the pipe as soon as there is room
WriteBegin ==
  /\ worker = "run"
  /\ sent < MaxChunks
  /\ readEnd
  /\ Len(pipe) < PipeCap
  /\ worker' = "send"
  /\ pipe' = Append(pipe, TORN)
  /\ UNCHANGED <<mainVars, handlesTerm, how, sent, signals, readerVars>>

\* ... and its last bytes; the reader takes no torn message, so it is still the last
WriteEnd ==
  /\ worker = "send"
  /\ readEnd
  /\ worker' = "run"
  /\ sent' = sent + 1
  /\ pipe' = [pipe EXCEPT ![Len(pipe)] = sent + 1]
  /\ UNCHANGED <<mainVars, handlesTerm, how, signals, readerVars>>

DropWhenFull ==
  /\ worker = "run"
  /\ sent < MaxChunks
  /\ Len(pipe) = PipeCap \/ ~ readEnd
  /\ sent' = sent + 1
  /\ UNCHANGED <<mainVars, handlesTerm, worker, how, pipe, signals, readerVars>>

RetryWhenBroken ==
  /\ worker \in {"run", "send"}
  /\ sent < MaxChunks
  /\ ~ readEnd
  /\ worker' = "send"
  /\ UNCHANGED <<mainVars, handlesTerm, how, sent, pipe, signals, readerVars>>

\* send() on a pipe without a reader raises, and the writer ignores it
WriteBroken ==
  /\ worker \in {"run", "send"}
  /\ sent < MaxChunks
  /\ ~ readEnd
  /\ worker' = "run"
  /\ sent' = sent + 1
  /\ UNCHANGED <<mainVars, handlesTerm, how, pipe, signals, readerVars>>

\* the worker's body returns or raises; the finally block restores the streams
BodyEnds ==
  /\ worker = "run"
  /\ worker' = "finally"
  /\ UNCHANGED <<mainVars, handlesTerm, how, sent, pipe, signals, readerVars>>

\* send(None); an error is ignored
SendEnd ==
  /\ worker = "finally"
  /\ \/ readEnd /\ Len(pipe) < PipeCap /\ pipe' = Append(pipe, EOS)
     \/ ~ readEnd /\ pipe' = pipe
  /\ worker' = "closing"
  /\ UNCHANGED <<mainVars, handlesTerm, how, sent, signals, readerVars>>

\* close(), then SystemExit(exit_code)
WorkerExit ==
  /\ worker = "closing"
  /\ worker' = "exited"
  /\ how' = "normal"
  /\ UNCHANGED <<mainVars, handlesTerm, sent, pipe, signals, readerVars>>

\* SIGTERM kills a worker that left its default action alone.  A fallback module's
\* handler runs between bytecodes: in the body it first stops the inner cases and
\* then raises SystemExit, also out of a send() that was waiting for room; in the
\* finally block that SystemExit is not an Exception, so it ends the process.
TakeTerm ==
  /\ "TERM" \in signals
  /\ Alive
  /\ signals' = signals \ {"TERM"}
  /\ IF handlesTerm /\ worker \in {"run", "send"}
       THEN worker' = "handler" /\ how' = how
       ELSE worker' = "exited" /\ how' = "signal"
  /\ UNCHANGED <<mainVars, handlesTerm, sent, pipe, readerVars>>

\* the module's own handler is done and its SystemExit reaches the finally block
HandlerDone ==
  /\ worker = "handler"
  /\ worker' = "finally"
  /\ UNCHANGED <<mainVars, handlesTerm, how, sent, pipe, signals, readerVars>>

TakeKill ==
  /\ "KILL" \in signals
  /\ Alive
  /\ worker' = "exited" /\ how' = "signal"
  /\ signals' = {}
  /\ UNCHANGED <<mainVars, handlesTerm, sent, pipe, readerVars>>

\* a kill the orchestrator did not send (out of memory, an operator)
OutsideKill ==
  /\ "kill" \in Faults
  /\ Alive
  /\ worker' = "exited" /\ how' = "signal"
  /\ UNCHANGED <<mainVars, handlesTerm, sent, pipe, signals, readerVars>>

-----------------------------------------------------------------------------
(* The reader thread: forward_worker_output *)

\* log_path.open("w")
OpenLog ==
  /\ reader = "open"
  /\ reader' = "poll"
  /\ UNCHANGED <<mainVars, workerVars, pipe, signals, got, log, diskFailed>>

\* recv() of a whole message; in the first loop the end marker breaks out of it,
\* in the second one it is skipped
Receive ==
  /\ reader \in {"poll", "drain"}
  /\ readEnd
  /\ pipe # << >> /\ Head(pipe) # TORN
  /\ pipe' = Tail(pipe)
  /\ IF Head(pipe) = EOS
       THEN reader' = "drain" /\ got' = got
       ELSE /\ reader' = IF reader = "poll" THEN "write" ELSE "drainWrite"
            /\ got' = Head(pipe)
  /\ UNCHANGED <<mainVars, workerVars, signals, log, diskFailed>>

\* recv() of a torn message waits for the rest of it.  It fails at the end of the
\* stream, and what it reads when other bytes follow instead cannot be unpickled.
ReceiveTorn ==
  /\ reader \in {"poll", "drain"}
  /\ readEnd
  /\ pipe # << >> /\ Head(pipe) = TORN
  /\ ~ Writers \/ Len(pipe) > 1
  /\ reader' = "crashed"
  /\ UNCHANGED <<mainVars, workerVars, pipe, signals, got, log, diskFailed>>

\* the empty pipe without a writer: EOFError, returned as None
ReceiveEof ==
  /\ reader = "poll"
  /\ readEnd
  /\ pipe = << >> /\ ~ Writers
  /\ reader' = "drain"
  /\ UNCHANGED <<mainVars, workerVars, pipe, signals, got, log, diskFailed>>

\* poll(0.1) is False
PollTimeout ==
  /\ reader = "poll"
  /\ readEnd
  /\ pipe = << >> /\ Writers
  /\ reader' = "check"
  /\ UNCHANGED <<mainVars, workerVars, pipe, signals, got, log, diskFailed>>

NoDrain ==
  /\ reader = "check"
  /\ reader' = IF ~ procOpen THEN "crashed"
               ELSE IF worker = "exited" THEN "done" ELSE "poll"
  /\ UNCHANGED <<mainVars, workerVars, pipe, signals, got, log, diskFailed>>

\* process.exitcode is None, or not; a closed Process raises ValueError
CheckExit ==
  /\ reader = "check"
  /\ reader' = IF ~ procOpen THEN "crashed"
               ELSE IF worker = "exited" THEN "drain" ELSE "poll"
  /\ UNCHANGED <<mainVars, workerVars, pipe, signals, got, log, diskFailed>>

\* log_handle.write(chunk)
WriteLog ==
  /\ reader \in {"write", "drainWrite"}
  /\ log' = Append(log, got)
  /\ reader' = IF reader = "write" THEN "poll" ELSE "drain"
  /\ UNCHANGED <<mainVars, workerVars, pipe, signals, got, diskFailed>>

\* open() or write() raises: nothing in the thread catches it
WriteFails ==
  /\ "disk" \in Faults
  /\ reader \in {"open", "write", "drainWrite"}
  /\ reader' = "crashed"
  /\ diskFailed' = TRUE
  /\ UNCHANGED <<mainVars, workerVars, pipe, signals, got, log>>

\* poll(0) is False, or recv() meets the end of the stream
DrainEmpty ==
  /\ reader = "drain"
  /\ readEnd
  /\ pipe = << >>
  /\ reader' = "done"
  /\ UNCHANGED <<mainVars, workerVars, pipe, signals, got, log, diskFailed>>

\* poll() on a connection the main thread has closed raises OSError
ReadClosed ==
  /\ reader \in {"poll", "drain"}
  /\ ~ readEnd
  /\ reader' = "crashed"
  /\ UNCHANGED <<mainVars, workerVars, pipe, signals, got, log, diskFailed>>

-----------------------------------------------------------------------------
Launch == StartProcess \/ CloseChildEnd \/ StartReader \/ Track
Reap   == SeeExit \/ JoinReader \/ Cleanup
Stop   == \/ SendTerm \/ SendKill \/ WaitAgain \/ CloseIfDead
          \/ Unwind \/ InterpreterExit
MainStep == Launch \/ Reap \/ Stop

WorkerStep == WriteBegin \/ WriteEnd \/ WriteBroken \/ BodyEnds \/ SendEnd \/ WorkerExit
TakeSignal == TakeTerm \/ TakeKill

ReaderStep == \/ OpenLog \/ Receive \/ ReceiveTorn \/ ReceiveEof \/ PollTimeout \/ CheckExit
              \/ WriteLog \/ DrainEmpty \/ ReadClosed \/ LastReference

Settled == main \in {"reaped", "gone", "killed"}

\* nothing is left to do for this worker
Finished ==
  /\ Settled /\ worker = "exited"
  /\ UNCHANGED vars

Next == \/ MainStep \/ WorkerStep \/ TakeSignal \/ ReaderStep
        \/ HandlerDone \/ Interrupt \/ OrchestratorDies \/ OutsideKill \/ WriteFails
        \/ Finished

(* The operating system schedules the three actors and delivers signals.  A    *)
(* module's own SIGTERM handler gets no fairness: it may take longer than any  *)
(* time-out of the orchestrator.  Faults are never forced.                     *)
Fairness == WF_vars(MainStep) /\ WF_vars(WorkerStep) /\ WF_vars(TakeSignal)
            /\ WF_vars(ReaderStep)

Spec == Init /\ [][Next]_vars /\ Fairness

-----------------------------------------------------------------------------
(* Properties *)

\* The log is always what the worker printed, in order and without a gap, up to
\* some point (the pipe blocks the writer instead of dropping text).
LogIsPrefix == \A i \in 1..Len(log) : log[i] = i

\* Once a worker has been reaped, everything it finished printing is in its log,
\* also when it was killed: the second loop of forward_worker_output takes what
\* arrived between the empty poll and the exit-code check.
NothingLost == (main = "reaped" /\ ~ diskFailed) => Len(log) = sent

\* The orchestrator does not close the pipe under a worker that may still use it: not in
\* reap_finished, not in terminate_processes (the comment above its last line) and not by
\* exiting.  There are three exceptions: it is killed itself, a signal strikes while
\* launch_output_captured_process is under way, or a later one cuts the exit short.
QueueOutlivesWorker ==
  (main \notin {"start", "killed"} /\ ~ readEnd) =>
     \/ worker = "exited"
     \/ "launch" \in cut
     \/ main = "gone" /\ "exit" \in cut

\* Every launched worker is reaped or the orchestrator has ended, unless the reader
\* thread died on a failed log write.
Settles == <>(Settled \/ diskFailed)

\* A worker that is tracked when a signal arrives is dead in the end, even if its
\* own SIGTERM handler never returns, unless the orchestrator is itself killed before
\* it has gone from SIGTERM to SIGKILL.
InterruptEndsWorker == (main = "term1") ~> (worker = "exited" \/ main = "killed")

\* A worker whose orchestrator is gone, killed or by an exit that a signal cut short, ends
\* by itself, also when nobody has sent it a signal: it never waits for a reader that is
\* gone (a module's own SIGTERM handler may take any time).
OrphanEnds == (main \in {"killed", "gone"} /\ ~ handlesTerm) ~> (worker = "exited")
=============================================================================
