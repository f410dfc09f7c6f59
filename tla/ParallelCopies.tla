---------------------------- MODULE ParallelCopies ----------------------------
(***************************************************************************)
(* scripts/experiments/parallel_klee_copies.py: the event loop that copies *)
(* the checkout once per worker (cp), starts the user's command in each    *)
(* finished copy, drains the commands' output into logs, finalizes workers *)
(* and, after a signal, stops them and collects what there is.             *)
(***************************************************************************)
EXTENDS Integers, FiniteSets

CONSTANTS
  NumCopies,     \* num_copies
  CopyPipe,      \* bound: error messages of cp that fit in its pipe
  MaxErrs,       \* bound: error messages cp may print
  MaxOut,        \* bound: chunks a command prints
  MayFailStart,  \* Popen may raise OSError
  MayRaise,      \* another exception may leave the event loop
  MayInterrupt   \* SIGINT and SIGTERM may arrive, again and again

ASSUME CopiesAssumption ==
  /\ NumCopies \in Nat \ {0}
  /\ CopyPipe \in Nat /\ MaxErrs \in Nat /\ MaxOut \in Nat
  /\ {MayFailStart, MayRaise, MayInterrupt} \subseteq BOOLEAN

Worker == 1..NumCopies
Stream == {"stdout", "stderr"}
None   == -100             \* return_code is None

VARIABLES
  pc,          \* where the main thread is
  at,          \* the worker its loop is at
  ready,       \* the streams the last select() reported
  interrupted, \* a signal was taken
  aborted,     \* another one has cut terminate_workers short
  termed,      \* running processes that were sent SIGTERM: <<w, "copy">>, <<w, "cmd">>
  expired,     \* the five seconds given to interrupted workers are over
  raised,      \* another exception left the loop
  ret,         \* what main() returns
  removed,     \* the temporary copies have been removed
  copy,        \* the cp processes
  copying,     \* workers whose copy_process attribute is set
  copyRc,      \* their exit codes
  errs,        \* how much cp has to complain about
  cmd,         \* the command processes
  cmdRc,       \* their exit codes
  tracked,     \* workers whose process attribute is set
  late,        \* commands started after a signal was taken
  holder,      \* the command left a background process with its streams open
  unread,      \* chunks in each pipe
  printed,     \* chunks printed
  logged,      \* chunks in the log file
  openStreams, \* open_streams
  succeeded,   \* copy_succeeded
  seen,        \* processes whose exit status has been taken: <<w, "copy">>, <<w, "cmd">>
  code,        \* return_code
  finalized    \* finalized; the status file then holds code

loopVars == <<at, ready>>
endVars  == <<interrupted, aborted, termed, expired, raised, ret, removed>>
copyVars == <<copy, copyRc, errs>>
cmdVars  == <<cmd, cmdRc, late, holder, unread, printed>>
recVars  == <<copying, tracked, logged, openStreams, succeeded, seen, code, finalized>>
vars == <<pc, loopVars, endVars, copyVars, cmdVars, recVars>>

AllFinalized == \A w \in Worker : finalized[w]
LoopPc == {"start", "assignCopy", "poll", "spawn", "assign", "select", "drain", "finalize"}

Init ==
  /\ pc = "start" /\ at = 1 /\ ready = {}
  /\ interrupted = FALSE /\ aborted = FALSE /\ termed = {} /\ expired = FALSE
  /\ raised = FALSE /\ ret = None /\ removed = FALSE
  /\ copy = [w \in Worker |-> "none"] /\ copyRc = [w \in Worker |-> 0]
  /\ errs \in [Worker -> 0..MaxErrs]
  /\ cmd = [w \in Worker |-> "none"] /\ cmdRc = [w \in Worker |-> 0]
  /\ late = {} /\ holder = [w \in Worker |-> FALSE]
  /\ unread = [w \in Worker |-> [s \in Stream |-> 0]]
  /\ printed = [w \in Worker |-> [s \in Stream |-> 0]]
  /\ copying = {} /\ tracked = {} /\ logged = [w \in Worker |-> [s \in Stream |-> 0]]
  /\ openStreams = [w \in Worker |-> {}] /\ succeeded = {} /\ seen = {}
  /\ code = [w \in Worker |-> None] /\ finalized = [w \in Worker |-> FALSE]

-----------------------------------------------------------------------------
(* finalize_worker closes the logs, settles the return code and writes it down *)

\* the return code finalize_worker and force_finalize_workers settle on: the one
\* already recorded, the command's, the copy's, or the default
FinalCode(w, default) ==
  CASE code[w] # None -> code[w]
    [] code[w] = None /\ <<w, "cmd">> \in seen /\ w \in tracked -> cmdRc[w]
    [] code[w] = None /\ ~ (<<w, "cmd">> \in seen /\ w \in tracked) /\ <<w, "copy">> \in seen
         -> copyRc[w]
    [] OTHER -> default

-----------------------------------------------------------------------------
(* start_copy, for each worker in turn *)

StartCopy ==
  /\ pc = "start" /\ at \in Worker
  /\ \/ /\ copy' = [copy EXCEPT ![at] = "running"]
        /\ pc' = "assignCopy" /\ UNCHANGED <<at, code, finalized>>
     \/ /\ MayFailStart
        /\ code' = [code EXCEPT ![at] = 1]
        /\ finalized' = [finalized EXCEPT ![at] = TRUE]
        /\ at' = at + 1 /\ UNCHANGED <<pc, copy>>
  /\ UNCHANGED <<ready, endVars, copyRc, errs, cmdVars, copying, tracked, logged, openStreams,
                 succeeded, seen>>

\* worker.copy_process is set
AssignCopy ==
  /\ pc = "assignCopy"
  /\ copying' = copying \cup {at}
  /\ at' = at + 1 /\ pc' = "start"
  /\ UNCHANGED <<ready, endVars, copyVars, cmdVars, tracked, logged, openStreams, succeeded,
                 seen, code, finalized>>

StartDone ==
  /\ pc = "start" /\ at = NumCopies + 1
  /\ pc' = IF AllFinalized THEN "force" ELSE "poll"
  /\ at' = 1
  /\ UNCHANGED <<ready, endVars, copyVars, cmdVars, recVars>>

-----------------------------------------------------------------------------
(* poll_copy_processes and start_worker_process *)

PollSkip ==
  /\ pc = "poll" /\ at \in Worker
  /\ finalized[at] \/ at \notin copying \/ copy[at] = "running" \/ at \in succeeded
  /\ at' = at + 1
  /\ UNCHANGED <<pc, ready, endVars, copyVars, cmdVars, recVars>>

\* copy_succeeded is not set
PollCopyAgain ==
  /\ pc = "poll" /\ at \in Worker
  /\ ~ finalized[at] /\ at \in copying /\ copy[at] = "exited" /\ at \notin succeeded
  /\ seen' = seen \cup {<<at, "copy">>}
  /\ IF copyRc[at] # 0
       THEN /\ code' = [code EXCEPT ![at] = copyRc[at]]
            /\ finalized' = [finalized EXCEPT ![at] = TRUE]
            /\ at' = at + 1 /\ UNCHANGED pc
       ELSE pc' = "spawn" /\ UNCHANGED <<at, code, finalized>>
  /\ UNCHANGED <<ready, endVars, copyVars, cmdVars, copying, tracked, logged, openStreams, succeeded>>

\* the copy has exited: communicate() takes its output; a failure finalizes the
\* worker, a success leads to start_worker_process
PollCopy ==
  /\ pc = "poll" /\ at \in Worker
  /\ ~ finalized[at] /\ at \in copying /\ copy[at] = "exited" /\ at \notin succeeded
  /\ seen' = seen \cup {<<at, "copy">>}
  /\ IF copyRc[at] # 0
       THEN /\ code' = [code EXCEPT ![at] = copyRc[at]]
            /\ finalized' = [finalized EXCEPT ![at] = TRUE]
            /\ at' = at + 1 /\ UNCHANGED <<pc, succeeded>>
       ELSE /\ succeeded' = succeeded \cup {at}
            /\ pc' = "spawn" /\ UNCHANGED <<at, code, finalized>>
  /\ UNCHANGED <<ready, endVars, copyVars, cmdVars, copying, tracked, logged, openStreams>>

\* Popen of the command in its own session, or the OSError it raises
SpawnCommand ==
  /\ pc = "spawn"
  /\ \/ /\ cmd' = [cmd EXCEPT ![at] = "running"]
        /\ late' = late \cup {w \in {at} : interrupted}
        /\ pc' = "assign" /\ UNCHANGED <<at, code, finalized>>
     \/ /\ MayFailStart
        /\ code' = [code EXCEPT ![at] = 1]
        /\ finalized' = [finalized EXCEPT ![at] = TRUE]
        /\ at' = at + 1 /\ pc' = "poll" /\ UNCHANGED <<cmd, late>>
  /\ UNCHANGED <<ready, endVars, copyVars, cmdRc, holder, unread, printed, copying, tracked, logged,
                 openStreams, succeeded, seen>>

\* worker.process is set and both streams are registered
AssignProcess ==
  /\ pc = "assign"
  /\ tracked' = tracked \cup {at}
  /\ openStreams' = [openStreams EXCEPT ![at] = Stream]
  /\ at' = at + 1 /\ pc' = "poll"
  /\ UNCHANGED <<ready, endVars, copyVars, cmdVars, copying, logged, succeeded, seen, code, finalized>>

PollDone ==
  /\ pc = "poll" /\ at = NumCopies + 1
  /\ pc' = "select"
  /\ UNCHANGED <<loopVars, endVars, copyVars, cmdVars, recVars>>

-----------------------------------------------------------------------------
(* drain_worker_streams *)

\* nobody has the write end of the stream any more
AtEof(w) == cmd[w] = "exited" /\ ~ holder[w]

Readable == {r \in Worker \X Stream :
               r[2] \in openStreams[r[1]] /\ (unread[r[1]][r[2]] > 0 \/ AtEof(r[1]))}

Select ==
  /\ pc = "select"
  /\ ready' = Readable
  /\ pc' = "drain"
  /\ UNCHANGED <<at, endVars, copyVars, cmdVars, recVars>>

\* one read of a ready stream: a chunk goes to the log, the end closes the stream
DrainStream ==
  /\ pc = "drain"
  /\ \E r \in ready :
       LET w == r[1] s == r[2]
       IN /\ ready' = ready \ {r}
          /\ IF unread[w][s] > 0
               THEN /\ unread' = [unread EXCEPT ![w][s] = @ - 1]
                    /\ logged' = [logged EXCEPT ![w][s] = @ + 1]
                    /\ UNCHANGED openStreams
               ELSE /\ openStreams' = [openStreams EXCEPT ![w] = @ \ {s}]
                    /\ UNCHANGED <<unread, logged>>
  /\ UNCHANGED <<pc, at, endVars, copyVars, cmd, cmdRc, late, holder, printed, copying, tracked, succeeded,
                 seen, code, finalized>>

DrainDone ==
  /\ pc = "drain" /\ ready = {}
  /\ pc' = "finalize" /\ at' = 1
  /\ UNCHANGED <<ready, endVars, copyVars, cmdVars, recVars>>

-----------------------------------------------------------------------------
(* finalize_exited_workers, and the loop conditions *)

FinalizeAnyExited ==
  /\ pc = "finalize" /\ at \in Worker
  /\ at' = at + 1
  /\ IF ~ finalized[at] /\ at \in tracked /\ cmd[at] = "exited"
       THEN /\ seen' = seen \cup {<<at, "cmd">>}
            /\ code' = [code EXCEPT ![at] = IF @ = None THEN cmdRc[at] ELSE @]
            /\ finalized' = [finalized EXCEPT ![at] = TRUE]
       ELSE UNCHANGED <<seen, code, finalized>>
  /\ UNCHANGED <<pc, ready, endVars, copyVars, cmdVars, copying, tracked, logged, openStreams, succeeded>>

FinalizeExited ==
  /\ pc = "finalize" /\ at \in Worker
  /\ at' = at + 1
  /\ IF ~ finalized[at] /\ at \in tracked /\ cmd[at] = "exited"
       THEN /\ seen' = seen \cup {<<at, "cmd">>}
            /\ IF openStreams[at] = {}
                 THEN /\ code' = [code EXCEPT ![at] = IF @ = None THEN cmdRc[at] ELSE @]
                      /\ finalized' = [finalized EXCEPT ![at] = TRUE]
                 ELSE UNCHANGED <<code, finalized>>
       ELSE UNCHANGED <<seen, code, finalized>>
  /\ UNCHANGED <<pc, ready, endVars, copyVars, cmdVars, copying, tracked, logged, openStreams, succeeded>>

LeaveEarly ==
  /\ pc = "finalize" /\ at = NumCopies + 1
  /\ at' = 1
  /\ pc' = IF \E w \in Worker : finalized[w] THEN "force" ELSE "poll"
  /\ UNCHANGED <<ready, endVars, copyVars, cmdVars, recVars>>

NoDeadline ==
  /\ pc = "finalize" /\ at = NumCopies + 1
  /\ at' = 1
  /\ pc' = IF AllFinalized THEN "force" ELSE "poll"
  /\ UNCHANGED <<ready, endVars, copyVars, cmdVars, recVars>>

\* the end of a pass: leave when all workers are finalized; after a signal also
\* when the five seconds are over
PassDone ==
  /\ pc = "finalize" /\ at = NumCopies + 1
  /\ at' = 1
  /\ pc' = IF AllFinalized \/ expired THEN "force" ELSE "poll"
  /\ UNCHANGED <<ready, endVars, copyVars, cmdVars, recVars>>

DeadlinePasses ==
  /\ interrupted /\ ~ expired /\ pc \in LoopPc
  /\ expired' = TRUE
  /\ UNCHANGED <<pc, loopVars, interrupted, aborted, termed, raised, ret, removed, copyVars, cmdVars, recVars>>

-----------------------------------------------------------------------------
(* signals, terminate_workers *)

\* raise_keyboard_interrupt in the event loop
Interrupt ==
  /\ MayInterrupt /\ ~ interrupted
  /\ pc \in LoopPc
  /\ interrupted' = TRUE
  /\ pc' = "term1" /\ at' = 1 /\ ready' = {}
  /\ UNCHANGED <<aborted, termed, expired, raised, ret, removed, copyVars, cmdVars, recVars>>

\* the handlers are still installed in the except block: another KeyboardInterrupt
\* leaves terminate_workers, and the finally block runs
InterruptAgain ==
  /\ MayInterrupt
  /\ pc \in {"term1", "term2"}
  /\ aborted' = TRUE
  /\ pc' = IF AllFinalized THEN "force" ELSE "poll"
  /\ at' = 1
  /\ UNCHANGED <<ready, interrupted, termed, expired, raised, ret, removed, copyVars, cmdVars, recVars>>

\* in the finally block the previous handlers are back: a signal ends main() there
DefaultSignal ==
  /\ MayInterrupt
  /\ pc \in {"force", "collect"} \/ (interrupted /\ pc \in LoopPc)
  /\ ret' = 130
  /\ pc' = "done" /\ at' = 1 /\ ready' = {}
  /\ UNCHANGED <<interrupted, aborted, termed, expired, raised, removed, copyVars, cmdVars, recVars>>

\* an exception of the loop (a log that cannot be written): only the finally block
\* runs
LoopRaises ==
  /\ MayRaise /\ ~ interrupted /\ pc \in LoopPc
  /\ raised' = TRUE
  /\ pc' = "force"
  /\ UNCHANGED <<loopVars, interrupted, aborted, termed, expired, ret, removed, copyVars, cmdVars, recVars>>

TermCopies   == {w \in copying : copy[w] = "running"}
TermCommands == {w \in tracked : cmd[w] = "running"}

\* poll() takes the status of a worker's processes that have exited
Polled(w) ==
  {<<v, "copy">> : v \in {u \in {w} \cap copying : copy[u] = "exited"}}
    \cup {<<v, "cmd">> : v \in {u \in {w} \cap tracked : cmd[u] = "exited"}}

\* terminate_process_group of one worker after the other: the groups whose leaders are
\* alive get SIGTERM
SendSignals ==
  /\ pc = "term1" /\ at \in Worker
  /\ seen' = seen \cup Polled(at)
  /\ termed' = termed \cup {<<w, "copy">> : w \in {at} \cap TermCopies}
                      \cup {<<w, "cmd">> : w \in {at} \cap TermCommands}
  /\ IF at = NumCopies THEN pc' = "term2" /\ at' = 1
                       ELSE pc' = "term1" /\ at' = at + 1
  /\ UNCHANGED <<ready, interrupted, aborted, expired, raised, ret, removed, copyVars, cmdVars, copying,
                 tracked, logged, openStreams, succeeded, code, finalized>>

\* SIGTERM, or the SIGKILL that follows it, takes effect
KilledCopy(w) ==
  /\ <<w, "copy">> \in termed /\ copy[w] = "running"
  /\ copy' = [copy EXCEPT ![w] = "exited"]
  /\ copyRc' = [copyRc EXCEPT ![w] = -15]
  /\ termed' = termed \ {<<w, "copy">>}
  /\ UNCHANGED <<pc, loopVars, interrupted, aborted, expired, raised, ret, removed,
                 errs, cmdVars, recVars>>

KilledCommand(w) ==
  /\ <<w, "cmd">> \in termed /\ cmd[w] = "running"
  /\ cmd' = [cmd EXCEPT ![w] = "exited"]
  /\ cmdRc' = [cmdRc EXCEPT ![w] = -15]
  /\ termed' = termed \ {<<w, "cmd">>}
  /\ UNCHANGED <<pc, loopVars, interrupted, aborted, expired, raised, ret, removed,
                 copyVars, late, holder, unread, printed, recVars>>

WaitSkipsCopies ==
  /\ pc = "term2" /\ at \in Worker
  /\ at \notin TermCommands
  /\ seen' = seen \cup Polled(at)
  /\ IF at = NumCopies THEN pc' = (IF AllFinalized THEN "force" ELSE "poll") /\ at' = 1
                       ELSE pc' = "term2" /\ at' = at + 1
  /\ UNCHANGED <<ready, endVars, copyVars, cmdVars, copying, tracked, logged, openStreams, succeeded,
                 code, finalized>>

\* wait_or_kill of one worker after the other has returned: what outlived the two
\* seconds got SIGKILL
WaitDone ==
  /\ pc = "term2" /\ at \in Worker
  /\ at \notin TermCopies \cup TermCommands
  /\ seen' = seen \cup Polled(at)
  /\ IF at = NumCopies THEN pc' = (IF AllFinalized THEN "force" ELSE "poll") /\ at' = 1
                       ELSE pc' = "term2" /\ at' = at + 1
  /\ UNCHANGED <<ready, endVars, copyVars, cmdVars, copying, tracked, logged, openStreams, succeeded,
                 code, finalized>>

-----------------------------------------------------------------------------
(* the finally block: force_finalize_workers, collect_results, the result *)

\* what force_finalize_workers does to every worker at once
ForceWorkers(default) ==
  /\ openStreams' = [w \in Worker |-> {}]
  /\ code' = [w \in Worker |-> IF finalized[w] THEN code[w] ELSE FinalCode(w, default)]
  /\ finalized' = [w \in Worker |-> TRUE]

ForgetFinalized ==
  /\ pc = "force"
  /\ openStreams' = [w \in Worker |-> {}]
  /\ code' = [w \in Worker |-> IF interrupted THEN 130 ELSE FinalCode(w, 1)]
  /\ finalized' = [w \in Worker |-> TRUE]
  /\ pc' = "collect"
  /\ UNCHANGED <<loopVars, endVars, copyVars, cmdVars, copying, tracked, logged, succeeded, seen>>

ForceFinalize ==
  /\ pc = "force"
  /\ ForceWorkers(IF interrupted THEN 130 ELSE 1)
  /\ pc' = "collect"
  /\ UNCHANGED <<loopVars, endVars, copyVars, cmdVars, copying, tracked, logged, succeeded, seen>>

\* only the last worker counts
CollectLast ==
  /\ pc = "collect"
  /\ ret' = IF interrupted THEN 130
            ELSE IF raised \/ code[NumCopies] # 0 THEN 1 ELSE 0
  /\ removed' = ~ interrupted
  /\ pc' = "done"
  /\ UNCHANGED <<loopVars, interrupted, aborted, termed, expired, raised, copyVars, cmdVars, recVars>>

\* collect_results, removal of the copies unless a signal was taken, and the value
\* main() returns (1 for an exception)
Collect ==
  /\ pc = "collect"
  /\ ret' = IF interrupted THEN 130
            ELSE IF raised \/ \E w \in Worker : code[w] # 0 THEN 1 ELSE 0
  /\ removed' = ~ interrupted
  /\ pc' = "done"
  /\ UNCHANGED <<loopVars, interrupted, aborted, termed, expired, raised, copyVars, cmdVars, recVars>>

-----------------------------------------------------------------------------
(* the processes *)

\* cp ends when all it has to say fits in its pipe: nothing reads the pipe before
\* cp has exited
CopyExit(w) ==
  /\ copy[w] = "running" /\ errs[w] <= CopyPipe
  /\ copy' = [copy EXCEPT ![w] = "exited"]
  /\ copyRc' = [copyRc EXCEPT ![w] = IF errs[w] = 0 THEN 0 ELSE 1]
  /\ termed' = termed \ {<<w, "copy">>}
  /\ UNCHANGED <<pc, loopVars, interrupted, aborted, expired, raised, ret, removed,
                 errs, cmdVars, recVars>>

CommandPrints(w, s) ==
  /\ cmd[w] = "running" \/ holder[w]
  /\ printed[w]["stdout"] + printed[w]["stderr"] < MaxOut
  /\ printed' = [printed EXCEPT ![w][s] = @ + 1]
  /\ unread' = [unread EXCEPT ![w][s] = @ + 1]
  /\ UNCHANGED <<pc, loopVars, endVars, copyVars, cmd, cmdRc, late, holder, recVars>>

\* the command ends, possibly leaving a background process with its streams
CommandExit(w) ==
  /\ cmd[w] = "running"
  /\ cmd' = [cmd EXCEPT ![w] = "exited"]
  /\ \E c \in {0, 1} : cmdRc' = [cmdRc EXCEPT ![w] = c]
  /\ \E h \in BOOLEAN : holder' = [holder EXCEPT ![w] = h]
  /\ termed' = termed \ {<<w, "cmd">>}
  /\ UNCHANGED <<pc, loopVars, interrupted, aborted, expired, raised, ret, removed,
                 copyVars, late, unread, printed, recVars>>

HolderEnds(w) ==
  /\ holder[w]
  /\ holder' = [holder EXCEPT ![w] = FALSE]
  /\ UNCHANGED <<pc, loopVars, endVars, copyVars, cmd, cmdRc, late, unread, printed, recVars>>

-----------------------------------------------------------------------------
MainStep == \/ StartCopy \/ AssignCopy \/ StartDone \/ PollSkip \/ PollCopy \/ SpawnCommand \/ AssignProcess
            \/ PollDone \/ Select \/ DrainStream \/ DrainDone \/ FinalizeExited \/ PassDone
            \/ SendSignals \/ WaitDone \/ ForceFinalize \/ Collect
Killed(w) == KilledCopy(w) \/ KilledCommand(w)

Ended == pc = "done" /\ UNCHANGED vars

Next == \/ MainStep \/ DeadlinePasses
        \/ Interrupt \/ InterruptAgain \/ DefaultSignal \/ LoopRaises
        \/ \E w \in Worker : \/ CopyExit(w) \/ CommandExit(w) \/ HolderEnds(w) \/ Killed(w)
                             \/ \E s \in Stream : CommandPrints(w, s)
        \/ Ended

(* The processes end by themselves if nothing keeps them from it, time passes, *)
(* and the main thread is scheduled.  A process may ignore SIGTERM, so only one *)
(* that wait_or_kill waits for is sure to die of a signal.                      *)
Fairness ==
  /\ WF_vars(MainStep) /\ WF_vars(DeadlinePasses)
  /\ \A w \in Worker : /\ WF_vars(CopyExit(w)) /\ WF_vars(CommandExit(w))
                       /\ WF_vars(HolderEnds(w)) /\ WF_vars(pc = "term2" /\ Killed(w))

Spec == Init /\ [][Next]_vars /\ Fairness

-----------------------------------------------------------------------------
(* Properties *)

\* main() returns 0 only if every copy was made and every command ran in it, ended
\* with 0 and has its whole output in the logs.
SuccessMeansAll ==
  ret = 0 => \A w \in Worker :
    /\ copy[w] = "exited" /\ copyRc[w] = 0
    /\ cmd[w] = "exited" /\ cmdRc[w] = 0
    /\ \A s \in Stream : logged[w][s] = printed[w][s]

\* A worker that the loop finalizes has everything its command printed in its logs:
\* it waits for the end of both streams, not only for the exit.
FinalizedDrained ==
  \A w \in tracked : (finalized[w] /\ ~ interrupted /\ ~ raised) =>
    /\ cmd[w] = "exited"
    /\ \A s \in Stream : logged[w][s] = printed[w][s]

\* A worker's status, once written, is final: neither the drain after a signal nor
\* the finally block changes it.
StatusStable ==
  [][\A w \in Worker : finalized[w] => finalized'[w] /\ code'[w] = code[w]]_vars

\* After a signal, what is still running when main() returns is a command the drain
\* loop started afterwards, or a process whose Popen had not been stored yet; unless
\* another signal has cut the escalation of terminate_workers short: the handlers stay
\* installed in the except block, and what SIGTERM has not ended then runs on.
InterruptStopsTracked ==
  (interrupted /\ ~ aborted /\ pc = "done") =>
     /\ \A w \in copying : copy[w] # "running"
     /\ \A w \in tracked \ late : cmd[w] # "running"

\* The copies are never removed under a command that is running in one, unless an
\* unexpected exception ended the loop.
CopiesOutliveCommands ==
  (removed /\ ~ raised) => \A w \in Worker : cmd[w] # "running" /\ copy[w] # "running"

\* After a signal no command is running when main() returns ("Terminate all active
\* copy and worker process groups.").
InterruptStopsAll ==
  (interrupted /\ pc = "done") => \A w \in Worker : cmd[w] # "running"

CommandLife ==
  [w \in Worker |-> CASE cmd[w] = "none" -> "waiting"
                     [] cmd[w] = "running" -> "running"
                     [] OTHER -> IF cmdRc[w] = 0 THEN "succeeded" ELSE "failed"]

CopiesVerdict == IF ret = None THEN "none" ELSE IF ret = 0 THEN "success" ELSE "failure"

Pool == INSTANCE WorkerPool WITH
          Workers <- Worker, Limit <- 0, life <- CommandLife, verdict <- CopiesVerdict

\* The commands are a pool without a limit (start_worker_process, finalize_worker,
\* terminate_workers, main): none is started twice, or after main() has its result,
\* and the result is 0 only when all of them ran and succeeded.
PoolSpec == Pool!Spec

\* The loop comes to an end, unless a cp has more to say than its pipe holds: nothing
\* reads the pipe before cp exits, and cp does not exit before the pipe is read.
Terminates == <>(pc = "done" \/ \E w \in Worker : copy[w] = "running" /\ errs[w] > CopyPipe)
=============================================================================
