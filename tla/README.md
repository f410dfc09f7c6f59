# Verification of the experiment harness

This directory holds TLA+ models of the experiment harness in `scripts/`, `tools/`,
`include/`, `pin-tracer/` and `loop-limiter/` and of the small programs it is tried
on, the TLC configurations that check them on small instances,
and TLAPS proofs for every instance. `PROJECT.json` gives, for every definition,
the source lines it models.

## The system and its parts

The repository compares tools that look for secret-dependent branches and memory
accesses (KLEE variants, Binsec, Abacus) on cryptographic benchmarks.

| part | state | operations | interacts with |
|---|---|---|---|
| campaign orchestrator, `run_experiments.py` | `pending_case_task_groups`, `active_runs`, `launch_failures` | prepare a run, launch a case or a whole tool module, reap, handle a signal, postprocess | starts captured workers; shares one limit among them |
| worker output capture, `common.py` 132-527 | per worker: process, pipe, reader thread, log | launch, print, forward to the log, reap, terminate | two processes and two threads of the orchestrator over one pipe |
| exit status collection, `common.py` 466-505 | `Popen.returncode`, the kernel's zombie | `join`, `exitcode` | main thread and reader thread ask the same object |
| parallel copies, `parallel_klee_copies.py` | one `Worker` record per copy, a selector | copy the checkout, run a command in it, drain, finalize, collect | child processes in their own sessions; signals |
| tool runners, `run_klee_family.py`, `run_binsec.py`, `run_abacus.py` | a temporary workspace, a tool subprocess, result files | build, run, convert, reproduce | run inside captured workers |
| converters and postprocessing, `tools/` | result files | convert, reproduce, merge, filter, aggregate, summarise | read what the runners wrote |
| registry and configuration, `tools/shared`, `configs/` | tables | look up, validate | all of the above |
| loop limiter, `loop-limiter/` | one counter per loop | instrument | run by the KLEE runners on the bitcode |
| runner headers, `include/` | input buffers; segment index and offset of the replaced `read()` | make inputs symbolic, load a replay's files, serve `read()` and `write()` | compiled into every benchmark; analysed by the tools, run by reproduction |
| Pin tracer, `pin-tracer/` | a trace file | record branches and accesses | run by reproduction |
| example programs, `examples/`, `memory/`, `testing-concrete/`, two of `benchmarks/ghostrider/` | none beyond a run | branch or index on a secret | analysed and replayed like a benchmark |
| branch tracker, `testing-symbolic/` | two histories and their indices | reset, record, compare | called by its two drivers under KLEE |
| slicing tests, `slicing-tests/` | none | compute | programs and the slices Frama-C printed |
| builders, installation, benchmarks | files | compile | outside the models |

What is hard here is the first half of the table. A worker, the thread that reads
its text, the main thread and the kernel's signals run concurrently; a signal can
arrive between any two statements of the main thread, also inside the handler of
an earlier one; a worker can be killed in the middle of a message; and the
campaign's result is only worth something if no failure and no text is lost on
the way. The second half is sequential, and what is hard there is that several
programs in different languages have to agree: a witness goes from a tool's output
through a converter, a file per input and a generated loader into the buffers of the
replay, with two byte orders and two configuration files on the way; a verdict rests
on the first line in which two long traces differ; results of several campaigns
meet in one directory.

What makes each part correct:

* capture: the log is what was printed, all of it once the worker is reaped; no
  thread is left waiting; a stopped worker is dead; a worker without an
  orchestrator ends.
* exit status: the code that is reported is the code of the process.
* orchestrator: the limit holds; every task is started exactly once, the groups
  advance together; postprocessing sees only complete campaigns; after a signal
  no worker goes on.
* parallel copies: success means that every copy and command succeeded and all
  their output is in; a written status stays; the loop ends; nothing is running
  after a signal; no copy is removed under a running command.
* case: results come from this campaign's own tool run; success means a replayed
  JSON and a recorded time; no process and no workspace is left.
* limiter: the bound holds on every entry of a loop, below it nothing changes.
* runner headers: a replay runs on the values the analysis found; the input segments
  serve as one stream without gaps, and a request that cannot be met is remembered.
* reproduction: a status says what happened; the culprit is the instruction that
  leaks, not one that runs because of it.
* merging: merged results are those of the present campaign.
* branch tracker: the assertion fails exactly when the recorded branches differ.

`PROJECT.json` lists the hazards by line, each with the properties that cover it
or the reason why none does yet.

## Modules

| module | models | note |
|---|---|---|
| `OutputCapture` | one captured worker | `common.py` launch, wrapper, `_QueueWriter`, `forward_worker_output`, `terminate_processes` |
| `OutputCaptureProofs` | theorems about `OutputCapture` | |
| `ExitStatus` | `Popen.poll` called by two threads | `wait_for_processes` (`blocking`) and `reap_finished` |
| `ExitStatusProofs` | theorem about `ExitStatus` | |
| `CapturedWorkers` | `OutputCapture` and `ExitStatus` in one specification | a behaviour is one of them |
| `CaseRun` | the worker of one case, its workspace, its tool and its files | `run_klee_family.py`, `run_binsec.py`, `common.py` 538-614 and 824-890 |
| `CaseRunProofs` | theorems about `CaseRun` | |
| `WorkerPool` | what the two launchers promise of the processes they start | abstract; `Campaign` and `ParallelCopies` implement it |
| `Campaign` | the orchestrator's main thread and its workers | `run_experiments.py` |
| `CampaignProofs` | theorems about `Campaign` | |
| `ParallelCopies` | the event loop of `parallel_klee_copies.py` | |
| `ParallelCopiesProofs` | theorems about `ParallelCopies` | |
| `LoopLimiter` | a loop nest instrumented by the pass | `loop-limiter/LoopLimiter.cpp` |
| `LoopLimiterProofs` | theorems about `LoopLimiter` | |
| `InputStream` | what `read()` and `write()` promise to a wrapped program | abstract |
| `StdinRunner` | `include/original_stdin_runner.h`, loop iteration by iteration | implements `InputStream` |
| `Runner` | `include/runner.h` and the generated header, from the analysis over the witness to two replays | extends `StdinRunner`; also `binsec_toml_to_json.py` and `reproduce_positives.py` for the way of the witness |
| `RunnerProofs` | theorems about `Runner`, `StdinRunner` and the refinement | |
| `Programs` | small programs as the instructions they execute | operators only |
| `ReplayTrace` | `pin-tracer/replay_trace.cpp`, `reproduce_positives.py`, `build_rows` | what the programs execute is a parameter |
| `Examples` | `ReplayTrace` replaying `Programs` | what one of the programs promises |
| `MergeRuns` | the repetitions of a run and `merge_json_runs_by_experiment.py` | |
| `BranchTracker` | `branch_tracker.c` and its drivers | |
| `OfflineProofs` | theorems about `ReplayTrace`, `MergeRuns` and `BranchTracker` | |
| `Offline` | `Runner`, `Examples`, `MergeRuns` and `BranchTracker` in one specification | a behaviour is one of them |
| `MC...` | values for the constants | |

### OutputCapture

The main thread (`main`), the worker (`worker`) and the reader thread (`reader`)
are three actors; `pipe` is the `multiprocessing.Pipe` between them, a sequence of
at most `PipeCap` messages. A message is a numbered chunk, the end marker, or a
torn message: sending is two steps, and a process that dies between them leaves
the first half. `signals` holds what was sent and not yet acted on. The faults a
run allows are `kill` (SIGKILL from outside, such as the memory killer), `disk`
(opening or writing the log fails), `interrupt` (the orchestrator gets a signal)
and `orphan` (the orchestrator is killed, `main` is then "killed"). `handlesTerm`
is chosen in the initial state and says whether the worker has its own SIGTERM
handler: tool modules run as a fallback do, direct workers do not.

A signal may strike wherever the main thread is, `MaxSignals` times, and `cut` remembers
what it cut short. Inside `launch_output_captured_process` (`common.py` 314-348) the worker is
not in `active_runs` yet: the handler does not stop it, `SystemExit` unwinds the launch
(`Unwind`) and frees the parent's ends of the pipe, the read end at once or, when the
reader thread already has it, when that thread ends (`LastReference`). The worker then
finds a broken pipe, ends by itself, and `multiprocessing`'s exit handler waits for it.
During that wait another signal ends the orchestrator with its workers still running.
`QueueOutlivesWorker` names these two cases; `OrphanEnds` and `Settles` hold in them too.

### ExitStatus

A query of a `Process` is three steps, since the threads may switch between any
two of them: look at the stored code, `waitpid`, store. The model follows
CPython's `Popen.poll`, which is external to the repository. `asking` is where each reader
thread is with its query.

### Campaign

A unit is a (run definition, copy) pair; a task is a pair of a unit and a case.
`spawned` holds the processes that have been started and are not yet in
`active_runs`: the launching statement evaluates the call first and appends
afterwards. The reader thread and the worker are reduced to what `OutputCapture`
shows of them: the worker ends, and the reader of an ended worker ends. The reader of a
running worker may die on its log (`lost`); such a worker may block on its full pipe and
is not made to end (`CanEnd`) until it is killed or the orchestrator is gone.
`Interrupt` may happen at every point of the main thread, `MaxSignals` times,
also inside the handler. With `PrepareMayFail` a later run definition may raise
`SystemExit` when earlier ones already have workers. `InterpreterExit` is the exit handler of
`multiprocessing`, which joins every child whose `Process` has not been closed.

### WorkerPool

The promise that `run_experiments.py` and `parallel_klee_copies.py` have in common. A
process is waiting, running, or ended well or badly; the launcher has no verdict,
success or failure. It starts a process at most once, not above the limit and not
once it has a verdict, and the verdict is success only when all of them ended well.
A failure may be decided at any time, after a success too: a signal can still come
while the orchestrator leaves. `Campaign` maps a task's `proc` and `rc` to the life of
a process (`WorkerLife`), and `status` to the verdict as soon as `main()` is on its way out
(`CampaignVerdict`); a run with `--postprocess-only` starts nothing and so says nothing of
the workers. `ParallelCopies` maps its commands and the value `main()` returns, with no
limit. That it may start a command after a signal is allowed here, since it has no
result yet; `copies_late_start` shows it.

### CaseRun

One worker at a time runs the case; `attempt` counts the campaigns over the same
results directory, which each campaign empties first. `ws`, `outs` and `child` are
kept per campaign, because a worker that is killed leaves its workspace and its
subprocess, and these go on while the next campaign runs. `json` tells an
unfinished file ("torn") from the rows written before the replay and from the final
version; `source` and `jsonBy` are history: what the JSON was made from and by
whom. KLEE writes into its workspace under the first free `klee-out-N`, Binsec into
the results directory. The worker's log is written by the orchestrator's reader
thread, here `text` and `LogText`. KeyboardInterrupt is handled where the code
handles it: `run()` stops its command only inside the loop that copies the lines, and
the workspace is removed only from inside the `with` statement. Any other exception in that
loop, such as output that is not valid UTF-8 (`StreamFails`), leaves `run()` without
stopping the command: the worker fails, and `garbled` keeps the campaign.

### ParallelCopies

One pass of the loop polls the copies, selects, drains and finalizes, worker by
worker; `cp` and the commands are processes of their own. A `cp` with more error
messages than its pipe holds blocks until somebody reads. A command prints on two
streams, `MaxOut` chunks on both together, and may leave a background process
(`holder`) that keeps them open. A signal in the loop goes to `terminate_workers`, which
signals worker after worker (`SendSignals`) and waits for them (`WaitDone`). The handlers
are still installed there, so another signal (`InterruptAgain`, `aborted`) leaves it for the
`finally` block, in which the previous handlers are back and one more ends `main()`
(`DefaultSignal`). In both models `process.start()` is one
step, and so is `interrupted = True` (122-124) with the exception it follows.

### LoopLimiter

First the pass (`phase` "count" and "instrument"): the statistics, the lists, the
worklist over the loop tree, loops without a preheader, the choice between exit
and break mode. Then the function as the pass leaves it (`phase` "run"). `at` and
`where` name the block that runs; the body of a loop may enter its inner loops in
order or skip them, so that every nest of loops is covered. A loop has one of
three shapes: its exit test in the header (`while`), after the body (`do`), or the
whole loop in one block. Each time it is entered, the input decides how many
iterations it wants (`trip`). `counter` is what the pass adds: `Half` stands for
2^31, a counter is a number modulo `2 * Half`, and the comparison is signed. In
exit mode the bound ends the path (`klee_silent_exit`); in break mode it widens the
exit predicate of the header, and a loop whose header has none falls back to exit
mode. `ran`, `trip`, `open` and `left` are history variables.

### InputStream and StdinRunner

`InputStream` is a position in `Total` bytes, a flag and the reply of the last call;
a read delivers the next bytes, padded with zeros past the end. `StdinRunner` has the
static variables of the header (`segIndex`, `segOffset`, `ioFailed`) and the locals
of a read in progress; `CopySegment` is one iteration of its loop. Only `ReadDone` and
the other calls change what the caller sees, so the iterations are stutters of the
stream: the mapping subtracts what the running call has already copied (`Delivered`).
A byte is named by its place in the concatenation of all segments, so that a byte
from the wrong segment or offset cannot go unnoticed.

### Runner

`tool` is the macro the analysed executable is built with and `fix` the option that
makes public inputs concrete. `world` holds the buffers of the two executions the
analysis compares, `witness` what the tool reports of them (KLEE bytes, Binsec
numbers of little-endian memory, and possibly without a symbol), `argv` the files
made from it, `mem` the buffers of the replay. `main()` is `AssertArgc`, `LoadFails` or
`Main`, and then the program under test, which calls `read()` and `write()` with any
descriptor and count (`Call`, `Copy`, `Return`). `decl` is what the experiment config
declares; it may differ from the runner config, since nothing compares the two. `Convert`
follows the tools: KLEE's values are found by name, Binsec's in the section of their
kind (`Given`); a KLEE row without a value is a location mismatch, a Binsec row without
any usable one (`Usable`) is not tried, and one with some of them ends the conversion.

### Programs, ReplayTrace and Examples

A program is the sequence of instructions it executes for a secret: an instruction has
its source line as its address and the accesses it makes this time. Instructions that
neither branch nor use a secret index are left out, and arithmetic is done at a smaller
width (`Width`, `ArcSize`, `KeyLen`, `Rounds`). The programs are chosen for what they do to a
trace: `MixWord` has four lookups in one statement, `Histogram` an instruction that reads
and writes, and `FindMax`, in a build with a conditional move from memory, an instruction
that is executed in every run and makes its access only in some.

`ReplayTrace` reproduces the rows of one result file, for any programs: `Executions` gives,
for each program and each way its input files suit it, what it executes with each of its
secrets. Each run of Pin traces one
instruction per step and may be timed out at any of them, or fail before the first;
`SameLine`, `Differ` and `Identical` are the loop of `compare_trace_files`; `Judge` is the rest
of the row for any line and kind it might report, in both orders of checks
(`mode_dataframe` and `build_rows`). `nodebug` are lines that the build left without DWARF
information, for which the code falls back on earlier instructions (`recent`). The calls that
record an access are predicated (`replay_trace.cpp` 37 and 48), so `Recorded` writes what was
accessed and not what the operands are. `Skip` is a Binsec row without a counterexample
or without a location: it is saved as not reproduced although nothing was replayed
(`binsec_toml_to_json.py` 443 and 632), and `untried` keeps it. `Examples` puts programs and
replay together; the constant `Executions` of the run is `ExecutionsOf` of `Programs`.

### MergeRuns

`file` holds what is in `destination/<copy>/<experiment>.json` and whose it is. A campaign
chooses its copies, its experiments and its metadata, empties the directories of
its own copies if the tool's cases are queued one by one (`direct`), and ends with or
without success; a merge follows a successful campaign or is asked for with
`--postprocess-only`. The order of experiments matters, because a merge that meets
different metadata stops where it is.

### BranchTracker

`BranchTracker` has the globals of `branch_tracker.c`; `hits` is history, everything that
was recorded whether or not it was stored. `test1.c` records the sign of its secret; the
branches of `mbedtls_mpi_exp_mod` are not in this repository and may record anything.

## Runs

Every passing run explores its state space completely.

| run | instance | shows |
|---|---|---|
| `capture` | 4 chunks, a pipe of 2, 2 signals, all faults, with and without a SIGTERM handler; exit codes of 2 workers, both loops | the log is a prefix and complete after reaping; handles are closed under a user only where a signal cut a launch or the exit short; everything settles; escalation ends the worker; orphans end; `reap_finished` reports true codes, `wait_for_processes` no false success |
| `campaign` | 3 units (2, 1 and 1 tasks, the second a fallback), limit 2, 2 signals, failing starts and run definitions | limit, rounds, one start per task, complete postprocessing, tracked workers killed, nobody left behind, termination unless a worker blocks on a dead reader; implements `WorkerPool` |
| `copies` | 2 copies that print, starts may fail, signals or an exception | success is complete, logs are drained, statuses stable, copies outlive commands, tracked processes dead unless a signal left the escalation, the loop ends; implements `WorkerPool` |
| `copies_late_start` (violation) | 1 copy, a signal | the drain loop starts a command after the signal |
| `case` | KLEE and Binsec, 2 campaigns, 2 signals, 2 commands before the tool, 1 finding, output that cannot be read | results are the campaign's own, success is complete, a process is left only where reading its output failed, everything ends |
| `case_log` (violation) | Binsec, 1 campaign, no signal | the log is converted before the tool's last lines are in it |
| `limiter_nest` | two loops inside a third, all shapes, modes, lists; 2-bit counters, bound 1 | the bound holds on each entry, below it nothing changes, an instrumented function ends |
| `limiter_exact` (violation) | bound 2 | a `while` loop that wants exactly 2 iterations is cut |
| `limiter_block` (violation) | bound 2, one-block loops too | in break mode a one-block loop runs its body 3 times |
| `harness_hacl` (violation) | the inputs of hacl's chacha20 | no witness of this target can be replayed |
| `offline` | two secrets around a public, 1 and 2 bytes of 2 values, 6 declarations, 2 calls of up to 4 bytes; 13 programs with 3 to 5 secrets each, 2 rows; 3 campaigns of up to 2 copies and 2 experiments; histories of 2 with up to 3 visits | where the configs agree, replays run on the witness and every complete witness is replayed; the segments implement `InputStream`, everything ends; culprit, kind and status are right, accesses that one run does not make and rows that are not tried included; a started row is judged; the top bit is found; merges hold the present campaign's results; the tracker's verdict |
| `offline_predicated` (violation) | 1 row | an access that only the second run makes: the next instruction is blamed |

Bounds. Four chunks and a pipe of two make a full pipe, a torn message behind a complete
one, and text left in the pipe at exit possible. Three units with different numbers of
cases let a group run out in an earlier round than the others and mix both kinds of
worker under one limit; two signals are enough for one inside the other's handler, and a
third starts from a state the second one reaches too. Two copies let one worker's
progress hide another's. Two workers let the reader of one race the main thread at the
other. Two campaigns over one results directory let everything the first one leaves meet
the second; a third would meet the same kinds of remains. Two signals let one hit the
handling of the other. With two loops inside a third, a loop is entered from the body,
after a sibling and again in a later iteration; bound 1 with 2-bit counters is the
largest bound the comparison can hold; `ran` counts to `MaxTrip` = 3, beyond everything
`BodyBound` allows, and loops want from no iteration to one more than `MaxTrip`, which
stands for no end. Segments of 2 and 1 bytes with reads of 0 to 4 end before, at and
after the end of a segment and of the stream, and a second call starts in each of these
places; a buffer of two bytes tells the byte orders apart; a public between the secrets
tells the loader's order from the config's; the declarations agree, order two inputs
differently, miss or add an input, and call a secret a public or the reverse. The
secrets of a program take each of its branches and several of its indices, and some
pairs differ only in bits the program does not look at. Two rows let one meet what the
other left. Three campaigns let two generations of leftovers meet, or a failed campaign
follow two successful ones; one visit more than the history holds is enough for every
later one.

Fairness. The actors are scheduled by the operating system, so each gets weak fairness.
Workers and commands end: the runners give each tool a time limit (`timeout
--kill-after`), and a command's own end is the user's affair. In `Campaign` a worker
whose reader is dead is not among them, unless it was killed. Signals, faults and a
worker's own SIGTERM handler get no fairness, so the liveness properties hold whether or
not they occur and however long the handler takes. `Runner` has weak fairness of its
whole next step: it is sequential code that no other process can hold up, and its
program makes at most `MaxCalls` calls. Of `ReplayTrace` only the steps of a row that
was started are fair (`subprocess.run` waits for Pin or kills it, and the comparison is
sequential); nobody has to start a row, a campaign or a merge.

Deadlock is checked in every passing run: terminal states have an explicit stuttering
step (`Finished`, `Ended`) that is enabled only when everything is over. The parts of a
composite that are off enable nothing.

## Proofs

`CampaignProofs` proves, for every number of units, cases, signals and every
limit, `TypeOK`, `LimitRespected`, `PostprocessComplete`, `InterruptStopsTracked`,
`NoWorkerLeft`, `FairRounds` and the action property `StartedOnce` (which the run checks as
part of `PoolSpec`), from
`CampaignAssumption` alone. The others are not inductive. The invariant `IInv` adds

* `OrderInv`: the groups waiting have cases left and are in one list only;
* `CurInv`: the task being launched is the next one of its group, so launching
  cannot repeat or skip one;
* `ReapInv`: what `reap_finished` knows of an element at each of its steps;
* `HeldInv`: every running worker is in `active_runs` or in `spawned`, and the two
  together respect the limit. The limit has to be stated of this union: a process
  is running before it is counted;
* `DoneInv`: every task before the main thread's position was started, and one
  that has left `active_runs` was collected, its exit code counted in
  `launch_failures` or in the pass under way. `PostprocessComplete` follows when
  both lists are empty;
* `EndInv` and `StopInv`: a running worker has an open `Process` (so the exit
  handler joins it), and after the escalation every tracked one was killed;
* `RoundInv`: the groups still to be visited in a round are level, and those already
  visited are exactly one case further. `FairRounds` alone does not say where in the
  round a group is, and so does not survive the step to the next one;
* `FreshInv`: until the campaign stops, only a task behind the main thread's position,
  or the one being launched, has a process. With `CurInv` this is why the process
  started next was never started before.

One lemma per conjunct shows that each action preserves it.

The same invariant carries the refinement `CampaignRefinesPool`: `GateFresh` (from
`CurInv` and `FreshInv`) and `HeldInv` make `StartProcess` a `Launch` with room,
`PostprocessComplete` makes the decision for 0 a `Succeed`, and `LeavingStays` shows
that `main()`, once it is leaving, neither comes back nor turns a failure into a
success. `VerdictStep` is the case of all the steps that start and end nothing.

`LoopLimiterProofs` proves `TypeOK`, `BodyBound`, `CutOnlyAtBound` and `LeftExact`
for every nest, shape and width, from `LimiterAssumption` and the premise
`MaxIterations < Half`. The premise is needed: from 2^31 on the bound is negative in
the signed comparison (`LoopLimiter.cpp` 187, 217) and paths are cut before the first
iteration. Its
`IInv` says of the nest (`NestOk`) that the open loops are the running one and
the loops around it, which makes leaving a loop return to a loop that is in its
body, and of each open loop (`LoopInv`) how `counter`, `ran` and `trip` are related
at each block: equal at the header, one apart in the body. `NestOk` says it
without a closure: each open loop's parent is open, two open loops have
different parents, and none has the running loop as its parent.

`OutputCaptureProofs` proves `LogIsPrefix`, `NothingLost` and `QueueOutlivesWorker` for
any number of chunks, any pipe and every combination of faults, from
`CaptureAssumption`. Its invariant `CInv` accounts for every chunk:

* `StreamInv`: log, the chunk the reader holds, and the front of the pipe are consecutive
  numbers up to `sent`; behind them the pipe holds at most a torn message and then the
  end marker, and which of the two depends on where the worker is. `LogIsPrefix` speaks of
  the log only and says nothing of the chunk that is written next;
* `EndInv`: the reader leaves its first loop only when the worker is over, and one that
  ended, other than by a failed write, has written everything. This is what the second
  loop of `forward_worker_output` is for;
* `HandleInv`: which handles are open and which threads have ended at each point of the
  main thread; `QueueOutlivesWorker` is part of it.

`ExitStatusProofs` proves `ReportedIsActual` for any number of workers. A code passes through
three places before it is reported; `SInv` says that a stored code is the process's own
and the process is gone, that a thread about to store has taken the status (`TakenInv`),
and that `join()` returns after the worker's end (`JoinedInv`). That the loop goes on to a
worker of the list needs a least element, taken from the well-foundedness of the numbers.

`ParallelCopiesProofs` proves `SuccessMeansAll`, `FinalizedDrained`,
`CopiesOutliveCommands`, `InterruptStopsTracked` and the action property `StatusStable`
for any number of copies, any output and any mixture of failed starts, exceptions and
signals (a second one inside `terminate_workers` included), from `CopiesAssumption`.
`PInv` consists of

* `FlowInv`: a worker goes from its `cp` over a successful copy to a tracked command, the
  main thread is at a worker that has not passed the step, and one that is not finalized
  has no code, which is why a code is written once;
* `FinalInv`: a worker finalized without a signal or exception has no process left, and its
  code is 0 only if the command's was;
* `StreamInv`: what was printed is logged or unread, and a stream that was closed is at its
  end. A stream chosen by `select` keeps something to read until it is drained;
* `EndInv` and `StopInv`: the loop is left when all are finalized, and once
  `terminate_workers` has waited to its end nothing it knew of is running.

`CopiesRefinesPool` is the refinement of `WorkerPool`. It needs one more fact,
`DecidedInv`: there is no result before `main()` is done. With it and `FlowInv` a
command that is started has not run and no result exists (`SpawnRefines`);
`SuccessMeansAll` is what makes `Collect` a `Succeed` (`CollectRefines`).

`CaseRunProofs` proves `TypeOK`, `ResultIsOwn`, `SuccessIsComplete` and `NothingLeft` for
any number of campaigns, commands, findings and signals, from `CaseAssumption` alone.
Its `IInv` follows the files from step to step:

* `WorkInv`: a worker at work has settled on no exit code, and the preparing commands
  are done before the tool starts;
* `ChildInv` and `SpaceInv`: only a worker that waits for its subprocess, or one that was
  signalled, has one; the workspace goes from nothing to mirrored to ready and is gone
  at the end;
* `OutputInv`: after `cleanup_outputs` an output directory can only be the run's own, and
  the one moved is. This is what makes `ResultIsOwn` hold with old output in the checkout;
* `StatsInv`: a stats file is the campaign's own or that of a stopped earlier worker;
* `FileInv`: which of the result files exist, and from what, at each step.

`RunnerProofs` proves, for any number and sizes of segments and any calls, that the
harness implements `InputStream` (`HarnessRefinesStream`), from `SegmentsAssumption`, which
only says that `Start` is the sum of the sizes. Its invariant `IoInv` says that the place
is inside a segment or at the end, and that a read in progress has filled the front of
its buffer with consecutive bytes; it is inductive and proved as `HarnessInvariant`. With
it `CopySegment` leaves `Delivered` alone (it advances the place by what it takes from
`remaining`) and `ReadDone` is the stream's `Read`. Every other step of `Runner` leaves the
stream's variables alone or is one of its calls (`HarnessStep`).

It also proves, from `RunnerAssumption`, `WitnessReplayed` (`HarnessReplaysAll`) and
`ReplayMatchesAnalysis` (`HarnessReplaysWitness`) for every runner config, every size of
the buffers and every number of values of a byte. Both are about declarations that agree
with the runner config (`Agrees`), which is needed, as the limits below say. `WInv`
follows the values: the two executions share their publics, which are the preset's where
it fixes them (`WorldInv`); a witness holds what the executions held, as bytes or as
numbers (`WitnessInv`); the files are in the order in which the replay loads them
(`ArgvInv`); a run that is over has reached `driver_main` (`ReachedInv`). Under it are
lemmas about data: `ToBigFromBig` (writing a number as big-endian bytes undoes reading
it), `ReversedBytes`, `CanonicalBytes` (the detour through Binsec's little-endian number
ends at the bytes of the memory), and `IdsOfKind` (the generated loader takes every
input of a kind and no other). They are proved by induction over a set of numbers
(`UpTo`), which the provers can instantiate where they cannot instantiate a formula; for
this `ToBig` and `Ids` are recursive functions.

`OfflineProofs` proves `MergedIsCurrent` for any number of campaigns, copies and experiments
from `MergeAssumption`. `MergedIsCurrent` speaks of the end of a merge only. `MInv` adds what
makes it true there: a file names the campaign that wrote it and this campaign's files
agree in their metadata (`FilesInv`), an earlier campaign's file can only be where the
directory was not emptied (`LeftoverInv`, from the start of a campaign to its merge), and
an experiment that is no longer in the queue is merged from its files (`QueueInv`).

It proves `TrackerVerdict` for any history length and any sequence of branches
(`TrackerAssumption`). `BInv` says that a history holds the first visits and -1 behind them
(`HistoryInv`), and that `test1.c` records one branch per run (`TestInv`). Two histories of
runs that differ in length cannot be equal, because a recorded branch is never -1; that is
the step from the slots to `FirstVisits` (`HistoriesAreVisits`).

It proves `CulpritLeaks` and `StatusMeans` (`ReplayCulprit`, `ReplayStatus`) for any
programs, any witnesses, rows, claims and look-back, from `ReplayAssumption`. Of the
programs it only assumes that the two executions of a row begin at the same
instruction (`SameEntry`); an instruction may make any accesses, other ones and fewer of
them in one run than in the other. What the comparison then finds is part of the
properties: an access that one run does not make looks like a branch (`KindShown`), and if
it is the first run that lacks it (`MissingFirst`), the instruction after it is blamed.
In every other case the culprit is the first instruction that differs, or the branch
before it. The properties speak of executions, the code compares lines; the invariant
`RInv` relates the two:

* `WritingInv`: a trace file is laid out (`Laid`) by a function that gives, for each
  instruction, the line it ends at: one line, and one more for each access;
* `CompareInv`: so many instructions were the same, and the comparison is at the first line of
  the next one or among its accesses (`Compared`). The last entry of `recent` is then the
  last common instruction, which is what `compare_trace_files` blames for a branch;
* `RowInv` and `ExecInv`: rows are judged in order, and a row's executions satisfy the assumption
  while it is replayed.

These theorems are about `ReplaySpec`, `MergeSpec` and `TrackerSpec`, and those of
`RunnerProofs` about `HarnessSpec`, the components on their own; in `Offline` nothing
else changes their variables. The same holds of `OutputCapture` and `ExitStatus` in
`CapturedWorkers`.

Only model-checked: the liveness properties, since fairness and `ENABLED` are beyond the
prover; and what `Examples` says of the example programs (`TopBitFound`), which rests on
`Programs` and through it on `Bitwise`, a module that no theorem may reach.

## What the violations show

`PROJECT.json` quotes, for each, the line that says otherwise.

* After a signal `parallel_klee_copies.py` may start a command (136) and return
  while it runs.
* The Binsec worker parses its own log (`run_binsec.py` 656) without waiting for the
  thread that writes it; a leak whose line is missing has no time and is dropped
  when copies are merged.
* In exit mode the limiter's check precedes the loop's own test (`LoopLimiter.cpp`
  207), so that a loop with exactly the bound's number of iterations is cut.
* In break mode the check of a one-block loop is part of the branch behind its body
  (`LoopLimiter.cpp` 194), so that the body runs once more than the bound.
* The tracer records no access for an instruction whose predicate is false
  (`replay_trace.cpp` 37, 48); where the second of two runs makes an access that the first
  does not, the reproducer blames the next instruction (`reproduce_positives.py` 418), and
  takes the leak for a branch.
* The chacha20 target of hacl declares inputs (`configs/benchmarks/hacl.toml` 93) that its
  runner config does not make secret, or does not have; its reports are never
  replayed.

## Limits

* A signal between `process.start()` and `active_runs.append` (`run_experiments.py` 393 and
  460) finds a list without the new worker, which is then not stopped.
  `InterruptStopsTracked` of `Campaign` is about the workers in the list. A signal inside the
  launch itself also takes the read end of the pipe from that worker
  (`QueueOutlivesWorker` of `OutputCapture`).
* A second signal while `parallel_klee_copies.py` stops its workers (122-128) leaves the wait
  before SIGKILL is sent; what ignores SIGTERM then runs on. `InterruptStopsTracked` of
  `ParallelCopies` excludes it.
* `run()` stops its command for `KeyboardInterrupt` only (`common.py` 877-886): after an
  exception of the strict decoding the command runs on, `NothingLeft` says so, and a Binsec
  left in this way can write into the next campaign's directory (`ResultIsOwn`).
* `cp` writes to pipes that nobody reads until it has exited (`parallel_klee_copies.py`
  195, 220). `Terminates` of `ParallelCopies` excludes a `cp` whose messages fill them.
* Repetitions of an earlier campaign with more copies stay in their directories and
  are merged; `MergedIsCurrent` says that they can be nowhere else.
* `ReplayMatchesAnalysis` and `WitnessReplayed` are about declarations that agree with the
  runner config. The checks of `main()` compare numbers and sizes of files only: two
  inputs of equal size in the wrong order, or a KLEE secret declared as a public (which
  gives both runs its first value), are replayed without an error on other values. `klee_assume` constraints of a
  runner config are left out, and `RUNNER_ABACUS_PUBLIC_FIXED` is taken as defined.
* A culprit without a DWARF line is reported as an earlier instruction (`StatusMeans` names
  the exception). A location is a line: columns, and the snapping of columns, are left
  out. The trace of a run that was killed is not compared.
* Nothing is claimed of `toy_binsec_wrong_location.c`. Its comment (96) says that any witness
  that changes `secret_buf` changes the first lookup; secrets that agree in their low two
  bits, such as 0 and 4, change neither, and the row becomes `identical_trace`.
* The tracker says nothing of branches after the first `MAX_BRANCH_VISITS`.
* `Settles` excludes a failed log write: the reader thread then dies, and a worker
  with more text than the pipe holds blocks for ever. `Terminates` of `Campaign` has the same
  exception. The code does not handle it, and nothing claims that it does.
* `ReportedIsActual` lets `wait_for_processes` report a failure for a success: while
  it blocks in `join()`, a reader thread can collect the status first, and
  `_process_exitcode` (`common.py` 489) reads an unknown code as 1.
* `ResultIsOwn` excludes Binsec after an interrupted campaign: a Binsec process that
  outlives its worker writes its stats file into the directory of the next campaign.
  `NothingLeft` excludes a workspace whose directories or links could not be made;
  its removal covers only the copy (`common.py` 594-606). A full disk after that is
  not modelled, nor is an orchestrator killed while its workers live on.
* `force_finalize_workers` may write status 0 for a command that is still running
  (`parallel_klee_copies.py` 423); no line says otherwise.
* A time-out (`join(timeout=2)`, the deadline) may expire at any moment; no model
  has a clock.
* Exit codes are 0 or failure, except in `ParallelCopies`, which also tells a
  signal apart. Text, tags and paths are left out.
* `CopiesOutliveCommands` excludes an unexpected exception in the event loop,
  after which the code removes the copies without stopping anything.

## Not modelled

* Abacus runners and validation: the case worker has the shape of `CaseRun` without a
  time file; the validation compares two logs.
* The parsers of tool output, and the formatting of command lines, paths and reports:
  text in, text out.
* The CSV steps after the merge of repetitions (tools side by side, filters, sliced map,
  summaries, timings): pure functions over finished files.
* The slicing tests: functions called with constants, and the text Frama-C printed for
  them.
* The Abacus mode of the reproducer (`mode_abacus_json`), which has the steps of
  `mode_dataframe`, and the toy of `examples/` whose trace does not depend on its secret.
* Registry, schema and configuration: tables; `Runner` takes what it needs as constants.
* Installation, vendored benchmarks and stored results.

## Plan

1. The Abacus runner as a third tool of `CaseRun`.
2. The CSV merge by location and the timing selection as operators against reference
   definitions.
