------------------------------- MODULE CaseRun -------------------------------
(***************************************************************************)
(* One case of a campaign: the worker of run_klee_family.run_benchmark and *)
(* of run_binsec.run_benchmark.  It makes a temporary workspace, builds    *)
(* the benchmark in it, runs the tool, records the verification time and   *)
(* turns the tool's output into the case's JSON in the results directory.  *)
(* A campaign may be run again over the same results directory, after its  *)
(* worker was killed too; processes that a worker leaves behind run on.    *)
(***************************************************************************)
EXTENDS Naturals, FiniteSets

CONSTANTS
  Tools,        \* the runners considered, of "klee" and "binsec"
  MaxAttempts,  \* bound: campaigns over the same results directory
  MaxJobs,      \* bound: commands before the tool (the build, the loop limiter)
  MaxRows,      \* bound: findings to be replayed
  MaxSignals    \* bound: signals sent to the workers

ASSUME CaseAssumption ==
  /\ Tools \subseteq {"klee", "binsec"} /\ Tools # {}
  /\ MaxAttempts \in Nat \ {0} /\ MaxJobs \in Nat \ {0}
  /\ MaxRows \in Nat /\ MaxSignals \in Nat

Attempt  == 1..MaxAttempts
Killed   == 137
TimedOut == 124
None     == 999       \* the worker has not ended

VARIABLES
  tool,     \* which runner
  attempt,  \* the current campaign
  pc,       \* where its worker is
  code,     \* the exit code the worker ends with
  jobs,     \* commands still to run before the tool
  rows,     \* findings still to be replayed
  rc,       \* exit code of the last subprocess
  sent,     \* signals sent so far
  stopped,  \* campaigns whose worker got a signal
  garbled,  \* campaigns whose worker gave up on the output of a command
  ws,       \* the workspace of each campaign
  outs,     \* in each workspace: whose output klee-out-0 and klee-out-1 hold
  child,    \* the subprocess each campaign's worker has started
  timing,   \* _timings/<case>.json
  dest,     \* results directory: the moved KLEE output
  stats,    \* results directory: the campaign that wrote the Binsec stats file, 0 for none
  json,     \* results directory: the case's JSON
  jsonBy,   \* the campaign that wrote it
  source,   \* whose output it was made from
  text,     \* the tool's output on its way to the worker's log
  logSeen   \* the log held all of it when the converter read it

workVars == <<code, jobs, rows, rc>>
signalVars == <<sent, stopped, garbled>>
fileVars == <<timing, dest, json, jsonBy, source, logSeen>>
vars == <<tool, attempt, pc, workVars, signalVars, ws, outs, child, stats, text, fileVars>>

Empty == [i \in {0, 1} |-> "none"]

Init ==
  /\ tool \in Tools /\ attempt = 0 /\ pc = "ended"
  /\ code = 0 /\ jobs = 0 /\ rows = 0 /\ rc = 0
  /\ sent = 0 /\ stopped = {} /\ garbled = {}
  /\ ws = [k \in Attempt |-> "none"] /\ outs = [k \in Attempt |-> Empty]
  /\ child = [k \in Attempt |-> "none"]
  /\ timing = "none" /\ dest = "none" /\ stats = 0 /\ json = "none" /\ jsonBy = 0
  /\ source = "none" /\ text = "none" /\ logSeen = FALSE

\* The orchestrator empties the results directory and launches the worker.
StartCampaign ==
  /\ pc = "ended" /\ attempt < MaxAttempts
  /\ attempt' = attempt + 1 /\ pc' = "make"
  /\ code' = None /\ rows' = 0 /\ rc' = 0
  /\ jobs' \in IF tool = "klee" THEN 1..MaxJobs ELSE {1}
  /\ timing' = "none" /\ dest' = "none" /\ stats' = 0 /\ json' = "none" /\ jsonBy' = 0
  /\ source' = "none" /\ text' = "none" /\ logSeen' = FALSE
  /\ UNCHANGED <<tool, signalVars, ws, outs, child>>

-----------------------------------------------------------------------------
(* prepare_benchmark_workspace *)

\* mkdtemp: every campaign gets a directory of its own
MakeRoot ==
  /\ pc = "make"
  /\ \/ /\ ws' = [ws EXCEPT ![attempt] = "mirror"]
        /\ pc' = "mirror" /\ code' = code
     \/ ws' = ws /\ pc' = "ended" /\ code' = 1
  /\ UNCHANGED <<tool, attempt, jobs, rows, rc, signalVars, outs, child, stats, text, fileVars>>

\* Directories and links for the rest of the repository: an error here is not handled.
MirrorFails ==
  /\ pc = "mirror"
  /\ pc' = "ended" /\ code' = 1
  /\ UNCHANGED <<tool, attempt, jobs, rows, rc, signalVars, ws, outs, child, stats, text, fileVars>>

\* copytree of the benchmark: an old klee-out-0 in the checkout is copied with it,
\* and an error removes the workspace.
CopyBenchmark ==
  /\ pc = "mirror"
  /\ \/ /\ ws' = [ws EXCEPT ![attempt] = "ready"]
        /\ \E old \in {"none", "old"} : outs' = [outs EXCEPT ![attempt][0] = old]
        /\ pc' = "job" /\ code' = code
     \/ /\ ws' = [ws EXCEPT ![attempt] = "removed"]
        /\ pc' = "ended" /\ code' = 1 /\ outs' = outs
  /\ UNCHANGED <<tool, attempt, jobs, rows, rc, signalVars, child, stats, text, fileVars>>

\* the workspace is left behind
LeaveOnly ==
  /\ pc = "leave"
  /\ pc' = "ended"
  /\ UNCHANGED <<tool, attempt, workVars, signalVars, ws, outs, child, stats, text, fileVars>>

\* the end of the with statement: BenchmarkWorkspace.cleanup
Leave ==
  /\ pc = "leave"
  /\ ws' = [ws EXCEPT ![attempt] = "removed"]
  /\ outs' = [outs EXCEPT ![attempt] = Empty]
  /\ pc' = "ended"
  /\ UNCHANGED <<tool, attempt, workVars, signalVars, child, stats, text, fileVars>>

\* an exception, or the end of the body, on its way out of the with statement
Exit(c) == pc' = "leave" /\ code' = c

-----------------------------------------------------------------------------
(* ExperimentContext.run, for the commands that prepare the case and for the tool *)

\* Popen starts the command or raises
Spawn(what) ==
  /\ \/ child' = [child EXCEPT ![attempt] = what] /\ pc' = "spawned" /\ code' = code
     \/ Exit(1) /\ child' = child
  /\ UNCHANGED <<tool, attempt, jobs, rows, rc, signalVars, ws, outs, stats, text, fileVars>>

StartJob  == pc = "job" /\ jobs > 0 /\ Spawn("job")
StartTool == pc = "launch" /\ Spawn("tool")

\* the try statement whose body copies the command's lines
EnterLoop ==
  /\ pc = "spawned"
  /\ pc' = "wait"
  /\ UNCHANGED <<tool, attempt, workVars, signalVars, ws, outs, child, stats, text, fileVars>>

\* A line that is not valid text, or one that cannot be written on, raises in the loop.
\* Only KeyboardInterrupt is caught there: the command is left running.
StreamFails ==
  /\ pc = "wait"
  /\ garbled' = garbled \cup {attempt}
  /\ Exit(1)
  /\ UNCHANGED <<tool, attempt, jobs, rows, rc, sent, stopped, ws, outs, child, stats, text,
                 fileVars>>

JobDone ==
  /\ pc = "wait" /\ jobs > 0 /\ child[attempt] = "none"
  /\ IF rc # 0
       THEN Exit(rc) /\ jobs' = jobs
       ELSE jobs' = jobs - 1 /\ pc' = "job" /\ code' = code
  /\ UNCHANGED <<tool, attempt, rows, rc, signalVars, ws, outs, child, stats, text, fileVars>>

\* check=False: the exit code is looked at later; all the tool's lines were printed
ToolDone ==
  /\ pc = "wait" /\ jobs = 0 /\ child[attempt] = "none"
  /\ pc' = "timing" /\ text' = "sent"
  /\ UNCHANGED <<tool, attempt, workVars, signalVars, ws, outs, child, stats, fileVars>>

\* The case table and its options may be rejected.
ReadCase ==
  /\ pc = "job" /\ jobs = 0
  /\ \/ Exit(1)
     \/ pc' = (IF tool = "klee" THEN "clear" ELSE "launch") /\ code' = code
  /\ UNCHANGED <<tool, attempt, jobs, rows, rc, signalVars, ws, outs, child, stats, text, fileVars>>

ClearNothing ==
  /\ pc = "clear"
  /\ pc' = "launch"
  /\ UNCHANGED <<tool, attempt, workVars, signalVars, ws, outs, child, stats, text, fileVars>>

\* cleanup_outputs before the run
Clear ==
  /\ pc = "clear"
  /\ outs' = [outs EXCEPT ![attempt] = Empty]
  /\ pc' = "launch"
  /\ UNCHANGED <<tool, attempt, workVars, signalVars, ws, child, stats, text, fileVars>>

-----------------------------------------------------------------------------
(* After the tool *)

\* verification_status: only timeout(1), which the KLEE runners use, exits with 124
Status(c, over) ==
  IF (tool = "klee" /\ c = TimedOut) \/ over THEN "timeout"
  ELSE IF c = 0 THEN "completed" ELSE "failed"

\* write_verification_timing; a Binsec run that failed ends here
WriteTiming ==
  /\ pc = "timing"
  /\ \E over \in BOOLEAN : timing' = Status(rc, over)
  /\ IF tool = "binsec" /\ rc # 0
       THEN Exit(rc)
       ELSE pc' = (IF tool = "klee" THEN "move" ELSE "stats") /\ code' = code
  /\ UNCHANGED <<tool, attempt, jobs, rows, rc, signalVars, ws, outs, child, stats, text,
                 dest, json, jsonBy, source, logSeen>>

\* klee-out-0 replaces the destination; across file systems this is a copy
MoveStarts ==
  /\ pc = "move"
  /\ IF outs[attempt][0] = "none"
       THEN Exit(1) /\ dest' = dest
       ELSE pc' = "moving" /\ dest' = "partial" /\ code' = code
  /\ UNCHANGED <<tool, attempt, jobs, rows, rc, signalVars, ws, outs, child, stats, text,
                 timing, json, jsonBy, source, logSeen>>

\* the move is complete, and cleanup_outputs clears the rest
MoveEnds ==
  /\ pc = "moving"
  /\ dest' = outs[attempt][0]
  /\ outs' = [outs EXCEPT ![attempt] = Empty]
  /\ pc' = "convert"
  /\ UNCHANGED <<tool, attempt, workVars, signalVars, ws, child, stats, text,
                 timing, json, jsonBy, source, logSeen>>

\* a Binsec run without a stats file is a success without a JSON
FindStats ==
  /\ pc = "stats"
  /\ IF stats = 0 THEN Exit(0) ELSE pc' = "convert" /\ code' = code
  /\ UNCHANGED <<tool, attempt, jobs, rows, rc, signalVars, ws, outs, child, stats, text, fileVars>>

ConvertFails ==
  /\ pc = "convert"
  /\ Exit(1)
  /\ UNCHANGED <<tool, attempt, jobs, rows, rc, signalVars, ws, outs, child, stats, text, fileVars>>

\* convert_klee_output of the moved directory; its rows are written before the replay
ConvertKlee ==
  /\ pc = "convert" /\ tool = "klee"
  /\ source' = dest /\ pc' = "write"
  /\ rows' \in 0..MaxRows
  /\ UNCHANGED <<tool, attempt, code, jobs, rc, signalVars, ws, outs, child, stats, text,
                 timing, dest, json, jsonBy, logSeen>>

\* convert_binsec_toml reads the stats file and the worker's own log, which the
\* orchestrator's reader thread writes; the JSON is written after the replay
ConvertBinsec ==
  /\ pc = "convert" /\ tool = "binsec"
  /\ source' = (IF stats = attempt THEN "own" ELSE "earlier")
  /\ logSeen' = (text = "logged")
  /\ rows' \in 0..MaxRows /\ pc' = "replay"
  /\ UNCHANGED <<tool, attempt, code, jobs, rc, signalVars, ws, outs, child, stats, text,
                 timing, dest, json, jsonBy>>

\* open(..., "w") truncates the file, json.dump fills it
OpenJson ==
  /\ pc \in {"write", "save"}
  /\ json' = "torn" /\ jsonBy' = attempt
  /\ pc' = (IF pc = "write" THEN "dump" ELSE "flush")
  /\ UNCHANGED <<tool, attempt, workVars, signalVars, ws, outs, child, stats, text,
                 timing, dest, source, logSeen>>

DumpJson ==
  /\ pc \in {"dump", "flush"}
  /\ IF pc = "dump"
       THEN json' = "rows" /\ pc' = "replay" /\ code' = code
       ELSE json' = "final" /\ Exit(0)
  /\ UNCHANGED <<tool, attempt, jobs, rows, rc, signalVars, ws, outs, child, stats, text,
                 timing, dest, jsonBy, source, logSeen>>

StartReplayAgain ==
  /\ pc = "replay" /\ rows > 0
  /\ child' = [child EXCEPT ![attempt] = "replay"]
  /\ pc' = "replaying"
  /\ UNCHANGED <<tool, attempt, workVars, signalVars, ws, outs, stats, text, fileVars>>

\* one finding is run under Pin
StartReplay ==
  /\ pc = "replay" /\ rows > 0
  /\ child' = [child EXCEPT ![attempt] = "replay"]
  /\ rows' = rows - 1 /\ pc' = "replaying"
  /\ UNCHANGED <<tool, attempt, code, jobs, rc, signalVars, ws, outs, stats, text, fileVars>>

\* it ends by itself or in its time limit
ReplayDone ==
  /\ pc = "replaying"
  /\ child' = [child EXCEPT ![attempt] = "none"]
  /\ pc' = "replay"
  /\ UNCHANGED <<tool, attempt, workVars, signalVars, ws, outs, stats, text, fileVars>>

ReplayErrorIgnored ==
  /\ pc = "replay"
  /\ Exit(0)
  /\ UNCHANGED <<tool, attempt, jobs, rows, rc, signalVars, ws, outs, child, stats, text, fileVars>>

\* an operational error of the replay ends the worker; the rows stay as they were written
ReplayFails ==
  /\ pc = "replay"
  /\ Exit(2)
  /\ UNCHANGED <<tool, attempt, jobs, rows, rc, signalVars, ws, outs, child, stats, text, fileVars>>

ReplaysDone ==
  /\ pc = "replay" /\ rows = 0
  /\ pc' = "save"
  /\ UNCHANGED <<tool, attempt, workVars, signalVars, ws, outs, child, stats, text, fileVars>>

-----------------------------------------------------------------------------
(* Signals *)

\* Where a KeyboardInterrupt takes the worker: run() stops its command first, but only
\* from the loop that copies the lines, and outside of the with statement nothing is
\* cleaned up.
AfterInterrupt ==
  CASE pc \in {"make", "mirror", "leave"} -> "ended"
    [] pc = "wait"                        -> "stop"
    [] OTHER                              -> "leave"

\* What is left of the subprocess: subprocess.run kills a replay before it lets the
\* exception pass, but not the Pin run that Binsec's replay command has started.
AfterKill ==
  IF pc # "replaying" THEN {child[attempt]}
  ELSE IF tool = "binsec" THEN {"none", "replay"} ELSE {"none"}

\* SIGINT
Interrupt ==
  /\ pc # "ended" /\ sent < MaxSignals
  /\ sent' = sent + 1 /\ stopped' = stopped \cup {attempt}
  /\ pc' = AfterInterrupt /\ code' = 130
  /\ \E rest \in AfterKill : child' = [child EXCEPT ![attempt] = rest]
  /\ UNCHANGED <<tool, attempt, jobs, rows, rc, garbled, ws, outs, stats, text, fileVars>>

\* _stop_streamed_process: terminate, then kill.  What the command itself has started
\* (KLEE under timeout, make under the builder) is not killed with it.
StopChild ==
  /\ pc = "stop"
  /\ \E rest \in {"none", child[attempt]} : child' = [child EXCEPT ![attempt] = rest]
  /\ pc' = "leave"
  /\ UNCHANGED <<tool, attempt, workVars, signalVars, ws, outs, stats, text, fileVars>>

\* terminate_processes: SIGTERM, for which a case worker has no handler, or SIGKILL
Kill ==
  /\ pc # "ended" /\ sent < MaxSignals
  /\ sent' = sent + 1 /\ stopped' = stopped \cup {attempt}
  /\ pc' = "ended" /\ code' = Killed
  /\ UNCHANGED <<tool, attempt, jobs, rows, rc, garbled, ws, outs, child, stats, text, fileVars>>

-----------------------------------------------------------------------------
(* The processes the workers start, and the reader thread *)

\* a command of the preparation, or a replay that lost its worker, ends
JobEnds(k) ==
  /\ child[k] = "job" \/ (child[k] = "replay" /\ (k # attempt \/ pc # "replaying"))
  /\ child' = [child EXCEPT ![k] = "none"]
  /\ IF k = attempt THEN rc' \in {0, 1} ELSE rc' = rc
  /\ UNCHANGED <<tool, attempt, pc, code, jobs, rows, signalVars, ws, outs, stats, text, fileVars>>

\* KLEE takes the first free klee-out-N of its directory
KleeOpens(k) ==
  /\ tool = "klee" /\ child[k] = "tool" /\ ws[k] = "ready"
  /\ \A i \in {0, 1} : outs[k][i] # "own"
  /\ outs' = [outs EXCEPT ![k][IF outs[k][0] = "none" THEN 0 ELSE 1] = "own"]
  /\ UNCHANGED <<tool, attempt, pc, workVars, signalVars, ws, child, stats, text, fileVars>>

\* KLEE ends; without an output directory it has failed
KleeEnds(k) ==
  /\ tool = "klee" /\ child[k] = "tool"
  /\ child' = [child EXCEPT ![k] = "none"]
  /\ IF k = attempt
       THEN rc' \in (IF \E i \in {0, 1} : outs[k][i] = "own" THEN {0, 1, TimedOut} ELSE {1})
       ELSE rc' = rc
  /\ UNCHANGED <<tool, attempt, pc, code, jobs, rows, signalVars, ws, outs, stats, text, fileVars>>

\* Binsec writes its stats file into the results directory, or ends without it
BinsecEnds(k) ==
  /\ tool = "binsec" /\ child[k] = "tool"
  /\ child' = [child EXCEPT ![k] = "none"]
  /\ stats' \in {stats, k}
  /\ IF k = attempt THEN rc' \in {0, 1} ELSE rc' = rc
  /\ UNCHANGED <<tool, attempt, pc, code, jobs, rows, signalVars, ws, outs, text, fileVars>>

\* forward_worker_output writes the tool's lines to the log
LogText ==
  /\ text = "sent"
  /\ text' = "logged"
  /\ UNCHANGED <<tool, attempt, pc, workVars, signalVars, ws, outs, child, stats, fileVars>>

-----------------------------------------------------------------------------
Prepare == \/ MakeRoot \/ MirrorFails \/ CopyBenchmark \/ StartJob \/ EnterLoop \/ StreamFails
           \/ JobDone \/ ReadCase
Analyse == Clear \/ StartTool \/ ToolDone \/ WriteTiming \/ MoveStarts \/ MoveEnds \/ FindStats
Report  == \/ ConvertFails \/ ConvertKlee \/ ConvertBinsec \/ OpenJson \/ DumpJson
           \/ StartReplay \/ ReplayDone \/ ReplayFails \/ ReplaysDone
WorkerStep == Prepare \/ Analyse \/ Report \/ StopChild \/ Leave
Process(k) == JobEnds(k) \/ KleeEnds(k) \/ BinsecEnds(k)

Finished ==
  /\ pc = "ended" /\ attempt = MaxAttempts /\ text # "sent"
  /\ \A k \in Attempt : child[k] = "none"
  /\ UNCHANGED vars

Next == \/ StartCampaign \/ WorkerStep \/ Interrupt \/ Kill \/ LogText \/ Finished
        \/ \E k \in Attempt : KleeOpens(k) \/ Process(k)

(* The worker and the reader are scheduled; tools, builds and replays end, the  *)
(* tools by their time limits.  Signals and further campaigns need not come.    *)
Fairness == WF_vars(WorkerStep) /\ WF_vars(LogText) /\ \A k \in Attempt : WF_vars(Process(k))

Spec == Init /\ [][Next]_vars /\ Fairness

-----------------------------------------------------------------------------
(* Properties *)

\* The type invariant of a case.
TypeOK ==
  /\ tool \in Tools /\ attempt \in 0..MaxAttempts
  /\ pc \in {"ended", "make", "mirror", "job", "spawned", "wait", "clear", "launch", "timing",
             "move", "moving", "stats", "convert", "write", "dump", "replay", "replaying",
             "save", "flush", "stop", "leave"}
  /\ code \in {0, 1, 2, 130, TimedOut, Killed, None} /\ rc \in {0, 1, TimedOut}
  /\ jobs \in 0..MaxJobs /\ rows \in 0..MaxRows
  /\ sent \in 0..MaxSignals /\ stopped \subseteq Attempt /\ garbled \subseteq Attempt
  /\ ws \in [Attempt -> {"none", "mirror", "ready", "removed"}]
  /\ outs \in [Attempt -> [{0, 1} -> {"none", "old", "own"}]]
  /\ child \in [Attempt -> {"none", "job", "tool", "replay"}]
  /\ timing \in {"none", "completed", "timeout", "failed"}
  /\ dest \in {"none", "partial", "old", "own"} /\ stats \in 0..MaxAttempts
  /\ json \in {"none", "torn", "rows", "final"} /\ jsonBy \in 0..MaxAttempts
  /\ source \in {"none", "old", "own", "earlier"}
  /\ text \in {"none", "sent", "logged"} /\ logSeen \in BOOLEAN

\* A JSON in the results directory was written by the current campaign from the output of
\* its own tool run, whatever older output the checkout holds and whatever tools earlier
\* campaigns left running.  For Binsec the last part holds if no earlier worker was
\* stopped or gave up on its tool: that tool writes its stats file into the shared directory.
ResultIsOwn ==
  json # "none" =>
    /\ jsonBy = attempt
    /\ source = "own" \/ (tool = "binsec" /\ \E k \in stopped \cup garbled : k < attempt)

\* A worker that exits with 0 has recorded the time and left a JSON that went through the
\* replay, next to the KLEE output it was made from; or Binsec wrote no stats file.
SuccessIsComplete ==
  pc = "ended" /\ attempt > 0 /\ code = 0 =>
    /\ timing # "none"
    /\ \/ json = "final" /\ (tool = "klee" => dest = "own")
       \/ tool = "binsec" /\ json = "none"

\* A worker that nobody signalled removes the workspace it filled, whichever command,
\* conversion or replay failed, and leaves a process behind only if it gave up on the
\* output of a command: run() lets every exception but KeyboardInterrupt pass.
NothingLeft ==
  pc = "ended" /\ attempt > 0 /\ attempt \notin stopped =>
    /\ ws[attempt] # "ready"
    /\ child[attempt] # "none" => attempt \in garbled

\* The worker ends, and so do all the processes that it and earlier ones started.
Settles == <>[](pc = "ended" /\ \A k \in Attempt : child[k] = "none")

\* What convert_binsec_toml reads is the matching worker log: all the tool printed.
MatchingLog == json # "none" /\ tool = "binsec" => logSeen
=============================================================================
