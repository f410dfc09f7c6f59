------------------------------- MODULE Campaign -------------------------------
(***************************************************************************)
(* The orchestrator of scripts/experiments/run_experiments.py: the main    *)
(* thread that prepares the enabled runs, launches their workers under one *)
(* limit, reaps them, starts the postprocessing, and stops everything when *)
(* a signal arrives.                                                       *)
(*                                                                         *)
(* A unit is one (run definition, copy index) pair, in launch order.  A    *)
(* direct unit queues a group of case tasks; a fallback unit is one task,  *)
(* the tool's module itself.  A captured worker (module OutputCapture) is  *)
(* here a process that runs and exits and a reader thread that finishes.   *)
(***************************************************************************)
EXTENDS Naturals, FiniteSets

CONSTANTS
  NumUnits,     \* enabled runs times num_copies
  Direct,       \* the units whose tool exposes campaign_case_tasks
  MaxCases,     \* bound: case tasks of one unit
  Cases,        \* how many tasks each unit has
  Limit,        \* global_worker_limit; 0 stands for None
  PrepareMayFail, \* preparing a unit may raise SystemExit
  StartMayFail, \* process.start() may raise
  PostModes,    \* whether --postprocess-only may be given: a set of Booleans
  MaxSignals    \* bound: SIGINT and SIGTERM received

Unit == 1..NumUnits
Task == {t \in Unit \X (1..MaxCases) : t[2] <= Cases[t[1]]}
NoTask == <<0, 0>>

ASSUME CampaignAssumption ==
  /\ NumUnits \in Nat /\ MaxCases \in Nat \ {0}
  /\ Direct \subseteq Unit
  /\ Cases \in [Unit -> 0..MaxCases]
  /\ \A u \in Unit \ Direct : Cases[u] = 1
  /\ Limit \in Nat
  /\ PrepareMayFail \in BOOLEAN /\ StartMayFail \in BOOLEAN /\ PostModes \subseteq BOOLEAN
  /\ MaxSignals \in Nat

VARIABLES
  pc,        \* where the main thread is
  unit,      \* the unit the run loop prepares next
  pending,   \* groups not yet visited in this round of launch_pending_case_tasks
  carried,   \* next_groups
  pos,       \* the next case of each group
  cur,       \* the task to launch
  spawned,   \* started processes that are not in active_runs yet
  active,    \* active_runs
  finished,  \* the local list of reap_finished
  reaping,   \* the element of it being collected
  overall,   \* reap_finished saw a failure
  failures,  \* launch_failures
  status,    \* the exit status main() ends with
  late,      \* a signal arrived during interpreter exit
  signals,   \* signals received
  postOnly,  \* --postprocess-only was given
  proc,      \* the worker processes
  rc,        \* their exit codes: 0, or 1 for any failure
  stop,      \* the strongest signal sent to each of them
  reader,    \* their reader threads
  open,      \* their Process objects are open
  lost       \* the running ones whose reader thread died: nothing empties their pipe

launchVars == <<unit, pending, carried, pos, cur>>
reapVars   == <<finished, reaping, overall, failures>>
endVars    == <<status, late, signals, postOnly>>
procVars   == <<proc, rc, stop, reader, open>>
vars == <<pc, launchVars, spawned, active, reapVars, endVars, procVars, lost>>

TermPc == {"term1", "term2", "term3"}
ReapPc == {"collect", "joinReader", "cleanup", "remove"}
EndPc  == {"exiting", "gone"}

Running == {t \in Task : proc[t] = "running"}

Init ==
  /\ pc = "prepare" /\ unit = 1
  /\ pending = {} /\ carried = {} /\ pos = [u \in Unit |-> 1] /\ cur = NoTask
  /\ spawned = {} /\ active = {}
  /\ finished = {} /\ reaping = NoTask /\ overall = FALSE /\ failures = FALSE
  /\ status = 0 /\ late = FALSE /\ signals = 0 /\ postOnly \in PostModes
  /\ proc = [t \in Task |-> "none"] /\ rc = [t \in Task |-> 0]
  /\ stop = [t \in Task |-> "-"] /\ reader = [t \in Task |-> "none"]
  /\ open = [t \in Task |-> FALSE] /\ lost = {}

-----------------------------------------------------------------------------
(* The run loop and launch_run *)

\* an unknown template key, a duplicate destination or a bad benchmark
\* configuration: SystemExit leaves main() at once
PrepareRaises ==
  /\ pc = "prepare" /\ unit \in Unit /\ PrepareMayFail
  /\ pc' = "exiting" /\ status' = 1
  /\ UNCHANGED <<launchVars, spawned, active, reapVars, late, signals, postOnly, procVars, lost>>

\* launch_run returns before it launches anything
PrepareTarget ==
  /\ pc = "prepare" /\ unit \in Unit /\ postOnly
  /\ unit' = unit + 1
  /\ UNCHANGED <<pc, pending, carried, pos, cur, spawned, active, reapVars, endVars, procVars, lost>>

QueueCases ==
  /\ pc = "prepare" /\ unit \in Direct /\ ~ postOnly
  /\ unit' = unit + 1
  /\ pending' = pending \cup {u \in {unit} : Cases[u] > 0}
  /\ UNCHANGED <<pc, carried, pos, cur, spawned, active, reapVars, endVars, procVars, lost>>

PrepareFallback ==
  /\ pc = "prepare" /\ unit \in Unit \ Direct /\ ~ postOnly
  /\ cur' = <<unit, 1>>
  /\ pc' = "gate"
  /\ UNCHANGED <<unit, pending, carried, pos, spawned, active, reapVars, endVars, procVars, lost>>

PrepareDone ==
  /\ pc = "prepare" /\ unit = NumUnits + 1
  /\ pc' = IF postOnly THEN "post" ELSE "cases"
  /\ UNCHANGED <<launchVars, spawned, active, reapVars, endVars, procVars, lost>>

-----------------------------------------------------------------------------
(* launch_pending_case_tasks: one case of every group in each round *)

NextCase ==
  /\ pc = "cases"
  /\ \E u \in pending :
       /\ \A v \in pending : u <= v
       /\ cur' = <<u, pos[u]>>
  /\ pc' = "gate"
  /\ UNCHANGED <<unit, pending, carried, pos, spawned, active, reapVars, endVars, procVars, lost>>

NextRound ==
  /\ pc = "cases" /\ pending = {} /\ carried # {}
  /\ pending' = carried /\ carried' = {}
  /\ UNCHANGED <<pc, unit, pos, cur, spawned, active, reapVars, endVars, procVars, lost>>

CasesDone ==
  /\ pc = "cases" /\ pending = {} /\ carried = {}
  /\ pc' = "drain"
  /\ UNCHANGED <<launchVars, spawned, active, reapVars, endVars, procVars, lost>>

-----------------------------------------------------------------------------
(* Launching one worker, in launch_run and in launch_pending_case_tasks *)

AtLimitOffByOne == Limit # 0 /\ Cardinality(active) > Limit

AtLimit == Limit # 0 /\ Cardinality(active) >= Limit

GateFull ==
  /\ pc = "gate" /\ AtLimit
  /\ pc' = "scan" /\ overall' = FALSE
  /\ UNCHANGED <<launchVars, spawned, active, finished, reaping, failures, endVars, procVars, lost>>

\* process.start(), called on the way to active_runs.append
StartProcess ==
  /\ pc = "gate" /\ ~ AtLimit
  /\ proc' = [proc EXCEPT ![cur] = "running"]
  /\ open' = [open EXCEPT ![cur] = TRUE]
  /\ spawned' = {cur}
  /\ pc' = "reader"
  /\ UNCHANGED <<launchVars, active, reapVars, endVars, rc, stop, reader, lost>>

\* ... or it raises OSError, which nothing catches
StartFails ==
  /\ pc = "gate" /\ ~ AtLimit /\ StartMayFail
  /\ pc' = "exiting" /\ status' = 1
  /\ UNCHANGED <<launchVars, spawned, active, reapVars, late, signals, postOnly, procVars, lost>>

StartReader ==
  /\ pc = "reader"
  /\ reader' = [reader EXCEPT ![cur] = "on"]
  /\ pc' = "append"
  /\ UNCHANGED <<launchVars, spawned, active, reapVars, endVars, proc, rc, stop, open, lost>>

\* the group is not advanced past the case that was launched
AppendNoAdvance ==
  /\ pc = "append"
  /\ active' = active \cup spawned
  /\ spawned' = {}
  /\ cur' = NoTask
  /\ LET u == cur[1]
     IN IF u \in Direct
          THEN /\ carried' = carried \cup {v \in {u} : pos[v] < Cases[v]}
               /\ pending' = pending \ {u}
               /\ pc' = "cases" /\ UNCHANGED <<unit, pos>>
          ELSE /\ unit' = unit + 1
               /\ pc' = "prepare" /\ UNCHANGED <<pending, carried, pos>>
  /\ UNCHANGED <<reapVars, endVars, procVars, lost>>

\* a group stays first until it is empty
AppendDepthFirst ==
  /\ pc = "append"
  /\ active' = active \cup spawned
  /\ spawned' = {}
  /\ cur' = NoTask
  /\ LET u == cur[1]
     IN IF u \in Direct
          THEN /\ pos' = [pos EXCEPT ![u] = @ + 1]
               /\ pending' = IF pos[u] < Cases[u] THEN pending ELSE pending \ {u}
               /\ pc' = "cases" /\ UNCHANGED <<unit, carried>>
          ELSE /\ unit' = unit + 1
               /\ pc' = "prepare" /\ UNCHANGED <<pending, carried, pos>>
  /\ UNCHANGED <<reapVars, endVars, procVars, lost>>

\* active_runs.append(...); then the next case, or the next unit
AppendActive ==
  /\ pc = "append"
  /\ active' = active \cup spawned
  /\ spawned' = {}
  /\ cur' = NoTask
  /\ LET u == cur[1]
     IN IF u \in Direct
          THEN /\ carried' = carried \cup {v \in {u} : pos[v] < Cases[v]}
               /\ pos' = [pos EXCEPT ![u] = @ + 1]
               /\ pending' = pending \ {u}
               /\ pc' = "cases" /\ unit' = unit
          ELSE /\ unit' = unit + 1
               /\ pc' = "prepare" /\ UNCHANGED <<pending, carried, pos>>
  /\ UNCHANGED <<reapVars, endVars, procVars, lost>>

-----------------------------------------------------------------------------
(* reap_finished(block_until_one=True) *)

\* one pass over active_runs that finds something.  A worker may exit behind the
\* pass, and the reader thread may have taken its exit status first, so any part of
\* the exited workers can be seen; a pass that sees none sleeps and changes nothing.
Scan ==
  /\ pc = "scan"
  /\ \E S \in SUBSET {t \in active : proc[t] = "exited"} : S # {} /\ finished' = S
  /\ pc' = "collect"
  /\ UNCHANGED <<launchVars, spawned, active, reaping, overall, failures, endVars, procVars, lost>>

Collect ==
  /\ pc = "collect"
  /\ \E t \in finished :
       /\ reaping' = t
       /\ overall' = (overall \/ rc[t] # 0)
  /\ pc' = "joinReader"
  /\ UNCHANGED <<launchVars, spawned, active, finished, failures, endVars, procVars, lost>>

\* launched.reader.join()
JoinReader ==
  /\ pc = "joinReader"
  /\ reader[reaping] = "done"
  /\ pc' = "cleanup"
  /\ UNCHANGED <<launchVars, spawned, active, reapVars, endVars, procVars, lost>>

\* cleanup_launched_process(launched)
Cleanup ==
  /\ pc = "cleanup"
  /\ open' = [open EXCEPT ![reaping] = FALSE]
  /\ pc' = "remove"
  /\ UNCHANGED <<launchVars, spawned, active, reapVars, endVars, proc, rc, stop, reader, lost>>

\* only the last pass decides whether a launch failed
RemoveForgets ==
  /\ pc = "remove"
  /\ active' = active \ {reaping}
  /\ finished' = finished \ {reaping}
  /\ reaping' = NoTask
  /\ IF finished' = {}
       THEN /\ failures' = overall
            /\ pc' = IF cur # NoTask THEN "gate" ELSE "drain"
       ELSE failures' = failures /\ pc' = "collect"
  /\ UNCHANGED <<launchVars, spawned, overall, endVars, procVars, lost>>

\* active_runs.remove(launched); after the last one, launch_failures |= the result
\* and the caller tests its loop condition again
Remove ==
  /\ pc = "remove"
  /\ active' = active \ {reaping}
  /\ finished' = finished \ {reaping}
  /\ reaping' = NoTask
  /\ IF finished' = {}
       THEN /\ failures' = (failures \/ overall)
            /\ pc' = IF cur # NoTask THEN "gate" ELSE "drain"
       ELSE failures' = failures /\ pc' = "collect"
  /\ UNCHANGED <<launchVars, spawned, overall, endVars, procVars, lost>>

-----------------------------------------------------------------------------
(* The end of main() *)

DrainWait ==
  /\ pc = "drain" /\ active # {}
  /\ pc' = "scan" /\ overall' = FALSE
  /\ UNCHANGED <<launchVars, spawned, active, finished, reaping, failures, endVars, procVars, lost>>

DrainDone ==
  /\ pc = "drain" /\ active = {}
  /\ IF failures THEN pc' = "exiting" /\ status' = 1
                 ELSE pc' = "post" /\ status' = status
  /\ UNCHANGED <<launchVars, spawned, active, reapVars, late, signals, postOnly, procVars, lost>>

\* run_postprocess() returns, or one of its steps fails
Postprocess ==
  /\ pc = "post"
  /\ status' \in {0, 1}
  /\ pc' = "exiting"
  /\ UNCHANGED <<launchVars, spawned, active, reapVars, late, signals, postOnly, procVars, lost>>

\* multiprocessing's exit handler joins every child whose Process is still open
InterpreterExit ==
  /\ pc = "exiting"
  /\ \A t \in Task : open[t] => proc[t] = "exited"
  /\ pc' = "gone"
  /\ UNCHANGED <<launchVars, spawned, active, reapVars, endVars, procVars, lost>>

-----------------------------------------------------------------------------
(* handle_signal and terminate_processes(active_runs) *)

\* the handler leaves the exit status as it is
InterruptKeepsStatus ==
  /\ pc # "gone" /\ signals < MaxSignals
  /\ signals' = signals + 1
  /\ late' = (late \/ pc = "exiting")
  /\ pc' = "term1"
  /\ UNCHANGED <<launchVars, spawned, active, reapVars, status, postOnly, procVars, lost>>

\* the handler runs in the main thread wherever it is, also inside an earlier
\* handler; its SystemExit abandons what was under way
Interrupt ==
  /\ pc # "gone" /\ signals < MaxSignals
  /\ signals' = signals + 1
  /\ late' = (late \/ pc = "exiting")
  /\ pc' = "term1" /\ status' = 130
  /\ UNCHANGED <<launchVars, spawned, active, reapVars, postOnly, procVars, lost>>

\* _process_is_alive: a closed Process counts as dead
IsAlive(t) == open[t] /\ proc[t] = "running"

SendTerm ==
  /\ pc = "term1"
  /\ stop' = [t \in Task |-> IF t \in active /\ IsAlive(t) /\ stop[t] = "-"
                             THEN "TERM" ELSE stop[t]]
  /\ pc' = "term2"
  /\ UNCHANGED <<launchVars, spawned, active, reapVars, endVars, proc, rc, reader, open, lost>>

KillFinishedOnly ==
  /\ pc = "term2"
  /\ stop' = [t \in Task |-> IF t \in finished /\ IsAlive(t) THEN "KILL" ELSE stop[t]]
  /\ pc' = "term3"
  /\ UNCHANGED <<launchVars, spawned, active, reapVars, endVars, proc, rc, reader, open, lost>>

\* every worker that outlives its join(timeout=2) is killed
SendKill ==
  /\ pc = "term2"
  /\ stop' = [t \in Task |-> IF t \in active /\ IsAlive(t) THEN "KILL" ELSE stop[t]]
  /\ pc' = "term3"
  /\ UNCHANGED <<launchVars, spawned, active, reapVars, endVars, proc, rc, reader, open, lost>>

ReleaseAll ==
  /\ pc = "term3"
  /\ open' = [t \in Task |-> IF t \in active THEN FALSE ELSE open[t]]
  /\ pc' = IF late THEN "gone" ELSE "exiting"
  /\ UNCHANGED <<launchVars, spawned, active, reapVars, endVars, proc, rc, stop, reader, lost>>

\* the joins with time-outs, then cleanup_launched_process: Process.close() of a
\* live worker raises and leaves it open.  raise SystemExit(130) ends main(); in
\* the exit handler it abandons the joins that were left.
Release ==
  /\ pc = "term3"
  /\ open' = [t \in Task |-> IF t \in active THEN IsAlive(t) ELSE open[t]]
  /\ pc' = IF late THEN "gone" ELSE "exiting"
  /\ UNCHANGED <<launchVars, spawned, active, reapVars, endVars, proc, rc, stop, reader, lost>>

-----------------------------------------------------------------------------
(* The workers *)

WorkerExit(t) ==
  /\ proc[t] = "running"
  /\ proc' = [proc EXCEPT ![t] = "exited"]
  /\ rc' \in {[rc EXCEPT ![t] = c] : c \in {0, 1}}
  /\ lost' = lost \ {t}
  /\ UNCHANGED <<pc, launchVars, spawned, active, reapVars, endVars, stop, reader, open>>

\* forward_worker_output returns, or dies on a log it cannot write, which a running
\* worker does not learn
ReaderDone(t) ==
  /\ reader[t] = "on" /\ pc # "gone"
  /\ reader' = [reader EXCEPT ![t] = "done"]
  /\ lost' \in {lost, lost \cup ({t} \cap Running)}
  /\ UNCHANGED <<pc, launchVars, spawned, active, reapVars, endVars, proc, rc, stop, open>>

-----------------------------------------------------------------------------
LaunchStep == \/ PrepareRaises \/ PrepareTarget \/ QueueCases \/ PrepareFallback
              \/ PrepareDone \/ NextCase \/ NextRound \/ CasesDone
              \/ GateFull \/ StartProcess \/ StartFails \/ StartReader \/ AppendActive
ReapStep == Scan \/ Collect \/ JoinReader \/ Cleanup \/ Remove
EndStep  == DrainWait \/ DrainDone \/ Postprocess \/ InterpreterExit
StopStep == SendTerm \/ SendKill \/ Release
MainStep == LaunchStep \/ ReapStep \/ EndStep \/ StopStep

\* main() is over and no worker is left
Ended ==
  /\ pc = "gone" /\ Running = {}
  /\ UNCHANGED vars

Next == \/ MainStep
        \/ Interrupt
        \/ \E t \in Task : WorkerExit(t) \/ ReaderDone(t)
        \/ Ended

\* Nothing keeps the worker from ending: not a pipe that is full and that no thread
\* empties (SIGKILL ends such a worker, and so does the pipe's end with the orchestrator).
CanEnd(t) == t \notin lost \/ stop[t] = "KILL" \/ pc = "gone"

(* Each case runs under the time limits its tool was given, so a worker that can *)
(* end does; the reader of an ended worker ends (OutputCapture).  Signals and     *)
(* failing log writes are not forced.                                             *)
Fairness == /\ WF_vars(MainStep)
            /\ \A t \in Task : /\ WF_vars(WorkerExit(t) /\ CanEnd(t))
                              /\ WF_vars(ReaderDone(t))

Spec == Init /\ [][Next]_vars /\ Fairness

-----------------------------------------------------------------------------
(* Properties *)

\* The type invariant of the campaign state.
TypeOK ==
  /\ pc \in {"prepare", "cases", "gate", "reader", "append", "scan", "drain", "post"}
            \cup ReapPc \cup TermPc \cup EndPc
  /\ unit \in 1..(NumUnits + 1)
  /\ pending \subseteq Direct /\ carried \subseteq Direct
  /\ pos \in [Unit -> 1..(MaxCases + 1)]
  /\ cur \in Task \cup {NoTask}
  /\ spawned \subseteq Task /\ active \subseteq Task /\ finished \subseteq Task
  /\ reaping \in Task \cup {NoTask}
  /\ overall \in BOOLEAN /\ failures \in BOOLEAN
  /\ status \in {0, 1, 130} /\ late \in BOOLEAN /\ signals \in 0..MaxSignals
  /\ postOnly \in BOOLEAN
  /\ proc \in [Task -> {"none", "running", "exited"}]
  /\ rc \in [Task -> {0, 1}]
  /\ stop \in [Task -> {"-", "TERM", "KILL"}]
  /\ reader \in [Task -> {"none", "on", "done"}]
  /\ open \in [Task -> BOOLEAN]
  /\ lost \subseteq Task

\* The shared limit bounds the worker processes that are running, whatever mixture
\* of direct and fallback runs is launched and wherever a signal strikes.
LimitRespected == Limit # 0 => Cardinality(Running) <= Limit

\* Postprocessing starts, and the campaign reports success, only when every task of
\* every unit has been launched, has exited with code 0 and has its log closed.
PostprocessComplete ==
  (~ postOnly /\ (pc = "post" \/ (pc \in EndPc /\ status = 0)))
    => \A t \in Task : proc[t] = "exited" /\ rc[t] = 0 /\ reader[t] = "done" /\ ~ open[t]

\* No group runs ahead: while a group still has cases to launch, no other group has
\* launched more than one case more (launch_pending_case_tasks goes round).
FairRounds ==
  \A u \in pending \cup carried : \A v \in Direct : pos[v] <= pos[u] + 1

\* After a signal, every worker that is still running has been sent SIGKILL, or is
\* the one that was being launched when the signal arrived.
InterruptStopsTracked ==
  (signals > 0 /\ pc \in EndPc) =>
     \A t \in Running : stop[t] = "KILL" \/ t \in spawned

\* The orchestrator never exits before its workers, tracked or not, unless a second
\* signal cuts the exit short: what is not released is joined on the way out.
NoWorkerLeft == (pc = "gone" /\ ~ late) => Running = {}

\* No task is started twice.
StartedOnce ==
  [][\A t \in Task : proc[t] # "none" => proc'[t] # "running" \/ proc[t] = "running"]_vars

WorkerLife ==
  [t \in Task |-> CASE proc[t] = "none" -> "waiting"
                   [] proc[t] = "running" -> "running"
                   [] OTHER -> IF rc[t] = 0 THEN "succeeded" ELSE "failed"]

\* --postprocess-only launches nothing and says nothing of the workers
CampaignVerdict ==
  IF postOnly \/ pc \notin TermPc \cup EndPc THEN "none"
  ELSE IF status = 0 THEN "success" ELSE "failure"

Pool == INSTANCE WorkerPool WITH
          Workers <- Task, Limit <- Limit, life <- WorkerLife, verdict <- CampaignVerdict

\* The campaign is a pool of workers (launch_run, launch_pending_case_tasks,
\* reap_finished, handle_signal): no task is started twice or over the limit, none after
\* main() has settled on its exit status, and the status is 0 only when all succeeded.
PoolSpec == Pool!Spec

\* The campaign comes to an end, unless a worker whose reader thread died on its log
\* (forward_worker_output catches nothing) runs for ever, unkilled: reap_finished waits
\* for it without a time-out.
Terminates == <>(pc = "gone") \/ <>[](\E t \in lost : ~ CanEnd(t))
=============================================================================
