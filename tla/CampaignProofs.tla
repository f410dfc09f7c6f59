---------------------------- MODULE CampaignProofs ----------------------------
(***************************************************************************)
(* Proofs about module Campaign, for every number of units and cases,      *)
(* every limit and every number of signals.  The invariants of the model   *)
(* are not inductive; IInv adds what the main thread knows at each point.  *)
(***************************************************************************)
EXTENDS Campaign, FiniteSetTheorems, TLAPS

Stopping == pc \in TermPc \cup EndPc

\* groups: each waiting group has a case left, none is in both lists, and a group
\* that has not been queued is at its first case
OrderInv ==
  /\ \A u \in pending \cup carried : u < unit /\ pos[u] <= Cases[u]
  /\ pending \cap carried = {}
  /\ \A u \in Unit : u >= unit => pos[u] = 1

\* the task to launch is the next case of a waiting group, or the fallback unit
\* the run loop is at
CurInv ==
  /\ pc \in {"gate", "reader", "append"} => cur # NoTask
  /\ pc \in {"prepare", "cases", "drain", "post"} => cur = NoTask
  /\ (~ Stopping /\ cur # NoTask) =>
       \/ cur[1] \in pending /\ cur = <<cur[1], pos[cur[1]]>> /\ unit = NumUnits + 1
       \/ cur[1] \in Unit \ Direct /\ cur = <<unit, 1>>

\* what reap_finished knows of the workers it collects
ReapInv ==
  /\ pc \in ReapPc => \A t \in finished : t \in active /\ proc[t] = "exited"
  /\ pc \in {"joinReader", "cleanup", "remove"} =>
       reaping \in finished /\ (rc[reaping] # 0 => overall)
  /\ pc \in {"cleanup", "remove"} => reader[reaping] = "done"
  /\ pc = "remove" => ~ open[reaping]

\* every running worker is in active_runs or on its way there, and there is room
HeldInv ==
  /\ \A t \in Task : proc[t] = "running" => t \in active \cup spawned
  /\ ~ Stopping => spawned = IF pc \in {"reader", "append"} THEN {cur} ELSE {}
  /\ pc \in {"reader", "append"} => proc[cur] # "none"
  /\ Limit # 0 => Cardinality(active \cup spawned) <= Limit

Launched(t) == IF t[1] \in Direct THEN t[2] < pos[t[1]] ELSE t[1] < unit

Collected(t) ==
  /\ proc[t] = "exited" /\ reader[t] = "done" /\ ~ open[t]
  /\ rc[t] = 0 \/ failures \/ (pc \in ReapPc /\ overall)

\* no task is forgotten: up to the main thread's position every task was started,
\* and one that left active_runs was collected with its exit code counted
DoneInv ==
  ~ Stopping =>
    /\ ~ postOnly =>
         /\ \A t \in Task : Launched(t) => proc[t] # "none"
         /\ \A u \in Direct : (u < unit /\ u \notin pending \cup carried) => pos[u] > Cases[u]
    /\ \A t \in Task : (proc[t] # "none" /\ t \notin active \cup spawned) => Collected(t)
    /\ pc \in {"cases", "drain", "post"} => unit = NumUnits + 1
    /\ ((pc \in ReapPc \cup {"scan"} /\ cur = NoTask) \/ pc = "drain") =>
         unit = NumUnits + 1 /\ pending = {} /\ carried = {}
    /\ (pc = "post" /\ ~ postOnly) => active = {} /\ ~ failures

EndInv == pc \in TermPc => status = 130

\* a running worker can be joined, and after a signal the tracked ones are killed
StopInv ==
  /\ signals > 0 => Stopping
  /\ \A t \in Task : proc[t] = "running" => open[t]
  /\ (pc = "term3" \/ (pc \in EndPc /\ signals > 0)) =>
       \A t \in active : proc[t] = "running" => stop[t] = "KILL"
  /\ NoWorkerLeft

\* the rounds: nothing is launched before all groups are queued; the groups still to
\* be visited in a round are level, those visited are one case further, and no group
\* is past them
RoundInv ==
  /\ unit <= NumUnits => carried = {} /\ \A v \in Direct : pos[v] = 1
  /\ \A u \in pending : \A v \in pending : pos[v] = pos[u]
  /\ \A u \in pending : \A v \in carried : pos[v] = pos[u] + 1
  /\ \A u \in pending : \A v \in Direct : pos[v] <= pos[u] + 1
  /\ \A u \in carried : \A v \in Direct : pos[v] <= pos[u]

\* only a task behind the main thread's position, or the one it is launching, has
\* been started
FreshInv ==
  ~ Stopping => \A t \in Task : proc[t] # "none" =>
                   Launched(t) \/ (pc \in {"reader", "append"} /\ t = cur)

IInv == TypeOK /\ OrderInv /\ CurInv /\ ReapInv /\ HeldInv /\ DoneInv /\ EndInv
        /\ PostprocessComplete /\ StopInv /\ RoundInv /\ FreshInv

-----------------------------------------------------------------------------

(* The assumption on the constants is used throughout. *)
USE CampaignAssumption

\* Units are numbered from one.
LEMMA UnitFacts == Unit \subseteq Nat /\ \A u \in Unit : u >= 1 /\ u <= NumUnits
  BY DEF Unit

\* What membership in Task means; NoTask is not a task.
LEMMA TaskFacts ==
  /\ \A u \in Unit : \A i \in Nat : (i >= 1 /\ i <= Cases[u]) => <<u, i>> \in Task
  /\ \A t \in Task : t[1] \in Unit /\ t[2] \in Nat /\ t[2] >= 1 /\ t[2] <= Cases[t[1]] /\ t = <<t[1], t[2]>>
  /\ NoTask \notin Task
<1>1. ASSUME NEW u \in Unit, NEW i \in Nat, i >= 1, i <= Cases[u] PROVE <<u, i>> \in Task
  <2>1. Cases[u] \in 0..MaxCases
    OBVIOUS
  <2>2. i \in 1..MaxCases
    BY <1>1, <2>1
  <2>3. QED
    BY <1>1, <2>2 DEF Task
<1>2. ASSUME NEW t \in Task
      PROVE  t[1] \in Unit /\ t[2] \in Nat /\ t[2] >= 1 /\ t[2] <= Cases[t[1]] /\ t = <<t[1], t[2]>>
  <2>1. t \in Unit \X (1..MaxCases) /\ t[2] <= Cases[t[1]]
    BY DEF Task
  <2>2. QED
    BY <2>1
<1>3. NoTask \notin Task
  <2>1. 0 \notin Unit
    BY DEF Unit
  <2>2. QED
    BY <1>2, <2>1 DEF NoTask
<1>4. QED
  BY <1>1, <1>2, <1>3

\* There are finitely many tasks.
LEMMA TaskFinite == IsFiniteSet(Task)
<1>1. IsFiniteSet(Unit) /\ IsFiniteSet(1..MaxCases)
  BY FS_Interval DEF Unit
<1>2. IsFiniteSet(Unit \X (1..MaxCases))
  BY <1>1, FS_Product
<1>3. QED
  BY <1>2, FS_Subset DEF Task

\* The type invariant is preserved by every step of the campaign.
LEMMA TypeStep ==
  ASSUME IInv, [Next]_vars
  PROVE  TypeOK'
<1>0. TypeOK /\ OrderInv /\ CurInv /\ ReapInv
  BY DEF IInv
<1>1. CASE PrepareRaises
  BY <1>0, <1>1 DEF PrepareRaises, TypeOK, TermPc, ReapPc, EndPc, launchVars, reapVars,
       endVars, procVars
<1>2. CASE PrepareTarget
  BY <1>0, <1>2, UnitFacts DEF PrepareTarget, TypeOK, TermPc, ReapPc, EndPc, launchVars,
       reapVars, endVars, procVars
<1>3. CASE QueueCases
  <2>1. unit \in Unit /\ unit + 1 \in 1..(NumUnits + 1)
    BY <1>3 DEF QueueCases, Unit
  <2>2. pending' \subseteq Direct
    BY <1>0, <1>3 DEF QueueCases, TypeOK
  <2>3. QED
    BY <1>0, <1>3, <2>1, <2>2 DEF QueueCases, TypeOK, TermPc, ReapPc, EndPc, launchVars,
         reapVars, endVars, procVars
<1>4. CASE PrepareFallback
  <2>1. unit \in Unit /\ Cases[unit] = 1
    BY <1>4 DEF PrepareFallback
  <2>2. <<unit, 1>> \in Task
    BY <2>1, TaskFacts
  <2>3. QED
    BY <1>0, <1>4, <2>2 DEF PrepareFallback, TypeOK, TermPc, ReapPc, EndPc, launchVars,
         reapVars, endVars, procVars
<1>5. CASE PrepareDone
  BY <1>0, <1>5 DEF PrepareDone, TypeOK, TermPc, ReapPc, EndPc, launchVars, reapVars,
       endVars, procVars
<1>6. CASE NextCase
  <2>1. PICK u \in pending : cur' = <<u, pos[u]>>
    BY <1>6 DEF NextCase
  <2>2. u \in Unit /\ pos[u] \in Nat /\ pos[u] >= 1 /\ pos[u] <= Cases[u]
    BY <1>0 DEF TypeOK, OrderInv
  <2>3. cur' \in Task
    BY <2>1, <2>2, TaskFacts
  <2>4. QED
    BY <1>0, <1>6, <2>3 DEF NextCase, TypeOK, TermPc, ReapPc, EndPc, launchVars, reapVars,
         endVars, procVars
<1>7. CASE NextRound
  BY <1>0, <1>7 DEF NextRound, TypeOK, TermPc, ReapPc, EndPc, launchVars, reapVars,
       endVars, procVars
<1>8. CASE CasesDone
  BY <1>0, <1>8 DEF CasesDone, TypeOK, TermPc, ReapPc, EndPc, launchVars, reapVars,
       endVars, procVars
<1>9. CASE GateFull
  BY <1>0, <1>9 DEF GateFull, TypeOK, TermPc, ReapPc, EndPc, launchVars, reapVars,
       endVars, procVars
<1>10. CASE StartProcess
  <2>1. cur \in Task
    BY <1>0, <1>10 DEF StartProcess, TypeOK, CurInv
  <2>2. QED
    BY <1>0, <1>10, <2>1 DEF StartProcess, TypeOK, TermPc, ReapPc, EndPc, launchVars,
         reapVars, endVars, procVars
<1>11. CASE StartFails
  BY <1>0, <1>11 DEF StartFails, TypeOK, TermPc, ReapPc, EndPc, launchVars, reapVars,
       endVars, procVars
<1>12. CASE StartReader
  BY <1>0, <1>12 DEF StartReader, TypeOK, TermPc, ReapPc, EndPc, launchVars, reapVars,
       endVars, procVars
<1>13. CASE AppendActive
  <2>1. cur \in Task /\ ~ Stopping /\ cur # NoTask
    BY <1>0, <1>13 DEF AppendActive, TypeOK, CurInv, Stopping, TermPc, EndPc
  <2>2. CASE cur[1] \in Direct
    <3>1. cur[1] \in pending /\ cur[2] = pos[cur[1]]
      BY <1>0, <2>1, <2>2, TaskFacts DEF CurInv
    <3>2. pos[cur[1]] + 1 \in 1..(MaxCases + 1)
      BY <1>0, <3>1 DEF TypeOK, OrderInv
    <3>3. pos' \in [Unit -> 1..(MaxCases + 1)]
      BY <1>0, <1>13, <2>2, <3>2 DEF AppendActive, TypeOK
    <3>4. QED
      BY <1>0, <1>13, <2>1, <2>2, <3>3 DEF AppendActive, TypeOK, TermPc, ReapPc, EndPc,
           launchVars, reapVars, endVars, procVars
  <2>3. CASE cur[1] \notin Direct
    <3>1. unit \in Unit
      BY <1>0, <2>1, <2>3 DEF CurInv, TypeOK
    <3>2. unit + 1 \in 1..(NumUnits + 1)
      BY <3>1 DEF Unit
    <3>3. QED
      BY <1>0, <1>13, <2>1, <2>3, <3>2 DEF AppendActive, TypeOK, TermPc, ReapPc, EndPc,
           launchVars, reapVars, endVars, procVars
  <2>4. QED
    BY <2>2, <2>3
<1>14. CASE Scan
  BY <1>0, <1>14 DEF Scan, TypeOK, TermPc, ReapPc, EndPc, launchVars, reapVars, endVars,
       procVars
<1>15. CASE Collect
  BY <1>0, <1>15 DEF Collect, TypeOK, TermPc, ReapPc, EndPc, launchVars, reapVars,
       endVars, procVars
<1>16. CASE JoinReader
  BY <1>0, <1>16 DEF JoinReader, TypeOK, TermPc, ReapPc, EndPc, launchVars, reapVars,
       endVars, procVars
<1>17. CASE Cleanup
  BY <1>0, <1>17 DEF Cleanup, TypeOK, TermPc, ReapPc, EndPc, launchVars, reapVars,
       endVars, procVars
<1>18. CASE Remove
  BY <1>0, <1>18 DEF Remove, TypeOK, TermPc, ReapPc, EndPc, launchVars, reapVars, endVars,
       procVars
<1>19. CASE DrainWait
  BY <1>0, <1>19 DEF DrainWait, TypeOK, TermPc, ReapPc, EndPc, launchVars, reapVars,
       endVars, procVars
<1>20. CASE DrainDone
  BY <1>0, <1>20 DEF DrainDone, TypeOK, TermPc, ReapPc, EndPc, launchVars, reapVars,
       endVars, procVars
<1>21. CASE Postprocess
  BY <1>0, <1>21 DEF Postprocess, TypeOK, TermPc, ReapPc, EndPc, launchVars, reapVars,
       endVars, procVars
<1>22. CASE InterpreterExit
  BY <1>0, <1>22 DEF InterpreterExit, TypeOK, TermPc, ReapPc, EndPc, launchVars, reapVars,
       endVars, procVars
<1>23. CASE Interrupt
  BY <1>0, <1>23 DEF Interrupt, TypeOK, TermPc, ReapPc, EndPc, launchVars, reapVars,
       endVars, procVars
<1>24. CASE SendTerm
  BY <1>0, <1>24 DEF SendTerm, TypeOK, TermPc, ReapPc, EndPc, launchVars, reapVars,
       endVars, procVars
<1>25. CASE SendKill
  BY <1>0, <1>25 DEF SendKill, TypeOK, TermPc, ReapPc, EndPc, launchVars, reapVars,
       endVars, procVars
<1>26. CASE Release
  BY <1>0, <1>26 DEF Release, IsAlive, TypeOK, TermPc, ReapPc, EndPc, launchVars,
       reapVars, endVars, procVars
<1>27. ASSUME NEW t \in Task, WorkerExit(t) PROVE TypeOK'
  BY <1>0, <1>27 DEF WorkerExit, TypeOK, TermPc, ReapPc, EndPc, launchVars, reapVars,
       endVars, procVars
<1>28. ASSUME NEW t \in Task, ReaderDone(t) PROVE TypeOK'
  BY <1>0, <1>28 DEF ReaderDone, TypeOK, TermPc, ReapPc, EndPc, launchVars, reapVars,
       endVars, procVars
<1>29. CASE UNCHANGED vars
  BY <1>0, <1>29 DEF vars, TypeOK, TermPc, ReapPc, EndPc, launchVars, reapVars, endVars,
       procVars
<1>30. QED
  BY <1>1, <1>2, <1>3, <1>4, <1>5, <1>6, <1>7, <1>8, <1>9, <1>10, <1>11, <1>12, <1>13,
       <1>14, <1>15, <1>16, <1>17, <1>18, <1>19, <1>20, <1>21, <1>22, <1>23, <1>24, <1>25,
       <1>26, <1>27, <1>28, <1>29
     DEF Next, MainStep, LaunchStep, ReapStep, EndStep, StopStep, Ended

\* The group lists stay consistent with the position of the run loop.
LEMMA OrderStep ==
  ASSUME IInv, [Next]_vars
  PROVE  OrderInv'
<1>0. TypeOK /\ OrderInv /\ CurInv
  BY DEF IInv
<1>1. CASE PrepareRaises \/ PrepareFallback \/ PrepareDone \/ NextCase \/ NextRound \/ CasesDone \/ GateFull \/ StartProcess
  BY <1>0, <1>1 DEF PrepareRaises, PrepareFallback, PrepareDone, NextCase, NextRound,
       CasesDone, GateFull, StartProcess, OrderInv, launchVars
<1>2. CASE PrepareTarget
  BY <1>0, <1>2, UnitFacts DEF PrepareTarget, OrderInv, TypeOK
<1>3. CASE QueueCases
  <2>1. unit \in Unit /\ unit \in Nat /\ pos[unit] = 1 /\ unit' = unit + 1 /\ pos' = pos /\ carried' = carried
    BY <1>0, <1>3, UnitFacts DEF QueueCases, OrderInv
  <2>2. \A u \in pending' \cup carried' : u < unit' /\ pos'[u] <= Cases[u]
    <3>1. Cases[unit] \in Nat
      BY <2>1
    <3>2. \A u \in pending' : u \in pending \/ (u = unit /\ Cases[u] > 0)
      BY <1>3 DEF QueueCases
    <3>3. ASSUME NEW u \in pending \cup carried PROVE u < unit + 1 /\ pos[u] <= Cases[u]
      BY <1>0, <2>1, UnitFacts DEF OrderInv, TypeOK
    <3>4. Cases[unit] > 0 => unit < unit + 1 /\ pos[unit] <= Cases[unit]
      BY <2>1, <3>1
    <3>5. QED
      BY <2>1, <3>2, <3>3, <3>4
  <2>3. pending' \cap carried' = {}
    <3>1. unit \notin carried
      BY <1>0, <2>1, UnitFacts DEF OrderInv
    <3>2. QED
      BY <1>0, <1>3, <2>1, <3>1 DEF QueueCases, OrderInv
  <2>4. \A u \in Unit : u >= unit' => pos'[u] = 1
    BY <1>0, <2>1, UnitFacts DEF OrderInv
  <2>5. QED
    BY <2>2, <2>3, <2>4 DEF OrderInv
<1>4. CASE StartFails \/ StartReader \/ Scan \/ Collect \/ JoinReader \/ Cleanup \/ Remove \/ DrainWait
  BY <1>0, <1>4 DEF StartFails, StartReader, Scan, Collect, JoinReader, Cleanup, Remove,
       DrainWait, OrderInv, launchVars
<1>5. CASE AppendActive
  <2>1. cur \in Task /\ ~ Stopping /\ cur # NoTask
    BY <1>0, <1>5 DEF AppendActive, TypeOK, CurInv, Stopping, TermPc, EndPc
  <2>2. CASE cur[1] \in Direct
    <3>1. cur[1] \in pending /\ unit = NumUnits + 1
      BY <1>0, <2>1, <2>2 DEF CurInv
    <3>2. \A v \in Unit \ {cur[1]} : pos'[v] = pos[v]
      BY <1>0, <1>5, <2>2 DEF AppendActive, TypeOK
    <3>3. pos'[cur[1]] = pos[cur[1]] + 1 /\ pos[cur[1]] \in Nat /\ unit' = unit
      BY <1>0, <1>5, <2>2 DEF AppendActive, TypeOK
    <3>4. pending' = pending \ {cur[1]} /\ carried' = carried \cup {v \in {cur[1]} : pos[v] < Cases[v]}
      BY <1>5, <2>2 DEF AppendActive
    <3>5. cur[1] \notin carried
      BY <1>0, <3>1 DEF OrderInv
    <3>6. ASSUME NEW u \in pending' \cup carried' PROVE u < unit' /\ pos'[u] <= Cases[u]
      <4>1. CASE u = cur[1]
        BY <1>0, <3>1, <3>3, <3>4, <3>5, <4>1 DEF OrderInv, TypeOK
      <4>2. CASE u # cur[1]
        BY <1>0, <3>2, <3>3, <3>4, <4>2 DEF OrderInv, TypeOK
      <4>3. QED
        BY <4>1, <4>2
    <3>7. pending' \cap carried' = {}
      BY <1>0, <3>4 DEF OrderInv
    <3>8. \A u \in Unit : u >= unit' => pos'[u] = 1
      BY <1>0, <3>1, <3>2, <3>3 DEF OrderInv, Unit, TypeOK
    <3>9. QED
      BY <3>6, <3>7, <3>8 DEF OrderInv
  <2>3. CASE cur[1] \notin Direct
    <3>1. unit' = unit + 1 /\ pending' = pending /\ carried' = carried /\ pos' = pos
      BY <1>5, <2>3 DEF AppendActive
    <3>2. QED
      BY <1>0, <3>1, UnitFacts DEF OrderInv, TypeOK
  <2>4. QED
    BY <2>2, <2>3
<1>6. CASE DrainDone \/ Postprocess \/ InterpreterExit \/ Interrupt \/ SendTerm \/ SendKill \/ Release
  BY <1>0, <1>6 DEF DrainDone, Postprocess, InterpreterExit, Interrupt, SendTerm,
       SendKill, Release, OrderInv, launchVars
<1>7. ASSUME NEW t \in Task, WorkerExit(t) PROVE OrderInv'
  BY <1>0, <1>7 DEF WorkerExit, OrderInv, launchVars
<1>8. ASSUME NEW t \in Task, ReaderDone(t) PROVE OrderInv'
  BY <1>0, <1>8 DEF ReaderDone, OrderInv, launchVars
<1>9. CASE UNCHANGED vars
  BY <1>0, <1>9 DEF vars, OrderInv, launchVars
<1>10. QED
  BY <1>1, <1>2, <1>3, <1>4, <1>5, <1>6, <1>7, <1>8, <1>9
     DEF Next, MainStep, LaunchStep, ReapStep, EndStep, StopStep, Ended

\* The task to launch always belongs to the position of the main thread.
LEMMA CurStep ==
  ASSUME IInv, [Next]_vars
  PROVE  CurInv'
<1>0. TypeOK /\ OrderInv /\ CurInv /\ DoneInv
  BY DEF IInv
<1>1. CASE PrepareRaises \/ PrepareTarget \/ QueueCases \/ PrepareDone \/ NextRound \/ CasesDone \/ GateFull \/ StartProcess
  BY <1>0, <1>1 DEF PrepareRaises, PrepareTarget, QueueCases, PrepareDone, NextRound,
       CasesDone, GateFull, StartProcess, CurInv, Stopping, TermPc, EndPc, ReapPc,
       launchVars
<1>2. CASE PrepareFallback
  BY <1>0, <1>2 DEF PrepareFallback, NoTask, CurInv, Stopping, TermPc, EndPc, ReapPc,
       launchVars
<1>3. CASE NextCase
  BY <1>0, <1>3, UnitFacts DEF NextCase, NoTask, TypeOK, DoneInv, CurInv, Stopping,
       TermPc, EndPc, ReapPc, launchVars
<1>4. CASE StartFails \/ StartReader \/ Scan \/ Collect \/ JoinReader \/ Cleanup \/ Remove \/ DrainWait
  BY <1>0, <1>4 DEF StartFails, StartReader, Scan, Collect, JoinReader, Cleanup, Remove,
       DrainWait, CurInv, Stopping, TermPc, EndPc, ReapPc, launchVars
<1>5. CASE AppendActive
  BY <1>0, <1>5 DEF AppendActive, CurInv, Stopping, TermPc, EndPc, ReapPc, launchVars
<1>6. CASE DrainDone \/ Postprocess \/ InterpreterExit \/ Interrupt \/ SendTerm \/ SendKill \/ Release
  BY <1>0, <1>6 DEF DrainDone, Postprocess, InterpreterExit, Interrupt, SendTerm,
       SendKill, Release, CurInv, Stopping, TermPc, EndPc, ReapPc, launchVars
<1>7. ASSUME NEW t \in Task, WorkerExit(t) PROVE CurInv'
  BY <1>0, <1>7 DEF WorkerExit, CurInv, Stopping, TermPc, EndPc, ReapPc, launchVars
<1>8. ASSUME NEW t \in Task, ReaderDone(t) PROVE CurInv'
  BY <1>0, <1>8 DEF ReaderDone, CurInv, Stopping, TermPc, EndPc, ReapPc, launchVars
<1>9. CASE UNCHANGED vars
  BY <1>0, <1>9 DEF vars, CurInv, Stopping, TermPc, EndPc, ReapPc, launchVars
<1>10. QED
  BY <1>1, <1>2, <1>3, <1>4, <1>5, <1>6, <1>7, <1>8, <1>9
     DEF Next, MainStep, LaunchStep, ReapStep, EndStep, StopStep, Ended

\* What reap_finished knows of a worker stays true until it is removed.
LEMMA ReapStepInv ==
  ASSUME IInv, [Next]_vars
  PROVE  ReapInv'
<1>0. TypeOK /\ ReapInv
  BY DEF IInv
<1>1. CASE PrepareRaises \/ PrepareTarget \/ QueueCases
  BY <1>0, <1>1 DEF PrepareRaises, PrepareTarget, QueueCases, ReapInv, TypeOK, TermPc,
       EndPc, ReapPc, reapVars, procVars
<1>2. CASE PrepareFallback \/ PrepareDone \/ NextCase
  BY <1>0, <1>2 DEF PrepareFallback, PrepareDone, NextCase, ReapInv, TypeOK, TermPc,
       EndPc, ReapPc, reapVars, procVars
<1>3. CASE NextRound \/ CasesDone \/ GateFull
  BY <1>0, <1>3 DEF NextRound, CasesDone, GateFull, ReapInv, TypeOK, TermPc, EndPc,
       ReapPc, reapVars, procVars
<1>4. CASE StartProcess \/ StartFails \/ StartReader
  BY <1>0, <1>4 DEF StartProcess, StartFails, StartReader, ReapInv, TypeOK, TermPc, EndPc,
       ReapPc, reapVars, procVars
<1>5. CASE AppendActive \/ JoinReader \/ Cleanup
  BY <1>0, <1>5 DEF AppendActive, JoinReader, Cleanup, ReapInv, TypeOK, TermPc, EndPc,
       ReapPc, reapVars, procVars
<1>6. CASE Scan
  BY <1>0, <1>6 DEF Scan, ReapInv, TypeOK, TermPc, EndPc, ReapPc, reapVars, procVars
<1>7. CASE Collect
  <2>1. PICK t \in finished : reaping' = t /\ overall' = (overall \/ rc[t] # 0)
    BY <1>7 DEF Collect
  <2>2. /\ pc = "collect" /\ pc' = "joinReader" /\ finished' = finished
        /\ active' = active /\ proc' = proc /\ rc' = rc
    BY <1>7 DEF Collect, procVars
  <2>3. rc[t] # 0 => overall'
    BY <2>1
  <2>4. \A s \in finished : s \in active /\ proc[s] = "exited"
    BY <1>0, <2>2 DEF ReapInv, ReapPc
  <2>5. QED
    BY <2>1, <2>2, <2>3, <2>4 DEF ReapInv
<1>8. CASE Remove \/ DrainWait \/ DrainDone
  BY <1>0, <1>8 DEF Remove, DrainWait, DrainDone, ReapInv, TypeOK, TermPc, EndPc, ReapPc,
       reapVars, procVars
<1>9. CASE Postprocess \/ InterpreterExit \/ Interrupt
  BY <1>0, <1>9 DEF Postprocess, InterpreterExit, Interrupt, ReapInv, TypeOK, TermPc,
       EndPc, ReapPc, reapVars, procVars
<1>10. CASE SendTerm \/ SendKill \/ Release
  BY <1>0, <1>10 DEF SendTerm, SendKill, Release, ReapInv, TypeOK, TermPc, EndPc, ReapPc,
       reapVars, procVars
<1>11. ASSUME NEW t \in Task, WorkerExit(t) PROVE ReapInv'
  BY <1>0, <1>11 DEF WorkerExit, ReapInv, TypeOK, TermPc, EndPc, ReapPc, reapVars, procVars
<1>12. ASSUME NEW t \in Task, ReaderDone(t) PROVE ReapInv'
  BY <1>0, <1>12 DEF ReaderDone, ReapInv, TypeOK, TermPc, EndPc, ReapPc, reapVars, procVars
<1>13. CASE UNCHANGED vars
  BY <1>0, <1>13 DEF vars, ReapInv, TypeOK, TermPc, EndPc, ReapPc, reapVars, procVars
<1>14. QED
  BY <1>1, <1>2, <1>3, <1>4, <1>5, <1>6, <1>7, <1>8, <1>9, <1>10, <1>11, <1>12, <1>13
     DEF Next, MainStep, LaunchStep, ReapStep, EndStep, StopStep, Ended

\* Every running worker stays accounted for, and within the limit.
LEMMA HeldStep ==
  ASSUME IInv, [Next]_vars
  PROVE  HeldInv'
<1>0. TypeOK /\ CurInv /\ ReapInv /\ HeldInv
  BY DEF IInv
<1>1. CASE PrepareRaises \/ PrepareTarget \/ QueueCases \/ PrepareFallback \/ PrepareDone \/ NextCase \/ NextRound \/ CasesDone
  BY <1>0, <1>1 DEF PrepareRaises, PrepareTarget, QueueCases, PrepareFallback,
       PrepareDone, NextCase, NextRound, CasesDone, HeldInv, TypeOK, Stopping, TermPc,
       EndPc, ReapPc, launchVars, procVars
<1>2. CASE GateFull \/ StartFails \/ StartReader \/ Scan \/ Collect \/ JoinReader \/ Cleanup \/ DrainWait
  BY <1>0, <1>2 DEF GateFull, StartFails, StartReader, Scan, Collect, JoinReader, Cleanup,
       DrainWait, HeldInv, TypeOK, Stopping, TermPc, EndPc, ReapPc, launchVars, procVars
<1>3. CASE StartProcess
  <2>1. cur \in Task /\ spawned = {} /\ spawned' = {cur} /\ active' = active /\ cur' = cur
    BY <1>0, <1>3 DEF StartProcess, HeldInv, CurInv, TypeOK, Stopping, TermPc, EndPc,
         launchVars
  <2>2. Limit # 0 => Cardinality(active' \cup spawned') <= Limit
    <3>1. IsFiniteSet(active)
      BY <1>0, TaskFinite, FS_Subset DEF TypeOK
    <3>2. Cardinality(active) \in Nat /\ Cardinality(active \cup {cur}) <= Cardinality(active) + 1
      BY <3>1, FS_AddElement, FS_CardinalityType
    <3>3. active \cup {cur} = active' \cup spawned' /\ Cardinality(active \cup {cur}) \in Nat
      BY <2>1, <3>1, FS_AddElement, FS_CardinalityType
    <3>4. QED
      BY <1>3, <3>2, <3>3 DEF StartProcess, AtLimit
  <2>3. QED
    BY <1>0, <1>3, <2>1, <2>2 DEF StartProcess, HeldInv, TypeOK, Stopping, TermPc, EndPc
<1>4. CASE AppendActive
  <2>1. active' = active \cup spawned /\ spawned' = {} /\ proc' = proc /\ pc' \in {"cases", "prepare"}
    BY <1>4 DEF AppendActive, procVars
  <2>2. active' \cup spawned' = active \cup spawned
    BY <2>1
  <2>3. QED
    BY <1>0, <2>1, <2>2 DEF HeldInv
<1>5. CASE Remove
  <2>1. active' = active \ {reaping} /\ spawned' = spawned /\ proc' = proc /\ cur' = cur
    BY <1>5 DEF Remove, procVars, launchVars
  <2>2. proc[reaping] = "exited" /\ spawned = {} /\ pc' \in {"gate", "drain", "collect"}
    BY <1>0, <1>5 DEF Remove, ReapInv, HeldInv, ReapPc, Stopping, TermPc, EndPc
  <2>3. Limit # 0 => Cardinality(active' \cup spawned') <= Limit
    <3>1. IsFiniteSet(active \cup spawned)
      BY <1>0, TaskFinite, FS_Subset DEF TypeOK
    <3>2. active' \cup spawned' \in SUBSET (active \cup spawned)
      BY <2>1
    <3>3. /\ Cardinality(active' \cup spawned') <= Cardinality(active \cup spawned)
          /\ Cardinality(active' \cup spawned') \in Nat /\ Cardinality(active \cup spawned) \in Nat
      BY <3>1, <3>2, FS_Subset, FS_CardinalityType
    <3>4. QED
      BY <1>0, <3>3 DEF HeldInv
  <2>4. QED
    BY <1>0, <2>1, <2>2, <2>3 DEF HeldInv
<1>6. CASE DrainDone \/ Postprocess \/ InterpreterExit \/ Interrupt \/ SendTerm \/ SendKill \/ Release
  BY <1>0, <1>6 DEF DrainDone, Postprocess, InterpreterExit, Interrupt, SendTerm,
       SendKill, Release, HeldInv, TypeOK, Stopping, TermPc, EndPc, ReapPc, launchVars,
       procVars
<1>7. ASSUME NEW t \in Task, WorkerExit(t) PROVE HeldInv'
  BY <1>0, <1>7 DEF WorkerExit, HeldInv, TypeOK, Stopping, TermPc, EndPc, ReapPc,
       launchVars, procVars
<1>8. ASSUME NEW t \in Task, ReaderDone(t) PROVE HeldInv'
  BY <1>0, <1>8 DEF ReaderDone, HeldInv, TypeOK, Stopping, TermPc, EndPc, ReapPc,
       launchVars, procVars
<1>9. CASE UNCHANGED vars
  BY <1>0, <1>9 DEF vars, HeldInv, TypeOK, Stopping, TermPc, EndPc, ReapPc, launchVars,
       procVars
<1>10. QED
  BY <1>1, <1>2, <1>3, <1>4, <1>5, <1>6, <1>7, <1>8, <1>9
     DEF Next, MainStep, LaunchStep, ReapStep, EndStep, StopStep, Ended

\* No task is forgotten: what was launched is tracked or collected.
LEMMA DoneStep ==
  ASSUME IInv, [Next]_vars
  PROVE  DoneInv'
<1>0. TypeOK /\ OrderInv /\ CurInv /\ ReapInv /\ HeldInv /\ DoneInv
  BY DEF IInv
<1>1. CASE PrepareRaises \/ PrepareTarget \/ PrepareFallback \/ PrepareDone \/ NextCase \/ NextRound \/ CasesDone \/ StartFails
  BY <1>0, <1>1 DEF PrepareRaises, PrepareTarget, PrepareFallback, PrepareDone, NextCase,
       NextRound, CasesDone, StartFails, DoneInv, Launched, Collected, TypeOK, Stopping,
       TermPc, EndPc, ReapPc, launchVars, reapVars, procVars, endVars
<1>2. CASE QueueCases
  <2>1. unit \in Direct /\ unit \in Unit /\ unit' = unit + 1 /\ pos' = pos /\ carried' = carried /\ pos[unit] = 1
    BY <1>0, <1>2, UnitFacts DEF QueueCases, OrderInv
  <2>2. \A t \in Task : Launched(t)' => Launched(t)
    <3>1. ASSUME NEW t \in Task, t[1] \notin Direct, t[1] < unit + 1 PROVE t[1] < unit
      BY <2>1, <3>1, TaskFacts, UnitFacts
    <3>2. QED
      BY <2>1, <3>1 DEF Launched
  <2>3. ASSUME NEW u \in Direct, u < unit', u \notin pending' \cup carried', ~ postOnly
        PROVE  pos'[u] > Cases[u]
    <3>1. CASE u = unit
      <4>1. ~ (Cases[unit] > 0) /\ Cases[unit] \in Nat
        BY <1>2, <2>1, <2>3, <3>1 DEF QueueCases
      <4>2. QED
        BY <2>1, <3>1, <4>1
    <3>2. CASE u # unit
      <4>1. u < unit /\ u \notin pending \cup carried
        BY <1>0, <1>2, <2>1, <2>3, <3>2, UnitFacts DEF QueueCases, TypeOK
      <4>2. QED
        BY <1>0, <1>2, <2>1, <2>3, <4>1 DEF QueueCases, DoneInv, Stopping, TermPc, EndPc,
             ReapPc
    <3>3. QED
      BY <3>1, <3>2
  <2>4. QED
    BY <1>0, <1>2, <2>1, <2>2, <2>3 DEF QueueCases, DoneInv, Collected, reapVars, endVars,
         procVars, Stopping, TermPc, EndPc, ReapPc
<1>3. CASE GateFull
  BY <1>0, <1>3 DEF GateFull, CurInv, DoneInv, Launched, Collected, TypeOK, Stopping,
       TermPc, EndPc, ReapPc, launchVars, reapVars, procVars, endVars
<1>4. CASE StartProcess
  <2>1. cur \in Task /\ spawned = {} /\ spawned' = {cur} /\ active' = active
    BY <1>0, <1>4 DEF StartProcess, HeldInv, CurInv, TypeOK, Stopping, TermPc, EndPc
  <2>2. ASSUME NEW t \in Task
        PROVE  /\ t # cur => proc'[t] = proc[t] /\ open'[t] = open[t]
               /\ proc[t] # "none" => proc'[t] # "none"
    <3>1. proc'[t] = IF t = cur THEN "running" ELSE proc[t]
      BY <1>0, <1>4 DEF StartProcess, TypeOK
    <3>2. t # cur => open'[t] = open[t]
      BY <1>0, <1>4 DEF StartProcess, TypeOK
    <3>3. QED
      BY <3>1, <3>2
  <2>3. QED
    BY <1>0, <1>4, <2>1, <2>2 DEF StartProcess, DoneInv, Launched, Collected, launchVars,
         reapVars, endVars, Stopping, TermPc, EndPc, ReapPc
<1>5. CASE StartReader
  <2>1. cur \in Task /\ spawned = {cur}
    BY <1>0, <1>5 DEF StartReader, HeldInv, CurInv, TypeOK, Stopping, TermPc, EndPc
  <2>2. \A t \in Task : t # cur => reader'[t] = reader[t]
    BY <1>0, <1>5, <2>1 DEF StartReader, TypeOK
  <2>3. QED
    BY <1>0, <1>5, <2>1, <2>2 DEF StartReader, DoneInv, Launched, Collected, launchVars,
         reapVars, endVars, Stopping, TermPc, EndPc, ReapPc
<1>6. CASE AppendActive
  <2>1. cur \in Task /\ ~ Stopping /\ cur # NoTask /\ proc[cur] # "none"
    BY <1>0, <1>6 DEF AppendActive, TypeOK, CurInv, HeldInv, Stopping, TermPc, EndPc, ReapPc
  <2>2. active' = active \cup spawned /\ spawned' = {} /\ cur' = NoTask
    BY <1>6 DEF AppendActive
  <2>3. UNCHANGED <<proc, rc, reader, open, failures, overall, postOnly>>
    BY <1>6 DEF AppendActive, reapVars, endVars, procVars
  <2>4. \A t \in Task : (proc'[t] # "none" /\ t \notin active' \cup spawned') => Collected(t)'
    BY <1>0, <1>6, <2>1, <2>2, <2>3 DEF AppendActive, DoneInv, Collected, Stopping,
         TermPc, EndPc, ReapPc
  <2>5. CASE cur[1] \in Direct
    <3>1. cur[1] \in pending /\ cur[2] = pos[cur[1]] /\ unit = NumUnits + 1
      BY <1>0, <2>1, <2>5, TaskFacts DEF CurInv
    <3>2. \A v \in Unit \ {cur[1]} : pos'[v] = pos[v]
      BY <1>0, <1>6, <2>5 DEF AppendActive, TypeOK
    <3>3. pos'[cur[1]] = pos[cur[1]] + 1 /\ pos[cur[1]] \in Nat /\ unit' = unit /\ pc' = "cases"
      BY <1>0, <1>6, <2>5 DEF AppendActive, TypeOK
    <3>4. pending' = pending \ {cur[1]} /\ carried' = carried \cup {v \in {cur[1]} : pos[v] < Cases[v]}
      BY <1>6, <2>5 DEF AppendActive
    <3>5. ASSUME NEW t \in Task, Launched(t)', t # cur PROVE Launched(t)
      <4>1. CASE t[1] = cur[1]
        <5>1. t[2] # cur[2]
          BY <2>1, <3>5, <4>1, TaskFacts
        <5>2. t[2] < pos[cur[1]] + 1 /\ t[2] \in Nat
          BY <2>5, <3>3, <3>5, <4>1, TaskFacts DEF Launched
        <5>3. QED
          BY <2>5, <3>1, <3>3, <4>1, <5>1, <5>2 DEF Launched
      <4>2. CASE t[1] # cur[1]
        BY <3>2, <3>3, <3>5, <4>2, TaskFacts DEF Launched
      <4>3. QED
        BY <4>1, <4>2
    <3>6. ~ postOnly => \A t \in Task : Launched(t)' => proc'[t] # "none"
      BY <1>0, <2>1, <2>3, <3>5 DEF DoneInv
    <3>7. ASSUME NEW u \in Direct, u < unit', u \notin pending' \cup carried', ~ postOnly
          PROVE  pos'[u] > Cases[u]
      <4>1. CASE u = cur[1]
        <5>1. ~ (pos[u] < Cases[u]) /\ Cases[u] \in Nat
          BY <3>4, <3>7, <4>1
        <5>2. QED
          BY <3>3, <4>1, <5>1
      <4>2. CASE u # cur[1]
        <5>1. u \notin pending \cup carried /\ u < unit /\ pos'[u] = pos[u]
          BY <3>2, <3>3, <3>4, <3>7, <4>2
        <5>2. QED
          BY <1>0, <2>1, <3>7, <5>1 DEF DoneInv
      <4>3. QED
        BY <4>1, <4>2
    <3>8. QED
      BY <2>3, <2>4, <3>1, <3>3, <3>6, <3>7 DEF DoneInv, Stopping, TermPc, EndPc, ReapPc
  <2>6. CASE cur[1] \notin Direct
    <3>1. unit' = unit + 1 /\ pending' = pending /\ carried' = carried /\ pos' = pos /\ pc' = "prepare"
      BY <1>6, <2>6 DEF AppendActive
    <3>2. cur = <<unit, 1>> /\ unit \in Unit \ Direct
      BY <1>0, <2>1, <2>6 DEF CurInv, TypeOK
    <3>3. ASSUME NEW t \in Task, Launched(t)', t # cur PROVE Launched(t)
      <4>1. CASE t[1] = unit
        <5>1. t[2] <= 1 /\ t[2] >= 1 /\ t[2] \in Nat /\ t = <<t[1], t[2]>>
          BY <3>2, <4>1, TaskFacts
        <5>2. QED
          BY <3>2, <3>3, <4>1, <5>1
      <4>2. CASE t[1] # unit
        <5>1. t[1] < unit + 1 => t[1] < unit
          BY <3>2, <4>2, TaskFacts, UnitFacts
        <5>2. QED
          BY <3>1, <3>3, <5>1 DEF Launched
      <4>3. QED
        BY <4>1, <4>2
    <3>4. ~ postOnly => \A t \in Task : Launched(t)' => proc'[t] # "none"
      BY <1>0, <2>1, <2>3, <3>3 DEF DoneInv
    <3>5. ASSUME NEW u \in Direct, u < unit', u \notin pending' \cup carried', ~ postOnly
          PROVE  pos'[u] > Cases[u]
      <4>1. u < unit
        BY <1>0, <3>1, <3>2, <3>5, UnitFacts DEF TypeOK
      <4>2. QED
        BY <1>0, <2>1, <3>1, <3>5, <4>1 DEF DoneInv
    <3>6. QED
      BY <2>3, <2>4, <3>1, <3>4, <3>5 DEF DoneInv, Stopping, TermPc, EndPc, ReapPc
  <2>7. QED
    BY <2>5, <2>6
<1>7. CASE Scan \/ Collect \/ JoinReader \/ Cleanup \/ DrainWait \/ DrainDone \/ Postprocess \/ InterpreterExit
  BY <1>0, <1>7 DEF Scan, Collect, JoinReader, Cleanup, DrainWait, DrainDone, Postprocess,
       InterpreterExit, DoneInv, Launched, Collected, TypeOK, Stopping, TermPc, EndPc,
       ReapPc, launchVars, reapVars, procVars, endVars
<1>8. CASE Remove
  <2>1. active' = active \ {reaping} /\ UNCHANGED <<spawned, proc, rc, reader, open, overall, postOnly>>
    BY <1>8 DEF Remove, procVars, endVars
  <2>2. UNCHANGED <<unit, pending, carried, pos, cur>>
    BY <1>8 DEF Remove, launchVars
  <2>3. /\ proc[reaping] = "exited" /\ reader[reaping] = "done" /\ ~ open[reaping]
        /\ rc[reaping] # 0 => overall
    BY <1>0, <1>8 DEF Remove, ReapInv, Stopping, TermPc, EndPc, ReapPc
  <2>4. \/ pc' = "collect" /\ failures' = failures
        \/ pc' = "gate" /\ failures' = (failures \/ overall) /\ cur # NoTask
        \/ pc' = "drain" /\ failures' = (failures \/ overall) /\ cur = NoTask
    BY <1>8 DEF Remove
  <2>5. \A t \in Task : (proc'[t] # "none" /\ t \notin active' \cup spawned') => Collected(t)'
    BY <1>0, <1>8, <2>1, <2>3, <2>4 DEF Remove, DoneInv, Collected, TypeOK, Stopping,
         TermPc, EndPc, ReapPc
  <2>6. ~ postOnly => \A t \in Task : Launched(t)' => proc'[t] # "none"
    BY <1>0, <1>8, <2>1, <2>2 DEF Remove, DoneInv, Launched, Stopping, TermPc, EndPc, ReapPc
  <2>7. ~ postOnly => \A u \in Direct : (u < unit' /\ u \notin pending' \cup carried') => pos'[u] > Cases[u]
    BY <1>0, <1>8, <2>2 DEF Remove, DoneInv, Stopping, TermPc, EndPc, ReapPc
  <2>8. cur = NoTask => unit = NumUnits + 1 /\ pending = {} /\ carried = {}
    BY <1>0, <1>8 DEF Remove, DoneInv, Stopping, TermPc, EndPc, ReapPc
  <2>9. pc' = "drain" => unit = NumUnits + 1
    BY <2>4, <2>8
  <2>10. QED
    BY <2>1, <2>2, <2>4, <2>5, <2>6, <2>7, <2>8, <2>9 DEF DoneInv
<1>9. CASE Interrupt \/ SendTerm \/ SendKill \/ Release
  BY <1>0, <1>9 DEF Interrupt, SendTerm, SendKill, Release, DoneInv, Launched, Collected,
       TypeOK, Stopping, TermPc, EndPc, ReapPc, launchVars, reapVars, procVars, endVars
<1>10. ASSUME NEW t \in Task, WorkerExit(t) PROVE DoneInv'
  BY <1>0, <1>10 DEF WorkerExit, DoneInv, Launched, Collected, TypeOK, Stopping, TermPc,
       EndPc, ReapPc, launchVars, reapVars, procVars, endVars
<1>11. ASSUME NEW t \in Task, ReaderDone(t) PROVE DoneInv'
  BY <1>0, <1>11 DEF ReaderDone, DoneInv, Launched, Collected, TypeOK, Stopping, TermPc,
       EndPc, ReapPc, launchVars, reapVars, procVars, endVars
<1>12. CASE UNCHANGED vars
  BY <1>0, <1>12 DEF vars, DoneInv, Launched, Collected, TypeOK, Stopping, TermPc, EndPc,
       ReapPc, launchVars, reapVars, procVars, endVars
<1>13. QED
  BY <1>1, <1>2, <1>3, <1>4, <1>5, <1>6, <1>7, <1>8, <1>9, <1>10, <1>11, <1>12
     DEF Next, MainStep, LaunchStep, ReapStep, EndStep, StopStep, Ended

\* Postprocessing, and success, still come only after every task.
LEMMA PostStep ==
  ASSUME IInv, [Next]_vars
  PROVE  EndInv' /\ PostprocessComplete'
<1>0. TypeOK /\ HeldInv /\ DoneInv /\ EndInv /\ PostprocessComplete
  BY DEF IInv
<1>1. CASE PrepareRaises \/ PrepareTarget \/ QueueCases \/ PrepareFallback \/ PrepareDone \/ NextCase \/ NextRound \/ CasesDone
  BY <1>0, <1>1 DEF PrepareRaises, PrepareTarget, QueueCases, PrepareFallback,
       PrepareDone, NextCase, NextRound, CasesDone, EndInv, PostprocessComplete, TypeOK,
       TermPc, EndPc, ReapPc, endVars, procVars
<1>2. CASE GateFull \/ StartFails \/ AppendActive \/ Scan \/ Collect \/ JoinReader \/ Remove \/ DrainWait
  BY <1>0, <1>2 DEF GateFull, StartFails, AppendActive, Scan, Collect, JoinReader, Remove,
       DrainWait, EndInv, PostprocessComplete, TypeOK, TermPc, EndPc, ReapPc, endVars,
       procVars
<1>3. CASE StartProcess
  BY <1>0, <1>3 DEF StartProcess, EndInv, PostprocessComplete, TermPc, EndPc
<1>4. CASE StartReader
  BY <1>0, <1>4 DEF StartReader, EndInv, PostprocessComplete, TermPc, EndPc
<1>5. CASE Cleanup
  BY <1>0, <1>5 DEF Cleanup, EndInv, PostprocessComplete, TermPc, EndPc
<1>6. CASE DrainDone
  <2>1. EndInv'
    BY <1>6 DEF DrainDone, EndInv, TermPc
  <2>2. CASE failures
    BY <1>6, <2>1, <2>2 DEF DrainDone, PostprocessComplete, EndPc
  <2>3. CASE ~ failures /\ ~ postOnly
    <3>1. pc = "drain" /\ ~ Stopping /\ active = {} /\ spawned = {}
      BY <1>0, <1>6 DEF DrainDone, HeldInv, Stopping, TermPc, EndPc
    <3>2. unit = NumUnits + 1 /\ pending = {} /\ carried = {}
      BY <1>0, <2>3, <3>1 DEF DoneInv
    <3>3. ASSUME NEW t \in Task PROVE Launched(t)
      <4>1. t[1] \in Unit /\ t[2] \in Nat /\ t[2] <= Cases[t[1]]
        BY TaskFacts
      <4>2. t[1] < unit
        BY <3>2, <4>1 DEF Unit
      <4>3. Cases[t[1]] \in Nat /\ pos[t[1]] \in Nat
        BY <1>0, <4>1 DEF TypeOK
      <4>4. t[1] \in Direct => pos[t[1]] > Cases[t[1]]
        <5>1. \A u \in Direct : (u < unit /\ u \notin pending \cup carried) => pos[u] > Cases[u]
          BY <1>0, <2>3, <3>1 DEF DoneInv
        <5>2. t[1] \notin pending \cup carried
          BY <3>2
        <5>3. QED
          BY <4>2, <5>1, <5>2
      <4>5. QED
        BY <4>1, <4>2, <4>3, <4>4 DEF Launched
    <3>4. ASSUME NEW t \in Task PROVE Collected(t)
      BY <1>0, <2>3, <3>1, <3>3 DEF DoneInv
    <3>5. \A t \in Task : proc[t] = "exited" /\ rc[t] = 0 /\ reader[t] = "done" /\ ~ open[t]
      BY <2>3, <3>1, <3>4 DEF Collected, ReapPc
    <3>6. QED
      BY <1>6, <2>1, <3>5 DEF DrainDone, PostprocessComplete, procVars
  <2>4. CASE postOnly
    BY <1>6, <2>1, <2>4 DEF DrainDone, PostprocessComplete
  <2>5. QED
    BY <2>2, <2>3, <2>4
<1>7. CASE Postprocess \/ InterpreterExit \/ Interrupt \/ SendTerm \/ SendKill \/ Release
  BY <1>0, <1>7 DEF Postprocess, InterpreterExit, Interrupt, SendTerm, SendKill, Release,
       EndInv, PostprocessComplete, TypeOK, TermPc, EndPc, ReapPc, endVars, procVars
<1>8. ASSUME NEW t \in Task, WorkerExit(t) PROVE EndInv' /\ PostprocessComplete'
  BY <1>0, <1>8 DEF WorkerExit, EndInv, PostprocessComplete, TypeOK, TermPc, EndPc,
       ReapPc, endVars, procVars
<1>9. ASSUME NEW t \in Task, ReaderDone(t) PROVE EndInv' /\ PostprocessComplete'
  BY <1>0, <1>9 DEF ReaderDone, EndInv, PostprocessComplete, TypeOK, TermPc, EndPc,
       ReapPc, endVars, procVars
<1>10. CASE UNCHANGED vars
  BY <1>0, <1>10 DEF vars, EndInv, PostprocessComplete, TypeOK, TermPc, EndPc, ReapPc,
       endVars, procVars
<1>11. QED
  BY <1>1, <1>2, <1>3, <1>4, <1>5, <1>6, <1>7, <1>8, <1>9, <1>10
     DEF Next, MainStep, LaunchStep, ReapStep, EndStep, StopStep, Ended

\* Running workers stay joinable and, after a signal, the tracked ones are killed.
LEMMA StopStepInv ==
  ASSUME IInv, [Next]_vars
  PROVE  StopInv'
<1>0. TypeOK /\ ReapInv /\ CurInv /\ StopInv
  BY DEF IInv
<1>1. CASE PrepareRaises \/ PrepareTarget \/ QueueCases \/ PrepareFallback
  BY <1>0, <1>1 DEF PrepareRaises, PrepareTarget, QueueCases, PrepareFallback, StopInv,
       NoWorkerLeft, Running, TypeOK, Stopping, TermPc, EndPc, ReapPc, endVars, procVars
<1>2. CASE PrepareDone \/ NextCase \/ NextRound \/ CasesDone
  BY <1>0, <1>2 DEF PrepareDone, NextCase, NextRound, CasesDone, StopInv, NoWorkerLeft,
       Running, TypeOK, Stopping, TermPc, EndPc, ReapPc, endVars, procVars
<1>3. CASE GateFull \/ StartProcess \/ StartFails \/ StartReader
  BY <1>0, <1>3 DEF GateFull, StartProcess, StartFails, StartReader, StopInv,
       NoWorkerLeft, Running, TypeOK, Stopping, TermPc, EndPc, ReapPc, endVars, procVars
<1>4. CASE AppendActive \/ Scan \/ Collect \/ JoinReader
  BY <1>0, <1>4 DEF AppendActive, Scan, Collect, JoinReader, StopInv, NoWorkerLeft,
       Running, TypeOK, Stopping, TermPc, EndPc, ReapPc, endVars, procVars
<1>5. CASE Cleanup
  <2>1. proc[reaping] = "exited"
    BY <1>0, <1>5 DEF Cleanup, ReapInv, ReapPc
  <2>2. \A t \in Task : t # reaping => open'[t] = open[t]
    BY <1>0, <1>5 DEF Cleanup, TypeOK
  <2>3. QED
    BY <1>0, <1>5, <2>1, <2>2 DEF Cleanup, StopInv, NoWorkerLeft, Stopping, TermPc, EndPc,
         endVars
<1>6. CASE Remove \/ DrainWait \/ DrainDone \/ Postprocess
  BY <1>0, <1>6 DEF Remove, DrainWait, DrainDone, Postprocess, StopInv, NoWorkerLeft,
       Running, TypeOK, Stopping, TermPc, EndPc, ReapPc, endVars, procVars
<1>7. CASE InterpreterExit \/ Interrupt \/ SendTerm
  BY <1>0, <1>7 DEF InterpreterExit, Interrupt, SendTerm, StopInv, NoWorkerLeft, Running,
       TypeOK, Stopping, TermPc, EndPc, ReapPc, endVars, procVars
<1>8. CASE SendKill
  BY <1>0, <1>8 DEF SendKill, IsAlive, StopInv, NoWorkerLeft, Running, TypeOK, Stopping,
       TermPc, EndPc, ReapPc, endVars, procVars
<1>9. CASE Release
  BY <1>0, <1>9 DEF Release, IsAlive, StopInv, NoWorkerLeft, Running, TypeOK, Stopping,
       TermPc, EndPc, ReapPc, endVars, procVars
<1>10. ASSUME NEW t \in Task, WorkerExit(t) PROVE StopInv'
  BY <1>0, <1>10 DEF WorkerExit, StopInv, NoWorkerLeft, Running, TypeOK, Stopping, TermPc,
       EndPc, ReapPc, endVars, procVars
<1>11. ASSUME NEW t \in Task, ReaderDone(t) PROVE StopInv'
  BY <1>0, <1>11 DEF ReaderDone, StopInv, NoWorkerLeft, Running, TypeOK, Stopping, TermPc,
       EndPc, ReapPc, endVars, procVars
<1>12. CASE UNCHANGED vars
  BY <1>0, <1>12 DEF vars, StopInv, NoWorkerLeft, Running, TypeOK, Stopping, TermPc,
       EndPc, ReapPc, endVars, procVars
<1>13. QED
  BY <1>1, <1>2, <1>3, <1>4, <1>5, <1>6, <1>7, <1>8, <1>9, <1>10, <1>11, <1>12
     DEF Next, MainStep, LaunchStep, ReapStep, EndStep, StopStep, Ended

\* No group runs ahead within a round, and rounds do not mix.
LEMMA RoundStep ==
  ASSUME IInv, [Next]_vars
  PROVE  RoundInv'
<1>0. TypeOK /\ OrderInv /\ CurInv /\ DoneInv /\ RoundInv
  BY DEF IInv
<1>1. CASE PrepareRaises \/ PrepareFallback \/ PrepareDone \/ NextCase \/ CasesDone \/ GateFull \/ StartProcess \/ StartFails \/ StartReader
  BY <1>0, <1>1 DEF PrepareRaises, PrepareFallback, PrepareDone, NextCase, CasesDone,
       GateFull, StartProcess, StartFails, StartReader, RoundInv, launchVars
<1>2. CASE PrepareTarget
  BY <1>0, <1>2, UnitFacts DEF PrepareTarget, RoundInv, TypeOK
<1>3. CASE QueueCases
  <2>1. unit \in Nat /\ unit <= NumUnits
    BY <1>3, UnitFacts DEF QueueCases
  <2>2. carried = {} /\ \A v \in Direct : pos[v] = 1
    BY <1>0, <2>1 DEF RoundInv
  <2>3. pending' \subseteq Direct /\ carried' = carried /\ pos' = pos
    BY <1>0, <1>3 DEF QueueCases, TypeOK
  <2>4. QED
    BY <2>2, <2>3 DEF RoundInv
<1>4. CASE NextRound
  <2>1. pending' = carried /\ carried' = {} /\ pos' = pos /\ unit' = unit
    BY <1>4 DEF NextRound
  <2>2. unit = NumUnits + 1
    BY <1>0, <1>4 DEF NextRound, DoneInv, Stopping, TermPc, EndPc
  <2>3. \A u \in carried : \A v \in Direct : pos[v] \in Nat /\ pos[u] \in Nat /\ pos[v] <= pos[u]
    BY <1>0 DEF RoundInv, TypeOK
  <2>4. \A u \in carried : \A v \in carried : pos[v] = pos[u]
    BY <1>0, <2>3 DEF TypeOK
  <2>5. QED
    BY <2>1, <2>2, <2>3, <2>4 DEF RoundInv
<1>5. CASE AppendActive
  <2>1. cur \in Task /\ ~ Stopping /\ cur # NoTask
    BY <1>0, <1>5 DEF AppendActive, TypeOK, CurInv, Stopping, TermPc, EndPc
  <2>2. CASE cur[1] \in Direct
    <3> DEFINE c == cur[1]
    <3>1. c \in pending /\ c \notin carried /\ unit = NumUnits + 1 /\ unit' = unit
      BY <1>0, <1>5, <2>1, <2>2 DEF AppendActive, CurInv, OrderInv
    <3>2. pending' = pending \ {c} /\ carried' \subseteq carried \cup {c}
      BY <1>5, <2>2 DEF AppendActive
    <3>3. pos'[c] = pos[c] + 1 /\ \A v \in Direct \ {c} : pos'[v] = pos[v]
      BY <1>0, <1>5, <2>2 DEF AppendActive, TypeOK
    <3>4. \A v \in Direct : pos[v] \in Nat
      BY <1>0 DEF TypeOK
    <3>5. pending \subseteq Direct /\ carried \subseteq Direct
      BY <1>0 DEF TypeOK
    <3> HIDE DEF c
    <3>6. /\ \A v \in pending : pos[v] = pos[c]
          /\ \A v \in carried : pos[v] = pos[c] + 1
          /\ \A v \in Direct : pos[v] <= pos[c] + 1
      BY <1>0, <3>1 DEF RoundInv
    <3>7. \A u \in pending' : pos'[u] = pos[c]
      BY <3>2, <3>3, <3>5, <3>6
    <3>8. \A u \in carried' : pos'[u] = pos[c] + 1
      BY <3>2, <3>3, <3>5, <3>6
    <3>9. \A v \in Direct : pos'[v] <= pos[c] + 1
      BY <3>1, <3>3, <3>4, <3>5, <3>6
    <3>10. ~ (unit' <= NumUnits)
      BY <3>1
    <3>11. QED
      BY <3>7, <3>8, <3>9, <3>10 DEF RoundInv
  <2>3. CASE cur[1] \notin Direct
    <3>1. unit' = unit + 1 /\ pending' = pending /\ carried' = carried /\ pos' = pos
      BY <1>5, <2>3 DEF AppendActive
    <3>2. unit' <= NumUnits => unit <= NumUnits
      BY <1>0, <3>1 DEF TypeOK
    <3>3. QED
      BY <1>0, <3>1, <3>2 DEF RoundInv
  <2>4. QED
    BY <2>2, <2>3
<1>6. CASE Scan \/ Collect \/ JoinReader \/ Cleanup \/ Remove \/ DrainWait \/ DrainDone
  BY <1>0, <1>6 DEF Scan, Collect, JoinReader, Cleanup, Remove, DrainWait, DrainDone,
       RoundInv, launchVars
<1>7. CASE Postprocess \/ InterpreterExit \/ Interrupt \/ SendTerm \/ SendKill \/ Release
  BY <1>0, <1>7 DEF Postprocess, InterpreterExit, Interrupt, SendTerm, SendKill, Release,
       RoundInv, launchVars
<1>8. ASSUME NEW t \in Task, WorkerExit(t) \/ ReaderDone(t) PROVE RoundInv'
  BY <1>0, <1>8 DEF WorkerExit, ReaderDone, RoundInv, launchVars
<1>9. CASE UNCHANGED vars
  BY <1>0, <1>9 DEF vars, RoundInv, launchVars
<1>10. QED
  BY <1>1, <1>2, <1>3, <1>4, <1>5, <1>6, <1>7, <1>8, <1>9
     DEF Next, MainStep, LaunchStep, ReapStep, EndStep, StopStep, Ended

\* The task at the gate has not been started before.
LEMMA GateFresh ==
  ASSUME IInv, pc = "gate"
  PROVE  cur \in Task /\ proc[cur] = "none"
<1>0. TypeOK /\ CurInv /\ FreshInv
  BY DEF IInv
<1>1. cur \in Task /\ cur # NoTask /\ ~ Stopping
  BY <1>0 DEF TypeOK, CurInv, Stopping, TermPc, EndPc
<1>2. ~ Launched(cur)
  <2>1. CASE cur[1] \in Direct
    <3>1. cur[2] = pos[cur[1]] /\ pos[cur[1]] \in Nat
      BY <1>0, <1>1, <2>1 DEF CurInv, TypeOK
    <3>2. QED
      BY <2>1, <3>1 DEF Launched
  <2>2. CASE cur[1] \notin Direct
    <3>1. cur[1] = unit /\ unit \in Nat
      BY <1>0, <1>1, <2>2 DEF CurInv, TypeOK
    <3>2. QED
      BY <2>2, <3>1 DEF Launched
  <2>3. QED
    BY <2>1, <2>2
<1>3. QED
  BY <1>0, <1>1, <1>2 DEF FreshInv

\* A started task is behind the main thread's position, or is being launched.
LEMMA FreshStep ==
  ASSUME IInv, [Next]_vars
  PROVE  FreshInv'
<1>0. TypeOK /\ OrderInv /\ CurInv /\ FreshInv
  BY DEF IInv
<1>1. CASE PrepareRaises \/ PrepareFallback \/ PrepareDone \/ NextCase \/ NextRound \/ CasesDone \/ GateFull \/ StartFails
  BY <1>0, <1>1 DEF PrepareRaises, PrepareFallback, PrepareDone, NextCase, NextRound,
       CasesDone, GateFull, StartFails, FreshInv, Launched, Stopping, TermPc, EndPc,
       launchVars, procVars
<1>2. CASE PrepareTarget \/ QueueCases
  <2>1. unit' = unit + 1 /\ pos' = pos /\ proc' = proc /\ pc = "prepare" /\ pc' = pc /\ unit \in Nat
    BY <1>0, <1>2 DEF PrepareTarget, QueueCases, procVars, TypeOK
  <2>2. \A t \in Task : Launched(t) => Launched(t)'
    BY <2>1, TaskFacts, UnitFacts DEF Launched
  <2>3. QED
    BY <1>0, <2>1, <2>2 DEF FreshInv, Stopping, TermPc, EndPc
<1>3. CASE StartProcess
  <2>1. cur \in Task /\ pc = "gate" /\ pc' = "reader" /\ ~ Stopping /\ UNCHANGED <<unit, pos, cur>>
    BY <1>0, <1>3, GateFresh DEF StartProcess, launchVars, Stopping, TermPc, EndPc
  <2>2. \A t \in Task : t # cur => proc'[t] = proc[t]
    BY <1>0, <1>3 DEF StartProcess, TypeOK
  <2>3. \A t \in Task : Launched(t)' = Launched(t)
    BY <2>1 DEF Launched
  <2>4. QED
    BY <1>0, <2>1, <2>2, <2>3 DEF FreshInv
<1>4. CASE StartReader
  BY <1>0, <1>4 DEF StartReader, FreshInv, Launched, Stopping, TermPc, EndPc, launchVars
<1>5. CASE AppendActive
  <2>1. cur \in Task /\ ~ Stopping /\ cur # NoTask /\ proc' = proc
    BY <1>0, <1>5 DEF AppendActive, TypeOK, CurInv, Stopping, TermPc, EndPc, procVars
  <2>2. \A t \in Task : proc[t] # "none" => Launched(t) \/ t = cur
    BY <1>0, <2>1 DEF FreshInv
  <2>3. CASE cur[1] \in Direct
    <3>1. cur[2] = pos[cur[1]] /\ cur[1] \in Unit
      BY <1>0, <2>1, <2>3, TaskFacts DEF CurInv
    <3>2. pos' = [pos EXCEPT ![cur[1]] = @ + 1] /\ unit' = unit
      BY <1>5, <2>3 DEF AppendActive
    <3>3. pos'[cur[1]] = pos[cur[1]] + 1 /\ \A v \in Unit \ {cur[1]} : pos'[v] = pos[v]
      BY <1>0, <3>1, <3>2 DEF TypeOK
    <3>4. \A v \in Unit : pos[v] \in Nat
      BY <1>0 DEF TypeOK
    <3>5. \A v \in Unit : pos'[v] \in Nat /\ pos[v] <= pos'[v]
      BY <3>3, <3>4
    <3>6. \A t \in Task : Launched(t) => Launched(t)'
      <4>1. SUFFICES ASSUME NEW t \in Task, Launched(t) PROVE Launched(t)'
        OBVIOUS
      <4>2. t[1] \in Unit /\ t[2] \in Nat /\ pos[t[1]] \in Nat /\ pos'[t[1]] \in Nat /\ pos[t[1]] <= pos'[t[1]]
        BY <3>4, <3>5, TaskFacts
      <4>3. QED
        BY <3>2, <4>1, <4>2 DEF Launched
    <3>7. \A t \in Task : t = cur => Launched(t)'
      BY <2>3, <3>1, <3>3, <3>4 DEF Launched
    <3>8. QED
      BY <2>1, <2>2, <3>6, <3>7 DEF FreshInv
  <2>4. CASE cur[1] \notin Direct
    <3>1. unit' = unit + 1 /\ pos' = pos /\ unit \in Nat
      BY <1>0, <1>5, <2>4 DEF AppendActive, TypeOK
    <3>2. cur[1] = unit
      BY <1>0, <2>1, <2>4 DEF CurInv, TypeOK
    <3>3. \A t \in Task : Launched(t) \/ t = cur => Launched(t)'
      BY <2>4, <3>1, <3>2, TaskFacts, UnitFacts DEF Launched
    <3>4. QED
      BY <2>1, <2>2, <3>3 DEF FreshInv
  <2>5. QED
    BY <2>3, <2>4
<1>6. CASE Scan \/ Collect \/ JoinReader \/ Cleanup \/ Remove \/ DrainWait \/ DrainDone \/ Postprocess
  BY <1>0, <1>6 DEF Scan, Collect, JoinReader, Cleanup, Remove, DrainWait, DrainDone,
       Postprocess, FreshInv, Launched, Stopping, TermPc, EndPc, launchVars, procVars
<1>7. CASE InterpreterExit \/ Interrupt \/ SendTerm \/ SendKill \/ Release
  BY <1>0, <1>7 DEF InterpreterExit, Interrupt, SendTerm, SendKill, Release, FreshInv,
       Stopping, TermPc, EndPc
<1>8. ASSUME NEW t \in Task, WorkerExit(t) PROVE FreshInv'
  BY <1>0, <1>8 DEF WorkerExit, FreshInv, Launched, Stopping, TermPc, EndPc, launchVars, TypeOK
<1>9. ASSUME NEW t \in Task, ReaderDone(t) PROVE FreshInv'
  BY <1>0, <1>9 DEF ReaderDone, FreshInv, Launched, Stopping, TermPc, EndPc, launchVars
<1>10. CASE UNCHANGED vars
  BY <1>0, <1>10 DEF vars, FreshInv, Launched, Stopping, TermPc, EndPc, launchVars, procVars
<1>11. QED
  BY <1>1, <1>2, <1>3, <1>4, <1>5, <1>6, <1>7, <1>8, <1>9, <1>10
     DEF Next, MainStep, LaunchStep, ReapStep, EndStep, StopStep, Ended

\* The invariant holds initially.
LEMMA InitInv == Init => IInv
<1>1. SUFFICES ASSUME Init PROVE IInv
  OBVIOUS
<1>2. TypeOK
  <2>1. 1 \in 1..(NumUnits + 1) /\ 1 \in 1..(MaxCases + 1) /\ 0 \in 0..MaxSignals
    OBVIOUS
  <2>2. pos \in [Unit -> 1..(MaxCases + 1)]
    BY <1>1, <2>1 DEF Init
  <2>3. postOnly \in BOOLEAN /\ open \in [Task -> BOOLEAN]
    BY <1>1 DEF Init
  <2>4. QED
    BY <1>1, <2>1, <2>2, <2>3 DEF Init, TypeOK
<1>3. OrderInv /\ CurInv /\ ReapInv /\ EndInv /\ PostprocessComplete
  BY <1>1 DEF Init, OrderInv, CurInv, ReapInv, EndInv, PostprocessComplete, Stopping,
              TermPc, EndPc, ReapPc
<1>4. HeldInv
  <2>1. Cardinality({}) = 0 /\ active \cup spawned = {}
    BY <1>1, FS_EmptySet DEF Init
  <2>2. QED
    BY <1>1, <2>1 DEF Init, HeldInv, Stopping, TermPc, EndPc
<1>5. DoneInv
  <2>1. \A t \in Task : ~ Launched(t)
    BY <1>1, TaskFacts, UnitFacts DEF Init, Launched
  <2>2. \A u \in Direct : ~ (u < unit)
    BY <1>1, UnitFacts DEF Init
  <2>3. QED
    BY <1>1, <2>1, <2>2 DEF Init, DoneInv, ReapPc
<1>6. StopInv
  BY <1>1 DEF Init, StopInv, NoWorkerLeft, Running, EndPc
<1>7. RoundInv /\ FreshInv
  BY <1>1 DEF Init, RoundInv, FreshInv
<1>8. QED
  BY <1>2, <1>3, <1>4, <1>5, <1>6, <1>7 DEF IInv

\* Every step preserves the invariant.
LEMMA NextInv == IInv /\ [Next]_vars => IInv'
  BY TypeStep, OrderStep, CurStep, ReapStepInv, HeldStep, DoneStep, PostStep, StopStepInv,
     RoundStep, FreshStep DEF IInv

\* The inductive invariant holds of the campaign, whatever the constants are.
THEOREM CampaignInvariant == Spec => []IInv
  BY InitInv, NextInv, PTL DEF Spec

\* The campaign state is well typed in every reachable state: in particular no case
\* index runs past its group and reap_finished never holds a task that is not one.
THEOREM CampaignType == Spec => []TypeOK
<1>1. IInv => TypeOK
  BY DEF IInv
<1>2. QED
  BY <1>1, CampaignInvariant, PTL

\* The number of running worker processes never exceeds the shared limit, for any
\* mixture of runs, any limit and any number of signals.
THEOREM CampaignLimit == Spec => []LimitRespected
<1>1. ASSUME IInv PROVE LimitRespected
  <2>1. IsFiniteSet(active \cup spawned)
    BY <1>1, TaskFinite, FS_Subset DEF IInv, TypeOK
  <2>2. Running \in SUBSET (active \cup spawned)
    BY <1>1 DEF IInv, HeldInv, Running
  <2>3. /\ Cardinality(Running) <= Cardinality(active \cup spawned)
        /\ Cardinality(Running) \in Nat /\ Cardinality(active \cup spawned) \in Nat
    BY <2>1, <2>2, FS_Subset, FS_CardinalityType
  <2>4. QED
    BY <1>1, <2>3 DEF IInv, HeldInv, LimitRespected
<1>2. QED
  BY <1>1, CampaignInvariant, PTL

\* Postprocessing and success mean that every task of every unit was launched,
\* exited with code 0 and was collected with its log.
THEOREM CampaignComplete == Spec => []PostprocessComplete
<1>1. IInv => PostprocessComplete
  BY DEF IInv
<1>2. QED
  BY <1>1, CampaignInvariant, PTL

\* After any number of signals, at any point of the campaign, every worker that is
\* still running has been sent SIGKILL, except one that was being launched.
THEOREM CampaignInterrupt == Spec => []InterruptStopsTracked
<1>1. ASSUME IInv PROVE InterruptStopsTracked
  BY <1>1 DEF IInv, StopInv, HeldInv, InterruptStopsTracked, Running, EndPc
<1>2. QED
  BY <1>1, CampaignInvariant, PTL

\* Unless a second signal cuts its exit short, the orchestrator ends after all its
\* workers.
THEOREM CampaignLeavesNone == Spec => []NoWorkerLeft
<1>1. IInv => NoWorkerLeft
  BY DEF IInv, StopInv
<1>2. QED
  BY <1>1, CampaignInvariant, PTL

\* launch_pending_case_tasks is fair for any number of groups of any sizes: while a
\* group still has a case to launch, no other group is more than one case ahead.
THEOREM CampaignFair == Spec => []FairRounds
<1>1. ASSUME IInv PROVE FairRounds
  <2>1. \A v \in Direct : pos[v] \in Nat
    BY <1>1 DEF IInv, TypeOK
  <2>2. pending \subseteq Direct /\ carried \subseteq Direct
    BY <1>1 DEF IInv, TypeOK
  <2>3. QED
    BY <1>1, <2>1, <2>2 DEF IInv, RoundInv, FairRounds
<1>2. QED
  BY <1>1, CampaignInvariant, PTL

\* No step of the campaign, at any size and with any signals, starts a task whose
\* process has been started before.
THEOREM CampaignStartsOnce == Spec => StartedOnce
<1> DEFINE Once == \A t \in Task : proc[t] # "none" => proc'[t] # "running" \/ proc[t] = "running"
<1>1. ASSUME IInv, [Next]_vars PROVE Once
  <2>0. TypeOK
    BY <1>1 DEF IInv
  <2>1. CASE StartProcess
    <3>1. cur \in Task /\ proc[cur] = "none"
      BY <1>1, <2>1, GateFresh DEF StartProcess
    <3>2. \A t \in Task : t # cur => proc'[t] = proc[t]
      BY <2>0, <2>1 DEF StartProcess, TypeOK
    <3>3. QED
      BY <3>1, <3>2
  <2>2. ASSUME NEW t \in Task, WorkerExit(t) PROVE Once
    BY <2>0, <2>2 DEF WorkerExit, TypeOK
  <2>3. CASE UNCHANGED proc
    BY <2>3
  <2>4. CASE PrepareRaises \/ PrepareTarget \/ QueueCases \/ PrepareFallback \/ PrepareDone \/ NextCase \/ NextRound \/ CasesDone
    BY <2>3, <2>4 DEF PrepareRaises, PrepareTarget, QueueCases, PrepareFallback,
         PrepareDone, NextCase, NextRound, CasesDone, procVars
  <2>5. CASE GateFull \/ StartFails \/ StartReader \/ AppendActive \/ ReapStep
    BY <2>3, <2>5 DEF GateFull, StartFails, StartReader, AppendActive, ReapStep, Scan,
         Collect, JoinReader, Cleanup, Remove, procVars
  <2>6. CASE EndStep \/ StopStep \/ Interrupt
    BY <2>3, <2>6 DEF EndStep, StopStep, DrainWait, DrainDone, Postprocess,
         InterpreterExit, SendTerm, SendKill, Release, Interrupt, procVars
  <2>7. ASSUME NEW t \in Task, ReaderDone(t) PROVE Once
    BY <2>3, <2>7 DEF ReaderDone
  <2>8. CASE UNCHANGED vars
    BY <2>3, <2>8 DEF vars, procVars
  <2>9. QED
    BY <1>1, <2>1, <2>2, <2>4, <2>5, <2>6, <2>7, <2>8 DEF Next, MainStep, LaunchStep, Ended
<1>2. QED
  BY <1>1, CampaignInvariant, PTL DEF Spec, StartedOnce

-----------------------------------------------------------------------------
(* The campaign as a pool of workers *)

\* Once main() is leaving it goes on leaving, and keeps a status that is not 0.
LEMMA LeavingStays ==
  ASSUME IInv, [Next]_vars
  PROVE  /\ postOnly' = postOnly
         /\ Stopping => Stopping' /\ (status # 0 => status' # 0)
<1> USE DEF Stopping, TermPc, EndPc, endVars
<1>1. CASE PrepareRaises \/ PrepareTarget \/ QueueCases \/ PrepareFallback \/ PrepareDone
  BY <1>1 DEF PrepareRaises, PrepareTarget, QueueCases, PrepareFallback, PrepareDone
<1>2. CASE NextCase \/ NextRound \/ CasesDone \/ GateFull \/ StartProcess \/ StartFails \/ StartReader
  BY <1>2 DEF NextCase, NextRound, CasesDone, GateFull, StartProcess, StartFails, StartReader
<1>3. CASE AppendActive \/ Scan \/ Collect \/ JoinReader \/ Cleanup \/ Remove
  BY <1>3 DEF AppendActive, Scan, Collect, JoinReader, Cleanup, Remove
<1>4. CASE DrainWait \/ DrainDone \/ Postprocess \/ InterpreterExit
  BY <1>4 DEF DrainWait, DrainDone, Postprocess, InterpreterExit
<1>5. CASE Interrupt \/ SendTerm \/ SendKill \/ Release
  BY <1>5 DEF Interrupt, SendTerm, SendKill, Release
<1>6. ASSUME NEW t \in Task, WorkerExit(t) \/ ReaderDone(t)
      PROVE  UNCHANGED <<pc, status, postOnly>>
  BY <1>6 DEF WorkerExit, ReaderDone
<1>7. CASE UNCHANGED vars
  BY <1>7 DEF vars
<1> QED
  BY <1>1, <1>2, <1>3, <1>4, <1>5, <1>6, <1>7
     DEF Next, MainStep, LaunchStep, ReapStep, EndStep, StopStep, Ended

\* A step that starts and ends no worker decides the verdict, or leaves it.
LEMMA VerdictStep ==
  ASSUME IInv, IInv', [Next]_vars, UNCHANGED <<proc, rc>>
  PROVE  [Pool!Next]_(Pool!vars)
<1>1. WorkerLife' = WorkerLife
  BY DEF WorkerLife
<1>2. CampaignVerdict' \in {"none", "success", "failure"}
  BY DEF CampaignVerdict
<1>3. CASE CampaignVerdict' = CampaignVerdict
  BY <1>1, <1>3 DEF Pool!vars
<1>4. CASE CampaignVerdict' = "failure"
  BY <1>1, <1>4 DEF Pool!Next, Pool!Fail
<1>5. CampaignVerdict # "none" => CampaignVerdict' # "none"
  BY LeavingStays DEF CampaignVerdict, Stopping
<1>6. CampaignVerdict' = "success" => CampaignVerdict # "failure"
  BY LeavingStays DEF CampaignVerdict, Stopping
<1>7. CASE CampaignVerdict' = "success" /\ CampaignVerdict = "none"
  <2>1. ~ postOnly' /\ pc' \in TermPc \cup EndPc /\ status' = 0
    BY <1>7 DEF CampaignVerdict
  <2>2. pc' \in EndPc
    BY <2>1 DEF IInv, EndInv
  <2>3. \A t \in Task : proc'[t] = "exited" /\ rc'[t] = 0
    BY <2>1, <2>2 DEF IInv, PostprocessComplete
  <2>4. \A t \in Task : WorkerLife[t] = "succeeded"
    BY <2>3 DEF WorkerLife
  <2> QED BY <1>1, <1>7, <2>4 DEF Pool!Next, Pool!Succeed
<1> QED
  <2>1. CampaignVerdict \in {"none", "success", "failure"}
    BY DEF CampaignVerdict
  <2> QED BY <1>2, <1>3, <1>4, <1>5, <1>6, <1>7, <2>1

\* Popen in launch_run starts a task that has not run, with room under the limit.
LEMMA LaunchStepRefines ==
  ASSUME IInv, StartProcess
  PROVE  \E t \in Task : Pool!Launch(t)
<1>1. cur \in Task /\ proc[cur] = "none"
  BY GateFresh DEF StartProcess
<1>2. TypeOK /\ HeldInv
  BY DEF IInv
<1>3. pc = "gate" /\ pc' = "reader" /\ UNCHANGED <<status, postOnly>>
  BY DEF StartProcess, endVars
<1>4. CampaignVerdict = "none" /\ CampaignVerdict' = "none"
  BY <1>3 DEF CampaignVerdict, TermPc, EndPc
<1>5. WorkerLife' = [WorkerLife EXCEPT ![cur] = "running"]
  <2>1. \A t \in Task : proc'[t] = IF t = cur THEN "running" ELSE proc[t]
    BY <1>1, <1>2 DEF StartProcess, TypeOK
  <2>2. rc' = rc
    BY DEF StartProcess
  <2>3. \A t \in Task : WorkerLife'[t] = IF t = cur THEN "running" ELSE WorkerLife[t]
    BY <2>1, <2>2 DEF WorkerLife
  <2> QED BY <2>3 DEF WorkerLife
<1>6. ASSUME Limit # 0 PROVE Cardinality({t \in Task : WorkerLife[t] = "running"}) < Limit
  <2> DEFINE R == {t \in Task : WorkerLife[t] = "running"}
  <2>1. spawned = {} /\ active \subseteq Task
    BY <1>2, <1>3 DEF HeldInv, Stopping, TermPc, EndPc, TypeOK
  <2>2. R \in SUBSET active
    BY <1>2, <2>1 DEF HeldInv, WorkerLife
  <2>3. IsFiniteSet(active)
    BY <2>1, TaskFinite, FS_Subset
  <2>4. Cardinality(R) <= Cardinality(active) /\ Cardinality(R) \in Nat /\ Cardinality(active) \in Nat
    BY <2>2, <2>3, FS_Subset, FS_CardinalityType
  <2>5. ~ (Cardinality(active) >= Limit)
    BY <1>6 DEF StartProcess, AtLimit
  <2> HIDE DEF R
  <2>6. Cardinality(R) < Limit
    BY <2>4, <2>5
  <2> QED BY <2>6 DEF R
<1>7. WorkerLife[cur] = "waiting"
  BY <1>1 DEF WorkerLife
<1>8. Pool!Room
  <2>1. \A S : Pool!Cardinality(S) = Cardinality(S)
    BY Zenon DEF Pool!Cardinality, Cardinality, Pool!IsFiniteSet, IsFiniteSet
  <2> QED BY <1>6, <2>1 DEF Pool!Room
<1>9. Pool!Launch(cur)
  BY <1>4, <1>5, <1>7, <1>8 DEF Pool!Launch
<1> QED BY <1>1, <1>9

\* A worker that exits ends in the pool, well if its code is 0.
LEMMA ExitStepRefines ==
  ASSUME IInv, NEW t \in Task, WorkerExit(t)
  PROVE  Pool!End(t)
<1>1. TypeOK
  BY DEF IInv
<1>2. PICK c \in {0, 1} : rc' = [rc EXCEPT ![t] = c]
  BY DEF WorkerExit
<1>3. CampaignVerdict' = CampaignVerdict
  BY DEF WorkerExit, CampaignVerdict, endVars
<1> DEFINE how == IF c = 0 THEN "succeeded" ELSE "failed"
<1>4. \A u \in Task : /\ proc'[u] = IF u = t THEN "exited" ELSE proc[u]
                      /\ rc'[u] = IF u = t THEN c ELSE rc[u]
  BY <1>1, <1>2 DEF WorkerExit, TypeOK
<1>5. \A u \in Task : WorkerLife'[u] = IF u = t THEN how ELSE WorkerLife[u]
  BY <1>4 DEF WorkerLife
<1>6. WorkerLife' = [WorkerLife EXCEPT ![t] = how]
  BY <1>5 DEF WorkerLife
<1>7. WorkerLife[t] = "running" /\ how \in {"succeeded", "failed"}
  BY DEF WorkerExit, WorkerLife
<1> QED BY <1>3, <1>6, <1>7 DEF Pool!End

\* The campaign implements WorkerPool for any units, cases, limit and signals: every
\* step starts a fresh task with room for it, ends one, decides, or is no step of the pool.
THEOREM CampaignRefinesPool == Spec => PoolSpec
<1>1. Init => Pool!Init
  BY DEF Init, Pool!Init, WorkerLife, CampaignVerdict, TermPc, EndPc
<1>2. ASSUME IInv, IInv', [Next]_vars PROVE [Pool!Next]_(Pool!vars)
  <2>1. CASE StartProcess
    BY <1>2, <2>1, LaunchStepRefines DEF Pool!Next
  <2>2. ASSUME NEW t \in Task, WorkerExit(t) PROVE Pool!Next
    BY <1>2, <2>2, ExitStepRefines DEF Pool!Next
  <2>3. CASE UNCHANGED <<proc, rc>>
    BY <1>2, <2>3, VerdictStep
  <2>4. CASE PrepareRaises \/ PrepareTarget \/ QueueCases \/ PrepareFallback \/ PrepareDone \/ NextCase \/ NextRound \/ CasesDone
    BY <2>3, <2>4 DEF PrepareRaises, PrepareTarget, QueueCases, PrepareFallback,
         PrepareDone, NextCase, NextRound, CasesDone, procVars
  <2>5. CASE GateFull \/ StartFails \/ StartReader \/ AppendActive \/ ReapStep
    BY <2>3, <2>5 DEF GateFull, StartFails, StartReader, AppendActive, ReapStep, Scan,
         Collect, JoinReader, Cleanup, Remove, procVars
  <2>6. CASE EndStep \/ StopStep \/ Interrupt
    BY <2>3, <2>6 DEF EndStep, StopStep, DrainWait, DrainDone, Postprocess,
         InterpreterExit, SendTerm, SendKill, Release, Interrupt, procVars
  <2>7. ASSUME NEW t \in Task, ReaderDone(t) PROVE UNCHANGED <<proc, rc>>
    BY <2>7 DEF ReaderDone
  <2>8. CASE UNCHANGED vars
    BY <2>3, <2>8 DEF vars, procVars
  <2> QED
    BY <1>2, <2>1, <2>2, <2>3, <2>4, <2>5, <2>6, <2>7, <2>8 DEF Next, MainStep, LaunchStep, Ended
<1> QED
  BY <1>1, <1>2, CampaignInvariant, PTL DEF Spec, PoolSpec, Pool!Spec
=============================================================================
