---------------------------- MODULE CaseRunProofs ----------------------------
(***************************************************************************)
(* Proofs about module CaseRun, for every number of campaigns, commands,   *)
(* findings and signals and for each runner.  IInv adds to the properties  *)
(* what a worker knows at each of its steps and what earlier ones left.    *)
(***************************************************************************)
EXTENDS CaseRun, TLAPS

\* before the JSON, after the time was recorded, and from the conversion on
EarlyPc  == {"make", "mirror", "job", "spawned", "wait", "clear", "launch", "timing",
             "move", "moving", "stats", "convert"}
TimedPc  == {"move", "moving", "stats", "convert", "write", "dump", "replay", "replaying",
             "save", "flush"}
ReportPc == {"write", "dump", "replay", "replaying", "save", "flush"}

OwnSource == source = "own" \/ (tool = "binsec" /\ \E k \in stopped \cup garbled : k < attempt)

\* a worker at work belongs to a campaign; it has settled on no exit code, and the commands
\* that prepare the case are done before the tool starts
WorkInv ==
  /\ pc # "ended" => attempt \in Attempt
  /\ pc \notin {"leave", "ended", "stop"} => code = None
  /\ pc = "stop" => code = 130
  /\ pc \in {"clear", "launch"} => jobs = 0

\* who has a subprocess: a worker that waits for it, that got a signal or that gave up on
\* it; campaigns to come have none
ChildInv ==
  /\ \A k \in Attempt : k > attempt => child[k] = "none" /\ ws[k] = "none"
  /\ \A k \in Attempt : (k < attempt /\ k \notin stopped \cup garbled) => child[k] = "none"
  /\ (attempt \in Attempt /\ attempt \notin stopped) =>
       /\ child[attempt] # "none" =>
            pc \in {"spawned", "wait", "replaying"} \/ attempt \in garbled
       /\ pc # "stop"
  /\ \A k \in stopped \cup garbled : k <= attempt

\* the workspace of the running worker
SpaceInv ==
  /\ pc = "make" => ws[attempt] = "none"
  /\ pc = "mirror" => ws[attempt] = "mirror"
  /\ pc = "ended" /\ attempt \in Attempt /\ attempt \notin stopped => ws[attempt] # "ready"

\* once the outputs have been cleared, klee-out-0 can only be the run's own
OutputInv ==
  /\ tool # "klee" => pc \notin {"clear", "move", "moving", "write", "dump"}
  /\ tool = "klee" =>
    /\ (pc \in {"launch", "timing", "move"} \/ (pc \in {"spawned", "wait"} /\ jobs = 0)) =>
         outs[attempt][0] # "old"
    /\ pc = "moving" => outs[attempt][0] = "own"
    /\ pc \in {"convert"} \cup ReportPc => dest = "own"
    /\ pc # "stats"

\* a stats file is the campaign's own or that of a worker that was stopped or gave up
StatsInv ==
  /\ stats # 0 => stats = attempt \/ (stats \in stopped \cup garbled /\ stats < attempt)
  /\ (tool = "binsec" /\ pc = "convert") => stats # 0

\* the files in the results directory
FileInv ==
  /\ pc \in EarlyPc => json = "none"
  /\ pc \in TimedPc => timing # "none"
  /\ pc \in ReportPc => OwnSource
  /\ pc \in {"dump", "flush"} => json = "torn"
  /\ json # "none" => jsonBy = attempt /\ OwnSource
  /\ (pc \in {"leave", "ended"} /\ attempt \in Attempt /\ code = 0) =>
       /\ timing # "none"
       /\ \/ json = "final" /\ (tool = "klee" => dest = "own")
          \/ tool = "binsec" /\ json = "none"

IInv == TypeOK /\ WorkInv /\ ChildInv /\ SpaceInv /\ OutputInv /\ StatsInv /\ FileInv

-----------------------------------------------------------------------------
(* The assumption on the constants is used throughout. *)
USE CaseAssumption

\* Every step keeps the types.
LEMMA TypeStep ==
  ASSUME IInv, [Next]_vars
  PROVE  TypeOK'
<1>0. TypeOK /\ WorkInv /\ OutputInv
  BY DEF IInv
<1>1. CASE StartCampaign
  <2>1. attempt' \in 0..MaxAttempts
    BY <1>0, <1>1 DEF StartCampaign, TypeOK
  <2>2. jobs' \in 0..MaxJobs
    <3>1. CASE tool = "klee"
      BY <1>1, <3>1 DEF StartCampaign
    <3>2. CASE tool # "klee"
      BY <1>1, <3>2 DEF StartCampaign
    <3>3. QED
      BY <3>1, <3>2
  <2>3. rows' \in 0..MaxRows /\ stats' \in 0..MaxAttempts /\ jsonBy' \in 0..MaxAttempts
    BY <1>1 DEF StartCampaign
  <2>4. logSeen' \in BOOLEAN
    BY <1>1, Zenon DEF StartCampaign
  <2>5. code' \in {0, 1, 2, 130, TimedOut, Killed, None} /\ rc' \in {0, 1, TimedOut}
    BY <1>1 DEF StartCampaign
  <2>6. /\ sent' \in 0..MaxSignals /\ stopped' \subseteq Attempt /\ garbled' \subseteq Attempt
        /\ tool' \in Tools
        /\ ws' \in [Attempt -> {"none", "mirror", "ready", "removed"}]
        /\ outs' \in [Attempt -> [{0, 1} -> {"none", "old", "own"}]]
        /\ child' \in [Attempt -> {"none", "job", "tool", "replay"}]
    BY <1>0, <1>1 DEF StartCampaign, TypeOK, signalVars
  <2>7. /\ pc' = "make" /\ timing' = "none" /\ dest' = "none" /\ json' = "none"
        /\ source' = "none" /\ text' = "none"
    BY <1>1 DEF StartCampaign
  <2>8. QED
    BY <2>1, <2>2, <2>3, <2>4, <2>5, <2>6, <2>7 DEF TypeOK
<1>2. CASE MakeRoot
  BY <1>0, <1>2 DEF MakeRoot, TypeOK, WorkInv, OutputInv, ReportPc, Empty, Attempt,
       Killed, TimedOut, None, workVars, signalVars, fileVars
<1>3. CASE MirrorFails
  BY <1>0, <1>3 DEF MirrorFails, TypeOK, WorkInv, OutputInv, ReportPc, Empty, Attempt,
       Killed, TimedOut, None, workVars, signalVars, fileVars
<1>4. CASE CopyBenchmark
  <2>1. outs' \in [Attempt -> [{0, 1} -> {"none", "old", "own"}]]
    <3>1. CASE outs' = outs
      BY <1>0, <3>1 DEF TypeOK
    <3>2. ASSUME NEW old \in {"none", "old"}, outs' = [outs EXCEPT ![attempt][0] = old]
          PROVE  outs' \in [Attempt -> [{0, 1} -> {"none", "old", "own"}]]
      <4>1. outs' = [k \in Attempt |->
                       IF k = attempt THEN [outs[k] EXCEPT ![0] = old] ELSE outs[k]]
        BY <1>0, <3>2 DEF TypeOK
      <4>2. ASSUME NEW k \in Attempt PROVE outs[k] \in [{0, 1} -> {"none", "old", "own"}]
        BY <1>0 DEF TypeOK
      <4>3. ASSUME NEW k \in Attempt
            PROVE  [outs[k] EXCEPT ![0] = old] \in [{0, 1} -> {"none", "old", "own"}]
        BY <4>2
      <4>4. QED
        BY <4>1, <4>2, <4>3
    <3>3. QED
      BY <1>4, <3>1, <3>2 DEF CopyBenchmark
  <2>2. ws' \in [Attempt -> {"none", "mirror", "ready", "removed"}]
    BY <1>0, <1>4 DEF CopyBenchmark, TypeOK
  <2>3. QED
    BY <1>0, <1>4, <2>1, <2>2 DEF CopyBenchmark, TypeOK, Killed, TimedOut, None,
         signalVars, fileVars
<1>5. CASE StartJob
  BY <1>0, <1>5 DEF StartJob, Spawn, Exit, TypeOK, WorkInv, OutputInv, ReportPc, Empty,
       Attempt, Killed, TimedOut, None, workVars, signalVars, fileVars
<1>6. CASE EnterLoop
  BY <1>0, <1>6 DEF EnterLoop, TypeOK, WorkInv, OutputInv, ReportPc, Empty, Attempt,
       Killed, TimedOut, None, workVars, signalVars, fileVars
<1>36. CASE StreamFails
  BY <1>0, <1>36 DEF StreamFails, Exit, TypeOK, WorkInv, OutputInv, ReportPc, Empty, Attempt,
       Killed, TimedOut, None, workVars, signalVars, fileVars
<1>7. CASE JobDone
  BY <1>0, <1>7 DEF JobDone, Exit, TypeOK, WorkInv, OutputInv, ReportPc, Empty, Attempt,
       Killed, TimedOut, None, workVars, signalVars, fileVars
<1>8. CASE ReadCase
  BY <1>0, <1>8 DEF ReadCase, Exit, TypeOK, WorkInv, OutputInv, ReportPc, Empty, Attempt,
       Killed, TimedOut, None, workVars, signalVars, fileVars
<1>9. CASE Clear
  BY <1>0, <1>9 DEF Clear, TypeOK, WorkInv, OutputInv, ReportPc, Empty, Attempt, Killed,
       TimedOut, None, workVars, signalVars, fileVars
<1>10. CASE StartTool
  BY <1>0, <1>10 DEF StartTool, Spawn, Exit, TypeOK, WorkInv, OutputInv, ReportPc, Empty,
       Attempt, Killed, TimedOut, None, workVars, signalVars, fileVars
<1>11. CASE ToolDone
  BY <1>0, <1>11 DEF ToolDone, TypeOK, WorkInv, OutputInv, ReportPc, Empty, Attempt,
       Killed, TimedOut, None, workVars, signalVars, fileVars
<1>12. CASE WriteTiming
  BY <1>0, <1>12 DEF WriteTiming, Exit, Status, TypeOK, WorkInv, OutputInv, ReportPc,
       Empty, Attempt, Killed, TimedOut, None, workVars, signalVars, fileVars
<1>13. CASE MoveStarts
  BY <1>0, <1>13 DEF MoveStarts, Exit, TypeOK, WorkInv, OutputInv, ReportPc, Empty,
       Attempt, Killed, TimedOut, None, workVars, signalVars, fileVars
<1>14. CASE MoveEnds
  BY <1>0, <1>14 DEF MoveEnds, TypeOK, WorkInv, OutputInv, ReportPc, Empty, Attempt,
       Killed, TimedOut, None, workVars, signalVars, fileVars
<1>15. CASE FindStats
  BY <1>0, <1>15 DEF FindStats, Exit, TypeOK, WorkInv, OutputInv, ReportPc, Empty,
       Attempt, Killed, TimedOut, None, workVars, signalVars, fileVars
<1>16. CASE ConvertFails
  BY <1>0, <1>16 DEF ConvertFails, Exit, TypeOK, WorkInv, OutputInv, ReportPc, Empty,
       Attempt, Killed, TimedOut, None, workVars, signalVars, fileVars
<1>17. CASE ConvertKlee
  BY <1>0, <1>17 DEF ConvertKlee, TypeOK, WorkInv, OutputInv, ReportPc, Empty, Attempt,
       Killed, TimedOut, None, workVars, signalVars, fileVars
<1>18. CASE ConvertBinsec
  BY <1>0, <1>18 DEF ConvertBinsec, TypeOK, WorkInv, OutputInv, ReportPc, Empty, Attempt,
       Killed, TimedOut, None, workVars, signalVars, fileVars
<1>19. CASE OpenJson
  BY <1>0, <1>19 DEF OpenJson, TypeOK, WorkInv, OutputInv, ReportPc, Empty, Attempt,
       Killed, TimedOut, None, workVars, signalVars, fileVars
<1>20. CASE DumpJson
  BY <1>0, <1>20 DEF DumpJson, Exit, TypeOK, WorkInv, OutputInv, ReportPc, Empty, Attempt,
       Killed, TimedOut, None, workVars, signalVars, fileVars
<1>21. CASE StartReplay
  BY <1>0, <1>21 DEF StartReplay, TypeOK, WorkInv, OutputInv, ReportPc, Empty, Attempt,
       Killed, TimedOut, None, workVars, signalVars, fileVars
<1>22. CASE ReplayDone
  BY <1>0, <1>22 DEF ReplayDone, TypeOK, WorkInv, OutputInv, ReportPc, Empty, Attempt,
       Killed, TimedOut, None, workVars, signalVars, fileVars
<1>23. CASE ReplayFails
  BY <1>0, <1>23 DEF ReplayFails, Exit, TypeOK, WorkInv, OutputInv, ReportPc, Empty,
       Attempt, Killed, TimedOut, None, workVars, signalVars, fileVars
<1>24. CASE ReplaysDone
  BY <1>0, <1>24 DEF ReplaysDone, TypeOK, WorkInv, OutputInv, ReportPc, Empty, Attempt,
       Killed, TimedOut, None, workVars, signalVars, fileVars
<1>25. CASE StopChild
  BY <1>0, <1>25 DEF StopChild, TypeOK, WorkInv, OutputInv, ReportPc, Empty, Attempt,
       Killed, TimedOut, None, workVars, signalVars, fileVars
<1>26. CASE Leave
  BY <1>0, <1>26 DEF Leave, TypeOK, WorkInv, OutputInv, ReportPc, Empty, Attempt, Killed,
       TimedOut, None, workVars, signalVars, fileVars
<1>27. CASE Interrupt
  BY <1>0, <1>27 DEF Interrupt, AfterInterrupt, AfterKill, TypeOK, WorkInv, OutputInv,
       ReportPc, Empty, Attempt, Killed, TimedOut, None, workVars, signalVars, fileVars
<1>28. CASE Kill
  BY <1>0, <1>28 DEF Kill, TypeOK, WorkInv, OutputInv, ReportPc, Empty, Attempt, Killed,
       TimedOut, None, workVars, signalVars, fileVars
<1>29. CASE LogText
  BY <1>0, <1>29 DEF LogText, TypeOK, WorkInv, OutputInv, ReportPc, Empty, Attempt,
       Killed, TimedOut, None, workVars, signalVars, fileVars
<1>30. ASSUME NEW k \in Attempt, KleeOpens(k) PROVE TypeOK'
  BY <1>0, <1>30 DEF KleeOpens, TypeOK, WorkInv, OutputInv, ReportPc, Empty, Attempt,
       Killed, TimedOut, None, workVars, signalVars, fileVars
<1>31. ASSUME NEW k \in Attempt, JobEnds(k) PROVE TypeOK'
  BY <1>0, <1>31 DEF JobEnds, TypeOK, WorkInv, OutputInv, ReportPc, Empty, Attempt,
       Killed, TimedOut, None, workVars, signalVars, fileVars
<1>32. ASSUME NEW k \in Attempt, KleeEnds(k) PROVE TypeOK'
  BY <1>0, <1>32 DEF KleeEnds, TypeOK, WorkInv, OutputInv, ReportPc, Empty, Attempt,
       Killed, TimedOut, None, workVars, signalVars, fileVars
<1>33. ASSUME NEW k \in Attempt, BinsecEnds(k) PROVE TypeOK'
  BY <1>0, <1>33 DEF BinsecEnds, TypeOK, WorkInv, OutputInv, ReportPc, Empty, Attempt,
       Killed, TimedOut, None, workVars, signalVars, fileVars
<1>34. CASE UNCHANGED vars
  BY <1>0, <1>34 DEF vars, TypeOK, WorkInv, OutputInv, ReportPc, Empty, Attempt, Killed,
       TimedOut, None, workVars, signalVars, fileVars
<1>35. QED
  BY <1>1, <1>2, <1>3, <1>4, <1>5, <1>6, <1>7, <1>8, <1>9, <1>10, <1>11, <1>12, <1>13,
     <1>14, <1>15, <1>16, <1>17, <1>18, <1>19, <1>20, <1>21, <1>22, <1>23, <1>24, <1>25,
     <1>26, <1>27, <1>28, <1>29, <1>30, <1>31, <1>32, <1>33, <1>34, <1>36 DEF Next,
     WorkerStep, Prepare, Analyse, Report, Process, Finished

\* Every step keeps what is known of the worker.
LEMMA WorkStep ==
  ASSUME IInv, [Next]_vars
  PROVE  WorkInv'
<1>0. TypeOK /\ WorkInv
  BY DEF IInv
<1>1. CASE StartCampaign \/ MakeRoot \/ MirrorFails \/ CopyBenchmark \/ StartJob
  BY <1>0, <1>1 DEF StartCampaign, MakeRoot, MirrorFails, CopyBenchmark, StartJob, Spawn,
       Exit, TypeOK, WorkInv, Attempt, Killed, TimedOut, None, workVars, signalVars,
       fileVars
<1>2. CASE EnterLoop \/ StreamFails \/ JobDone \/ ReadCase \/ Clear \/ StartTool
  BY <1>0, <1>2 DEF EnterLoop, StreamFails, JobDone, Exit, ReadCase, Clear, StartTool, Spawn, TypeOK,
       WorkInv, Attempt, Killed, TimedOut, None, workVars, signalVars, fileVars
<1>3. CASE ToolDone \/ WriteTiming \/ MoveStarts \/ MoveEnds \/ FindStats
  BY <1>0, <1>3 DEF ToolDone, WriteTiming, Exit, Status, MoveStarts, MoveEnds, FindStats,
       TypeOK, WorkInv, Attempt, Killed, TimedOut, None, workVars, signalVars, fileVars
<1>4. CASE ConvertFails \/ ConvertKlee \/ ConvertBinsec \/ OpenJson \/ DumpJson
  BY <1>0, <1>4 DEF ConvertFails, Exit, ConvertKlee, ConvertBinsec, OpenJson, DumpJson,
       TypeOK, WorkInv, Attempt, Killed, TimedOut, None, workVars, signalVars, fileVars
<1>5. CASE StartReplay \/ ReplayDone \/ ReplayFails \/ ReplaysDone \/ StopChild
  BY <1>0, <1>5 DEF StartReplay, ReplayDone, ReplayFails, Exit, ReplaysDone, StopChild,
       TypeOK, WorkInv, Attempt, Killed, TimedOut, None, workVars, signalVars, fileVars
<1>6. CASE Leave \/ Interrupt \/ Kill \/ LogText
  BY <1>0, <1>6 DEF Leave, Interrupt, AfterInterrupt, AfterKill, Kill, LogText, TypeOK,
       WorkInv, Attempt, Killed, TimedOut, None, workVars, signalVars, fileVars
<1>7. ASSUME NEW k \in Attempt, KleeOpens(k) PROVE WorkInv'
  BY <1>0, <1>7 DEF KleeOpens, TypeOK, WorkInv, Attempt, Killed, TimedOut, None, workVars,
       signalVars, fileVars
<1>8. ASSUME NEW k \in Attempt, JobEnds(k) PROVE WorkInv'
  BY <1>0, <1>8 DEF JobEnds, TypeOK, WorkInv, Attempt, Killed, TimedOut, None, workVars,
       signalVars, fileVars
<1>9. ASSUME NEW k \in Attempt, KleeEnds(k) PROVE WorkInv'
  BY <1>0, <1>9 DEF KleeEnds, TypeOK, WorkInv, Attempt, Killed, TimedOut, None, workVars,
       signalVars, fileVars
<1>10. ASSUME NEW k \in Attempt, BinsecEnds(k) PROVE WorkInv'
  BY <1>0, <1>10 DEF BinsecEnds, TypeOK, WorkInv, Attempt, Killed, TimedOut, None,
       workVars, signalVars, fileVars
<1>11. CASE UNCHANGED vars
  BY <1>0, <1>11 DEF vars, TypeOK, WorkInv, Attempt, Killed, TimedOut, None, workVars,
       signalVars, fileVars
<1>12. QED
  BY <1>1, <1>2, <1>3, <1>4, <1>5, <1>6, <1>7, <1>8, <1>9, <1>10, <1>11 DEF Next,
     WorkerStep, Prepare, Analyse, Report, Process, Finished

\* Every step keeps what is known of the subprocesses.
LEMMA ChildStep ==
  ASSUME IInv, [Next]_vars
  PROVE  ChildInv'
<1>0. TypeOK /\ WorkInv /\ ChildInv /\ SpaceInv
  BY DEF IInv
<1>1. CASE StartCampaign
  BY <1>0, <1>1 DEF StartCampaign, TypeOK, WorkInv, ChildInv, SpaceInv, Attempt, workVars,
       signalVars, fileVars
<1>2. CASE MakeRoot
  BY <1>0, <1>2 DEF MakeRoot, TypeOK, WorkInv, ChildInv, SpaceInv, Attempt, workVars,
       signalVars, fileVars
<1>3. CASE MirrorFails
  BY <1>0, <1>3 DEF MirrorFails, TypeOK, WorkInv, ChildInv, SpaceInv, Attempt, workVars,
       signalVars, fileVars
<1>4. CASE CopyBenchmark
  BY <1>0, <1>4 DEF CopyBenchmark, TypeOK, WorkInv, ChildInv, SpaceInv, Attempt, workVars,
       signalVars, fileVars
<1>5. CASE StartJob
  BY <1>0, <1>5 DEF StartJob, Spawn, Exit, TypeOK, WorkInv, ChildInv, SpaceInv, Attempt,
       workVars, signalVars, fileVars
<1>6. CASE EnterLoop
  BY <1>0, <1>6 DEF EnterLoop, TypeOK, WorkInv, ChildInv, SpaceInv, Attempt, workVars,
       signalVars, fileVars
<1>36. CASE StreamFails
  BY <1>0, <1>36 DEF StreamFails, Exit, TypeOK, WorkInv, ChildInv, SpaceInv, Attempt, workVars,
       signalVars, fileVars
<1>7. CASE JobDone
  BY <1>0, <1>7 DEF JobDone, Exit, TypeOK, WorkInv, ChildInv, SpaceInv, Attempt, workVars,
       signalVars, fileVars
<1>8. CASE ReadCase
  BY <1>0, <1>8 DEF ReadCase, Exit, TypeOK, WorkInv, ChildInv, SpaceInv, Attempt,
       workVars, signalVars, fileVars
<1>9. CASE Clear
  BY <1>0, <1>9 DEF Clear, TypeOK, WorkInv, ChildInv, SpaceInv, Attempt, workVars,
       signalVars, fileVars
<1>10. CASE StartTool
  BY <1>0, <1>10 DEF StartTool, Spawn, Exit, TypeOK, WorkInv, ChildInv, SpaceInv, Attempt,
       workVars, signalVars, fileVars
<1>11. CASE ToolDone
  BY <1>0, <1>11 DEF ToolDone, TypeOK, WorkInv, ChildInv, SpaceInv, Attempt, workVars,
       signalVars, fileVars
<1>12. CASE WriteTiming
  BY <1>0, <1>12 DEF WriteTiming, Exit, Status, TypeOK, WorkInv, ChildInv, SpaceInv,
       Attempt, workVars, signalVars, fileVars
<1>13. CASE MoveStarts
  BY <1>0, <1>13 DEF MoveStarts, Exit, TypeOK, WorkInv, ChildInv, SpaceInv, Attempt,
       workVars, signalVars, fileVars
<1>14. CASE MoveEnds
  BY <1>0, <1>14 DEF MoveEnds, TypeOK, WorkInv, ChildInv, SpaceInv, Attempt, workVars,
       signalVars, fileVars
<1>15. CASE FindStats
  BY <1>0, <1>15 DEF FindStats, Exit, TypeOK, WorkInv, ChildInv, SpaceInv, Attempt,
       workVars, signalVars, fileVars
<1>16. CASE ConvertFails
  BY <1>0, <1>16 DEF ConvertFails, Exit, TypeOK, WorkInv, ChildInv, SpaceInv, Attempt,
       workVars, signalVars, fileVars
<1>17. CASE ConvertKlee
  BY <1>0, <1>17 DEF ConvertKlee, TypeOK, WorkInv, ChildInv, SpaceInv, Attempt, workVars,
       signalVars, fileVars
<1>18. CASE ConvertBinsec
  BY <1>0, <1>18 DEF ConvertBinsec, TypeOK, WorkInv, ChildInv, SpaceInv, Attempt,
       workVars, signalVars, fileVars
<1>19. CASE OpenJson
  BY <1>0, <1>19 DEF OpenJson, TypeOK, WorkInv, ChildInv, SpaceInv, Attempt, workVars,
       signalVars, fileVars
<1>20. CASE DumpJson
  BY <1>0, <1>20 DEF DumpJson, Exit, TypeOK, WorkInv, ChildInv, SpaceInv, Attempt,
       workVars, signalVars, fileVars
<1>21. CASE StartReplay
  BY <1>0, <1>21 DEF StartReplay, TypeOK, WorkInv, ChildInv, SpaceInv, Attempt, workVars,
       signalVars, fileVars
<1>22. CASE ReplayDone
  BY <1>0, <1>22 DEF ReplayDone, TypeOK, WorkInv, ChildInv, SpaceInv, Attempt, workVars,
       signalVars, fileVars
<1>23. CASE ReplayFails
  BY <1>0, <1>23 DEF ReplayFails, Exit, TypeOK, WorkInv, ChildInv, SpaceInv, Attempt,
       workVars, signalVars, fileVars
<1>24. CASE ReplaysDone
  BY <1>0, <1>24 DEF ReplaysDone, TypeOK, WorkInv, ChildInv, SpaceInv, Attempt, workVars,
       signalVars, fileVars
<1>25. CASE StopChild
  BY <1>0, <1>25 DEF StopChild, TypeOK, WorkInv, ChildInv, SpaceInv, Attempt, workVars,
       signalVars, fileVars
<1>26. CASE Leave
  BY <1>0, <1>26 DEF Leave, TypeOK, WorkInv, ChildInv, SpaceInv, Attempt, workVars,
       signalVars, fileVars
<1>27. CASE Interrupt
  BY <1>0, <1>27 DEF Interrupt, AfterInterrupt, AfterKill, TypeOK, WorkInv, ChildInv,
       SpaceInv, Attempt, workVars, signalVars, fileVars
<1>28. CASE Kill
  BY <1>0, <1>28 DEF Kill, TypeOK, WorkInv, ChildInv, SpaceInv, Attempt, workVars,
       signalVars, fileVars
<1>29. CASE LogText
  BY <1>0, <1>29 DEF LogText, TypeOK, WorkInv, ChildInv, SpaceInv, Attempt, workVars,
       signalVars, fileVars
<1>30. ASSUME NEW k \in Attempt, KleeOpens(k) PROVE ChildInv'
  BY <1>0, <1>30 DEF KleeOpens, TypeOK, WorkInv, ChildInv, SpaceInv, Attempt, workVars,
       signalVars, fileVars
<1>31. ASSUME NEW k \in Attempt, JobEnds(k) PROVE ChildInv'
  BY <1>0, <1>31 DEF JobEnds, TypeOK, WorkInv, ChildInv, SpaceInv, Attempt, workVars,
       signalVars, fileVars
<1>32. ASSUME NEW k \in Attempt, KleeEnds(k) PROVE ChildInv'
  BY <1>0, <1>32 DEF KleeEnds, TypeOK, WorkInv, ChildInv, SpaceInv, Attempt, workVars,
       signalVars, fileVars
<1>33. ASSUME NEW k \in Attempt, BinsecEnds(k) PROVE ChildInv'
  BY <1>0, <1>33 DEF BinsecEnds, TypeOK, WorkInv, ChildInv, SpaceInv, Attempt, workVars,
       signalVars, fileVars
<1>34. CASE UNCHANGED vars
  BY <1>0, <1>34 DEF vars, TypeOK, WorkInv, ChildInv, SpaceInv, Attempt, workVars,
       signalVars, fileVars
<1>35. QED
  BY <1>1, <1>2, <1>3, <1>4, <1>5, <1>6, <1>7, <1>8, <1>9, <1>10, <1>11, <1>12, <1>13,
     <1>14, <1>15, <1>16, <1>17, <1>18, <1>19, <1>20, <1>21, <1>22, <1>23, <1>24, <1>25,
     <1>26, <1>27, <1>28, <1>29, <1>30, <1>31, <1>32, <1>33, <1>34, <1>36 DEF Next,
     WorkerStep, Prepare, Analyse, Report, Process, Finished

\* Every step keeps what is known of the workspace.
LEMMA SpaceStep ==
  ASSUME IInv, [Next]_vars
  PROVE  SpaceInv'
<1>0. TypeOK /\ WorkInv /\ ChildInv /\ SpaceInv
  BY DEF IInv
<1>1. CASE StartCampaign \/ MakeRoot \/ MirrorFails \/ CopyBenchmark
  BY <1>0, <1>1 DEF StartCampaign, MakeRoot, MirrorFails, CopyBenchmark, TypeOK, WorkInv,
       ChildInv, SpaceInv, Attempt, workVars, signalVars, fileVars
<1>2. CASE StartJob \/ EnterLoop \/ StreamFails \/ JobDone \/ ReadCase
  BY <1>0, <1>2 DEF StartJob, Spawn, Exit, EnterLoop, StreamFails, JobDone, ReadCase, TypeOK, WorkInv,
       ChildInv, SpaceInv, Attempt, workVars, signalVars, fileVars
<1>3. CASE Clear \/ StartTool \/ ToolDone \/ WriteTiming
  BY <1>0, <1>3 DEF Clear, StartTool, Spawn, Exit, ToolDone, WriteTiming, Status, TypeOK,
       WorkInv, ChildInv, SpaceInv, Attempt, workVars, signalVars, fileVars
<1>4. CASE MoveStarts \/ MoveEnds \/ FindStats \/ ConvertFails
  BY <1>0, <1>4 DEF MoveStarts, Exit, MoveEnds, FindStats, ConvertFails, TypeOK, WorkInv,
       ChildInv, SpaceInv, Attempt, workVars, signalVars, fileVars
<1>5. CASE ConvertKlee \/ ConvertBinsec \/ OpenJson \/ DumpJson
  BY <1>0, <1>5 DEF ConvertKlee, ConvertBinsec, OpenJson, DumpJson, Exit, TypeOK, WorkInv,
       ChildInv, SpaceInv, Attempt, workVars, signalVars, fileVars
<1>6. CASE StartReplay \/ ReplayDone \/ ReplayFails \/ ReplaysDone
  BY <1>0, <1>6 DEF StartReplay, ReplayDone, ReplayFails, Exit, ReplaysDone, TypeOK,
       WorkInv, ChildInv, SpaceInv, Attempt, workVars, signalVars, fileVars
<1>7. CASE StopChild \/ Leave \/ Interrupt \/ Kill
  BY <1>0, <1>7 DEF StopChild, Leave, Interrupt, AfterInterrupt, AfterKill, Kill, TypeOK,
       WorkInv, ChildInv, SpaceInv, Attempt, workVars, signalVars, fileVars
<1>8. CASE LogText
  BY <1>0, <1>8 DEF LogText, TypeOK, WorkInv, ChildInv, SpaceInv, Attempt, workVars,
       signalVars, fileVars
<1>9. ASSUME NEW k \in Attempt, KleeOpens(k) PROVE SpaceInv'
  BY <1>0, <1>9 DEF KleeOpens, TypeOK, WorkInv, ChildInv, SpaceInv, Attempt, workVars,
       signalVars, fileVars
<1>10. ASSUME NEW k \in Attempt, JobEnds(k) PROVE SpaceInv'
  BY <1>0, <1>10 DEF JobEnds, TypeOK, WorkInv, ChildInv, SpaceInv, Attempt, workVars,
       signalVars, fileVars
<1>11. ASSUME NEW k \in Attempt, KleeEnds(k) PROVE SpaceInv'
  BY <1>0, <1>11 DEF KleeEnds, TypeOK, WorkInv, ChildInv, SpaceInv, Attempt, workVars,
       signalVars, fileVars
<1>12. ASSUME NEW k \in Attempt, BinsecEnds(k) PROVE SpaceInv'
  BY <1>0, <1>12 DEF BinsecEnds, TypeOK, WorkInv, ChildInv, SpaceInv, Attempt, workVars,
       signalVars, fileVars
<1>13. CASE UNCHANGED vars
  BY <1>0, <1>13 DEF vars, TypeOK, WorkInv, ChildInv, SpaceInv, Attempt, workVars,
       signalVars, fileVars
<1>14. QED
  BY <1>1, <1>2, <1>3, <1>4, <1>5, <1>6, <1>7, <1>8, <1>9, <1>10, <1>11, <1>12, <1>13 DEF
     Next, WorkerStep, Prepare, Analyse, Report, Process, Finished

\* Every step keeps what is known of the KLEE output.
LEMMA OutputStep ==
  ASSUME IInv, [Next]_vars
  PROVE  OutputInv'
<1>0. TypeOK /\ WorkInv /\ OutputInv
  BY DEF IInv
<1>1. CASE StartCampaign \/ MakeRoot \/ MirrorFails \/ CopyBenchmark
  BY <1>0, <1>1 DEF StartCampaign, MakeRoot, MirrorFails, CopyBenchmark, TypeOK, WorkInv,
       OutputInv, ReportPc, Empty, Attempt, workVars, signalVars, fileVars
<1>2. CASE StartJob \/ EnterLoop \/ StreamFails \/ JobDone \/ ReadCase
  BY <1>0, <1>2 DEF StartJob, Spawn, Exit, EnterLoop, StreamFails, JobDone, ReadCase, TypeOK, WorkInv,
       OutputInv, ReportPc, Empty, Attempt, workVars, signalVars, fileVars
<1>3. CASE Clear \/ StartTool \/ ToolDone \/ WriteTiming
  BY <1>0, <1>3 DEF Clear, StartTool, Spawn, Exit, ToolDone, WriteTiming, Status, TypeOK,
       WorkInv, OutputInv, ReportPc, Empty, Attempt, workVars, signalVars, fileVars
<1>4. CASE MoveStarts \/ MoveEnds \/ FindStats \/ ConvertFails
  BY <1>0, <1>4 DEF MoveStarts, Exit, MoveEnds, FindStats, ConvertFails, TypeOK, WorkInv,
       OutputInv, ReportPc, Empty, Attempt, workVars, signalVars, fileVars
<1>5. CASE ConvertKlee \/ ConvertBinsec \/ OpenJson \/ DumpJson
  BY <1>0, <1>5 DEF ConvertKlee, ConvertBinsec, OpenJson, DumpJson, Exit, TypeOK, WorkInv,
       OutputInv, ReportPc, Empty, Attempt, workVars, signalVars, fileVars
<1>6. CASE StartReplay \/ ReplayDone \/ ReplayFails \/ ReplaysDone
  BY <1>0, <1>6 DEF StartReplay, ReplayDone, ReplayFails, Exit, ReplaysDone, TypeOK,
       WorkInv, OutputInv, ReportPc, Empty, Attempt, workVars, signalVars, fileVars
<1>7. CASE StopChild \/ Leave \/ Interrupt \/ Kill
  BY <1>0, <1>7 DEF StopChild, Leave, Interrupt, AfterInterrupt, AfterKill, Kill, TypeOK,
       WorkInv, OutputInv, ReportPc, Empty, Attempt, workVars, signalVars, fileVars
<1>8. CASE LogText
  BY <1>0, <1>8 DEF LogText, TypeOK, WorkInv, OutputInv, ReportPc, Empty, Attempt,
       workVars, signalVars, fileVars
<1>9. ASSUME NEW k \in Attempt, KleeOpens(k) PROVE OutputInv'
  BY <1>0, <1>9 DEF KleeOpens, TypeOK, WorkInv, OutputInv, ReportPc, Empty, Attempt,
       workVars, signalVars, fileVars
<1>10. ASSUME NEW k \in Attempt, JobEnds(k) PROVE OutputInv'
  BY <1>0, <1>10 DEF JobEnds, TypeOK, WorkInv, OutputInv, ReportPc, Empty, Attempt,
       workVars, signalVars, fileVars
<1>11. ASSUME NEW k \in Attempt, KleeEnds(k) PROVE OutputInv'
  BY <1>0, <1>11 DEF KleeEnds, TypeOK, WorkInv, OutputInv, ReportPc, Empty, Attempt,
       workVars, signalVars, fileVars
<1>12. ASSUME NEW k \in Attempt, BinsecEnds(k) PROVE OutputInv'
  BY <1>0, <1>12 DEF BinsecEnds, TypeOK, WorkInv, OutputInv, ReportPc, Empty, Attempt,
       workVars, signalVars, fileVars
<1>13. CASE UNCHANGED vars
  BY <1>0, <1>13 DEF vars, TypeOK, WorkInv, OutputInv, ReportPc, Empty, Attempt, workVars,
       signalVars, fileVars
<1>14. QED
  BY <1>1, <1>2, <1>3, <1>4, <1>5, <1>6, <1>7, <1>8, <1>9, <1>10, <1>11, <1>12, <1>13 DEF
     Next, WorkerStep, Prepare, Analyse, Report, Process, Finished

\* Every step keeps what is known of the stats file.
LEMMA StatsStep ==
  ASSUME IInv, [Next]_vars
  PROVE  StatsInv'
<1>0. TypeOK /\ WorkInv /\ ChildInv /\ OutputInv /\ StatsInv
  BY DEF IInv
<1>1. CASE StartCampaign \/ MakeRoot \/ MirrorFails \/ CopyBenchmark \/ StartJob
  BY <1>0, <1>1 DEF StartCampaign, MakeRoot, MirrorFails, CopyBenchmark, StartJob, Spawn,
       Exit, TypeOK, WorkInv, ChildInv, OutputInv, StatsInv, Attempt, workVars,
       signalVars, fileVars
<1>2. CASE EnterLoop \/ StreamFails \/ JobDone \/ ReadCase \/ Clear \/ StartTool
  BY <1>0, <1>2 DEF EnterLoop, StreamFails, JobDone, Exit, ReadCase, Clear, StartTool, Spawn, TypeOK,
       WorkInv, ChildInv, OutputInv, StatsInv, Attempt, workVars, signalVars, fileVars
<1>3. CASE ToolDone \/ WriteTiming \/ MoveStarts \/ MoveEnds \/ FindStats
  BY <1>0, <1>3 DEF ToolDone, WriteTiming, Exit, Status, MoveStarts, MoveEnds, FindStats,
       TypeOK, WorkInv, ChildInv, OutputInv, StatsInv, Attempt, workVars, signalVars,
       fileVars
<1>4. CASE ConvertFails \/ ConvertKlee \/ ConvertBinsec \/ OpenJson \/ DumpJson
  BY <1>0, <1>4 DEF ConvertFails, Exit, ConvertKlee, ConvertBinsec, OpenJson, DumpJson,
       TypeOK, WorkInv, ChildInv, OutputInv, StatsInv, Attempt, workVars, signalVars,
       fileVars
<1>5. CASE StartReplay \/ ReplayDone \/ ReplayFails \/ ReplaysDone \/ StopChild
  BY <1>0, <1>5 DEF StartReplay, ReplayDone, ReplayFails, Exit, ReplaysDone, StopChild,
       TypeOK, WorkInv, ChildInv, OutputInv, StatsInv, Attempt, workVars, signalVars,
       fileVars
<1>6. CASE Leave \/ Interrupt \/ Kill \/ LogText
  BY <1>0, <1>6 DEF Leave, Interrupt, AfterInterrupt, AfterKill, Kill, LogText, TypeOK,
       WorkInv, ChildInv, OutputInv, StatsInv, Attempt, workVars, signalVars, fileVars
<1>7. ASSUME NEW k \in Attempt, KleeOpens(k) PROVE StatsInv'
  BY <1>0, <1>7 DEF KleeOpens, TypeOK, WorkInv, ChildInv, OutputInv, StatsInv, Attempt,
       workVars, signalVars, fileVars
<1>8. ASSUME NEW k \in Attempt, JobEnds(k) PROVE StatsInv'
  BY <1>0, <1>8 DEF JobEnds, TypeOK, WorkInv, ChildInv, OutputInv, StatsInv, Attempt,
       workVars, signalVars, fileVars
<1>9. ASSUME NEW k \in Attempt, KleeEnds(k) PROVE StatsInv'
  BY <1>0, <1>9 DEF KleeEnds, TypeOK, WorkInv, ChildInv, OutputInv, StatsInv, Attempt,
       workVars, signalVars, fileVars
<1>10. ASSUME NEW k \in Attempt, BinsecEnds(k) PROVE StatsInv'
  BY <1>0, <1>10 DEF BinsecEnds, TypeOK, WorkInv, ChildInv, OutputInv, StatsInv, Attempt,
       workVars, signalVars, fileVars
<1>11. CASE UNCHANGED vars
  BY <1>0, <1>11 DEF vars, TypeOK, WorkInv, ChildInv, OutputInv, StatsInv, Attempt,
       workVars, signalVars, fileVars
<1>12. QED
  BY <1>1, <1>2, <1>3, <1>4, <1>5, <1>6, <1>7, <1>8, <1>9, <1>10, <1>11 DEF Next,
     WorkerStep, Prepare, Analyse, Report, Process, Finished

\* Every step keeps what is known of the result files.
LEMMA FileStep ==
  ASSUME IInv, [Next]_vars
  PROVE  FileInv'
<1>0. TypeOK /\ WorkInv /\ OutputInv /\ StatsInv /\ FileInv
  BY DEF IInv
<1>1. CASE StartCampaign
  BY <1>0, <1>1 DEF StartCampaign, TypeOK, WorkInv, OutputInv, StatsInv, FileInv,
       OwnSource, EarlyPc, TimedPc, ReportPc, Attempt, Killed, TimedOut, None, workVars,
       signalVars, fileVars
<1>2. CASE MakeRoot
  BY <1>0, <1>2 DEF MakeRoot, TypeOK, WorkInv, OutputInv, StatsInv, FileInv, OwnSource,
       EarlyPc, TimedPc, ReportPc, Attempt, Killed, TimedOut, None, workVars, signalVars,
       fileVars
<1>3. CASE MirrorFails
  BY <1>0, <1>3 DEF MirrorFails, TypeOK, WorkInv, OutputInv, StatsInv, FileInv, OwnSource,
       EarlyPc, TimedPc, ReportPc, Attempt, Killed, TimedOut, None, workVars, signalVars,
       fileVars
<1>4. CASE CopyBenchmark
  BY <1>0, <1>4 DEF CopyBenchmark, TypeOK, WorkInv, OutputInv, StatsInv, FileInv,
       OwnSource, EarlyPc, TimedPc, ReportPc, Attempt, Killed, TimedOut, None, workVars,
       signalVars, fileVars
<1>5. CASE StartJob
  BY <1>0, <1>5 DEF StartJob, Spawn, Exit, TypeOK, WorkInv, OutputInv, StatsInv, FileInv,
       OwnSource, EarlyPc, TimedPc, ReportPc, Attempt, Killed, TimedOut, None, workVars,
       signalVars, fileVars
<1>6. CASE EnterLoop
  BY <1>0, <1>6 DEF EnterLoop, TypeOK, WorkInv, OutputInv, StatsInv, FileInv, OwnSource,
       EarlyPc, TimedPc, ReportPc, Attempt, Killed, TimedOut, None, workVars, signalVars,
       fileVars
<1>36. CASE StreamFails
  BY <1>0, <1>36 DEF StreamFails, Exit, TypeOK, WorkInv, OutputInv, StatsInv, FileInv,
       OwnSource, EarlyPc, TimedPc, ReportPc, Attempt, Killed, TimedOut, None, workVars,
       signalVars, fileVars
<1>7. CASE JobDone
  BY <1>0, <1>7 DEF JobDone, Exit, TypeOK, WorkInv, OutputInv, StatsInv, FileInv,
       OwnSource, EarlyPc, TimedPc, ReportPc, Attempt, Killed, TimedOut, None, workVars,
       signalVars, fileVars
<1>8. CASE ReadCase
  BY <1>0, <1>8 DEF ReadCase, Exit, TypeOK, WorkInv, OutputInv, StatsInv, FileInv,
       OwnSource, EarlyPc, TimedPc, ReportPc, Attempt, Killed, TimedOut, None, workVars,
       signalVars, fileVars
<1>9. CASE Clear
  BY <1>0, <1>9 DEF Clear, TypeOK, WorkInv, OutputInv, StatsInv, FileInv, OwnSource,
       EarlyPc, TimedPc, ReportPc, Attempt, Killed, TimedOut, None, workVars, signalVars,
       fileVars
<1>10. CASE StartTool
  BY <1>0, <1>10 DEF StartTool, Spawn, Exit, TypeOK, WorkInv, OutputInv, StatsInv,
       FileInv, OwnSource, EarlyPc, TimedPc, ReportPc, Attempt, Killed, TimedOut, None,
       workVars, signalVars, fileVars
<1>11. CASE ToolDone
  BY <1>0, <1>11 DEF ToolDone, TypeOK, WorkInv, OutputInv, StatsInv, FileInv, OwnSource,
       EarlyPc, TimedPc, ReportPc, Attempt, Killed, TimedOut, None, workVars, signalVars,
       fileVars
<1>12. CASE WriteTiming
  BY <1>0, <1>12 DEF WriteTiming, Exit, Status, TypeOK, WorkInv, OutputInv, StatsInv,
       FileInv, OwnSource, EarlyPc, TimedPc, ReportPc, Attempt, Killed, TimedOut, None,
       workVars, signalVars, fileVars
<1>13. CASE MoveStarts
  BY <1>0, <1>13 DEF MoveStarts, Exit, TypeOK, WorkInv, OutputInv, StatsInv, FileInv,
       OwnSource, EarlyPc, TimedPc, ReportPc, Attempt, Killed, TimedOut, None, workVars,
       signalVars, fileVars
<1>14. CASE MoveEnds
  BY <1>0, <1>14 DEF MoveEnds, TypeOK, WorkInv, OutputInv, StatsInv, FileInv, OwnSource,
       EarlyPc, TimedPc, ReportPc, Attempt, Killed, TimedOut, None, workVars, signalVars,
       fileVars
<1>15. CASE FindStats
  BY <1>0, <1>15 DEF FindStats, Exit, TypeOK, WorkInv, OutputInv, StatsInv, FileInv,
       OwnSource, EarlyPc, TimedPc, ReportPc, Attempt, Killed, TimedOut, None, workVars,
       signalVars, fileVars
<1>16. CASE ConvertFails
  BY <1>0, <1>16 DEF ConvertFails, Exit, TypeOK, WorkInv, OutputInv, StatsInv, FileInv,
       OwnSource, EarlyPc, TimedPc, ReportPc, Attempt, Killed, TimedOut, None, workVars,
       signalVars, fileVars
<1>17. CASE ConvertKlee
  BY <1>0, <1>17 DEF ConvertKlee, TypeOK, WorkInv, OutputInv, StatsInv, FileInv,
       OwnSource, EarlyPc, TimedPc, ReportPc, Attempt, Killed, TimedOut, None, workVars,
       signalVars, fileVars
<1>18. CASE ConvertBinsec
  BY <1>0, <1>18 DEF ConvertBinsec, TypeOK, WorkInv, OutputInv, StatsInv, FileInv,
       OwnSource, EarlyPc, TimedPc, ReportPc, Attempt, Killed, TimedOut, None, workVars,
       signalVars, fileVars
<1>19. CASE OpenJson
  BY <1>0, <1>19 DEF OpenJson, TypeOK, WorkInv, OutputInv, StatsInv, FileInv, OwnSource,
       EarlyPc, TimedPc, ReportPc, Attempt, Killed, TimedOut, None, workVars, signalVars,
       fileVars
<1>20. CASE DumpJson
  BY <1>0, <1>20 DEF DumpJson, Exit, TypeOK, WorkInv, OutputInv, StatsInv, FileInv,
       OwnSource, EarlyPc, TimedPc, ReportPc, Attempt, Killed, TimedOut, None, workVars,
       signalVars, fileVars
<1>21. CASE StartReplay
  BY <1>0, <1>21 DEF StartReplay, TypeOK, WorkInv, OutputInv, StatsInv, FileInv,
       OwnSource, EarlyPc, TimedPc, ReportPc, Attempt, Killed, TimedOut, None, workVars,
       signalVars, fileVars
<1>22. CASE ReplayDone
  BY <1>0, <1>22 DEF ReplayDone, TypeOK, WorkInv, OutputInv, StatsInv, FileInv, OwnSource,
       EarlyPc, TimedPc, ReportPc, Attempt, Killed, TimedOut, None, workVars, signalVars,
       fileVars
<1>23. CASE ReplayFails
  BY <1>0, <1>23 DEF ReplayFails, Exit, TypeOK, WorkInv, OutputInv, StatsInv, FileInv,
       OwnSource, EarlyPc, TimedPc, ReportPc, Attempt, Killed, TimedOut, None, workVars,
       signalVars, fileVars
<1>24. CASE ReplaysDone
  BY <1>0, <1>24 DEF ReplaysDone, TypeOK, WorkInv, OutputInv, StatsInv, FileInv,
       OwnSource, EarlyPc, TimedPc, ReportPc, Attempt, Killed, TimedOut, None, workVars,
       signalVars, fileVars
<1>25. CASE StopChild
  BY <1>0, <1>25 DEF StopChild, TypeOK, WorkInv, OutputInv, StatsInv, FileInv, OwnSource,
       EarlyPc, TimedPc, ReportPc, Attempt, Killed, TimedOut, None, workVars, signalVars,
       fileVars
<1>26. CASE Leave
  BY <1>0, <1>26 DEF Leave, TypeOK, WorkInv, OutputInv, StatsInv, FileInv, OwnSource,
       EarlyPc, TimedPc, ReportPc, Attempt, Killed, TimedOut, None, workVars, signalVars,
       fileVars
<1>27. CASE Interrupt
  BY <1>0, <1>27 DEF Interrupt, AfterInterrupt, AfterKill, TypeOK, WorkInv, OutputInv,
       StatsInv, FileInv, OwnSource, EarlyPc, TimedPc, ReportPc, Attempt, Killed,
       TimedOut, None, workVars, signalVars, fileVars
<1>28. CASE Kill
  BY <1>0, <1>28 DEF Kill, TypeOK, WorkInv, OutputInv, StatsInv, FileInv, OwnSource,
       EarlyPc, TimedPc, ReportPc, Attempt, Killed, TimedOut, None, workVars, signalVars,
       fileVars
<1>29. CASE LogText
  BY <1>0, <1>29 DEF LogText, TypeOK, WorkInv, OutputInv, StatsInv, FileInv, OwnSource,
       EarlyPc, TimedPc, ReportPc, Attempt, Killed, TimedOut, None, workVars, signalVars,
       fileVars
<1>30. ASSUME NEW k \in Attempt, KleeOpens(k) PROVE FileInv'
  BY <1>0, <1>30 DEF KleeOpens, TypeOK, WorkInv, OutputInv, StatsInv, FileInv, OwnSource,
       EarlyPc, TimedPc, ReportPc, Attempt, Killed, TimedOut, None, workVars, signalVars,
       fileVars
<1>31. ASSUME NEW k \in Attempt, JobEnds(k) PROVE FileInv'
  BY <1>0, <1>31 DEF JobEnds, TypeOK, WorkInv, OutputInv, StatsInv, FileInv, OwnSource,
       EarlyPc, TimedPc, ReportPc, Attempt, Killed, TimedOut, None, workVars, signalVars,
       fileVars
<1>32. ASSUME NEW k \in Attempt, KleeEnds(k) PROVE FileInv'
  BY <1>0, <1>32 DEF KleeEnds, TypeOK, WorkInv, OutputInv, StatsInv, FileInv, OwnSource,
       EarlyPc, TimedPc, ReportPc, Attempt, Killed, TimedOut, None, workVars, signalVars,
       fileVars
<1>33. ASSUME NEW k \in Attempt, BinsecEnds(k) PROVE FileInv'
  BY <1>0, <1>33 DEF BinsecEnds, TypeOK, WorkInv, OutputInv, StatsInv, FileInv, OwnSource,
       EarlyPc, TimedPc, ReportPc, Attempt, Killed, TimedOut, None, workVars, signalVars,
       fileVars
<1>34. CASE UNCHANGED vars
  BY <1>0, <1>34 DEF vars, TypeOK, WorkInv, OutputInv, StatsInv, FileInv, OwnSource,
       EarlyPc, TimedPc, ReportPc, Attempt, Killed, TimedOut, None, workVars, signalVars,
       fileVars
<1>35. QED
  BY <1>1, <1>2, <1>3, <1>4, <1>5, <1>6, <1>7, <1>8, <1>9, <1>10, <1>11, <1>12, <1>13,
     <1>14, <1>15, <1>16, <1>17, <1>18, <1>19, <1>20, <1>21, <1>22, <1>23, <1>24, <1>25,
     <1>26, <1>27, <1>28, <1>29, <1>30, <1>31, <1>32, <1>33, <1>34, <1>36 DEF Next,
     WorkerStep, Prepare, Analyse, Report, Process, Finished

\* The invariant holds when the results directory is empty and no worker runs.
LEMMA InitInv == Init => IInv
<1> SUFFICES ASSUME Init PROVE IInv
  OBVIOUS
<1>1. TypeOK
  <2>1. logSeen \in BOOLEAN
    BY Zenon DEF Init
  <2>2. /\ tool \in Tools /\ attempt \in 0..MaxAttempts /\ pc = "ended"
        /\ code = 0 /\ jobs \in 0..MaxJobs /\ rows \in 0..MaxRows /\ rc = 0
        /\ sent \in 0..MaxSignals /\ stopped \subseteq Attempt /\ garbled \subseteq Attempt
        /\ timing = "none" /\ dest = "none" /\ stats \in 0..MaxAttempts /\ json = "none"
        /\ jsonBy \in 0..MaxAttempts /\ source = "none" /\ text = "none"
    BY DEF Init
  <2>3. /\ ws \in [Attempt -> {"none", "mirror", "ready", "removed"}]
        /\ outs \in [Attempt -> [{0, 1} -> {"none", "old", "own"}]]
        /\ child \in [Attempt -> {"none", "job", "tool", "replay"}]
    BY DEF Init, Empty
  <2>4. QED
    BY <2>1, <2>2, <2>3 DEF TypeOK
<1>2. WorkInv /\ SpaceInv /\ OutputInv
  BY DEF Init, WorkInv, SpaceInv, OutputInv, ReportPc, Attempt
<1>3. ChildInv
  BY DEF Init, ChildInv, Attempt
<1>4. StatsInv /\ FileInv
  BY DEF Init, StatsInv, FileInv, EarlyPc, TimedPc, ReportPc, Attempt
<1>5. QED
  BY <1>1, <1>2, <1>3, <1>4 DEF IInv

\* The invariant of a case: what the worker, its subprocesses and the files of the results
\* directory have to do with each other at every step of run_benchmark.
THEOREM CaseInvariant == Spec => []IInv
<1>1. IInv /\ [Next]_vars => IInv'
  BY TypeStep, WorkStep, ChildStep, SpaceStep, OutputStep, StatsStep, FileStep DEF IInv
<1>2. QED
  BY InitInv, <1>1, PTL DEF Spec

\* The types of the state of a case.
THEOREM CaseType == Spec => []TypeOK
<1>1. IInv => TypeOK
  BY DEF IInv
<1>2. QED
  BY <1>1, CaseInvariant, PTL

\* The JSON of a case is the current campaign's, made from the output of its own tool run
\* unless, for Binsec, an earlier worker was stopped or gave up on its tool.
THEOREM CaseResult == Spec => []ResultIsOwn
<1>1. IInv => ResultIsOwn
  BY DEF IInv, FileInv, OwnSource, ResultIsOwn
<1>2. QED
  BY <1>1, CaseInvariant, PTL

\* A worker of run_benchmark that exits with 0 has left everything a success promises.
THEOREM CaseSuccess == Spec => []SuccessIsComplete
<1>1. IInv => SuccessIsComplete
  BY DEF IInv, TypeOK, FileInv, SuccessIsComplete, Attempt
<1>2. QED
  BY <1>1, CaseInvariant, PTL

\* A worker that nobody signalled removes its workspace, and only an exception out of the
\* loop that reads a command's output makes it leave that command running.
THEOREM CaseLeavesNothing == Spec => []NothingLeft
<1>1. IInv => NothingLeft
  BY DEF IInv, TypeOK, ChildInv, SpaceInv, NothingLeft, Attempt
<1>2. QED
  BY <1>1, CaseInvariant, PTL
=============================================================================
