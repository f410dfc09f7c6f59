-------------------------------- MODULE Offline --------------------------------
(***************************************************************************)
(* The parts that run without workers, in one specification: the way of a  *)
(* witness from the analysis to two replays (Runner), reproducing the      *)
(* leaks of a program under Pin (ReplayTrace with the programs of          *)
(* Examples), merging the repetitions of a tool run (MergeRuns), or a      *)
(* driver with a branch tracker (BranchTracker).  They share no state: a   *)
(* behaviour is one of them and the others stay off.                       *)
(***************************************************************************)
EXTENDS Runner, Examples, MergeRuns, BranchTracker

vars == <<harnessVars, replayVars, mergeVars, trackerVars>>

HarnessOff ==
  /\ tool = "ABACUS" /\ fix = FALSE /\ decl = [secrets |-> << >>, publics |-> << >>]
  /\ stage = "done" /\ run = 0 /\ world = << >> /\ witness = << >> /\ argv = << >>
  /\ mem = << >> /\ calls = 0 /\ code = << >> /\ reached = {} /\ outcome = "none"
  /\ IoInit

ReplayOff ==
  /\ mode = "klee" /\ prog = "none" /\ nodebug = {} /\ row = 0
  /\ claim = NoClaim /\ sec = <<0, 0>> /\ setup = "ok" /\ exec = << >>
  /\ phase = "off" /\ pc = 0 /\ trace = << >> /\ recent = << >> /\ div = NoDiv
  /\ status = << >> /\ untried = {} /\ saved = FALSE

MergeOff ==
  /\ campaign = 0 /\ direct = FALSE /\ copies = 0 /\ selected = {} /\ meta = 0 /\ todo = {}
  /\ file = << >> /\ merged = << >> /\ queue = {} /\ own = FALSE /\ doing = "off"

TrackerOff ==
  /\ driver = "none" /\ secret = <<0, 0>> /\ program_run = 0
  /\ history = << >> /\ index = << >> /\ hits = << >> /\ at = "off" /\ equal = -1

Init ==
  \/ HarnessInit /\ ReplayOff /\ MergeOff /\ TrackerOff
  \/ HarnessOff /\ ReplayInit /\ MergeOff /\ TrackerOff
  \/ HarnessOff /\ ReplayOff /\ MergeInit /\ TrackerOff
  \/ HarnessOff /\ ReplayOff /\ MergeOff /\ TrackerInit

\* the replays, the reproduction or the driver are over
Finished ==
  /\ (stage = "done" /\ run # 0) \/ phase \in {"done", "failed"} \/ at = "done"
  /\ UNCHANGED vars

Next ==
  \/ HarnessNext /\ UNCHANGED <<replayVars, mergeVars, trackerVars>>
  \/ ReplayNext /\ UNCHANGED <<harnessVars, mergeVars, trackerVars>>
  \/ MergeNext /\ UNCHANGED <<harnessVars, replayVars, trackerVars>>
  \/ TrackerNext /\ UNCHANGED <<harnessVars, replayVars, mergeVars>>
  \/ Finished

\* the harness is sequential code that nothing holds up; subprocess.run waits for Pin or
\* kills it, and the comparison is sequential
Spec == Init /\ [][Next]_vars /\ WF_harnessVars(HarnessNext) /\ WF_replayVars(ReplayStep)
=============================================================================
