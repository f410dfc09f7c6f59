---------------------------- MODULE CapturedWorkers ----------------------------
(***************************************************************************)
(* Two views of the workers the orchestrator captures, in one              *)
(* specification: one worker with its pipe, its reader thread and its log  *)
(* (OutputCapture), or the exit codes of several workers, at the grain of  *)
(* Popen.poll (ExitStatus).  They share no state: a behaviour is one of    *)
(* them and the other stays off.                                           *)
(***************************************************************************)
EXTENDS OutputCapture, ExitStatus

CaptureOff ==
  /\ main = "reaped" /\ parentEnd = FALSE /\ readEnd = TRUE /\ procOpen = FALSE
  /\ taken = 0 /\ cut = {}
  /\ handlesTerm = FALSE /\ worker = "none" /\ how = "-" /\ sent = 0
  /\ pipe = << >> /\ signals = {}
  /\ reader = "stopped" /\ got = EOS /\ log = << >> /\ diskFailed = FALSE

StatusOff ==
  /\ blocking = FALSE /\ os = [w \in Worker |-> "off"]
  /\ rc = [w \in Worker |-> 0] /\ stored = [w \in Worker |-> None]
  /\ asking = [w \in Worker |-> "off"]
  /\ at = 1 /\ call = "off" /\ step = "off" /\ reported = [w \in Worker |-> None]

WorkersInit ==
  \/ Init /\ StatusOff
  \/ CaptureOff /\ StatusInit

WorkersNext ==
  \/ Next /\ UNCHANGED statusVars
  \/ StatusNext /\ UNCHANGED vars

WorkersSpec ==
  WorkersInit /\ [][WorkersNext]_<<vars, statusVars>> /\ Fairness /\ StatusFairness
=============================================================================
