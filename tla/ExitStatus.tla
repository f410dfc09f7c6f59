------------------------------ MODULE ExitStatus ------------------------------
(***************************************************************************)
(* How the orchestrator learns a worker's exit code.  Two threads ask the  *)
(* same multiprocessing.Process: the reader of forward_worker_output, and  *)
(* the main thread in wait_for_processes or in reap_finished.  A query     *)
(* (Popen.poll) looks at the stored code, then calls waitpid, then stores  *)
(* the result; the threads may switch between any two of these.  Only one  *)
(* waitpid gets the status: the other is told that there is no child, and  *)
(* its query answers None.                                                 *)
(***************************************************************************)
EXTENDS Naturals

CONSTANT NumWorkers  \* launched workers

ASSUME StatusAssumption == NumWorkers \in Nat \ {0}

Worker == 1..NumWorkers
None   == 99

VARIABLES
  blocking, \* TRUE: wait_for_processes; FALSE: reap_finished
  os,       \* the operating system's view: "running", "zombie" or "reaped"
  rc,       \* the exit code of the process
  stored,   \* Popen.returncode
  asking,   \* the reader thread of each worker
  at,       \* the worker the main thread is at
  call,     \* its call: "join", "exitcode" or "done"
  step,     \* where the query is: "check", "waitpid" or "store"
  reported  \* the code the main thread reports for each worker

collectVars == <<at, call, step, reported>>
fixed == <<blocking, rc>>
statusVars == <<os, fixed, stored, asking, collectVars>>

StatusInit ==
  /\ blocking \in BOOLEAN
  /\ os = [w \in Worker |-> "running"]
  /\ rc \in [Worker -> {0, 1}]
  /\ stored = [w \in Worker |-> None]
  /\ asking = [w \in Worker |-> "check"]
  /\ at = 1 /\ call = "join" /\ step = "check"
  /\ reported = [w \in Worker |-> None]

Exit(w) ==
  /\ os[w] = "running"
  /\ os' = [os EXCEPT ![w] = "zombie"]
  /\ UNCHANGED <<fixed, stored, asking, collectVars>>

-----------------------------------------------------------------------------
(* The reader thread: process.exitcode after each empty poll of the pipe *)

ReaderCheck(w) ==
  /\ asking[w] = "check"
  /\ asking' = [asking EXCEPT ![w] = IF stored[w] # None THEN "stop" ELSE "waitpid"]
  /\ UNCHANGED <<os, fixed, stored, collectVars>>

ReaderWaitpid(w) ==
  /\ asking[w] = "waitpid"
  /\ os' = [os EXCEPT ![w] = IF @ = "zombie" THEN "reaped" ELSE @]
  /\ asking' = [asking EXCEPT ![w] = IF os[w] = "zombie" THEN "store" ELSE "check"]
  /\ UNCHANGED <<fixed, stored, collectVars>>

ReaderStore(w) ==
  /\ asking[w] = "store"
  /\ stored' = [stored EXCEPT ![w] = rc[w]]
  /\ asking' = [asking EXCEPT ![w] = "stop"]
  /\ UNCHANGED <<os, fixed, collectVars>>

\* the end marker or the end of the stream
ReaderStops(w) ==
  /\ asking[w] = "check"
  /\ asking' = [asking EXCEPT ![w] = "stop"]
  /\ UNCHANGED <<os, fixed, stored, collectVars>>

-----------------------------------------------------------------------------
(* The main thread *)

\* the next worker without a report, in the order of the list
NextAt(rep) ==
  LET open == {w \in Worker : rep[w] = None}
      after == {w \in open : w > at}
  IN CHOOSE w \in (IF after # {} THEN after ELSE open) :
       \A v \in (IF after # {} THEN after ELSE open) : w <= v

MoveOn(rep) ==
  /\ reported' = rep
  /\ IF \A w \in Worker : rep[w] # None
       THEN call' = "done" /\ at' = at
       ELSE call' = "join" /\ at' = NextAt(rep)

AnswerNoneIsFailure(c) ==
  IF call = "join"
    THEN call' = "exitcode" /\ UNCHANGED <<at, reported>>
    ELSE MoveOn([reported EXCEPT ![at] = IF c = None THEN 1 ELSE c])

\* The query answers c.  After join() both loops ask for the exit code; a None is
\* skipped by reap_finished until a later pass and taken as 1 by wait_for_processes
\* (_process_exitcode).
Answer(c) ==
  IF call = "join"
    THEN call' = "exitcode" /\ UNCHANGED <<at, reported>>
    ELSE IF c # None \/ blocking
      THEN MoveOn([reported EXCEPT ![at] = IF c = None THEN 1 ELSE c])
      ELSE MoveOn(reported)

MainCheck ==
  /\ call # "done" /\ step = "check"
  /\ IF stored[at] # None
       THEN Answer(stored[at]) /\ step' = "check"
       ELSE step' = "waitpid" /\ UNCHANGED <<at, call, reported>>
  /\ UNCHANGED <<os, fixed, stored, asking>>

\* join() of wait_for_processes blocks in waitpid, the other queries do not
MainWaitpid ==
  /\ step = "waitpid"
  /\ (blocking /\ call = "join") => os[at] # "running"
  /\ os' = [os EXCEPT ![at] = IF @ = "zombie" THEN "reaped" ELSE @]
  /\ IF os[at] = "zombie"
       THEN step' = "store" /\ UNCHANGED <<at, call, reported>>
       ELSE step' = "check" /\ Answer(None)
  /\ UNCHANGED <<fixed, stored, asking>>

MainStore ==
  /\ step = "store"
  /\ stored' = [stored EXCEPT ![at] = rc[at]]
  /\ step' = "check" /\ Answer(rc[at])
  /\ UNCHANGED <<os, fixed, asking>>

-----------------------------------------------------------------------------
CollectStep == MainCheck \/ MainWaitpid \/ MainStore
AskStep(w) == ReaderCheck(w) \/ ReaderWaitpid(w) \/ ReaderStore(w) \/ ReaderStops(w)
Ended == call = "done" /\ UNCHANGED statusVars

StatusNext == CollectStep \/ Ended \/ \E w \in Worker : Exit(w) \/ AskStep(w)

(* The threads are scheduled and the workers end. *)
StatusFairness == WF_statusVars(CollectStep) /\ \A w \in Worker : WF_statusVars(Exit(w)) /\ WF_statusVars(AskStep(w))

StatusSpec == StatusInit /\ [][StatusNext]_statusVars /\ StatusFairness

-----------------------------------------------------------------------------
(* Properties *)

\* The code reap_finished reports for a worker is the code it exited with, although two
\* threads compete for it; wait_for_processes, which takes an unknown code as a failure,
\* may report a failure for a success but never a success for a failure.
ReportedIsActual ==
  \A w \in Worker : reported[w] # None =>
    /\ os[w] # "running"
    /\ reported[w] = rc[w] \/ (blocking /\ reported[w] = 1)

=============================================================================
