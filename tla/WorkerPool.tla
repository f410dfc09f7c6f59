------------------------------ MODULE WorkerPool ------------------------------
(***************************************************************************)
(* What the two launchers of scripts/experiments promise of the processes  *)
(* they start (run_experiments.py of its workers, parallel_klee_copies.py  *)
(* of its commands): each is started at most once and never more than the  *)
(* limit at a time; nothing is started once the launcher has its verdict;  *)
(* the verdict is success only when every one of them was started and      *)
(* ended well.  A failure may be decided at any time, also after a success *)
(* (a signal on the way out), and does not end what is running.            *)
(***************************************************************************)
EXTENDS Naturals, FiniteSets

CONSTANTS
  Workers,
  Limit     \* how many may run at once; 0 stands for no limit

VARIABLES
  life,     \* worker -> "waiting", "running", "succeeded" or "failed"
  verdict   \* "none", "success" or "failure"

vars == <<life, verdict>>

Room == Limit # 0 => Cardinality({w \in Workers : life[w] = "running"}) < Limit

Init == life = [w \in Workers |-> "waiting"] /\ verdict = "none"

Launch(w) ==
  /\ verdict = "none" /\ life[w] = "waiting" /\ Room
  /\ life' = [life EXCEPT ![w] = "running"]
  /\ UNCHANGED verdict

End(w) ==
  /\ life[w] = "running"
  /\ \E how \in {"succeeded", "failed"} : life' = [life EXCEPT ![w] = how]
  /\ UNCHANGED verdict

Succeed ==
  /\ verdict = "none" /\ \A w \in Workers : life[w] = "succeeded"
  /\ verdict' = "success"
  /\ UNCHANGED life

Fail == verdict' = "failure" /\ UNCHANGED life

Next == Succeed \/ Fail \/ \E w \in Workers : Launch(w) \/ End(w)

Spec == Init /\ [][Next]_vars
=============================================================================
