--------------------------- MODULE ExitStatusProofs ---------------------------
(***************************************************************************)
(* ReportedIsActual for any number of workers.  What the two threads know  *)
(* at each step of a query is only worth something because an exit status  *)
(* is stored by the thread that took it, and after it was taken.           *)
(***************************************************************************)
EXTENDS ExitStatus, WellFoundedInduction, TLAPS

StatusType ==
  /\ blocking \in BOOLEAN
  /\ os \in [Worker -> {"running", "zombie", "reaped"}]
  /\ rc \in [Worker -> {0, 1}]
  /\ stored \in [Worker -> {0, 1, None}]
  /\ asking \in [Worker -> {"check", "waitpid", "store", "stop"}]
  /\ at \in Worker
  /\ call \in {"join", "exitcode", "done"} /\ step \in {"check", "waitpid", "store"}
  /\ call = "done" => step = "check"
  /\ reported \in [Worker -> {0, 1, None}]

\* a stored code is the process's own, and the process is gone; a thread that is
\* about to store has taken the status
TakenInv ==
  /\ \A w \in Worker : stored[w] # None => stored[w] = rc[w] /\ os[w] = "reaped"
  /\ \A w \in Worker : asking[w] = "store" => os[w] = "reaped"
  /\ step = "store" => os[at] = "reaped"

\* join() of wait_for_processes returns only after the worker's end
JoinedInv == (blocking /\ call = "exitcode") => os[at] # "running"

SInv == StatusType /\ TakenInv /\ JoinedInv /\ ReportedIsActual

-----------------------------------------------------------------------------

\* A set of numbers that is not empty has a least element.
LEMMA LeastNumber ==
  ASSUME NEW S \in SUBSET Nat, S # {}
  PROVE  \E m \in S : \A k \in S : m <= k
<1>1. \E m \in S : \A k \in S : ~ (<<k, m>> \in OpToRel(<, Nat))
  BY WFMin, NatLessThanWellFounded, Zenon
<1>2. \E m \in S : \A k \in S : ~ (k < m)
  BY <1>1, Zenon DEF OpToRel
<1> QED BY <1>2

\* The loop goes on to a worker of the list.
LEMMA NextAtWorker ==
  ASSUME NEW rep, ~ \A w \in Worker : rep[w] # None
  PROVE  NextAt(rep) \in Worker
<1> DEFINE open == {w \in Worker : rep[w] = None}
<1> DEFINE after == {w \in open : w > at}
<1> DEFINE from == IF after # {} THEN after ELSE open
<1>1. from \in SUBSET Nat /\ from \subseteq Worker /\ from # {}
  BY DEF Worker
<1> HIDE DEF from
<1>2. \E w \in from : \A v \in from : w <= v
  BY <1>1, LeastNumber
<1>3. (CHOOSE w \in from : \A v \in from : w <= v) \in from
  BY <1>2, Zenon
<1>4. NextAt(rep) = CHOOSE w \in from : \A v \in from : w <= v
  BY Zenon DEF NextAt, from
<1> QED BY <1>1, <1>3, <1>4

\* What the main thread does with an answer that is the code of the process, or
\* None: it stays in the list, and reports only such codes.
LEMMA AnswerStep ==
  ASSUME SInv, NEW c \in {0, 1, None}, Answer(c), call # "done",
         c # None => c = rc[at] /\ os[at] # "running"
  PROVE  /\ at' \in Worker /\ call' \in {"join", "exitcode", "done"}
         /\ call' = "exitcode" => at' = at /\ call = "join"
         /\ reported' \in [Worker -> {0, 1, None}]
         /\ \A w \in Worker : reported'[w] # reported[w] =>
              /\ os[w] # "running"
              /\ reported'[w] = rc[w] \/ (blocking /\ reported'[w] = 1)
<1> USE DEF SInv, StatusType
<1>1. CASE call = "join"
  BY <1>1 DEF Answer
<1>2. CASE call = "exitcode"
  <2>1. PICK rep \in [Worker -> {0, 1, None}] :
          /\ MoveOn(rep)
          /\ rep = reported \/
             (/\ c # None \/ blocking
              /\ rep = [reported EXCEPT ![at] = IF c = None THEN 1 ELSE c])
    BY <1>2 DEF Answer, None
  <2>2. reported' = rep
    BY <2>1 DEF MoveOn
  <2>3. at' \in Worker /\ call' \in {"join", "done"}
    <3>1. CASE \A w \in Worker : rep[w] # None
      BY <2>1, <3>1 DEF MoveOn
    <3>2. CASE ~ \A w \in Worker : rep[w] # None
      BY <2>1, <3>2, NextAtWorker DEF MoveOn
    <3> QED BY <3>1, <3>2
  <2>4. ASSUME NEW w \in Worker, reported'[w] # reported[w]
        PROVE /\ os[w] # "running"
              /\ reported'[w] = rc[w] \/ (blocking /\ reported'[w] = 1)
    <3>1. /\ w = at /\ (c # None \/ blocking)
          /\ reported'[w] = IF c = None THEN 1 ELSE c
      BY <2>1, <2>2, <2>4
    <3> QED BY <3>1, <1>2 DEF JoinedInv
  <2> QED BY <2>2, <2>3, <2>4
<1> QED BY <1>1, <1>2

-----------------------------------------------------------------------------

\* The invariant holds initially.
LEMMA InvariantInit == StatusInit => SInv
  BY StatusAssumption DEF StatusInit, SInv, StatusType, TakenInv, JoinedInv, ReportedIsActual, Worker, None

\* Worker and reader: the process ends, and one waitpid gets its status.
LEMMA ReaderInv ==
  ASSUME SInv, NEW w \in Worker, Exit(w) \/ AskStep(w)
  PROVE  SInv'
<1> USE DEF SInv, StatusType, TakenInv, JoinedInv, ReportedIsActual, fixed, collectVars
<1>1. CASE Exit(w)
  BY <1>1 DEF Exit
<1>2. CASE ReaderCheck(w) \/ ReaderStops(w)
  BY <1>2 DEF ReaderCheck, ReaderStops
<1>3. CASE ReaderWaitpid(w)
  BY <1>3 DEF ReaderWaitpid
<1>4. CASE ReaderStore(w)
  BY <1>4 DEF ReaderStore
<1> QED BY <1>1, <1>2, <1>3, <1>4 DEF AskStep

\* The main thread asks.
LEMMA MainInv ==
  ASSUME SInv, CollectStep
  PROVE  SInv'
<1> USE DEF SInv, StatusType, TakenInv, fixed
<1>1. CASE MainCheck /\ stored[at] = None
  BY <1>1 DEF MainCheck, JoinedInv, ReportedIsActual
<1>2. CASE MainCheck /\ stored[at] # None
  <2>1. /\ Answer(stored[at]) /\ step' = "check" /\ call # "done"
        /\ UNCHANGED <<os, blocking, rc, stored, asking>>
    BY <1>2 DEF MainCheck
  <2>2. stored[at] = rc[at] /\ os[at] = "reaped"
    BY <1>2
  <2> QED BY <2>1, <2>2, AnswerStep DEF JoinedInv, ReportedIsActual
<1>3. CASE MainWaitpid /\ os[at] = "zombie"
  BY <1>3 DEF MainWaitpid, JoinedInv, ReportedIsActual
<1>4. CASE MainWaitpid /\ os[at] # "zombie"
  <2>1. /\ Answer(None) /\ step' = "check"
        /\ UNCHANGED <<blocking, rc, stored, asking>> /\ os' = os
        /\ (blocking /\ call = "join") => os[at] # "running"
    BY <1>4 DEF MainWaitpid
  <2>2. call # "done"
    BY <1>4 DEF MainWaitpid
  <2> QED BY <2>1, <2>2, AnswerStep DEF JoinedInv, ReportedIsActual
<1>5. CASE MainStore
  <2>1. /\ Answer(rc[at]) /\ step' = "check" /\ os[at] = "reaped"
        /\ UNCHANGED <<os, blocking, rc, asking>> /\ stored' = [stored EXCEPT ![at] = rc[at]]
    BY <1>5 DEF MainStore
  <2>2. call # "done" /\ rc[at] \in {0, 1, None} /\ os[at] # "running"
    BY <1>5, <2>1 DEF MainStore
  <2>3. /\ at' \in Worker /\ call' \in {"join", "exitcode", "done"}
        /\ call' = "exitcode" => at' = at
        /\ reported' \in [Worker -> {0, 1, None}]
        /\ \A w \in Worker : reported'[w] # reported[w] =>
             /\ os[w] # "running"
             /\ reported'[w] = rc[w] \/ (blocking /\ reported'[w] = 1)
    BY <2>1, <2>2, AnswerStep
  <2>4. StatusType' /\ TakenInv'
    BY <2>1, <2>2, <2>3
  <2>5. JoinedInv' /\ ReportedIsActual'
    BY <2>1, <2>2, <2>3 DEF JoinedInv, ReportedIsActual
  <2> QED BY <2>4, <2>5
<1> QED BY <1>1, <1>2, <1>3, <1>4, <1>5 DEF CollectStep

\* Every step of either thread preserves the invariant.
LEMMA InvariantNext == SInv /\ [StatusNext]_statusVars => SInv'
<1> SUFFICES ASSUME SInv, [StatusNext]_statusVars PROVE SInv'
  OBVIOUS
<1>1. CASE UNCHANGED statusVars
  BY <1>1 DEF statusVars, fixed, collectVars, SInv, StatusType, TakenInv, JoinedInv, ReportedIsActual
<1> QED BY <1>1, ReaderInv, MainInv DEF StatusNext, Ended

(* For any number of workers and any way the threads switch, the code that    *)
(* reap_finished reports is the one the worker ended with, and                *)
(* wait_for_processes never reports a success for a failure.                  *)
THEOREM StatusReported == StatusSpec => []ReportedIsActual
<1>1. SInv => ReportedIsActual
  BY DEF SInv
<1> QED BY <1>1, InvariantInit, InvariantNext, PTL DEF StatusSpec
=============================================================================
