----------------------------- MODULE BranchTracker -----------------------------
(***************************************************************************)
(* testing-symbolic/: a program is run twice in one KLEE state, its        *)
(* branches record what they did (branch_tracker.c), and an assertion      *)
(* compares the two histories.  The drivers are test1.c and                *)
(* mbedtls_driver.c; the branches of mbedtls_mpi_exp_mod are not in this   *)
(* repository and may record anything.                                     *)
(***************************************************************************)
EXTENDS Integers, Sequences

CONSTANTS
  MaxVisits,  \* MAX_BRANCH_VISITS (8)
  MaxHits     \* bound: branches one run of mbedtls_mpi_exp_mod records

ASSUME TrackerAssumption == MaxVisits \in Nat \ {0} /\ MaxHits \in Nat

VARIABLES
  driver,       \* "test1" or "mbedtls"
  secret,       \* run -> the secret of test1.c
  program_run,
  history,      \* run -> branch_history_1, branch_history_2
  index,        \* run -> branch_index_1, branch_index_2
  hits,         \* run -> every value recorded, stored or not
  at,           \* where main() is
  equal         \* what branch_histories_equal returned; -1 before

trackerVars == <<driver, secret, program_run, history, index, hits, at, equal>>

TrackedRun == {1, 2}
Slot == 0..(MaxVisits - 1)

\* the symbolic inputs of main(), with klee_assume; globals are zero
TrackerInit ==
  /\ driver \in {"test1", "mbedtls"}
  /\ secret \in [TrackedRun -> -1..2] /\ secret[1] # secret[2]
  /\ driver = "mbedtls" => secret = <<0, 1>>
  /\ program_run = 0
  /\ history = [r \in TrackedRun |-> [k \in Slot |-> 0]]
  /\ index = [r \in TrackedRun |-> 0]
  /\ hits = [r \in TrackedRun |-> << >>]
  /\ at = "reset" /\ equal = -1

reset_branch_history ==
  /\ history' = [r \in TrackedRun |-> [k \in Slot |-> -1]]
  /\ index' = [r \in TrackedRun |-> 0]

RecordLast(value) ==
  LET r == program_run
      k == IF index[r] < MaxVisits THEN index[r] ELSE MaxVisits - 1 IN
    /\ history' = [history EXCEPT ![r][k] = value]
    /\ index' = [index EXCEPT ![r] = k + 1]

\* a full history keeps its first visits
record_branch_hit(value) ==
  LET r == program_run IN
    IF index[r] < MaxVisits
      THEN /\ history' = [history EXCEPT ![r][index[r]] = value]
           /\ index' = [index EXCEPT ![r] = @ + 1]
      ELSE UNCHANGED <<history, index>>

branch_histories_equal ==
  IF \A i \in Slot : history[1][i] = history[2][i] THEN 1 ELSE 0

-----------------------------------------------------------------------------
(* main() *)

Reset ==
  /\ at = "reset"
  /\ reset_branch_history
  /\ at' = "run" /\ program_run' = 1
  /\ UNCHANGED <<driver, secret, hits, equal>>

NextRun ==
  IF program_run = 1 THEN program_run' = 2 /\ UNCHANGED at
                     ELSE at' = "assert" /\ UNCHANGED program_run

Record(value) ==
  /\ record_branch_hit(value)
  /\ hits' = [hits EXCEPT ![program_run] = Append(@, value)]
  /\ UNCHANGED <<driver, secret, equal>>

\* test1.c: test_branch
TestBranch ==
  /\ driver = "test1" /\ at = "run"
  /\ Record(IF secret[program_run] > 0 THEN 1 ELSE 0)
  /\ NextRun

\* mbedtls_driver.c: a branch inside mbedtls_mpi_exp_mod, and its return
ExpModBranch ==
  /\ driver = "mbedtls" /\ at = "run" /\ Len(hits[program_run]) < MaxHits
  /\ \E value \in {0, 1} : Record(value)
  /\ UNCHANGED <<at, program_run>>

ExpModReturns ==
  /\ driver = "mbedtls" /\ at = "run"
  /\ NextRun
  /\ UNCHANGED <<driver, secret, history, index, hits, equal>>

AssertEqual ==
  /\ at = "assert"
  /\ equal' = branch_histories_equal /\ at' = "done"
  /\ UNCHANGED <<driver, secret, program_run, history, index, hits>>

TrackerNext == Reset \/ TestBranch \/ ExpModBranch \/ ExpModReturns \/ AssertEqual

TrackerSpec == TrackerInit /\ [][TrackerNext]_trackerVars

-----------------------------------------------------------------------------
(* Properties *)

FirstVisits(r) == SubSeq(hits[r], 1, IF Len(hits[r]) < MaxVisits THEN Len(hits[r]) ELSE MaxVisits)

(* The assertion fails exactly when the two runs differ within their first      *)
(* MAX_BRANCH_VISITS branches (record_branch_hit, branch_histories_equal): a    *)
(* failure is always a leak, also when one run makes fewer visits, and a pass   *)
(* says nothing about later branches.  For test1.c it is the sign of the        *)
(* secrets.                                                                     *)
TrackerVerdict ==
  at = "done" =>
    /\ equal = 1 <=> FirstVisits(1) = FirstVisits(2)
    /\ driver = "test1" => (equal = 1 <=> (secret[1] > 0 <=> secret[2] > 0))
=============================================================================
