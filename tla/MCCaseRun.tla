------------------------------ MODULE MCCaseRun ------------------------------
(* CaseRun for TLC: two campaigns over one results directory, so that what the   *)
(* first one leaves behind meets the second.                                     *)
EXTENDS CaseRun
=============================================================================
