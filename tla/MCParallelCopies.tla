--------------------------- MODULE MCParallelCopies ---------------------------
(* ParallelCopies for TLC: two workers, so that one is in its copy phase while   *)
(* the other runs its command, fails or is finalized.                            *)
EXTENDS ParallelCopies
=============================================================================
