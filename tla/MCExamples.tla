------------------------------ MODULE MCExamples ------------------------------
(* Examples for TLC: every one of Programs, with secrets that take each of its   *)
(* branches and indices, also ones that agree in the bits the program looks at.  *)
EXTENDS Examples

MCReplayed ==
  {"memory_1", "memory_1_binsec", "example", "wrong_location", "abacus_missed", "target_true",
   "arc4", "maze", "mod_chain", "is_bit_set", "mix_word", "histogram", "findmax"}

MCSecretsOf ==
  [p \in MCReplayed |->
     CASE p \in {"memory_1", "memory_1_binsec"} -> 0..4
       [] p = "example" -> -1..2
       [] p = "wrong_location" -> 0..4
       [] p = "abacus_missed" -> {0, 1, 64}
       [] p = "target_true" -> -1..1
       [] p = "arc4" -> {0, 1, 3, 5}
       [] p = "maze" -> 0..3
       [] p = "mod_chain" -> {2, 256 * 4 + 3, 256 * 7 + 3, 256 * 7 + 4}
       [] p = "is_bit_set" -> {0, 5, 256, 256 * 6, 256 * 255 + 127}
       [] p = "mix_word" -> {0, 2, 4, 9, 13}
       [] p = "histogram" -> -2..2
       [] p = "findmax" -> {0, 4 * 1 + 2, 4 * 2 + 1, 4 * 2 + 3, 4 * 3 + 3}]

MCExecutions == ExecutionsOf(MCSecretsOf)

\* the load itself, or everything up to the branch
MCNoDebugOf ==
  [p \in MCReplayed |->
     CASE p = "wrong_location" -> {{99}, {82, 85, 99}} [] p = "target_true" -> {{16}, {16, 26, 27}}
       [] OTHER -> {}]

\* mix_word is one statement
MCStatementsOf == [p \in MCReplayed |-> IF p = "mix_word" THEN {96..99} ELSE {}]
=============================================================================
