------------------------------- MODULE Examples -------------------------------
(***************************************************************************)
(* ReplayTrace with the programs of Programs, and what one of them         *)
(* promises.                                                               *)
(***************************************************************************)
EXTENDS Programs, ReplayTrace

(* is_bit_set.c and is_bit_set_no_sc.c, main: the bit length that the masks of   *)
(* BN_num_bits_word_mimic compute without a branch is exact, so the index is in  *)
(* range and the bit it selects is set, whatever the secret is, and the two bits *)
(* compared agree although the loads differ.                                     *)
TopBitFound ==
  prog = "is_bit_set" /\ phase = "run1" =>
    \A r \in Run :
      LET in == BitInput(sec[r])
          t  == BitIndex(sec[r])
          number == in[1] * Word + in[0]
      IN /\ t \in 0..(2 * Width - 1) /\ isBitSet(in, t) = 1
         /\ 2^t <= number /\ number < 2^(t + 1)
         /\ BitsCompared(sec[1], sec[2])
=============================================================================
