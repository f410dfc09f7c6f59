------------------------------ MODULE InputStream ------------------------------
(***************************************************************************)
(* What include/original_stdin_runner.h promises to a program whose read() *)
(* and write() it replaces: one stream of Total bytes on descriptor 0, in  *)
(* order and without gaps, padded with zeros past its end, and a flag that *)
(* remembers every request that could not be met.  A byte is its position. *)
(***************************************************************************)
EXTENDS Integers

CONSTANTS
  Total,    \* bytes in the stream
  MaxRead   \* bound: the largest count of a call

VARIABLES
  pos,      \* bytes delivered so far
  failed,   \* some request could not be met
  reply     \* what the last call returned, and the cells it put in the buffer

vars == <<pos, failed, reply>>

Zero    == -1
Nothing == [k \in {} |-> Zero]
NoReply == [ret |-> 0, cell |-> Nothing]

Init == pos = 0 /\ failed = FALSE /\ reply = NoReply

Reset == pos' = 0 /\ failed' = FALSE /\ reply' = NoReply

Read(count) ==
  /\ reply' = [ret |-> count,
               cell |-> [k \in 0..(count - 1) |-> IF pos + k < Total THEN pos + k ELSE Zero]]
  /\ pos' = IF pos + count < Total THEN pos + count ELSE Total
  /\ failed' = (failed \/ pos + count > Total)

Write(count) ==
  /\ reply' = [ret |-> count, cell |-> Nothing]
  /\ UNCHANGED <<pos, failed>>

Refuse ==
  /\ reply' = [ret |-> -1, cell |-> Nothing]
  /\ failed' = TRUE
  /\ UNCHANGED pos

Next == Reset \/ Refuse \/ \E count \in 0..MaxRead : Read(count) \/ Write(count)

Spec == Init /\ [][Next]_vars
=============================================================================
