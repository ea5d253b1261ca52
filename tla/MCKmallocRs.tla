----------------------------- MODULE MCKmallocRs -----------------------------
(***************************************************************************)
(* Instance of KmallocRs with the geometry of MCKmalloc: pages of 32 bytes *)
(* and 8-bit words, in which bucket 4 is negative as a signed word.        *)
(***************************************************************************)
EXTENDS KmallocRs

MCAmt == [b \in 0 .. Top |-> 2 ^ (b + 3)]
=============================================================================
