-------------------------- MODULE MCKmallocThreads --------------------------
(***************************************************************************)
(* Instances of KmallocThreads with the geometry of MCKmalloc.             *)
(***************************************************************************)
EXTENDS KmallocThreads, TLC

MCAmt == [b \in 0 .. Top |-> 2 ^ (b + 3)]

\* Thread 1 uses bucket 0 and thread 2 bucket 1 ...
Different == 1 :> {3} @@ 2 :> {9}

\* ... or both bucket 1.
Same == 1 :> {9} @@ 2 :> {9}
=============================================================================
