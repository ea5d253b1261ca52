----------------------------- MODULE KmallocStats ----------------------------
(***************************************************************************)
(* What kmalloc.c tells about itself: kmalloc_usable_size, and the         *)
(* statistics of a build with MSTATS, which counts in nmalloc the blocks   *)
(* kmalloc hands out and kfree takes back.                                 *)
(***************************************************************************)
EXTENDS Kmalloc

VARIABLE nmalloc      \* of each bucket, an unsigned int

statsvars == <<vars, nmalloc>>

StatsInit == Init /\ nmalloc = [b \in Buckets |-> 0]

(* The bucket of a block that kfree lets pass, and of one kmalloc returns. *)
Freed_BugEvenIfFree(cp) == IF cp = Null THEN {} ELSE {OvIndex(heap.word[cp - Overhead])}
Freed(cp) == IF cp = Null \/ ~InUse(heap, cp - Overhead) THEN {}
             ELSE {OvIndex(heap.word[cp - Overhead])}
Taken(cp) == {OvIndex(heap'.word[p - Overhead]) : p \in DOMAIN live' \ (DOMAIN live \ {cp})}

(* A call on cp, or on none, frees and takes one block at most; krealloc   *)
(* in place does neither, which comes to the same.                         *)
Count(cp) ==
  nmalloc' = [b \in Buckets |->
    (nmalloc[b] + (IF b \in Taken(cp) THEN 1 ELSE 0) - (IF b \in Freed(cp) THEN 1 ELSE 0)) % WordMod]

StatsCalls(sizes, counts, moves) ==
  \/ \E n \in sizes : Kmalloc(n) /\ Count(Null)
  \/ \E nelem \in counts, elsize \in sizes : Kcalloc(nelem, elsize) /\ Count(Null)
  \/ \E cp \in Pointers : Kfree(cp) /\ Count(cp)
  \/ \E cp \in Pointers, n \in sizes : Krealloc(cp, n) /\ Count(cp)
  \/ \E k \in moves : ForeignSbrk(k) /\ UNCHANGED nmalloc

StatsNext == ~fault /\ StatsCalls(Requests, Counts, ForeignMoves)
StatsSpec == StatsInit /\ [][StatsNext]_statsvars

(* mstats, for bucket b: the length of the free list.                      *)
Length(b) == LET node == ListNode(heap, b)
             IN  CHOOSE j \in 0 .. Cardinality(DOMAIN heap.word) :
                   node[j] = Null /\ \A i \in 0 .. j - 1 : node[i] # Null

(* kmalloc_usable_size: "added size lookup"; it returns the bucket.        *)
UsableSize(cp) ==
  IF cp = Null \/ ~InUse(heap, cp - Overhead) THEN 0 ELSE OvIndex(heap.word[cp - Overhead])

-----------------------------------------------------------------------------
\* "nmalloc[i] is the difference between the number of mallocs and frees for a
\* given block size" (kmalloc.c:128-131): after double frees, compaction and
\* refusals too it counts the client's blocks of that size, which are those of
\* which kmalloc_usable_size says i and not 0, and with the free list, as mstats
\* prints both, it accounts for every block that was ever cut.
StatsTrue ==
  /\ \A b \in Buckets :
       /\ nmalloc[b] = Cardinality({p \in DOMAIN live : UsableSize(p) = b})
       /\ nmalloc[b] + Length(b) = Cardinality({a \in DOMAIN heap.home : heap.home[a] = b})
  /\ \A p \in DOMAIN stale : UsableSize(p) = 0
=============================================================================
