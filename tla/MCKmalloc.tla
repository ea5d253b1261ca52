------------------------------ MODULE MCKmalloc ------------------------------
(***************************************************************************)
(* Instances of Kmalloc for TLC: pages of 32 bytes and 8-bit unsigned      *)
(* arithmetic.  Bucket 0 holds 8-byte blocks (four to a page), bucket 1    *)
(* 16-byte blocks (two to a page), bucket 2 is the page bucket, bucket 3   *)
(* is above it, and bucket 4 is the one whose size is negative as an int.  *)
(*                                                                         *)
(* One run checks programs of different kinds, each with bounds that let   *)
(* its interesting cases happen: the longest one keeps four pointers.      *)
(***************************************************************************)
EXTENDS KmallocStats

CONSTANT Clients     \* the kinds of program, of those below

VARIABLE client      \* the kind that runs

mcvars == <<statsvars, client>>

MCAmt == [b \in 0 .. Top |-> 2 ^ (b + 3)]

\* Few sizes, many pointers, and other users of the break: lists grow, blocks
\* are freed twice, resized when free, and refused.
Lists == [sizes |-> {3, 9, 40}, counts |-> {2}, moves |-> {8},
          base |-> 60, limit |-> 124, pointers |-> 4]

\* Both sides of every bucket boundary, zero, and sizes that overflow amt or
\* kcalloc's product; the break is unaligned at first and nobody else moves it.
Edges == [sizes |-> {0, 4, 5, 12, 13, 28, 29, 60, 61, 92, 93, 156, 157, 255},
          counts |-> {1, 3}, moves |-> {}, base |-> 62, limit |-> 188, pointers |-> 2]

\* A first call that needs padding, which sbrk may refuse.
Unlucky == [Lists EXCEPT !.moves = {}, !.base = 40]

ListsAndEdges == {Lists, Edges}
OnlyUnlucky == {Unlucky}

MCInit == StatsInit /\ client \in Clients /\ heap.brk = client.base
MCNext == /\ ~fault /\ StatsCalls(client.sizes, client.counts, client.moves)
          /\ heap'.brk <= client.limit
          /\ Cardinality(DOMAIN live' \cup DOMAIN stale') <= client.pointers
          /\ UNCHANGED client
MCSpec == MCInit /\ [][MCNext]_mcvars
=============================================================================
