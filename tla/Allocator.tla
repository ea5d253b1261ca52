------------------------------ MODULE Allocator ------------------------------
(***************************************************************************)
(* What a program may rely on when it calls kmalloc, kcalloc, krealloc and *)
(* kfree (src/kmalloc/original/kmalloc.c): the pointers it holds name      *)
(* regions of memory that share no byte, a pointer is never null, and      *)
(* nothing but the program's own calls makes a region appear or disappear. *)
(* How memory is found is not said, nor when a request is refused.         *)
(***************************************************************************)
EXTENDS Integers

VARIABLE held               \* pointer -> bytes, of the regions the program holds

\* A region of zero bytes still has a pointer of its own.
Span(n) == IF n = 0 THEN 1 ELSE n
Clear(f, p, n) == \A q \in DOMAIN f : p + Span(n) <= q \/ q + Span(f[q]) <= p

Without(f, p) == [q \in DOMAIN f \ {p} |-> f[q]]
With(f, p, n) == [q \in DOMAIN f \cup {p} |-> IF q = p THEN n ELSE f[q]]

Init == held = [p \in {} |-> 0]

Grant(p, n) == p > 0 /\ p \notin DOMAIN held /\ Clear(held, p, n) /\ held' = With(held, p, n)

Release(p) == p \in DOMAIN held /\ held' = Without(held, p)

\* The region at p becomes one of n bytes at q, which may be p itself.
Move(p, q, n) ==
  /\ p \in DOMAIN held /\ q > 0
  /\ Clear(Without(held, p), q, n)
  /\ held' = With(Without(held, p), q, n)

\* A step reads the region it hands out off the next state: which pointer and
\* how many bytes is the implementation's business.
Next ==
  \/ \E p \in DOMAIN held' : Grant(p, held'[p])
  \/ \E p \in DOMAIN held : Release(p)
  \/ \E p \in DOMAIN held, q \in DOMAIN held' : Move(p, q, held'[q])

Spec == Init /\ [][Next]_held
=============================================================================
