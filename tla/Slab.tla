-------------------------------- MODULE Slab --------------------------------
(***************************************************************************)
(* What a fixed-size allocator promises ("slab-like allocator of fixed     *)
(* sizes", rgoffi/go/fixalloc.go): it hands out places of one size, each   *)
(* inside the memory it owns and apart from every place still held, and    *)
(* counts the bytes in use.                                                *)
(***************************************************************************)
EXTENDS Naturals

VARIABLES size,     \* the size of an object; 0 until the slab is set up
          arena,    \* the addresses the slab owns
          held,     \* the objects in the client's hands, by address
          inuse     \* the bytes in use

vars == <<size, arena, held, inuse>>

Body(p, s) == p .. p + s - 1

Init == size = 0 /\ arena = {} /\ held = {} /\ inuse = 0

SetUp == /\ size = 0
         /\ size' \in Nat \ {0}
         /\ UNCHANGED <<arena, held, inuse>>

(* The slab may take more memory to serve a request; it never gives any    *)
(* back.                                                                   *)
Grant(p) == /\ size # 0
            /\ arena \subseteq arena'
            /\ Body(p, size) \subseteq arena'
            /\ \A q \in held : Body(p, size) \cap Body(q, size) = {}
            /\ held' = held \cup {p}
            /\ inuse' = inuse + size
            /\ UNCHANGED size

Release(p) == /\ p \in held
              /\ held' = held \ {p}
              /\ inuse' = inuse - size
              /\ UNCHANGED <<size, arena>>

Next == \/ SetUp
        \/ \E p \in held' : Grant(p)
        \/ \E p \in held : Release(p)

Spec == Init /\ [][Next]_vars
=============================================================================
