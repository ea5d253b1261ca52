------------------------------ MODULE MCAtomics ------------------------------
(***************************************************************************)
(* Programs for Atomics: words 1 and 2 on a machine of three-bit words,    *)
(* all pairs of threads with two calls, chosen programs of up to three     *)
(* threads with one to four calls each, and test_atomicity.                *)
(***************************************************************************)
EXTENDS TestAtomicity

Zero == [a \in Addr |-> 0]

Three(x, y, z) == [start |-> Zero, calls |-> <<x, y, z>>]

\* Each thread publishes one word and looks at the other's.
StoreThenLoad == Three(<<Store(1, 1), Load(2)>>, <<Store(2, 1), Load(1)>>, <<>>)

\* Two observers of two independent stores: both see them in one order.
Observers == Three(<<Store(1, 1), Store(2, 1)>>, <<Load(2), Load(1)>>, <<Load(1), Load(2)>>)

\* Counters that wrap, with the results of each addition.
Counters == Three(<<Add(1, 1), Add(1, 7)>>, <<Add(1, 3), Load(1)>>, <<Add(1, 6)>>)

\* One of two wins the lock, then releases it; a third adds to what it finds.
Locks == Three(<<CompareAndSwap(1, 0, 1), Store(1, 0)>>,
               <<CompareAndSwap(1, 0, 2), Swap(1, 0)>>, <<Add(1, 1), Load(1)>>)

\* Swaps hand every value to exactly one thread.
Swaps == Three(<<Swap(1, 1), Swap(2, 2)>>, <<Swap(1, 3), CompareAndSwap(2, 2, 4)>>, <<Swap(1, 5)>>)

\* Flags of one word set and cleared by different threads; a flag that is set
\* while its word is swapped away.
Flags == Three(<<Or(1, 1), Or(1, 4)>>, <<And(1, 6), Load(1)>>, <<Swap(1, 3)>>)
FlagsSeen == Three(<<Or(1, 2), Load(2)>>, <<Or(2, 1), Load(1)>>, <<>>)

\* Every program of two threads that make two of these calls each.
Two == {<<c, d>> : c, d \in {Store(1, 3), Store(2, 1), Load(1), Load(2), Add(1, 7),
                             Swap(1, 2), CompareAndSwap(1, 0, 1), And(1, 2)}}
Pairs == {Three(x, y, <<>>) : x, y \in Two}

Calls == {StoreThenLoad, Observers, Counters, Locks, Swaps, Flags, FlagsSeen}

\* A plain write is published by a store, or by an addition, and read after a
\* load has seen it; a thread sees its own plain write at once.
Publish == Three(<<Write(1, 5), Store(2, 1)>>, <<Load(2), Read(1)>>, <<Add(2, 2)>>)
PublishByAdd == Three(<<Write(1, 5), Add(2, 1)>>, <<Swap(2, 4), Read(1)>>, <<>>)
OwnWrite == Three(<<Write(1, 1), Read(1), Write(1, 2), Load(1)>>, <<>>, <<Add(2, 1)>>)

\* A word that holds its own address: the one case in which the two operands
\* of _casp1 agree.
OwnAddress == [start |-> [Zero EXCEPT ![1] = 1],
               calls |-> <<<<CompareAndSwapPointer(1, 1, 2)>>,
                           <<CompareAndSwapPointer(1, 1, 3)>>, <<Load(1)>>>>]

Litmus == Calls \cup Pairs \cup {Publish, PublishByAdd, OwnWrite, OwnAddress}

\* The programs of Litmus have no main thread: their threads run at once.
LitmusInit == Init /\ main = "none" /\ printed = NotYet

MCSpec == (LitmusInit \/ TestInit) /\ [][TestNext]_testvars

LitmusSpec == LitmusInit /\ [][TestNext]_testvars

\* Word 1 points to word 2.
Pointers == {[start |-> [Zero EXCEPT ![1] = 2, ![2] = 7],
              calls |-> <<<<CompareAndSwapPointer(1, 2, 3)>>, <<Swap(1, 2)>>, <<Load(1)>>>>]}
=============================================================================
