------------------------------- MODULE Kmalloc -------------------------------
(***************************************************************************)
(* The allocator of src/kmalloc/original/kmalloc.c and the program that    *)
(* calls it: every call of kmalloc, kcalloc, krealloc and kfree is one     *)
(* step (the code is single threaded), with the client's bookkeeping of    *)
(* the pointers it holds.                                                  *)
(***************************************************************************)
EXTENDS KmallocHeap

CONSTANTS
  Bases,         \* where the break may be before the first call
  Requests,      \* the byte counts the client asks for
  Counts,        \* the element counts it passes to kcalloc
  ForeignMoves,  \* by how much other code in the process moves the break
  MaxPointers    \* bound: how many pointers, live or freed, the client keeps

ASSUME ClientAssumption ==
  /\ Bases \subseteq Nat \ {0} /\ Requests \subseteq Nat /\ Counts \subseteq Nat
  /\ ForeignMoves \subseteq Nat /\ MaxPointers \in Nat
  /\ \A k \in ForeignMoves : k % 4 = 0
  /\ SetupMayFail => \A base \in Bases : base % 4 = 0

VARIABLES
  heap,     \* the allocator's memory, see KmallocHeap
  live,     \* user pointer -> bytes asked for, of the blocks the client owns
  stale,    \* user pointer -> bytes asked for, of freed blocks not handed out again
  copied,   \* what the last step copied, if it was a krealloc that moved a block
  fault     \* the process died in a memset of address 0

vars == <<heap, live, stale, copied, fault>>

NoCopy == <<>>
Min2(x, y) == IF x < y THEN x ELSE y
Put(f, x, v) == [y \in DOMAIN f \cup {x} |-> IF y = x THEN v ELSE f[y]]
Drop(f, S) == [y \in DOMAIN f \ S |-> f[y]]

Init ==
  /\ \E base \in Bases :
       heap = [pagesz |-> 0, pagebucket |-> 0, nextf |-> [b \in Buckets |-> Null],
               word |-> [a \in {} |-> 0], home |-> [a \in {} |-> 0], brk |-> base]
  /\ live = [p \in {} |-> 0] /\ stale = [p \in {} |-> 0]
  /\ copied = NoCopy /\ fault = FALSE

\* The client gets pointer p for n bytes; it had none if p is null.
Obtain(p, n) ==
  IF p = Null THEN UNCHANGED <<live, stale>>
  ELSE /\ live' = Put(live, p, n) /\ stale' = Drop(stale, {p})
       /\ Cardinality(DOMAIN live' \cup DOMAIN stale') <= MaxPointers

Kmalloc(n) ==
  \E r \in KmallocOutcomes(heap, n) :
    /\ heap' = r.heap
    /\ Obtain(r.ret, n)
    /\ copied' = NoCopy /\ UNCHANGED fault

(* kcalloc multiplies modulo the width of size_t and clears the result       *)
(* without looking at it.                                                    *)
Kcalloc(nelem, elsize) ==
  LET n == (nelem * elsize) % WordMod
  IN  \E r \in KmallocOutcomes(heap, n) :
        /\ heap' = r.heap
        /\ Obtain(r.ret, n)
        /\ fault' = (r.ret = Null /\ n > 0)
        /\ copied' = NoCopy

(* kfree of null does nothing; of a block already free, nothing either.      *)
Kfree(cp) ==
  /\ heap' = IF cp = Null THEN heap ELSE KfreeHeap(heap, cp)
  /\ live' = Drop(live, {cp})
  /\ stale' = IF cp \in DOMAIN live THEN Put(stale, cp, live[cp]) ELSE stale
  /\ copied' = NoCopy /\ UNCHANGED fault

(* krealloc of a block in use or, for "storage compaction", of one already   *)
(* freed.  When it fails the old block has been freed all the same.          *)
Resize(cp, n) ==
  LET had == IF cp \in DOMAIN live THEN live[cp] ELSE stale[cp]
  IN  \E r \in KreallocOutcomes(heap, cp, n) :
        /\ heap' = r.heap
        /\ IF r.ret = Null
           THEN /\ live' = Drop(live, {cp})
                /\ stale' = Put(stale, cp, had)
           ELSE /\ live' = Put(Drop(live, {cp}), r.ret, n)
                /\ stale' = Drop(stale, {cp, r.ret})
        /\ copied' = IF r.ret \in {Null, cp} THEN NoCopy
                     ELSE [src |-> cp, dst |-> r.ret, len |-> CopyLen(heap, cp, n),
                           had |-> had, known |-> OldBucket(heap, cp - Overhead) # NBUCKETS]
        /\ UNCHANGED fault

Krealloc(cp, n) ==
  \/ cp = Null /\ Kmalloc(n)
  \/ cp # Null /\ n = 0 /\ Kfree(cp)
  \/ cp # Null /\ n > 0 /\ Resize(cp, n)

(* Other code of the process, libc's malloc above all, uses sbrk as well.    *)
ForeignSbrk(k) ==
  /\ heap.brk + k <= HeapLimit
  /\ heap' = [heap EXCEPT !.brk = @ + k]
  /\ copied' = NoCopy /\ UNCHANGED <<live, stale, fault>>

Pointers == {Null} \cup DOMAIN live \cup DOMAIN stale

\* The calls of a program that asks for these sizes and counts, in a process
\* whose other code moves the break by these amounts.
Calls(sizes, counts, moves) ==
  \/ \E n \in sizes : Kmalloc(n)
  \/ \E nelem \in counts, elsize \in sizes : Kcalloc(nelem, elsize)
  \/ \E cp \in Pointers : Kfree(cp)
  \/ \E cp \in Pointers, n \in sizes : Krealloc(cp, n)
  \/ \E k \in moves : ForeignSbrk(k)

Next == ~fault /\ Calls(Requests, Counts, ForeignMoves)

Spec == Init /\ [][Next]_vars

-----------------------------------------------------------------------------
(* The type invariant.                                                       *)

HeapType(h) ==
  h \in [pagesz : {0, Page}, pagebucket : {0, PageBucket}, nextf : [Buckets -> Nat],
         word : [DOMAIN h.home -> Nat], home : [DOMAIN h.home -> 0 .. Top - 1],
         brk : Nat \ {0}]

TypeOK ==
  /\ HeapType(heap)
  /\ live \in [DOMAIN live -> Nat] /\ stale \in [DOMAIN stale -> Nat]
  /\ \A p \in DOMAIN live \cup DOMAIN stale : p \in Nat /\ p - Overhead \in DOMAIN heap.home
  /\ copied # NoCopy => copied.dst \in DOMAIN live /\ copied.src # copied.dst
  /\ fault \in BOOLEAN

-----------------------------------------------------------------------------
(* Safety.                                                                   *)

Apart(h, a, c) == a + Extent(h.home[a]) <= c \/ c + Extent(h.home[c]) <= a
HeapDisjoint(h) ==
  \A a \in DOMAIN h.home :
    /\ a + Extent(h.home[a]) <= h.brk
    /\ \A c \in DOMAIN h.home : a # c => Apart(h, a, c)
FreeBlocks(h, b) == {a \in DOMAIN h.home : h.home[a] = b /\ ~InUse(h, a)}

\* No two blocks that morecore has cut share a byte, and none reaches past the break.
BlocksDisjoint == HeapDisjoint(heap)

\* The header of a block tells the truth: it carries MAGIC exactly while the
\* client owns the block, with the bucket the block was cut for, so kfree and
\* krealloc find the right list and a second kfree of the same pointer is seen.
HeadersTrue ==
  \A a \in DOMAIN heap.home :
    /\ InUse(heap, a) <=> a + Overhead \in DOMAIN live
    /\ InUse(heap, a) => OvIndex(heap.word[a]) = heap.home[a]

\* Free list b, followed from nextf[b], runs through every free block of
\* bucket b once and ends in null: no cycle, no block lost, none on two lists.
FreeListsExact ==
  \A b \in Buckets :
    LET free == FreeBlocks(heap, b)
        k    == Cardinality(free)
        node == ListNode(heap, b)
    IN  {node[j] : j \in 0 .. k - 1} = free /\ node[k] = Null

\* Every block the client owns has room for the bytes it asked for.
RoomForRequest ==
  \A p \in DOMAIN live : live[p] <= Capacity(heap.home[p - Overhead])

\* kmalloc and krealloc agree on the bucket of a size: no block is larger than
\* needed, the property behind krealloc's test for returning the block in place.
TightFit ==
  \A p \in DOMAIN live : heap.home[p - Overhead] > 0 => live[p] > Capacity(heap.home[p - Overhead] - 1)

\* "align break pointer so all data will be page aligned": the data of a block
\* smaller than a page is aligned to its size, of a larger one to a page.
DataAligned ==
  \A a \in DOMAIN heap.home : (a + Overhead) % Min2(Amt[heap.home[a]], Page) = 0

\* The data of the next page will be, once the first call has set the break.
BreakAligned == heap.pagesz # 0 => (heap.brk + Overhead) % Page = 0

\* kmalloc, kcalloc, kfree and krealloc keep that so, the first call's padding for
\* all later ones: as long as only they move the break all data is aligned.  Other
\* code that moves it changes the break and nothing else of the heap.
AlignedAlone ==
  [][(heap' # [heap EXCEPT !.brk = heap'.brk]) =>
       (DataAligned /\ BreakAligned => DataAligned' /\ BreakAligned')]_vars

\* A krealloc that moves a block copies every byte of the old request that the
\* new one has room for, never more than the new block holds, and never reads
\* past the old block when its bucket is known.
KreallocCopies ==
  copied # NoCopy =>
    /\ copied.len >= Min2(copied.had, live[copied.dst])
    /\ copied.len <= Capacity(heap.home[copied.dst - Overhead])
    /\ copied.known => copied.len <= Capacity(heap.home[copied.src - Overhead])

\* A block that leaves the client without another taking its place, by kfree or
\* by a krealloc that failed, becomes the head of its own list: a later krealloc
\* of it finds its bucket in findbucket's first pass, and its data is still there.
FreedIsFirst ==
  [][\A p \in DOMAIN live \ DOMAIN live' :
       DOMAIN live' \subseteq DOMAIN live =>
         heap.nextf'[heap.home[p - Overhead]] = p - Overhead]_vars

\* The allocator keeps the abstract promise: the regions the client holds never
\* overlap, and calls change them only as Allocator allows.
Promise == INSTANCE Allocator WITH held <- live
KeepsPromise == Promise!Spec

-----------------------------------------------------------------------------
(* The inductive invariant.  It speaks of single links, never of whole        *)
(* lists: a list head and the link of a free block point to a free block of   *)
(* the same bucket or to null, and no block is pointed to twice.              *)

HeapAligned(h) ==
  /\ \A a \in DOMAIN h.home : a \in Nat \ {0} /\ a % 4 = 0
  /\ h.pagesz # 0 \/ SetupMayFail => h.brk % 4 = 0

LinksTyped(h) ==
  /\ \A b \in Buckets : h.nextf[b] # Null => h.nextf[b] \in FreeBlocks(h, b)
  /\ \A b \in Buckets : \A a \in FreeBlocks(h, b) : h.word[a] # Null => h.word[a] \in FreeBlocks(h, b)

LinksUnique(h) ==
  /\ \A b \in Buckets : \A a \in FreeBlocks(h, b) : h.word[a] # Null => h.word[a] # h.nextf[b]
  /\ \A b \in Buckets : \A a, c \in FreeBlocks(h, b) : a # c /\ h.word[a] # Null => h.word[a] # h.word[c]

IndexTrue(h) == \A a \in DOMAIN h.home : InUse(h, a) => OvIndex(h.word[a]) = h.home[a]

HeapInv(h) ==
  HeapType(h) /\ HeapAligned(h) /\ HeapDisjoint(h) /\ LinksTyped(h) /\ LinksUnique(h) /\ IndexTrue(h)

\* Pointers L are in the client's hands and S were: the blocks in use are L's.
Owns(h, L, S) ==
  /\ \A p \in L \cup S : p \in Nat /\ p - Overhead \in DOMAIN h.home
  /\ Used(h) = {p - Overhead : p \in L}
  /\ L \cap S = {}

\* What the proofs of BlocksDisjoint and HeadersTrue carry from step to step:
\* a sound heap whose blocks in use are exactly those the client owns.
IInv == TypeOK /\ HeapInv(heap) /\ Owns(heap, DOMAIN live, DOMAIN stale)
=============================================================================
