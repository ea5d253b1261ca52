----------------------------- MODULE KmallocHeap -----------------------------
(***************************************************************************)
(* The memory that src/kmalloc/original/kmalloc.c manages, as a value, and *)
(* its functions as operators on that value: the power-of-two geometry,    *)
(* the header word of a block (union overhead), the free lists threaded    *)
(* through the headers, and what kmalloc, morecore, kfree, findbucket and  *)
(* krealloc make of a heap.  The default build is modelled: RCHECK, DEBUG  *)
(* and MSTATS are off (RSLOP = 0, ASSERT is empty).                        *)
(*                                                                         *)
(* A heap h is a record:                                                   *)
(*   pagesz, pagebucket, nextf   the static variables of the same names    *)
(*   word   block address -> contents of its header word                   *)
(*   home   block address -> the bucket morecore cut it for (a history     *)
(*          component: no operator of the code reads it)                   *)
(*   brk    the program break, as sbrk(0) returns it                       *)
(*                                                                         *)
(* An operator whose name ends in _Bug is a plausible slip in the operator *)
(* after it: it is used only to see that the properties notice it.         *)
(***************************************************************************)
EXTENDS Integers, FiniteSets

CONSTANTS
  Page,          \* getpagesize()
  Overhead,      \* sizeof(union overhead): 4 with -m32, 8 otherwise
  NBUCKETS,      \* length of nextf
  Top,           \* the last bucket whose size an unsigned can hold (28 for 32 bits)
  Amt,           \* Amt[b] is 8 << b, the amt of kmalloc's loop and the sz of morecore
  SrchLen,       \* realloc_srchlen, -1 for whole lists
  HeapLimit,     \* sbrk never moves the break above this address
  SetupMayFail   \* may sbrk refuse the first call's alignment request?

\* Amt is a doubling sequence that starts at 8, and a page is one of its members.
\* The bucket index must fit in a u_char (ov_index).
ASSUME GeometryAssumption ==
  /\ Top \in Nat /\ NBUCKETS \in Nat /\ Top < NBUCKETS /\ NBUCKETS <= 256
  /\ Amt \in [0 .. Top -> Nat \ {0}]
  /\ Amt[0] = 8 /\ \A b \in 0 .. Top - 1 : Amt[b + 1] = 2 * Amt[b]
  /\ \E b \in 0 .. Top - 1 : Amt[b] = Page
  /\ Overhead \in {4, 8}

ASSUME EnvironmentAssumption ==
  /\ HeapLimit \in Nat /\ SetupMayFail \in BOOLEAN
  /\ SrchLen \in Nat \cup {-1}

Null == 0
MAGIC == 239                       \* 0xef
Buckets == 0 .. NBUCKETS - 1
PageBucket == CHOOSE b \in 0 .. Top - 1 : Amt[b] = Page
WordMod == 2 * Amt[Top]            \* 2^32: unsigned and size_t arithmetic wraps here

-----------------------------------------------------------------------------
(* The header word.  A free block's word is ov_next; taking the block       *)
(* overwrites its low byte with MAGIC and its second byte with the bucket.   *)

OvMagic(w) == w % 256
OvIndex(w) == (w \div 256) % 256
Stamp_BugNoIndex(w, b) == (w \div 65536) * 65536 + MAGIC
Stamp(w, b) == (w \div 65536) * 65536 + 256 * b + MAGIC

InUse(h, op) == OvMagic(h.word[op]) = MAGIC
Used(h) == {a \in DOMAIN h.home : InUse(h, a)}

-----------------------------------------------------------------------------
(* Geometry: what morecore reserves for one block of bucket b, how many      *)
(* bytes of it the caller can use, and how many blocks one sbrk yields.      *)

Extent(b) == IF Amt[b] < Page THEN Amt[b] ELSE Amt[b] + Page
Capacity(b) == Extent(b) - Overhead
NBlocks_BugOneMore(b) == IF Amt[b] < Page THEN Page \div Amt[b] + 1 ELSE 1
NBlocks(b) == IF Amt[b] < Page THEN Page \div Amt[b] ELSE 1
SbrkAmt_BugNoPage(b) == IF Amt[b] < Page THEN Page ELSE Amt[b]
SbrkAmt(b) == IF Amt[b] < Page THEN Page ELSE Amt[b] + Page

-----------------------------------------------------------------------------
(* First call: pad the break so that the data of the first block starts on   *)
(* a page boundary, and find the page bucket.  pagesz is assigned before     *)
(* the sbrk that may fail, so a failed first call is never repeated.         *)

Padding_BugNoHeader(brk) == Page - (brk % Page)
Padding(brk) == LET n == Page - Overhead - (brk % Page)
                IN  IF n < 0 THEN n + Page ELSE n

SetupFailed(h) == [h EXCEPT !.pagesz = Page]
SetupDone_BugOneMore(h) ==
  [SetupFailed(h) EXCEPT !.pagebucket = PageBucket + 1, !.brk = @ + Padding(@)]
SetupDone(h) == [SetupFailed(h) EXCEPT !.pagebucket = PageBucket, !.brk = @ + Padding(@)]

(* The search loop of kmalloc, as an interval of shifts of the first amt.    *)
(* LoopExit holds the shift at which it leaves; it is empty when             *)
(* amt <<= 1 reaches 0 first.                                                *)

Small_BugWholePage(n) == n <= Page
Small(n) == n <= Page - Overhead
FirstAmt(n) == IF Small(n) THEN 0 ELSE PageBucket
FirstBucket(h, n) == IF Small(n) THEN 0 ELSE h.pagebucket
Room_BugNoHeader(n, k) == Amt[FirstAmt(n) + k] + (IF Small(n) THEN 0 ELSE Page - Overhead)
Room(n, k) == Amt[FirstAmt(n) + k] + (IF Small(n) THEN 0 - Overhead ELSE Page - Overhead)
LoopExit(n) ==
  {k \in 0 .. Top - FirstAmt(n) : n <= Room(n, k) /\ \A j \in 0 .. k - 1 : n > Room(n, j)}

(* morecore: cut the memory at the old break into blocks and chain them.     *)
(* The last block's word is not written: sbrk's fresh memory reads as zero.  *)
(* 1 << (bucket + 3) is negative for the top bucket: morecore gives up.      *)

Carved(op, b) == {op + i * Amt[b] : i \in 0 .. NBlocks(b) - 1}
SbrkCan(h, b) == b < Top /\ h.brk + SbrkAmt(b) <= HeapLimit

Morecore_BugNoEnd(h, b) ==
  LET new == Carved(h.brk, b)
      old == DOMAIN h.word
  IN  [h EXCEPT
        !.brk = @ + SbrkAmt(b),
        !.nextf[b] = h.brk,
        !.home = [a \in old \cup new |-> IF a \in new THEN b ELSE h.home[a]],
        !.word = [a \in old \cup new |-> IF a \in new THEN a + Amt[b] ELSE h.word[a]]]

Morecore(h, b) ==
  LET last == h.brk + (NBlocks(b) - 1) * Amt[b]
      new  == Carved(h.brk, b)
      old  == DOMAIN h.word
  IN  [h EXCEPT
        !.brk = @ + SbrkAmt(b),
        !.nextf[b] = h.brk,
        !.home = [a \in old \cup new |-> IF a \in new THEN b ELSE h.home[a]],
        !.word = [a \in old \cup new |-> IF a \notin new THEN h.word[a]
                                         ELSE IF a = last THEN Null ELSE a + Amt[b]]]

(* The head of list b is unlinked and stamped; the caller gets the address    *)
(* after the header.                                                         *)
Take(h, b) ==
  LET op == h.nextf[b]
  IN  [heap |-> [h EXCEPT !.nextf[b] = h.word[op], !.word[op] = Stamp(h.word[op], b)],
       ret  |-> op + Overhead]

Refuse(h) == [heap |-> h, ret |-> Null]

FromBucket(h, b) ==
  IF h.nextf[b] # Null THEN {Take(h, b)}
  ELSE {Refuse(h)} \cup (IF SbrkCan(h, b) THEN {Take(Morecore(h, b), b)} ELSE {})

AfterSetup(h, n) ==
  IF LoopExit(n) = {} THEN {Refuse(h)}
  ELSE UNION {FromBucket(h, FirstBucket(h, n) + k) : k \in LoopExit(n)}

\* kmalloc(n): the possible outcomes, one per answer of sbrk.
KmallocOutcomes(h, n) ==
  IF h.pagesz # 0 THEN AfterSetup(h, n)
  ELSE AfterSetup(SetupDone(h), n)
       \cup (IF SetupMayFail /\ Padding(h.brk) # 0 THEN {Refuse(SetupFailed(h))} ELSE {})

-----------------------------------------------------------------------------
(* kfree: only a block whose header says MAGIC is pushed on the list its     *)
(* header names; writing ov_next clobbers the magic number.                  *)

KfreeHeap_BugNoCheck(h, cp) ==
  LET op == cp - Overhead
      b  == OvIndex(h.word[op])
  IN  [h EXCEPT !.word[op] = h.nextf[b], !.nextf[b] = op]

KfreeHeap_BugSecond(h, cp) ==
  LET op   == cp - Overhead
      b    == OvIndex(h.word[op])
      head == h.nextf[b]
  IN  IF ~InUse(h, op) THEN h
      ELSE IF head = Null THEN [h EXCEPT !.word[op] = Null, !.nextf[b] = op]
      ELSE [h EXCEPT !.word[op] = h.word[head], !.word[head] = op]

KfreeHeap(h, cp) ==
  LET op == cp - Overhead
      b  == OvIndex(h.word[op])
  IN  IF InUse(h, op) THEN [h EXCEPT !.word[op] = h.nextf[b], !.nextf[b] = op] ELSE h

-----------------------------------------------------------------------------
(* findbucket walks the first len blocks of each list, all of them for -1.   *)

ListNode(h, b) ==
  LET node[j \in Nat] == IF j = 0 THEN h.nextf[b]
                         ELSE IF node[j - 1] \in DOMAIN h.word THEN h.word[node[j - 1]]
                         ELSE Null
  IN  node
WalkLen(h, len) == IF len = -1 THEN Cardinality(DOMAIN h.word) ELSE len
OnList(h, b, op, len) == \E j \in 0 .. WalkLen(h, len) - 1 : ListNode(h, b)[j] = op

Findbucket(h, op, len) ==
  LET found == {b \in Buckets : OnList(h, b, op, len)}
  IN  IF found = {} THEN -1 ELSE CHOOSE b \in found : \A c \in found : b <= c

(* The bucket krealloc works with: the header's, or that of the list on      *)
(* which an already freed block is found, or NBUCKETS.                       *)
OldBucket(h, op) ==
  IF InUse(h, op) THEN OvIndex(h.word[op])
  ELSE IF Findbucket(h, op, 1) >= 0 THEN Findbucket(h, op, 1)
  ELSE IF Findbucket(h, op, SrchLen) >= 0 THEN Findbucket(h, op, SrchLen)
  ELSE NBUCKETS

(* onb.  1 << (NBUCKETS + 3) shifts past the width of int; the x86 shift     *)
(* masks its count and gives 2, and 2 - sizeof(union overhead) wraps.        *)
OldBytes_BugSmaller(i) == IF i = NBUCKETS THEN Capacity(0) ELSE Capacity(i) - Overhead
OldBytes(i) == IF i = NBUCKETS THEN (2 - Overhead) % WordMod ELSE Capacity(i)

\* The size up to which a smaller bucket would do.
LowerBytes(i) == IF i = 0 THEN 0 ELSE Capacity(i - 1)

\* The request still belongs to the block's bucket: krealloc returns cp itself.
StaysInPlace(h, op, n) ==
  /\ InUse(h, op)
  /\ n <= OldBytes(OldBucket(h, op)) /\ n > LowerBytes(OldBucket(h, op))

\* krealloc(cp, n) of a non-null cp and n > 0: free first, then allocate.
KreallocOutcomes(h, cp, n) ==
  IF StaysInPlace(h, cp - Overhead, n) THEN {[heap |-> h, ret |-> cp]}
  ELSE KmallocOutcomes(KfreeHeap(h, cp), n)

\* The bytes bcopy moves when the new block is another one.
CopyLen(h, cp, n) ==
  LET onb == OldBytes(OldBucket(h, cp - Overhead)) IN IF n < onb THEN n ELSE onb
=============================================================================
