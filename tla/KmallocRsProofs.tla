---------------------------- MODULE KmallocRsProofs ----------------------------
(***************************************************************************)
(* Proofs about KmallocRs.tla: the Rust port is a refinement of kmalloc.c. *)
(*                                                                         *)
(* The port differs from kmalloc.c in what its page bucket is before the   *)
(* first call, in the largest bucket (which its morecore serves), in a     *)
(* kfree that does not look at the magic number, and in a findbucket that  *)
(* may never end.  As long as no request needs the largest bucket and the  *)
(* first sbrk succeeds (BelowTop), none of it shows: its program frees     *)
(* only what it owns, and a search that ends finds what kmalloc.c's does.  *)
(* So every step of the port is one of kmalloc.c's, with the page bucket   *)
(* read as kmalloc.c has it before setup, and what KmallocProofs proves of *)
(* Kmalloc's Spec holds of the port.  A realloc that hangs leaves all as   *)
(* it was: it is seen as kmalloc.c's kfree of null.                        *)
(*                                                                         *)
(* C!op, for an operator op of KmallocHeap or Kmalloc, is op read through  *)
(* the instance; the first lemmas say it is the same operator.             *)
(***************************************************************************)
EXTENDS KmallocRs, KmallocProofs

\* The heap with the page bucket kmalloc.c starts with, which nobody reads before setup.
AsC(h) == IF h.pagesz = 0 THEN [h EXCEPT !.pagebucket = 0] ELSE h
Seen == AsC(heap)

\* kmalloc.c on the port's variables; nmalloc, of its statistics, has no part in it.
C == INSTANCE KmallocProofs WITH heap <- Seen

\* What the program asks for, by alloc or by calloc, has room in a bucket below the largest,
\* and the sbrk of the first call is not refused.
Sizes == Requests \cup {(nelem * elsize) % WordMod : nelem \in Counts, elsize \in Requests}
BelowTop == SetupMayFail = FALSE /\ \A n \in Sizes : n <= Capacity(Top - 1)

-----------------------------------------------------------------------------
(* The operators of KmallocHeap are the same in both.                        *)

\* The geometry and the search loop of kmalloc are those of kmalloc.c.
LEMMA SameSizes ==
  /\ C!Buckets = Buckets /\ C!PageBucket = PageBucket /\ C!Null = Null /\ C!MAGIC = MAGIC
  /\ C!WordMod = WordMod
  /\ \A b : C!Extent(b) = Extent(b) /\ C!Capacity(b) = Capacity(b)
            /\ C!NBlocks(b) = NBlocks(b) /\ C!SbrkAmt(b) = SbrkAmt(b)
  /\ \A n : C!Small(n) <=> Small(n)
  /\ \A n : C!FirstAmt(n) = FirstAmt(n) /\ C!LoopExit(n) = LoopExit(n)
  /\ \A h, n : C!FirstBucket(h, n) = FirstBucket(h, n)
<1>1. /\ C!Buckets = Buckets /\ C!PageBucket = PageBucket /\ C!Null = Null /\ C!MAGIC = MAGIC
      /\ C!WordMod = WordMod
  BY DEF Buckets, C!Buckets, PageBucket, C!PageBucket, Null, C!Null, MAGIC, C!MAGIC,
         WordMod, C!WordMod
<1>2. \A b : C!Extent(b) = Extent(b) /\ C!Capacity(b) = Capacity(b)
            /\ C!NBlocks(b) = NBlocks(b) /\ C!SbrkAmt(b) = SbrkAmt(b)
  BY DEF Extent, C!Extent, Capacity, C!Capacity, NBlocks, C!NBlocks, SbrkAmt, C!SbrkAmt
<1>3. \A n : C!Small(n) <=> Small(n)
  BY DEF Small, C!Small
<1>4. \A n : C!FirstAmt(n) = FirstAmt(n)
  BY <1>1, <1>3 DEF FirstAmt, C!FirstAmt
<1>5. \A n, k : C!Room(n, k) = Room(n, k)
  BY <1>3, <1>4 DEF Room, C!Room
<1>6. \A n : C!LoopExit(n) = LoopExit(n)
  BY <1>4, <1>5 DEF LoopExit, C!LoopExit
<1>7. \A h, n : C!FirstBucket(h, n) = FirstBucket(h, n)
  BY <1>3 DEF FirstBucket, C!FirstBucket
<1> QED
  BY <1>1, <1>2, <1>3, <1>4, <1>6, <1>7

\* So are a header's two bytes, and whether a block is in use.
LEMMA SameHeaders ==
  /\ \A w : C!OvMagic(w) = OvMagic(w) /\ C!OvIndex(w) = OvIndex(w)
  /\ \A w, b : C!Stamp(w, b) = Stamp(w, b)
  /\ \A h, op : C!InUse(h, op) <=> InUse(h, op)
<1>1. \A w : C!OvMagic(w) = OvMagic(w) /\ C!OvIndex(w) = OvIndex(w)
  BY DEF OvMagic, C!OvMagic, OvIndex, C!OvIndex
<1>2. \A w, b : C!Stamp(w, b) = Stamp(w, b)
  BY SameSizes DEF Stamp, C!Stamp
<1>3. \A h, op : C!InUse(h, op) <=> InUse(h, op)
  BY <1>1, SameSizes DEF InUse, C!InUse
<1> QED
  BY <1>1, <1>2, <1>3

\* So are the outcomes of kmalloc, operator by operator.
LEMMA SameOutcomes ==
  /\ \A h, b : C!Take(h, b) = Take(h, b) /\ C!Morecore(h, b) = Morecore(h, b)
  /\ \A h, b : C!SbrkCan(h, b) <=> SbrkCan(h, b)
  /\ \A h, b : C!FromBucket(h, b) = FromBucket(h, b)
  /\ \A h, n : C!AfterSetup(h, n) = AfterSetup(h, n)
  /\ \A h : C!SetupDone(h) = SetupDone(h)
  /\ \A h, n : C!KmallocOutcomes(h, n) = KmallocOutcomes(h, n)
<1>1. \A h, b : C!Take(h, b) = Take(h, b)
  BY SameHeaders, Zenon DEF Take, C!Take
<1>2. \A h, b : C!Carved(h, b) = Carved(h, b)
  BY SameSizes DEF Carved, C!Carved
<1>3. \A h, b : C!Morecore(h, b) = Morecore(h, b)
  BY Zenon DEF Morecore, C!Morecore, Carved, C!Carved, NBlocks, C!NBlocks, SbrkAmt, C!SbrkAmt,
               Null, C!Null
<1>4. \A h, b : C!SbrkCan(h, b) <=> SbrkCan(h, b)
  BY SameSizes DEF SbrkCan, C!SbrkCan
<1>5. \A h : C!Refuse(h) = Refuse(h)
  BY SameSizes DEF Refuse, C!Refuse
<1>6. \A h, b : C!FromBucket(h, b) = FromBucket(h, b)
  BY <1>1, <1>3, <1>4, <1>5, SameSizes, Zenon DEF FromBucket, C!FromBucket
<1>7. \A h, n : C!AfterSetup(h, n) = AfterSetup(h, n)
  BY <1>5, <1>6, SameSizes, Zenon DEF AfterSetup, C!AfterSetup
<1>8. \A x : C!Padding(x) = Padding(x)
  BY DEF Padding, C!Padding
<1>9. \A h : C!SetupFailed(h) = SetupFailed(h)
  BY DEF SetupFailed, C!SetupFailed
<1>10. \A h : C!SetupDone(h) = SetupDone(h)
  BY <1>8, <1>9, SameSizes, Zenon DEF SetupDone, C!SetupDone
<1>11. \A h, n : C!KmallocOutcomes(h, n) = KmallocOutcomes(h, n)
  BY <1>5, <1>7, <1>8, <1>9, <1>10, Zenon DEF KmallocOutcomes, C!KmallocOutcomes
<1> QED
  BY <1>1, <1>3, <1>4, <1>6, <1>7, <1>10, <1>11, Zenon

\* So are kfree, the walk of the free lists, and krealloc.
LEMMA SameFreeing ==
  /\ \A h, cp : C!KfreeHeap(h, cp) = KfreeHeap(h, cp)
  /\ \A h, b : C!ListNode(h, b) = ListNode(h, b)
  /\ \A h, op : C!OldBucket(h, op) = OldBucket(h, op)
  /\ \A h, op, n : C!StaysInPlace(h, op, n) <=> StaysInPlace(h, op, n)
  /\ \A h, cp, n : C!KreallocOutcomes(h, cp, n) = KreallocOutcomes(h, cp, n)
  /\ \A h, cp, n : C!CopyLen(h, cp, n) = CopyLen(h, cp, n)
<1>1. \A h, cp : C!KfreeHeap(h, cp) = KfreeHeap(h, cp)
  BY SameHeaders, ZenonT(60) DEF KfreeHeap, C!KfreeHeap
<1>2. \A h, b : C!ListNode(h, b) = ListNode(h, b)
  BY SameSizes, ZenonT(60) DEF ListNode, C!ListNode
<1>3. \A h, len : C!WalkLen(h, len) = WalkLen(h, len)
  BY Zenon DEF WalkLen, C!WalkLen, Cardinality, C!Cardinality
<1>4. \A h, b, op, len : C!OnList(h, b, op, len) <=> OnList(h, b, op, len)
  BY <1>2, <1>3, Zenon DEF OnList, C!OnList
<1>5. \A h, op, len : C!Findbucket(h, op, len) = Findbucket(h, op, len)
  <2> TAKE h, op, len
  <2>1. {b \in C!Buckets : C!OnList(h, b, op, len)} = {b \in Buckets : OnList(h, b, op, len)}
    BY <1>4, SameSizes, Zenon
  <2> DEFINE First(found) ==
        IF found = {} THEN -1 ELSE CHOOSE b \in found : \A c \in found : b <= c
  <2>2. /\ C!Findbucket(h, op, len) = First({b \in C!Buckets : C!OnList(h, b, op, len)})
        /\ Findbucket(h, op, len) = First({b \in Buckets : OnList(h, b, op, len)})
    BY Zenon DEF Findbucket, C!Findbucket
  <2> HIDE DEF First
  <2> QED
    BY <2>1, <2>2, Zenon
<1>6. \A h, op : C!OldBucket(h, op) = OldBucket(h, op)
  BY <1>5, SameHeaders, Zenon DEF OldBucket, C!OldBucket
<1>7. \A i : C!OldBytes(i) = OldBytes(i) /\ C!LowerBytes(i) = LowerBytes(i)
  BY SameSizes DEF OldBytes, C!OldBytes, LowerBytes, C!LowerBytes
<1>8. \A h, op, n : C!StaysInPlace(h, op, n) <=> StaysInPlace(h, op, n)
  BY <1>6, <1>7, SameHeaders DEF StaysInPlace, C!StaysInPlace
<1>9. \A h, cp, n : C!KreallocOutcomes(h, cp, n) = KreallocOutcomes(h, cp, n)
  BY <1>1, <1>8, SameOutcomes, Zenon DEF KreallocOutcomes, C!KreallocOutcomes
<1>10. \A h, cp, n : C!CopyLen(h, cp, n) = CopyLen(h, cp, n)
  BY <1>6, <1>7, Zenon DEF CopyLen, C!CopyLen
<1> QED
  BY <1>1, <1>2, <1>6, <1>8, <1>9, <1>10, Zenon

\* So is what it means that a heap is sound.
LEMMA SameHeapInv == \A h : C!HeapInv(h) <=> HeapInv(h)
BY DEF HeapInv, C!HeapInv, HeapType, C!HeapType, HeapAligned, C!HeapAligned, HeapDisjoint,
       C!HeapDisjoint, Apart, C!Apart, LinksTyped, C!LinksTyped, LinksUnique, C!LinksUnique,
       IndexTrue, C!IndexTrue, FreeBlocks, C!FreeBlocks, InUse, C!InUse, OvMagic, C!OvMagic,
       OvIndex, C!OvIndex, MAGIC, C!MAGIC, Extent, C!Extent, Buckets, C!Buckets, Null, C!Null,
       PageBucket, C!PageBucket

-----------------------------------------------------------------------------
(* The heap as kmalloc.c would have it.                                      *)

\* A heap of the port is a record with the fields of KmallocHeap's.
RsHeap(h) == h = [pagesz |-> h.pagesz, pagebucket |-> h.pagebucket, nextf |-> h.nextf,
                  word |-> h.word, home |-> h.home, brk |-> h.brk]

\* Only the page bucket differs, and only before setup.
LEMMA SeenFields ==
  ASSUME NEW h, RsHeap(h)
  PROVE  /\ AsC(h).pagesz = h.pagesz /\ AsC(h).nextf = h.nextf /\ AsC(h).word = h.word
         /\ AsC(h).home = h.home /\ AsC(h).brk = h.brk
         /\ h.pagesz # 0 => AsC(h) = h
         /\ \A op : InUse(AsC(h), op) <=> InUse(h, op)
BY DEF AsC, RsHeap, InUse

\* A sound heap is a record.
LEMMA SoundIsRecord ==
  ASSUME NEW h, HeapInv(h)
  PROVE  RsHeap(h)
BY DEF HeapInv, HeapType, RsHeap

\* kfree, which looks at the magic number with a kassert! only, does to a block in use what
\* kmalloc.c's does.
LEMMA KfreeSame ==
  ASSUME NEW h, RsHeap(h), NEW cp, InUse(h, cp - Overhead)
  PROVE  RsKfree(h, cp) = KfreeHeap(h, cp)
BY DEF RsKfree, KfreeHeap

\* kfree leaves the page bucket alone: it does the same to the heap as kmalloc.c would have it.
LEMMA KfreeSeen ==
  ASSUME NEW h, RsHeap(h), NEW cp
  PROVE  AsC(KfreeHeap(h, cp)) = KfreeHeap(AsC(h), cp) /\ RsHeap(KfreeHeap(h, cp))
<1> DEFINE op == cp - Overhead
           b  == OvIndex(h.word[op])
           g  == [h EXCEPT !.word[op] = h.nextf[b], !.nextf[b] = op]
<1>1. CASE ~InUse(h, op)
  <2>1. KfreeHeap(h, cp) = h
    BY <1>1 DEF KfreeHeap
  <2>2. KfreeHeap(AsC(h), cp) = AsC(h)
    BY <1>1, SeenFields DEF KfreeHeap
  <2> QED BY <2>1, <2>2
<1>2. CASE InUse(h, op)
  <2>1. KfreeHeap(h, cp) = g
    BY <1>2 DEF KfreeHeap
  <2>2. KfreeHeap(AsC(h), cp) = [AsC(h) EXCEPT !.word[op] = h.nextf[b], !.nextf[b] = op]
    BY <1>2, SeenFields DEF KfreeHeap
  <2>3. /\ g.pagesz = h.pagesz /\ g.pagebucket = h.pagebucket /\ g.home = h.home /\ g.brk = h.brk
        /\ RsHeap(g)
    <3> HIDE DEF b, op
    <3>1. g = [pagesz |-> h.pagesz, pagebucket |-> h.pagebucket,
               nextf |-> [h.nextf EXCEPT ![b] = op], word |-> [h.word EXCEPT ![op] = h.nextf[b]],
               home |-> h.home, brk |-> h.brk]
      <4>1. /\ DOMAIN h = {"pagesz", "pagebucket", "nextf", "word", "home", "brk"}
            /\ h = [x \in DOMAIN h |-> h[x]]
        BY DEF RsHeap
      <4>2. DOMAIN g = DOMAIN h /\ g = [x \in DOMAIN g |-> g[x]]
        OBVIOUS
      <4>3. /\ g.pagesz = h.pagesz /\ g.pagebucket = h.pagebucket
            /\ g.home = h.home /\ g.brk = h.brk
        BY <4>1
      <4>4. g.nextf = [h.nextf EXCEPT ![b] = op]
        BY <4>1
      <4>5. g.word = [h.word EXCEPT ![op] = h.nextf[b]]
        BY <4>1
      <4> HIDE DEF g
      <4> QED BY <4>1, <4>2, <4>3, <4>4, <4>5
    <3> HIDE DEF g
    <3> QED BY <3>1 DEF RsHeap
  <2>4. CASE h.pagesz # 0
    BY <2>1, <2>2, <2>3, <2>4, SeenFields
  <2>5. CASE h.pagesz = 0
    <3>1. AsC(h) = [h EXCEPT !.pagebucket = 0] /\ AsC(g) = [g EXCEPT !.pagebucket = 0]
      BY <2>3, <2>5 DEF AsC
    <3>2. [AsC(h) EXCEPT !.word[op] = h.nextf[b], !.nextf[b] = op] = [g EXCEPT !.pagebucket = 0]
      BY <3>1 DEF RsHeap
    <3> QED BY <2>1, <2>2, <2>3, <3>1, <3>2
  <2> QED BY <2>4, <2>5
<1> QED BY <1>1, <1>2

-----------------------------------------------------------------------------
(* kmalloc.                                                                  *)

\* An outcome of the port as kmalloc.c would have it.
AsOutcome(r) == [heap |-> r.heap, ret |-> r.ret]
SameAsC(r, S) == r.stop = "no" /\ AsOutcome(r) \in S

\* Any bucket but the largest is used as in kmalloc.c.
LEMMA FromBucketSame ==
  ASSUME NEW h, NEW b \in 0 .. Top - 1, NEW r \in RsFromBucket(h, b)
  PROVE  SameAsC(r, FromBucket(h, b))
<1>1. b # -1 /\ b # Top /\ b < Top
  BY GeometryAssumption, SMT
<1>2. RsSbrkCan(h, b) <=> SbrkCan(h, b)
  BY <1>1 DEF RsSbrkCan, RsSbrkAmt, SbrkCan
<1>3. RsMorecore(h, b) = Morecore(h, b)
  BY <1>1 DEF RsMorecore
<1>4. ASSUME NEW g, r = RsTaken(g, b)
      PROVE  r.stop = "no" /\ AsOutcome(r) = Take(g, b)
  BY <1>4 DEF RsTaken, Outcome, AsOutcome, Take
<1>5. ASSUME r = Outcome(h, Null, "no")
      PROVE  r.stop = "no" /\ AsOutcome(r) = Refuse(h)
  BY <1>5 DEF Outcome, AsOutcome, Refuse
<1>6. CASE h.nextf[b] # Null
  <2>1. r = RsTaken(h, b) /\ FromBucket(h, b) = {Take(h, b)}
    BY <1>1, <1>6 DEF RsFromBucket, FromBucket
  <2> QED BY <2>1, <1>4 DEF SameAsC
<1>7. CASE h.nextf[b] = Null
  <2>1. \/ r = Outcome(h, Null, "no")
        \/ SbrkCan(h, b) /\ r = RsTaken(Morecore(h, b), b)
    BY <1>1, <1>2, <1>3, <1>7 DEF RsFromBucket
  <2>2. /\ Refuse(h) \in FromBucket(h, b)
        /\ SbrkCan(h, b) => Take(Morecore(h, b), b) \in FromBucket(h, b)
    BY <1>7 DEF FromBucket
  <2> QED BY <2>1, <2>2, <1>4, <1>5 DEF SameAsC
<1> QED BY <1>6, <1>7

\* A size with room below the largest bucket gets one below it.
LEMMA AfterSetupSame ==
  ASSUME NEW h, h.pagebucket = PageBucket, NEW n \in Nat, n <= Capacity(Top - 1),
         NEW r \in RsAfterSetup(h, n)
  PROVE  SameAsC(r, AfterSetup(h, n))
<1>1. CASE LoopExit(n) = {}
  <2>1. r = Outcome(h, Null, "no") /\ AfterSetup(h, n) = {Refuse(h)}
    BY <1>1 DEF RsAfterSetup, AfterSetup
  <2> QED BY <2>1 DEF Outcome, AsOutcome, Refuse, SameAsC
<1>2. CASE LoopExit(n) # {}
  <2>1. PICK k \in LoopExit(n) : r \in RsFromBucket(h, FirstBucket(h, n) + k)
    BY <1>2 DEF RsAfterSetup
  <2> DEFINE b == FirstBucket(h, n) + k
  <2>2. b \in 0 .. Top /\ (b > 0 => n > Capacity(b - 1))
    BY LoopBucket
  <2>3. b \in 0 .. Top - 1
    <3> HIDE DEF b
    <3>1. Top \in Nat /\ Top > 0
      BY GeometryAssumption, SMT
    <3>2. Capacity(Top - 1) \in Int
      BY <3>1, CapacityTyped, SMT
    <3>3. b # Top
      BY <2>2, <3>1, <3>2, SMT
    <3> QED BY <2>2, <3>1, <3>3, SMT
  <2>4. SameAsC(r, FromBucket(h, b))
    BY <2>1, <2>3, FromBucketSame
  <2>5. FromBucket(h, b) \subseteq AfterSetup(h, n)
    BY <1>2 DEF AfterSetup
  <2> QED BY <2>4, <2>5 DEF SameAsC
<1> QED BY <1>1, <1>2

\* After a call of kmalloc that is not refused for good the page size is known.
LEMMA OutcomeSetUp ==
  ASSUME NEW h, h.pagesz # 0, RsHeap(h), NEW n, NEW r \in AfterSetup(h, n)
  PROVE  r.heap.pagesz = h.pagesz
<1>1. ASSUME NEW g, g.pagesz = h.pagesz, RsHeap(g), NEW b
      PROVE  Take(g, b).heap.pagesz = h.pagesz
  BY <1>1 DEF Take, RsHeap
<1>2. ASSUME NEW b
      PROVE  Morecore(h, b).pagesz = h.pagesz /\ RsHeap(Morecore(h, b))
  <2> DEFINE m == Morecore(h, b)
  <2>1. /\ DOMAIN m = DOMAIN h /\ m = [x \in DOMAIN m |-> m[x]]
        /\ m.pagesz = h.pagesz
    BY DEF Morecore, RsHeap
  <2>2. DOMAIN h = {"pagesz", "pagebucket", "nextf", "word", "home", "brk"}
    BY DEF RsHeap
  <2> HIDE DEF m
  <2> QED BY <2>1, <2>2 DEF RsHeap, m
<1>3. ASSUME NEW b, r \in FromBucket(h, b)
      PROVE  r.heap.pagesz = h.pagesz
  <2>1. r = Take(h, b) \/ r = Refuse(h) \/ r = Take(Morecore(h, b), b)
    BY <1>3 DEF FromBucket
  <2> QED BY <2>1, <1>1, <1>2 DEF Refuse
<1> QED BY <1>3 DEF AfterSetup, Refuse

\* kmalloc of the port on a heap and kmalloc of kmalloc.c on what it would have there.
LEMMA KmallocSame ==
  ASSUME SetupMayFail = FALSE, NEW h, RsHeap(h), HeapInv(AsC(h)), SetUp(AsC(h)),
         NEW n \in Nat, n <= Capacity(Top - 1), NEW r \in RsKmalloc(h, n)
  PROVE  SameAsC(r, KmallocOutcomes(AsC(h), n)) /\ AsC(r.heap) = r.heap /\ RsHeap(r.heap)
<1>1. PICK g : /\ r \in RsAfterSetup(g, n) /\ KmallocOutcomes(AsC(h), n) = AfterSetup(g, n)
               /\ g.pagebucket = PageBucket /\ g.pagesz # 0 /\ RsHeap(g)
  <2>1. CASE h.pagesz # 0
    <3>1. AsC(h) = h
      BY <2>1, SeenFields
    <3>2. r \in RsAfterSetup(h, n) /\ KmallocOutcomes(AsC(h), n) = AfterSetup(h, n)
      BY <2>1, <3>1 DEF RsKmalloc, KmallocOutcomes
    <3> QED BY <2>1, <3>1, <3>2 DEF SetUp
  <2>2. CASE h.pagesz = 0
    <3> DEFINE g == SetupDone(AsC(h))
    <3>1. g = SetupDone(h)
      <4>1. AsC(h) = [h EXCEPT !.pagebucket = 0]
        BY <2>2 DEF AsC
      <4> QED BY <4>1 DEF RsHeap, SetupDone, SetupFailed
    <3>2. r \in RsAfterSetup(g, n)
      BY <2>2, <3>1 DEF RsKmalloc
    <3>3. KmallocOutcomes(AsC(h), n) = AfterSetup(g, n)
      BY <2>2, SeenFields DEF KmallocOutcomes
    <3>4. HeapInv(g) /\ g.pagebucket = PageBucket /\ g.pagesz # 0
      BY SetupDoneInv
    <3> QED BY <3>2, <3>3, <3>4, SoundIsRecord
  <2> QED BY <2>1, <2>2
<1>2. SameAsC(r, KmallocOutcomes(AsC(h), n))
  BY <1>1, AfterSetupSame
<1>3. AsOutcome(r).heap = r.heap
  BY DEF AsOutcome
<1>4. HeapInv(r.heap)
  BY <1>2, <1>3, KmallocInv DEF SameAsC, Allocates
<1>5. r.heap.pagesz # 0
  BY <1>1, <1>2, <1>3, OutcomeSetUp DEF SameAsC
<1> QED BY <1>2, <1>4, <1>5, SoundIsRecord, SeenFields

-----------------------------------------------------------------------------
(* findbucket.                                                               *)

\* What the port's search finds, without hanging, kmalloc.c's search of one block per list
\* finds too, and where it finds nothing there is nothing to find.
LEMMA SearchSame ==
  ASSUME NEW h, HeapInv(h), NEW op \in DOMAIN h.home, RsOldBucket(h, op) # Hung
  PROVE  RsOldBucket(h, op) = OldBucket(h, op)
<1> DEFINE ends(len) == {b \in Buckets : AtList(h.nextf[b], op, len) # "next"}
           first(len) == CHOOSE x \in ends(len) : \A y \in ends(len) : x <= y
<1>1. op # Null /\ Buckets \subseteq Nat /\ 0 \in Buckets
  BY HeapFacts, GeometryAssumption DEF Null, Buckets
<1>2. ASSUME NEW len, ends(len) # {}
      PROVE  /\ first(len) \in ends(len) /\ \A y \in ends(len) : first(len) <= y
             /\ RsFindbucket(h, op, len) =
                  IF AtList(h.nextf[first(len)], op, len) = "found" THEN first(len) ELSE Hung
  <2>1. ends(len) \in SUBSET Nat
    BY <1>1
  <2>2. \E x \in ends(len) : \A y \in ends(len) : x <= y
    BY <1>2, <2>1, LeastNumber
  <2> QED BY <1>2, <2>2 DEF RsFindbucket
<1>3. ASSUME NEW len, ends(len) = {}
      PROVE  RsFindbucket(h, op, len) = -1
  BY <1>3 DEF RsFindbucket
<1>4. SUFFICES ASSUME ~InUse(h, op) PROVE RsOldBucket(h, op) = OldBucket(h, op)
  BY DEF RsOldBucket, OldBucket
<1> DEFINE s1 == RsFindbucket(h, op, 1)
           s2 == RsFindbucket(h, op, SrchLen)
<1>5. /\ s1 # Hung /\ s2 # Hung
      /\ RsOldBucket(h, op) = IF s1 < 0 /\ s2 < 0 THEN NBUCKETS ELSE s1
  BY <1>4 DEF RsOldBucket, RsSearches
<1>6. \A b \in Buckets : h.nextf[b] = op => Findbucket(h, op, 1) = b
  <2> SUFFICES ASSUME NEW b \in Buckets, h.nextf[b] = op PROVE Findbucket(h, op, 1) = b
    OBVIOUS
  <2>1. OnList(h, b, op, 1)
    <3>1. ListNode(h, b)[0] = h.nextf[b]
      BY HeapFacts, ListNodeSteps
    <3>2. WalkLen(h, 1) = 1 /\ 0 \in 0 .. 1 - 1
      BY SMT DEF WalkLen
    <3> QED BY <3>1, <3>2 DEF OnList
  <2>2. Findbucket(h, op, 1) >= 0
    <3> DEFINE found == {c \in Buckets : OnList(h, c, op, 1)}
    <3>1. found \in SUBSET Nat /\ found # {}
      BY <1>1, <2>1
    <3>2. Findbucket(h, op, 1) = CHOOSE c \in found : \A d \in found : c <= d
      BY <3>1 DEF Findbucket
    <3> HIDE DEF found
    <3>3. Findbucket(h, op, 1) \in found
      BY <3>1, <3>2, LeastNumber
    <3>4. Findbucket(h, op, 1) \in Nat
      BY <3>1, <3>3
    <3> QED BY <3>4, SMT
  <2>3. b = h.home[op]
    BY <1>1 DEF HeapInv, LinksTyped, FreeBlocks
  <2> QED BY <2>2, <2>3, FindbucketTrue
<1>7. CASE ends(1) # {}
  <2> DEFINE b == first(1)
  <2>1. AtList(h.nextf[b], op, 1) = "found" /\ s1 = b /\ b \in Buckets
    BY <1>2, <1>5, <1>7
  <2>2. h.nextf[b] = op
    BY <2>1, Zenon DEF AtList
  <2>3. Findbucket(h, op, 1) = b /\ b \in Nat
    BY <1>1, <1>6, <2>1, <2>2
  <2> HIDE DEF b, s1, s2
  <2>4. RsOldBucket(h, op) = b
    BY <1>5, <2>1, <2>3, SMT
  <2>5. OldBucket(h, op) = b
    BY <1>4, <2>3, SMT DEF OldBucket
  <2> QED BY <2>4, <2>5
<1>8. CASE ends(1) = {}
  <2>1. \A b \in Buckets : h.nextf[b] \notin {op, Null}
    BY <1>1, <1>8 DEF AtList, Inter
  <2>2. s1 = -1
    BY <1>3, <1>8
  <2>3. SrchLen \in {0, 1}
    <3> SUFFICES ASSUME SrchLen \notin {0, 1} PROVE FALSE
      OBVIOUS
    <3>1. \A b \in Buckets : AtList(h.nextf[b], op, SrchLen) = "hung"
      BY <2>1 DEF AtList, Inter
    <3>2. 0 \in ends(SrchLen)
      BY <1>1, <3>1
    <3>3. first(SrchLen) \in Buckets
      BY <1>2, <3>2
    <3>4. s2 = Hung
      BY <1>2, <3>1, <3>2, <3>3
    <3> QED BY <1>5, <3>4
  <2>4. ends(SrchLen) = {}
    <3>1. CASE SrchLen = 0
      BY <3>1 DEF AtList, Inter
    <3>2. CASE SrchLen = 1
      BY <1>8, <3>2
    <3> QED BY <2>3, <3>1, <3>2
  <2>5. s2 = -1
    BY <1>3, <2>4
  <2>6. RsOldBucket(h, op) = NBUCKETS
    <3> HIDE DEF s1, s2
    <3> QED BY <1>5, <2>2, <2>5, SMT
  <2>7. \A len \in {0, 1} : Findbucket(h, op, len) = -1
    <3> SUFFICES ASSUME NEW len \in {0, 1}, NEW b \in Buckets, OnList(h, b, op, len) PROVE FALSE
      BY DEF Findbucket
    <3>1. PICK j \in 0 .. WalkLen(h, len) - 1 : ListNode(h, b)[j] = op
      BY DEF OnList
    <3>2. j = 0
      BY <3>1, SMT DEF WalkLen
    <3>3. ListNode(h, b)[0] = h.nextf[b]
      BY HeapFacts, ListNodeSteps
    <3> QED BY <2>1, <3>1, <3>2, <3>3
  <2>8. OldBucket(h, op) = NBUCKETS
    <3>1. Findbucket(h, op, 1) = -1 /\ Findbucket(h, op, SrchLen) = -1
      BY <2>3, <2>7
    <3> QED BY <1>4, <3>1, SMT DEF OldBucket
  <2> QED BY <2>6, <2>8
<1> QED BY <1>7, <1>8

-----------------------------------------------------------------------------
(* The steps.                                                                *)

\* What the proof carries: kmalloc.c's invariant of the heap as it would have it.
RsInv == C!FitInv /\ RsHeap(heap)

\* What the invariant says of the port's heap and of its program's pointers.
LEMMA WhatInvSays ==
  ASSUME RsInv
  PROVE  /\ RsHeap(heap) /\ HeapInv(Seen) /\ SetUp(Seen)
         /\ \A p \in DOMAIN live \cup DOMAIN stale :
              p \in Nat /\ p # Null /\ p - Overhead \in DOMAIN Seen.home
         /\ \A p \in DOMAIN live : InUse(heap, p - Overhead)
         /\ live \in [DOMAIN live -> Nat] /\ stale \in [DOMAIN stale -> Nat]
<1>1. /\ RsHeap(heap) /\ C!HeapInv(Seen) /\ C!SetUp(Seen)
      /\ C!Owns(Seen, DOMAIN live, DOMAIN stale) /\ C!TypeOK
  BY DEF RsInv, C!FitInv, C!IInv
<1>2. HeapInv(Seen) /\ SetUp(Seen)
  BY <1>1, SameHeapInv, SameSizes DEF C!SetUp, SetUp
<1>3. /\ \A p \in DOMAIN live \cup DOMAIN stale : p \in Nat /\ p - Overhead \in DOMAIN Seen.home
      /\ {a \in DOMAIN Seen.home : InUse(Seen, a)} = {p - Overhead : p \in DOMAIN live}
  BY <1>1, SameHeaders DEF C!Owns, C!Used
<1>4. \A p \in DOMAIN live : InUse(heap, p - Overhead)
  BY <1>1, <1>3, SeenFields DEF Seen
<1>5. ASSUME NEW p \in DOMAIN live \cup DOMAIN stale
      PROVE  p # Null
  <2>1. p - Overhead \in Nat \ {0} /\ p \in Nat
    BY <1>2, <1>3, HeapFacts
  <2> QED BY <2>1, GeometryAssumption, SMT DEF Null
<1>6. live \in [DOMAIN live -> Nat] /\ stale \in [DOMAIN stale -> Nat]
  BY <1>1 DEF C!TypeOK
<1> QED BY <1>1, <1>2, <1>3, <1>4, <1>5, <1>6

\* The sizes the program asks for, by alloc and by calloc, are among those BelowTop bounds.
LEMMA SizesTyped ==
  /\ \A n \in Requests : n \in Nat /\ n \in Sizes
  /\ \A nelem \in Counts, elsize \in Requests :
       (nelem * elsize) % WordMod \in Nat /\ (nelem * elsize) % WordMod \in Sizes
<1>1. Requests \subseteq Nat /\ Counts \subseteq Nat
  BY ClientAssumption
<1> QED BY <1>1, ProductWraps DEF Sizes

\* alloc is a kmalloc.
LEMMA AllocIs ==
  ASSUME BelowTop, RsInv, NEW n \in Requests, Alloc(n)
  PROVE  C!Kmalloc(n) /\ RsHeap(heap')
<1>1. PICK r \in RsKmalloc(heap, n) : Alloc(n)!(r)
  BY DEF Alloc
<1>2. SameAsC(r, KmallocOutcomes(Seen, n)) /\ AsC(r.heap) = r.heap /\ RsHeap(r.heap)
  BY <1>1, WhatInvSays, SizesTyped, KmallocSame DEF BelowTop, Seen
<1> DEFINE q == AsOutcome(r)
<1>3. q \in C!KmallocOutcomes(Seen, n) /\ q.heap = r.heap /\ q.ret = r.ret
  BY <1>2, SameOutcomes DEF SameAsC, AsOutcome
<1>4. Seen' = q.heap
  BY <1>1, <1>2, <1>3 DEF Seen, AsC
<1>5. C!Obtain(q.ret, n)
  BY <1>1, <1>3 DEF Obtain, C!Obtain, Put, C!Put, Drop, C!Drop, Null, C!Null,
                    Cardinality, C!Cardinality
<1>6. copied' = C!NoCopy /\ UNCHANGED fault
  BY <1>1 DEF NoCopy, C!NoCopy
<1> HIDE DEF q
<1> QED BY <1>1, <1>2, <1>3, <1>4, <1>5, <1>6 DEF C!Kmalloc

\* The same for calloc.
LEMMA RsKcallocIs ==
  ASSUME BelowTop, RsInv, NEW nelem \in Counts, NEW elsize \in Requests, RsKcalloc(nelem, elsize)
  PROVE  C!Kcalloc(nelem, elsize) /\ RsHeap(heap')
<1> DEFINE n == (nelem * elsize) % WordMod
<1>0. n \in Nat /\ n \in Sizes /\ n = (nelem * elsize) % C!WordMod
  BY SizesTyped, SameSizes
<1>1. PICK r \in RsKmalloc(heap, n) :
        /\ heap' = r.heap /\ Obtain(r.ret, n)
        /\ fault' = (r.stop = "no" /\ r.ret = Null /\ n > 0)
        /\ copied' = NoCopy
  BY DEF RsKcalloc
<1> HIDE DEF n
<1>2. SameAsC(r, KmallocOutcomes(Seen, n)) /\ AsC(r.heap) = r.heap /\ RsHeap(r.heap)
  BY <1>0, <1>1, WhatInvSays, KmallocSame DEF BelowTop, Seen
<1> DEFINE q == AsOutcome(r)
<1>3. q \in C!KmallocOutcomes(Seen, n) /\ q.heap = r.heap /\ q.ret = r.ret
  BY <1>2, SameOutcomes DEF SameAsC, AsOutcome
<1>4. Seen' = q.heap
  BY <1>1, <1>2, <1>3 DEF Seen, AsC
<1>5. C!Obtain(q.ret, n)
  BY <1>1, <1>3 DEF Obtain, C!Obtain, Put, C!Put, Drop, C!Drop, Null, C!Null,
                    Cardinality, C!Cardinality
<1>6. copied' = C!NoCopy /\ fault' = (q.ret = C!Null /\ n > 0)
  BY <1>1, <1>2, <1>3 DEF NoCopy, C!NoCopy, Null, C!Null, SameAsC
<1> HIDE DEF q
<1> QED BY <1>0, <1>1, <1>2, <1>3, <1>4, <1>5, <1>6 DEF C!Kcalloc

\* dealloc is a kfree.
LEMMA DeallocIs ==
  ASSUME RsInv, NEW cp \in DOMAIN live, Dealloc(cp)
  PROVE  C!Kfree(cp) /\ RsHeap(heap')
<1>1. RsHeap(heap) /\ InUse(heap, cp - Overhead) /\ cp # Null
  BY WhatInvSays
<1>2. heap' = KfreeHeap(heap, cp)
  BY <1>1, KfreeSame DEF Dealloc
<1>3. AsC(heap') = KfreeHeap(Seen, cp) /\ RsHeap(heap')
  BY <1>1, <1>2, KfreeSeen DEF Seen
<1>4. Seen' = C!KfreeHeap(Seen, cp)
  BY <1>3, SameFreeing DEF Seen, AsC
<1> QED
  BY <1>1, <1>3, <1>4 DEF Dealloc, C!Kfree, Put, C!Put, Drop, C!Drop, NoCopy, C!NoCopy, Null, C!Null

\* realloc of some bytes is a krealloc, unless its search never ends: the program is then
\* left as it was.
LEMMA RsResizeIs ==
  ASSUME BelowTop, RsInv, NEW cp \in DOMAIN live \cup DOMAIN stale, NEW n \in Requests,
         RsResize(cp, n)
  PROVE  (C!Resize(cp, n) \/ C!Kfree(C!Null)) /\ RsHeap(heap')
<1> DEFINE op  == cp - Overhead
           had == IF cp \in DOMAIN live THEN live[cp] ELSE stale[cp]
<1>1. PICK r \in RsRealloc(heap, cp, n) :
        /\ heap' = r.heap
        /\ IF r.ret = Null
           THEN /\ live' = IF r.stop = "hung" THEN live ELSE Drop(live, {cp})
                /\ stale' = IF r.stop = "hung" THEN stale ELSE Put(stale, cp, had)
           ELSE /\ live' = Put(Drop(live, {cp}), r.ret, n)
                /\ stale' = Drop(stale, {cp, r.ret})
        /\ copied' = IF r.ret \in {Null, cp} THEN NoCopy
                     ELSE [src |-> cp, dst |-> r.ret, len |-> RsCopyLen(heap, cp, n),
                           had |-> had, known |-> RsOldBucket(heap, op) # NBUCKETS]
        /\ UNCHANGED fault
  BY DEF RsResize
<1>2. /\ RsHeap(heap) /\ HeapInv(Seen) /\ SetUp(Seen) /\ op \in DOMAIN Seen.home /\ cp # Null
      /\ Null \notin DOMAIN live
      /\ live \in [DOMAIN live -> Nat] /\ stale \in [DOMAIN stale -> Nat]
  BY WhatInvSays
<1>3. CASE RsOldBucket(heap, op) = Hung
  <2>1. r = Outcome(heap, Null, "hung")
    BY <1>3 DEF RsRealloc
  <2>2. heap' = heap /\ live' = live /\ stale' = stale /\ copied' = NoCopy /\ fault' = fault
    BY <1>1, <2>1 DEF Outcome
  <2>3. Drop(live, {Null}) = live
    BY <1>2 DEF Drop
  <2>4. C!Kfree(C!Null)
    BY <1>2, <2>2, <2>3 DEF C!Kfree, C!Drop, Drop, Seen, AsC, NoCopy, C!NoCopy, Null, C!Null
  <2> QED BY <1>2, <2>2, <2>4
<1>4. CASE RsOldBucket(heap, op) # Hung
  <2>1. RsOldBucket(heap, op) = OldBucket(Seen, op)
    <3>1. RsOldBucket(heap, op) = RsOldBucket(Seen, op)
      <4> DEFINE ends(N, len) == {b \in Buckets : AtList(N[b], op, len) # "next"}
                 search(N, len) ==
                   IF ends(N, len) = {} THEN -1
                   ELSE LET b == CHOOSE x \in ends(N, len) : \A y \in ends(N, len) : x <= y
                        IN  IF AtList(N[b], op, len) = "found" THEN b ELSE Hung
      <4>1. \A h, len : RsFindbucket(h, op, len) = search(h.nextf, len)
        BY Zenon DEF RsFindbucket
      <4> HIDE DEF search
      <4>2. heap.nextf = Seen.nextf /\ heap.word = Seen.word
        BY <1>2, SeenFields DEF Seen
      <4>3. \A len : RsFindbucket(heap, op, len) = RsFindbucket(Seen, op, len)
        BY <4>1, <4>2, Zenon
      <4>4. RsSearches(heap, op) = RsSearches(Seen, op)
        BY <4>3 DEF RsSearches
      <4> QED BY <4>2, <4>4, Zenon DEF RsOldBucket, InUse
    <3> QED BY <1>2, <1>4, <3>1, SearchSame
  <2>2. RsCopyLen(heap, cp, n) = C!CopyLen(Seen, cp, n)
    BY <2>1, SameFreeing DEF RsCopyLen, CopyLen
  <2> DEFINE q == [heap |-> AsC(r.heap), ret |-> r.ret]
  <2>3. r.stop = "no" /\ q \in KreallocOutcomes(Seen, cp, n) /\ RsHeap(r.heap)
    <3>1. InUse(heap, op) <=> InUse(Seen, op)
      BY <1>2, SeenFields DEF Seen
    <3>2. RsStaysInPlace(heap, op, n) <=> StaysInPlace(Seen, op, n)
      BY <1>2, <3>1, SeenFields DEF RsStaysInPlace, StaysInPlace, OldBucket, Seen
    <3>3. CASE RsStaysInPlace(heap, op, n)
      <4>1. r = Outcome(heap, cp, "no")
        BY <1>4, <3>3 DEF RsRealloc
      <4>2. KreallocOutcomes(Seen, cp, n) = {[heap |-> Seen, ret |-> cp]}
        BY <3>2, <3>3 DEF KreallocOutcomes
      <4> QED BY <1>2, <4>1, <4>2 DEF Outcome, Seen
    <3>4. CASE ~RsStaysInPlace(heap, op, n)
      <4> DEFINE g == KfreeHeap(heap, cp)
      <4>1. g = IF InUse(heap, op) THEN RsKfree(heap, cp) ELSE heap
        BY <1>2, KfreeSame, Zenon DEF KfreeHeap
      <4>2. r \in RsKmalloc(g, n)
        BY <1>4, <3>4, <4>1 DEF RsRealloc
      <4>3. AsC(g) = KfreeHeap(Seen, cp) /\ RsHeap(g)
        BY <1>2, KfreeSeen DEF Seen
      <4>4. HeapInv(AsC(g))
        BY <1>2, <4>3, KfreeInv
      <4>5. SetUp(AsC(g))
        <5>1. /\ KfreeHeap(Seen, cp).pagesz = Seen.pagesz
              /\ KfreeHeap(Seen, cp).pagebucket = Seen.pagebucket
          <6>1. RsHeap(Seen)
            BY <1>2, SoundIsRecord
          <6> QED BY <6>1 DEF KfreeHeap, RsHeap
        <5> QED BY <1>2, <4>3, <5>1 DEF SetUp
      <4> HIDE DEF g
      <4>6. SameAsC(r, KmallocOutcomes(AsC(g), n)) /\ AsC(r.heap) = r.heap /\ RsHeap(r.heap)
        BY <4>2, <4>3, <4>4, <4>5, SizesTyped, KmallocSame DEF BelowTop
      <4>7. KreallocOutcomes(Seen, cp, n) = KmallocOutcomes(AsC(g), n)
        BY <3>2, <3>4, <4>3 DEF KreallocOutcomes
      <4> QED BY <4>6, <4>7 DEF SameAsC, AsOutcome
    <3> QED BY <3>3, <3>4
  <2>4. q \in C!KreallocOutcomes(Seen, cp, n) /\ Seen' = q.heap /\ q.ret = r.ret
    BY <1>1, <2>3, SameFreeing DEF Seen, AsC
  <2>5. /\ IF q.ret = C!Null
           THEN live' = C!Drop(live, {cp}) /\ stale' = C!Put(stale, cp, had)
           ELSE /\ live' = C!Put(C!Drop(live, {cp}), q.ret, n)
                /\ stale' = C!Drop(stale, {cp, q.ret})
        /\ copied' = IF q.ret \in {C!Null, cp} THEN C!NoCopy
                     ELSE [src |-> cp, dst |-> q.ret, len |-> C!CopyLen(Seen, cp, n), had |-> had,
                           known |-> C!OldBucket(Seen, cp - Overhead) # NBUCKETS]
        /\ UNCHANGED fault
    <3>1. C!OldBucket(Seen, cp - Overhead) = RsOldBucket(heap, op)
      BY <2>1, SameFreeing
    <3> HIDE DEF q, had
    <3>2. C!Null = Null /\ C!NoCopy = NoCopy
      BY DEF C!Null, Null, C!NoCopy, NoCopy
    <3>3. r.stop # "hung"
      BY <2>3
    <3> QED BY <1>1, <2>2, <2>4, <3>1, <3>2, <3>3, ZenonT(60) DEF Put, C!Put, Drop, C!Drop
  <2> HIDE DEF q
  <2>6. C!Resize(cp, n)
    BY <2>4, <2>5 DEF C!Resize
  <2>7. RsHeap(heap')
    BY <1>1, <2>3
  <2> QED BY <2>6, <2>7
<1> QED BY <1>3, <1>4

\* Other code's sbrk is the same.
LEMMA ForeignIs ==
  ASSUME RsInv, NEW k, ForeignSbrk(k)
  PROVE  C!ForeignSbrk(k) /\ RsHeap(heap')
<1>1. RsHeap(heap)
  BY WhatInvSays
<1>2. heap' = [heap EXCEPT !.brk = heap.brk + k]
  BY DEF ForeignSbrk
<1>3. RsHeap(heap') /\ heap'.pagesz = heap.pagesz
  <2> DEFINE g == [heap EXCEPT !.brk = heap.brk + k]
  <2>1. DOMAIN g = DOMAIN heap /\ g = [x \in DOMAIN g |-> g[x]] /\ g.pagesz = heap.pagesz
    BY <1>1 DEF RsHeap
  <2>2. DOMAIN heap = {"pagesz", "pagebucket", "nextf", "word", "home", "brk"}
    BY <1>1 DEF RsHeap
  <2> HIDE DEF g
  <2> QED BY <1>2, <2>1, <2>2 DEF RsHeap, g
<1>4. Seen' = [Seen EXCEPT !.brk = Seen.brk + k]
  <2>1. Seen' = AsC(heap')
    BY DEF Seen, AsC
  <2>2. CASE heap.pagesz # 0
    BY <1>2, <1>3, <2>1, <2>2 DEF AsC, Seen
  <2>3. CASE heap.pagesz = 0
    <3>1. Seen = [heap EXCEPT !.pagebucket = 0] /\ Seen' = [heap' EXCEPT !.pagebucket = 0]
      BY <1>3, <2>1, <2>3 DEF AsC, Seen
    <3>2. Seen.brk = heap.brk
      BY <1>1, SeenFields DEF Seen
    <3> QED BY <1>1, <1>2, <3>1, <3>2 DEF RsHeap
  <2> QED BY <2>2, <2>3
<1> QED BY <1>1, <1>3, <1>4, SeenFields DEF ForeignSbrk, C!ForeignSbrk, NoCopy, C!NoCopy, Seen

\* Every step of the port is one of kmalloc.c's, or none.
LEMMA StepIs ==
  ASSUME BelowTop, RsInv, [RsNext]_rsvars
  PROVE  [C!Next]_(C!vars) /\ RsHeap(heap)'
<1>0. C!Pointers = {C!Null} \cup DOMAIN live \cup DOMAIN stale
  BY DEF C!Pointers
<1> SUFFICES /\ (~fault /\ C!Calls(Requests, Counts, ForeignMoves)) \/ UNCHANGED C!vars
             /\ RsHeap(heap')
  BY DEF C!Next
<1>1. CASE UNCHANGED rsvars
  BY <1>1, WhatInvSays DEF rsvars, vars, C!vars, Seen, AsC
<1>2. ASSUME NEW n \in Requests, Alloc(n)
      PROVE  C!Calls(Requests, Counts, ForeignMoves) /\ RsHeap(heap')
  BY <1>2, AllocIs DEF C!Calls
<1>3. ASSUME NEW cp \in DOMAIN live, Dealloc(cp)
      PROVE  C!Calls(Requests, Counts, ForeignMoves) /\ RsHeap(heap')
  BY <1>0, <1>3, DeallocIs DEF C!Calls
<1>4. ASSUME NEW nelem \in Counts, NEW elsize \in Requests, RsKcalloc(nelem, elsize)
      PROVE  C!Calls(Requests, Counts, ForeignMoves) /\ RsHeap(heap')
  BY <1>4, RsKcallocIs DEF C!Calls
<1>5. ASSUME NEW cp \in DOMAIN live \cup DOMAIN stale, NEW n \in Requests, RsReallocCall(cp, n)
      PROVE  C!Calls(Requests, Counts, ForeignMoves) /\ RsHeap(heap')
  <2>1. CASE cp \in DOMAIN live /\ Dealloc(cp)
    BY <1>3, <2>1
  <2>2. CASE n > 0 /\ RsResize(cp, n)
    <3>1. cp # C!Null
      BY WhatInvSays, SameSizes
    <3>2. C!Resize(cp, n) => C!Krealloc(cp, n)
      BY <2>2, <3>1 DEF C!Krealloc
    <3>3. (C!Resize(cp, n) \/ C!Kfree(C!Null)) /\ RsHeap(heap')
      BY <2>2, RsResizeIs
    <3> QED BY <1>0, <3>2, <3>3 DEF C!Calls
  <2> QED BY <1>5, <2>1, <2>2 DEF RsReallocCall
<1>6. ASSUME NEW k \in ForeignMoves, ForeignSbrk(k)
      PROVE  C!Calls(Requests, Counts, ForeignMoves) /\ RsHeap(heap')
  BY <1>6, ForeignIs DEF C!Calls
<1> QED BY <1>1, <1>2, <1>3, <1>4, <1>5, <1>6 DEF RsNext

\* The port starts as kmalloc.c does, once the page bucket is read as 0.
LEMMA InitIs == RsInit => C!Init /\ RsHeap(heap)
<1> SUFFICES ASSUME RsInit PROVE C!Init /\ RsHeap(heap)
  OBVIOUS
<1>1. PICK base \in Bases :
        heap = [pagesz |-> 0, pagebucket |-> -1, nextf |-> [b \in Buckets |-> Null],
                word |-> [a \in {} |-> 0], home |-> [a \in {} |-> 0], brk |-> base]
  BY DEF RsInit
<1>2. Seen = [pagesz |-> 0, pagebucket |-> 0, nextf |-> [b \in C!Buckets |-> C!Null],
              word |-> [a \in {} |-> 0], home |-> [a \in {} |-> 0], brk |-> base]
  BY <1>1 DEF Seen, AsC, Buckets, C!Buckets, Null, C!Null
<1>3. RsHeap(heap)
  BY <1>1 DEF RsHeap
<1> QED BY <1>2, <1>3 DEF RsInit, C!Init, NoCopy, C!NoCopy

-----------------------------------------------------------------------------
(* The theorems.                                                             *)

\* The port is a refinement of kmalloc.c: with requests below the largest bucket, every step of
\* alloc, dealloc, calloc, realloc and of other code is one kmalloc.c can take.
THEOREM PortIsKmalloc == ASSUME BelowTop PROVE RsSpec => C!Spec /\ []RsInv
<1>1. SetupMayFail = FALSE
  BY DEF BelowTop
<1>2. C!Init => C!FitInv
  <2>1. C!Init => C!SetUp(Seen) /\ DOMAIN live = {}
    BY DEF C!Init, C!SetUp
  <2> QED
    BY <2>1, C!InitInv, ClientAssumption, EnvironmentAssumption, GeometryAssumption DEF C!FitInv
<1>3. RsInit => C!Init /\ RsInv
  BY <1>2, InitIs DEF RsInv
<1>4. RsInv /\ [RsNext]_rsvars => RsInv' /\ [C!Next]_(C!vars)
  <2> SUFFICES ASSUME RsInv, [RsNext]_rsvars PROVE RsInv' /\ [C!Next]_(C!vars)
    OBVIOUS
  <2>1. [C!Next]_(C!vars) /\ RsHeap(heap)'
    BY StepIs
  <2>2. C!FitInv'
    BY <1>1, <2>1, C!FitStep, ClientAssumption, EnvironmentAssumption, GeometryAssumption DEF RsInv
  <2> QED BY <2>1, <2>2 DEF RsInv
<1> QED BY <1>3, <1>4, PTL DEF RsSpec, C!Spec

\* No two blocks the port's morecore has cut share a byte, none reaches past the break.
THEOREM NoSharedByteInPort == ASSUME BelowTop PROVE RsSpec => []BlocksDisjoint
<1>1. RsInv => BlocksDisjoint
  BY WhatInvSays, SeenFields DEF BlocksDisjoint, HeapInv, HeapDisjoint, Apart, Seen
<1> QED BY <1>1, PortIsKmalloc, PTL

\* A header of the port carries MAGIC exactly while the program owns the block, with its bucket:
\* dealloc, which does not test the magic number, pushes the block on the right list.
THEOREM TrueHeadersInPort == ASSUME BelowTop PROVE RsSpec => []HeadersTrue
<1>1. C!HeadersTrue /\ RsInv => HeadersTrue
  <2> SUFFICES ASSUME C!HeadersTrue, RsInv, NEW a \in DOMAIN heap.home
               PROVE  /\ InUse(heap, a) <=> a + Overhead \in DOMAIN live
                      /\ InUse(heap, a) => OvIndex(heap.word[a]) = heap.home[a]
    BY DEF HeadersTrue
  <2>1. Seen.home = heap.home /\ Seen.word = heap.word /\ (InUse(Seen, a) <=> InUse(heap, a))
    BY WhatInvSays, SeenFields DEF Seen
  <2> QED BY <2>1, SameHeaders DEF C!HeadersTrue
<1>2. C!Spec => []C!HeadersTrue
  BY C!TrueHeaders, ClientAssumption, EnvironmentAssumption, GeometryAssumption
<1> QED BY <1>1, <1>2, PortIsKmalloc, PTL

\* Every free list of the port runs through all free blocks of its bucket, once, and ends.
THEOREM ListsExactInPort == ASSUME BelowTop PROVE RsSpec => []FreeListsExact
<1>1. C!FreeListsExact /\ RsInv => FreeListsExact
  <2> SUFFICES ASSUME C!FreeListsExact, RsInv, NEW b \in Buckets
               PROVE  LET free == FreeBlocks(heap, b)
                          k    == Cardinality(free)
                          node == ListNode(heap, b)
                      IN  {node[j] : j \in 0 .. k - 1} = free /\ node[k] = Null
    BY DEF FreeListsExact
  <2>1. RsHeap(heap) /\ heap.nextf = Seen.nextf /\ heap.word = Seen.word /\ heap.home = Seen.home
    BY WhatInvSays, SeenFields DEF Seen
  <2>2. FreeBlocks(heap, b) = C!FreeBlocks(Seen, b)
    BY <2>1, SeenFields, SameHeaders DEF FreeBlocks, C!FreeBlocks, Seen
  <2>3. ListNode(heap, b) = C!ListNode(Seen, b)
    BY <2>1, SameFreeing, Zenon DEF ListNode
  <2>4. \A S : C!Cardinality(S) = Cardinality(S)
    BY Zenon DEF Cardinality, C!Cardinality
  <2>5. b \in C!Buckets /\ C!Null = Null
    BY SameSizes
  <2> QED BY <2>2, <2>3, <2>4, <2>5, Zenon DEF C!FreeListsExact
<1>2. C!Spec => []C!FreeListsExact
  BY C!ListsAlwaysExact, ClientAssumption, EnvironmentAssumption, GeometryAssumption
<1> QED BY <1>1, <1>2, PortIsKmalloc, PTL

\* Every block the port hands out has, in what morecore reserved for it, room for the request.
THEOREM RoomInPort == ASSUME BelowTop PROVE RsSpec => []RsRoomForRequest
<1>1. RsInv => RsRoomForRequest
  <2> SUFFICES ASSUME RsInv, NEW p \in DOMAIN live
               PROVE  live[p] <= RsReserved(heap.home[p - Overhead]) - Overhead
    BY DEF RsRoomForRequest
  <2> DEFINE b == heap.home[p - Overhead]
  <2>1. live[p] <= C!Capacity(Seen.home[p - Overhead])
    BY DEF RsInv, C!FitInv, C!Fits
  <2>2. Seen.home = heap.home /\ b \in 0 .. Top - 1
    BY WhatInvSays, SeenFields, HeapFacts DEF Seen
  <2>3. b # Top
    BY <2>2, GeometryAssumption, SMT
  <2> QED BY <2>1, <2>2, <2>3, SameSizes DEF RsReserved, Capacity
<1> QED BY <1>1, PortIsKmalloc, PTL

\* A realloc of the port that moves a block, and comes back, copies all of the old request that
\* fits and writes nothing past the new block, although its findbucket follows no link.
THEOREM CopiesInPort == ASSUME BelowTop PROVE RsSpec => []KreallocCopies
<1>1. C!KreallocCopies /\ RsInv => KreallocCopies
  <2> SUFFICES ASSUME C!KreallocCopies, RsInv PROVE KreallocCopies
    OBVIOUS
  <2>1. Seen.home = heap.home
    BY WhatInvSays, SeenFields DEF Seen
  <2> QED BY <2>1, SameSizes DEF KreallocCopies, C!KreallocCopies, NoCopy, C!NoCopy, Min2, C!Min2
<1>2. SetupMayFail = FALSE => (C!Spec => []C!KreallocCopies)
  BY C!CopiesAlways, ClientAssumption, EnvironmentAssumption, GeometryAssumption
<1> QED BY <1>1, <1>2, PortIsKmalloc, PTL DEF BelowTop

\* The port keeps Allocator's promise: the regions its program holds never overlap.
THEOREM PromiseKeptByPort == ASSUME BelowTop PROVE RsSpec => KeepsPromise
<1>1. C!Spec => C!KeepsPromise
  BY C!PromiseKept, ClientAssumption, EnvironmentAssumption, GeometryAssumption DEF BelowTop
<1>2. C!Promise!Init => Promise!Init
  BY DEF Promise!Init, C!Promise!Init
<1>3. C!Promise!Next => Promise!Next
  <2>1. \A f, p : C!Promise!Without(f, p) = Promise!Without(f, p)
    BY Zenon DEF Promise!Without, C!Promise!Without
  <2>2. \A f, p, n : C!Promise!With(f, p, n) = Promise!With(f, p, n)
    BY Zenon DEF Promise!With, C!Promise!With
  <2>3. \A n : C!Promise!Span(n) = Promise!Span(n)
    BY Zenon DEF Promise!Span, C!Promise!Span
  <2>4. \A f, p, n : C!Promise!Clear(f, p, n) <=> Promise!Clear(f, p, n)
    BY <2>3 DEF Promise!Clear, C!Promise!Clear
  <2>5. \A p, n : C!Promise!Grant(p, n) => Promise!Grant(p, n)
    BY <2>2, <2>4 DEF Promise!Grant, C!Promise!Grant
  <2>6. \A p : C!Promise!Release(p) => Promise!Release(p)
    BY <2>1 DEF Promise!Release, C!Promise!Release
  <2>7. \A p, q, n : C!Promise!Move(p, q, n) => Promise!Move(p, q, n)
    BY <2>1, <2>2, <2>4 DEF Promise!Move, C!Promise!Move
  <2> QED BY <2>5, <2>6, <2>7 DEF Promise!Next, C!Promise!Next
<1> QED BY <1>1, <1>2, <1>3, PortIsKmalloc, PTL
    DEF KeepsPromise, C!KeepsPromise, Promise!Spec, C!Promise!Spec
==============================================================================
