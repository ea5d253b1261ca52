------------------------- MODULE KmallocThreadsProofs -------------------------
(***************************************************************************)
(* Proofs about KmallocThreads.tla for every number of threads, every      *)
(* geometry and every limit of memory, where threads ask for small blocks  *)
(* and no bucket is used by two of them: then the racing accesses of NEXTF *)
(* never meet, and not even the setup of the first call, which every       *)
(* thread may run, does harm.                                              *)
(*                                                                         *)
(* As for one thread, the invariant speaks of the links one by one; the    *)
(* blocks that morecore has cut and not chained yet are nobody's and       *)
(* nothing links to them.  For each thread it says where between two       *)
(* accesses of NEXTF its registers stand.  The lists as wholes come at the *)
(* end, on top of it.                                                      *)
(***************************************************************************)
EXTENDS KmallocThreads, KmallocHeapProofs, SequenceTheorems

\* The buckets kmalloc's loop may find for a thread's sizes.
BucketsOf(t) == UNION {LoopExit(s) : s \in SizesOf[t]}

OwnBuckets ==
    /\ \A t \in Thread : \A s \in SizesOf[t] : Small(s)
    /\ \A t, u \in Thread : t # u => BucketsOf(t) \cap BucketsOf(u) = {}

Setting == {"check", "setpage", "getbrk", "align", "setbucket", "compute"}
OnBucket == {"head", "sbrk", "publish", "chain", "reread", "next", "pop"}
Holding == {"stamp", "link", "push"}

Shapes ==
    /\ NEXTF \in [Buckets -> Nat] /\ brk \in Nat \ {0} /\ brk % 4 = 0
    /\ cut \in [DOMAIN cut -> 0 .. Top - 1] /\ DOMAIN cut \subseteq Nat \ {0}
    /\ word \in [DOMAIN cut -> Nat]
    /\ pc \in [Thread -> {"idle"} \cup Setting \cup OnBucket \cup Holding]
    /\ op \in [Thread -> Nat] /\ bucket \in [Thread -> Nat]
    /\ n \in [Thread -> Nat] /\ link \in [Thread -> Nat]
    /\ held \in [Thread -> Seq(Nat)]

\* The blocks nobody has, on a list or not yet chained.
Free == {a \in DOMAIN cut : \A t \in Thread : a \notin Owned(t)}

\* The blocks morecore still has to chain: the next ones after op.
Pending(t) ==
    {op[t] + i * Amt[bucket[t]] :
        i \in IF pc[t] = "publish" THEN 0 .. n[t] ELSE IF pc[t] = "chain" THEN 1 .. n[t] ELSE {}}
Unchained == UNION {Pending(t) : t \in Thread}

\* What a thread has is of its own buckets, and a header says which.
Hands(t) ==
    /\ \A a \in Owned(t) : a \in DOMAIN cut /\ cut[a] \in BucketsOf(t)
    /\ \A i \in DOMAIN held[t] : OvIndex(word[held[t][i]]) = cut[held[t][i]]
    /\ \A i, j \in DOMAIN held[t] : i # j => held[t][i] # held[t][j]

\* Where a thread stands between two accesses.
Place(t) ==
    /\ pc[t] \in Setting => n[t] \in SizesOf[t]
    /\ pc[t] = "align" => op[t] % 4 = 0
    /\ pc[t] \in OnBucket \cup Holding => bucket[t] \in BucketsOf(t)
    /\ pc[t] \in {"sbrk", "publish"} => NEXTF[bucket[t]] = Null
    /\ pc[t] \in {"next", "pop"} => op[t] # Null /\ op[t] = NEXTF[bucket[t]]
    /\ pc[t] = "pop" => link[t] = word[op[t]]
    /\ pc[t] \in Holding => op[t] \in DOMAIN cut /\ cut[op[t]] = bucket[t]
                            /\ op[t] \notin Elems(held[t])
    /\ pc[t] = "push" => word[op[t]] = NEXTF[bucket[t]]
    /\ \A a \in Pending(t) : a \in Free /\ cut[a] = bucket[t] /\ word[a] = Null
    /\ pc[t] = "chain" => n[t] > 0 /\ op[t] \in Free /\ cut[op[t]] = bucket[t]
                          /\ word[op[t]] = Null

\* A link leads to a free block of the same bucket, to which no other one leads.
Links ==
    /\ \A b \in Buckets : NEXTF[b] # Null =>
         NEXTF[b] \in Free \ Unchained /\ cut[NEXTF[b]] = b
    /\ \A a \in Free : word[a] # Null =>
         /\ word[a] \in Free \ Unchained /\ cut[word[a]] = cut[a]
         /\ word[a] # NEXTF[cut[a]]
         /\ \A c \in Free : a # c => word[a] # word[c]

IInv ==
    /\ Shapes /\ CutApart /\ NeverCrashes /\ Links
    /\ \A t \in Thread : Hands(t) /\ Place(t)

-----------------------------------------------------------------------------
(* Buckets, and sequences of blocks.                                       *)

\* The loop stops at a bucket below the largest: at the page bucket at the latest.
LEMMA SmallBucket ==
  ASSUME OwnBuckets, NEW t \in Thread, NEW s \in SizesOf[t], NEW k \in LoopExit(s)
  PROVE  k \in 0 .. Top - 1 /\ k \in BucketsOf(t)
<1>1. Small(s) /\ s \in Nat  BY ThreadsAssumption DEF OwnBuckets
<1>2. k \in 0 .. Top /\ \A j \in 0 .. k - 1 : s > Amt[j] - Overhead
  <2>1. FirstAmt(s) = 0 /\ Top \in Nat  BY <1>1, GeometryAssumption DEF FirstAmt
  <2>2. k \in 0 .. Top /\ \A j \in 0 .. k - 1 : s > Room(s, j)
    BY <2>1 DEF LoopExit
  <2>3. ASSUME NEW j \in 0 .. k - 1 PROVE s > Amt[j] - Overhead
    <3>1. 0 + j = j /\ j \in 0 .. Top  BY <2>1, <2>2
    <3>2. Amt[j] \in Nat /\ Overhead \in Nat  BY <3>1, GeometryFacts, GeometryAssumption
    <3>3. Room(s, j) = Amt[j] + (0 - Overhead)  BY <1>1, <2>1, <3>1 DEF Room
    <3> QED  BY <1>1, <2>2, <3>2, <3>3
  <2> QED  BY <2>2, <2>3
<1>3. PageBucket \in 0 .. Top - 1 /\ Amt[PageBucket] = Page /\ Page \in Nat
  BY GeometryFacts
<1>4. ~(s > Amt[PageBucket] - Overhead)
  BY <1>1, <1>3, GeometryAssumption DEF Small
<1>5. PageBucket \notin 0 .. k - 1  BY <1>2, <1>4
<1>6. k =< PageBucket  BY <1>2, <1>3, <1>5
<1>7. k \in 0 .. Top - 1  BY <1>2, <1>3, <1>6, GeometryAssumption
<1> QED  BY <1>7 DEF BucketsOf

\* A thread's bucket is one of nextf's and no other thread's.
LEMMA OwnBucket ==
  ASSUME OwnBuckets, NEW t \in Thread, NEW b \in BucketsOf(t)
  PROVE  /\ b \in 0 .. Top - 1 /\ b \in Buckets
         /\ \A u \in Thread : u # t => b \notin BucketsOf(u)
<1>1. b \in 0 .. Top - 1  BY SmallBucket DEF BucketsOf
<1>2. b \in Buckets  BY <1>1, ExtentFacts
<1> QED  BY <1>1, <1>2 DEF OwnBuckets

\* What Owned(t) is between calls, and when a call has a block in its register.
LEMMA OwnedBlocks ==
  ASSUME NEW t \in Thread
  PROVE  /\ pc[t] \notin Holding => Owned(t) = Elems(held[t])
         /\ pc[t] \in Holding => Owned(t) = Elems(held[t]) \cup {op[t]}
BY DEF Owned, Holding

\* Only morecore's loop has blocks still to chain.
LEMMA NothingPending ==
  ASSUME NEW t \in Thread, pc[t] \notin {"publish", "chain"}
  PROVE  Pending(t) = {}
BY DEF Pending

-----------------------------------------------------------------------------
(* Steps that touch neither a list nor a header.                           *)

LEMMA LocalStep ==
  ASSUME OwnBuckets, IInv, NEW t \in Thread, NEW l,
         UNCHANGED <<NEXTF, word, cut, held>>,
         brk' \in Nat \ {0}, brk' % 4 = 0, brk =< brk',
         pc' = [pc EXCEPT ![t] = l], stopped' \notin {"segfault", "panicked"},
         pc[t] \notin {"publish", "chain"} \cup Holding,
         l \in {"idle"} \cup Setting \cup OnBucket, l \notin {"publish", "chain"},
         op' \in [Thread -> Nat], bucket' \in [Thread -> Nat],
         n' \in [Thread -> Nat], link' \in [Thread -> Nat],
         \A u \in Thread : u # t => /\ op'[u] = op[u] /\ bucket'[u] = bucket[u]
                                   /\ n'[u] = n[u] /\ link'[u] = link[u],
         l \in Setting => n'[t] \in SizesOf[t],
         l = "align" => op'[t] % 4 = 0,
         l \in OnBucket => bucket'[t] \in BucketsOf(t),
         l = "sbrk" => NEXTF[bucket'[t]] = Null,
         l \in {"next", "pop"} => op'[t] # Null /\ op'[t] = NEXTF[bucket'[t]],
         l = "pop" => link'[t] = word[op'[t]]
  PROVE  IInv'
<1>1. /\ pc \in [Thread -> {"idle"} \cup Setting \cup OnBucket \cup Holding]
      /\ pc'[t] = l /\ \A u \in Thread : u # t => pc'[u] = pc[u]
  BY DEF IInv, Shapes
<1>2. /\ l \notin Holding /\ l \notin {"publish", "chain"}
  BY DEF Setting, OnBucket, Holding
<1>3. \A u \in Thread : Owned(u)' = Owned(u)
  <2> TAKE u \in Thread
  <2>1. CASE u = t
    BY <1>1, <1>2, <2>1 DEF Owned, Holding
  <2>2. CASE u # t
    BY <1>1, <2>2 DEF Owned
  <2> QED  BY <2>1, <2>2
<1>4. Free' = Free  BY <1>3 DEF Free
<1>5. \A u \in Thread : Pending(u)' = Pending(u)
  <2> TAKE u \in Thread
  <2>1. CASE u = t
    BY <1>1, <1>2, <2>1 DEF Pending
  <2>2. CASE u # t
    BY <1>1, <2>2 DEF Pending
  <2> QED  BY <2>1, <2>2
<1>6. Unchained' = Unchained  BY <1>5 DEF Unchained
<1>7. Shapes'  BY <1>1 DEF IInv, Shapes
<1>8. CutApart'
  <2>1. \A a \in DOMAIN cut : a \in Nat /\ Extent(cut[a]) \in Nat
    BY ExtentFacts DEF IInv, Shapes
  <2>2. CutApart /\ brk \in Nat  BY DEF IInv, Shapes
  <2> QED  BY <2>1, <2>2 DEF CutApart
<1>9. Links'  BY <1>4, <1>6 DEF IInv, Links
<1>10. \A u \in Thread : Hands(u)'  BY <1>3 DEF IInv, Hands
<1>11. ASSUME NEW u \in Thread, u # t PROVE Place(u)'
  <2>1. Place(u)  BY DEF IInv
  <2> QED  BY <1>1, <1>4, <1>5, <1>11, <2>1 DEF Place
<1>12. Place(t)'
  <2>1. Pending(t)' = {}  BY <1>1, <1>2 DEF Pending
  <2> QED  BY <1>1, <1>2, <2>1 DEF Place, Holding
<1>13. NeverCrashes'  BY DEF NeverCrashes
<1> QED  BY <1>7, <1>8, <1>9, <1>10, <1>11, <1>12, <1>13 DEF IInv

\* The accesses of PAGE_SZ and PAGE_BUCKET, sbrk for the padding, the search for a
\* bucket, and the loads of heads and links.
LEMMA LocalActions ==
  ASSUME OwnBuckets, IInv, NEW t \in Thread,
         \/ CallAlloc(t) \/ CheckSetup(t) \/ SetPageSize(t) \/ GetBreak(t) \/ Align(t)
         \/ SetPageBucket(t) \/ Compute(t) \/ ReadHead(t) \/ Reread(t) \/ ReadNext(t)
  PROVE  IInv'
<1> USE DEF Goto, Let, shared, locals, Setting, OnBucket, Holding
<1>0. /\ NEXTF \in [Buckets -> Nat] /\ brk \in Nat \ {0} /\ brk % 4 = 0 /\ brk =< brk
      /\ pc \in [Thread -> {"idle"} \cup Setting \cup OnBucket \cup Holding]
      /\ op \in [Thread -> Nat] /\ bucket \in [Thread -> Nat]
      /\ n \in [Thread -> Nat] /\ link \in [Thread -> Nat]
      /\ Place(t) /\ stopped \notin {"segfault", "panicked"}
      /\ pc = [pc EXCEPT ![t] = pc[t]]
  BY DEF IInv, Shapes, NeverCrashes
<1>1. CASE CallAlloc(t)
  <2>1. PICK s \in SizesOf[t] : n' = [n EXCEPT ![t] = s]  BY <1>1 DEF CallAlloc
  <2>2. s \in Nat  BY ThreadsAssumption
  <2> QED  BY <1>0, <1>1, <2>1, <2>2, LocalStep DEF CallAlloc
<1>2. CASE CheckSetup(t)
  <2>1. PICK l \in {"setpage", "compute"} : pc' = [pc EXCEPT ![t] = l]
    BY <1>2 DEF CheckSetup
  <2> QED  BY <1>0, <1>2, <2>1, LocalStep DEF CheckSetup, Place
<1>3. CASE SetPageSize(t)
  <2>1. n[t] \in SizesOf[t] /\ "getbrk" \in Setting  BY <1>0, <1>3 DEF SetPageSize, Place
  <2>2. pc' = [pc EXCEPT ![t] = "getbrk"]  BY <1>3 DEF SetPageSize
  <2> QED  BY <1>0, <1>3, <2>1, <2>2, LocalStep DEF SetPageSize
<1>4. CASE GetBreak(t)
  BY <1>0, <1>4, LocalStep DEF GetBreak, Place
<1>5. CASE Align(t)
  <2>1. op[t] \in Nat /\ op[t] % 4 = 0  BY <1>0, <1>5 DEF Align, Place
  <2>2. Padding(op[t]) \in Nat /\ (op[t] + Padding(op[t])) % 4 = 0
    BY <2>1, PaddingFacts
  <2>3. /\ brk + Padding(op[t]) \in Nat \ {0} /\ brk =< brk + Padding(op[t])
        /\ (brk + Padding(op[t])) % 4 = 0
    BY <1>0, <2>1, <2>2
  <2>4. CASE brk' = brk + Padding(op[t]) /\ pc' = [pc EXCEPT ![t] = "setbucket"] /\ UNCHANGED stopped
    <3>1. n[t] \in SizesOf[t] /\ "setbucket" \in Setting  BY <1>0, <1>5 DEF Align, Place
    <3> QED  BY <1>0, <1>5, <2>3, <2>4, <3>1, LocalStep, ZenonT(100) DEF Align
  <2>5. CASE stopped' = "alloc_error" /\ UNCHANGED <<brk, pc>>
    BY <1>0, <1>5, <2>1, <2>5, LocalStep DEF Align, Place
  <2> QED  BY <1>5, <2>4, <2>5 DEF Align
<1>6. CASE SetPageBucket(t)
  <2>1. n[t] \in SizesOf[t] /\ "compute" \in Setting  BY <1>0, <1>6 DEF SetPageBucket, Place
  <2>2. pc' = [pc EXCEPT ![t] = "compute"]  BY <1>6 DEF SetPageBucket
  <2> QED  BY <1>0, <1>6, <2>1, <2>2, LocalStep DEF SetPageBucket
<1>7. CASE Compute(t)
  <2>1. n[t] \in SizesOf[t] /\ Small(n[t])  BY <1>0, <1>7 DEF Compute, Place, OwnBuckets
  <2>2. CASE stopped' = "alloc_error" /\ UNCHANGED <<pc, bucket>>
    BY <1>0, <1>7, <2>1, <2>2, LocalStep DEF Compute
  <2>3. CASE ~(stopped' = "alloc_error" /\ UNCHANGED <<pc, bucket>>)
    <3>1. PICK k \in LoopExit(n[t]) :
            IF 0 + k < 0 THEN stopped' = "panicked" /\ UNCHANGED <<pc, bucket>>
            ELSE /\ bucket' = [bucket EXCEPT ![t] = 0 + k]
                 /\ pc' = [pc EXCEPT ![t] = "head"] /\ UNCHANGED stopped
      BY <1>7, <2>1, <2>3 DEF Compute
    <3>2. k \in 0 .. Top - 1 /\ k \in BucketsOf(t)  BY <2>1, SmallBucket
    <3>3. /\ bucket' = [bucket EXCEPT ![t] = k] /\ k \in Nat
          /\ pc' = [pc EXCEPT ![t] = "head"] /\ UNCHANGED stopped
      BY <3>1, <3>2
    <3> QED  BY <1>0, <1>7, <3>2, <3>3, LocalStep DEF Compute
  <2> QED  BY <2>2, <2>3
<1>8. CASE ReadHead(t)
  <2>1. bucket[t] \in BucketsOf(t) /\ bucket[t] \in Buckets
    BY <1>0, <1>8, OwnBucket DEF ReadHead, Place
  <2>2. NEXTF[bucket[t]] \in Nat  BY <1>0, <2>1
  <2>3. PICK l \in {"sbrk", "next"} :
          /\ pc' = [pc EXCEPT ![t] = l] /\ (l = "sbrk" <=> NEXTF[bucket[t]] = Null)
    BY <1>8 DEF ReadHead, AfterHead
  <2> QED  BY <1>0, <1>8, <2>1, <2>2, <2>3, LocalStep DEF ReadHead
<1>9. CASE Reread(t)
  <2>1. bucket[t] \in BucketsOf(t) /\ bucket[t] \in Buckets
    BY <1>0, <1>9, OwnBucket DEF Reread, Place
  <2>2. NEXTF[bucket[t]] \in Nat  BY <1>0, <2>1
  <2>3. CASE NEXTF[bucket[t]] = Null
    BY <1>0, <1>9, <2>1, <2>2, <2>3, LocalStep DEF Reread
  <2>4. CASE NEXTF[bucket[t]] # Null
    BY <1>0, <1>9, <2>1, <2>2, <2>4, LocalStep DEF Reread
  <2> QED  BY <2>3, <2>4
<1>10. CASE ReadNext(t)
  <2>1. /\ bucket[t] \in BucketsOf(t) /\ bucket[t] \in Buckets
        /\ op[t] # Null /\ op[t] = NEXTF[bucket[t]]
    BY <1>0, <1>10, OwnBucket DEF ReadNext, Place
  <2>2. op[t] \in DOMAIN cut  BY <2>1 DEF IInv, Links, Free
  <2>3. op[t] \in DOMAIN word /\ word[op[t]] \in Nat  BY <2>2 DEF IInv, Shapes
  <2> QED  BY <1>0, <1>10, <2>1, <2>3, LocalStep DEF ReadNext
<1> QED  BY <1>1, <1>2, <1>3, <1>4, <1>5, <1>6, <1>7, <1>8, <1>9, <1>10

-----------------------------------------------------------------------------
(* Steps that change a list or a header, of the thread's own buckets.      *)

\* Blocks of different threads are of different buckets.
LEMMA Strangers ==
  ASSUME OwnBuckets, IInv, NEW t \in Thread, NEW u \in Thread, u # t
  PROVE  /\ \A a \in Owned(u) : a \in DOMAIN cut /\ cut[a] \notin BucketsOf(t)
         /\ \A a \in Pending(u) : a \in Free /\ cut[a] \notin BucketsOf(t)
<1>1. \A a \in Owned(u) : a \in DOMAIN cut /\ cut[a] \notin BucketsOf(t)
  BY OwnBucket DEF IInv, Hands
<1>2. ASSUME NEW a \in Pending(u) PROVE a \in Free /\ cut[a] \notin BucketsOf(t)
  <2>1. Place(u) /\ pc[u] \in OnBucket  BY <1>2 DEF IInv, Pending, OnBucket
  <2>2. a \in Free /\ cut[a] = bucket[u] /\ bucket[u] \in BucketsOf(u)
    BY <1>2, <2>1 DEF Place
  <2> QED  BY <2>2, OwnBucket
<1> QED  BY <1>1, <1>2

\* A step of t does not move the other threads' facts.
LEMMA OthersStay ==
  ASSUME OwnBuckets, IInv, NEW t \in Thread, Hands(t)',
         \A u \in Thread : u # t =>
           /\ pc'[u] = pc[u] /\ op'[u] = op[u] /\ bucket'[u] = bucket[u]
           /\ n'[u] = n[u] /\ link'[u] = link[u] /\ held'[u] = held[u],
         \A a \in DOMAIN cut :
           /\ a \in DOMAIN cut' /\ cut'[a] = cut[a]
           /\ cut[a] \notin BucketsOf(t) => word'[a] = word[a],
         \A b \in Buckets : b \notin BucketsOf(t) => NEXTF'[b] = NEXTF[b]
  PROVE  \A u \in Thread : u # t =>
           /\ Owned(u)' = Owned(u) /\ Pending(u)' = Pending(u)
           /\ Hands(u)' /\ Place(u)'
<1> SUFFICES ASSUME NEW u \in Thread, u # t
             PROVE  /\ Owned(u)' = Owned(u) /\ Pending(u)' = Pending(u)
                    /\ Hands(u)' /\ Place(u)'
  OBVIOUS
<1>1. \A v \in Thread : v # t => Owned(v)' = Owned(v)  BY DEF Owned
<1>2. Pending(u)' = Pending(u)  BY DEF Pending
<1>3. \A b \in BucketsOf(u) : b \in Buckets /\ b \notin BucketsOf(t)  BY OwnBucket
<1>4. \A a \in DOMAIN cut : cut[a] \in BucketsOf(u) =>
        a \in DOMAIN cut' /\ cut'[a] = cut[a] /\ word'[a] = word[a]
  BY <1>3
<1>5. \A a \in Free : cut[a] \in BucketsOf(u) => a \in Free'
  <2> SUFFICES ASSUME NEW a \in Free, cut[a] \in BucketsOf(u) PROVE a \in Free'
    OBVIOUS
  <2>1. a \in DOMAIN cut /\ \A v \in Thread : a \notin Owned(v)  BY DEF Free
  <2>2. a \in DOMAIN cut' /\ cut'[a] = cut[a]  BY <1>4, <2>1
  <2>3. a \notin Owned(t)'  BY <1>3, <2>2 DEF Hands
  <2> QED  BY <1>1, <2>1, <2>2, <2>3 DEF Free
<1>6. Hands(u)'
  <2>1. Hands(u)  BY DEF IInv
  <2>2. \A i \in DOMAIN held[u] : held[u][i] \in Owned(u)  BY DEF Owned, Elems
  <2> QED  BY <1>1, <1>4, <2>1, <2>2 DEF Hands
<1>7. Place(u)'
  <2>1. Place(u)  BY DEF IInv
  <2>2. /\ pc[u] \in OnBucket \cup Holding => bucket[u] \in BucketsOf(u)
        /\ \A a \in Pending(u) : a \in Free /\ cut[a] = bucket[u] /\ word[a] = Null
        /\ Pending(u) # {} => pc[u] \in OnBucket
        /\ pc[u] \in OnBucket \cup Holding => NEXTF'[bucket[u]] = NEXTF[bucket[u]]
    BY <1>3, <2>1 DEF Place, Pending, OnBucket
  <2>3. \A a \in Pending(u) : a \in Free' /\ cut'[a] = bucket[u] /\ word'[a] = Null
    BY <1>4, <1>5, <2>2 DEF Free
  <2>4. pc[u] = "chain" => n[u] > 0 /\ op[u] \in Free' /\ cut'[op[u]] = bucket[u] /\ word'[op[u]] = Null
    BY <1>4, <1>5, <2>1, <2>2 DEF Place, Free, OnBucket
  <2>5. pc[u] \in Holding => /\ op[u] \in DOMAIN cut' /\ cut'[op[u]] = bucket[u]
                             /\ word'[op[u]] = word[op[u]]
    BY <1>4, <2>1, <2>2 DEF Place
  <2>6. pc[u] = "pop" => word'[op[u]] = word[op[u]]
    <3> SUFFICES ASSUME pc[u] = "pop" PROVE word'[op[u]] = word[op[u]]
      OBVIOUS
    <3>1. op[u] # Null /\ op[u] = NEXTF[bucket[u]] /\ bucket[u] \in BucketsOf(u)
      BY <2>1 DEF Place, OnBucket
    <3>2. op[u] \in DOMAIN cut /\ cut[op[u]] = bucket[u]
      BY <1>3, <3>1 DEF IInv, Links, Free
    <3> QED  BY <1>4, <3>1, <3>2
  <2>7. pc'[u] = pc[u] /\ op'[u] = op[u] /\ bucket'[u] = bucket[u]
        /\ n'[u] = n[u] /\ link'[u] = link[u] /\ held'[u] = held[u]
    OBVIOUS
  <2>8. /\ (pc[u] \in Setting => n[u] \in SizesOf[u]) /\ (pc[u] = "align" => op[u] % 4 = 0)
        /\ pc[u] \in {"sbrk", "publish"} => NEXTF[bucket[u]] = Null
        /\ pc[u] \in {"next", "pop"} => op[u] # Null /\ op[u] = NEXTF[bucket[u]]
        /\ (pc[u] = "pop" => link[u] = word[op[u]])
        /\ (pc[u] = "push" => word[op[u]] = NEXTF[bucket[u]])
        /\ (pc[u] \in Holding => op[u] \notin Elems(held[u]))
    BY <2>1 DEF Place
  <2>9. /\ pc[u] \in {"sbrk", "publish"} => NEXTF'[bucket[u]] = Null
        /\ pc[u] \in {"next", "pop"} => op[u] # Null /\ op[u] = NEXTF'[bucket[u]]
        /\ (pc[u] = "pop" => link[u] = word'[op[u]])
        /\ (pc[u] = "push" => word'[op[u]] = NEXTF'[bucket[u]])
    BY <2>2, <2>5, <2>6, <2>8 DEF OnBucket, Holding
  <2> QED  BY <1>2, <2>2, <2>3, <2>4, <2>5, <2>7, <2>8, <2>9 DEF Place
<1> QED  BY <1>1, <1>2, <1>6, <1>7

\* The blocks that follow p at distance size, from the first one on.
LEMMA Following ==
  ASSUME NEW p \in Nat, NEW size \in Nat \ {0}, NEW m \in Nat
  PROVE  /\ p \in {p + i * size : i \in 0 .. m}
         /\ {p + i * size : i \in 1 .. m} \subseteq {p + i * size : i \in 0 .. m}
         /\ p \notin {p + i * size : i \in 1 .. m}
         /\ m > 0 => /\ p + size \in {p + i * size : i \in 1 .. m}
                     /\ {(p + size) + i * size : i \in 1 .. m - 1}
                          \subseteq {p + i * size : i \in 1 .. m}
<1>1. p = p + 0 * size /\ 0 \in 0 .. m  OBVIOUS
<1>2. {p + i * size : i \in 1 .. m} \subseteq {p + i * size : i \in 0 .. m}
  <2>1. \A i \in 1 .. m : i \in 0 .. m  OBVIOUS
  <2> QED  BY <2>1
<1>3. ASSUME NEW i \in 1 .. m PROVE p + i * size # p
  <2> DEFINE x == i * size
  <2>1. 1 * size =< x /\ 1 * size = size  BY MultMono
  <2>2. x \in Nat  OBVIOUS
  <2> HIDE DEF x
  <2>3. p + x # p  BY <2>1, <2>2
  <2> QED  BY <2>3 DEF x
<1>4. ASSUME m > 0
      PROVE  /\ p + size \in {p + i * size : i \in 1 .. m}
             /\ {(p + size) + i * size : i \in 1 .. m - 1}
                  \subseteq {p + i * size : i \in 1 .. m}
  <2>1. 1 \in 1 .. m /\ p + size = p + 1 * size  BY <1>4
  <2>2. ASSUME NEW i \in 1 .. m - 1
        PROVE  i + 1 \in 1 .. m /\ (p + size) + i * size = p + (i + 1) * size
    <3> DEFINE x == i * size
    <3>1. (i + 1) * size = x + size /\ x \in Nat  OBVIOUS
    <3> HIDE DEF x
    <3>2. (p + size) + x = p + (x + size)  BY <3>1
    <3> QED  BY <1>4, <3>1, <3>2 DEF x
  <2> QED  BY <2>1, <2>2, ZenonT(100)
<1> QED  BY <1>1, <1>2, <1>3, <1>4

\* NEXTF[bucket] = overhead, in morecore: the first block is on the list.
LEMMA PublishStep ==
  ASSUME OwnBuckets, IInv, NEW t \in Thread, Publish(t)
  PROVE  IInv'
<1> DEFINE b == bucket[t]
           o == op[t]
<1>0. Shapes /\ Links /\ Hands(t) /\ Place(t) /\ pc[t] = "publish"  BY DEF IInv, Publish
<1>1. PICK l \in {"reread", "chain"} :
        pc' = [pc EXCEPT ![t] = l] /\ (l = "chain" <=> n[t] # 0)
  BY DEF Publish, Goto
<1>2. /\ NEXTF' = [NEXTF EXCEPT ![b] = o]
      /\ UNCHANGED <<word, cut, brk, op, bucket, n, link, held, stopped>>
  BY DEF Publish, Let, locals
<1>3. b \in BucketsOf(t) /\ b \in Buckets /\ b \in 0 .. Top - 1 /\ NEXTF[b] = Null
  BY <1>0, OwnBucket DEF Place, OnBucket
<1>4. o \in Nat /\ n[t] \in Nat /\ Amt[b] \in Nat \ {0} /\ b \in Nat
  BY <1>0, <1>3, ExtentFacts DEF Shapes
<1>5. /\ Pending(t) = {o + i * Amt[b] : i \in 0 .. n[t]}
      /\ Pending(t)' = IF l = "chain" THEN {o + i * Amt[b] : i \in 1 .. n[t]} ELSE {}
  BY <1>0, <1>1, <1>2 DEF Pending, Shapes
<1>6. o \in Pending(t) /\ Pending(t)' \subseteq Pending(t) /\ o \notin Pending(t)'
  <2> HIDE DEF b, o
  <2> QED  BY <1>4, <1>5, Following, ZenonT(100)
<1>7. o \in Free /\ cut[o] = b /\ word[o] = Null /\ o \in Nat \ {0}
  BY <1>0, <1>6 DEF Place, Free, Shapes
<1> HIDE DEF b, o
<1>8. pc'[t] = l /\ \A u \in Thread : u # t => pc'[u] = pc[u]
  BY <1>0, <1>1 DEF Shapes
<1>9. Owned(t)' = Owned(t)  BY <1>0, <1>1, <1>2, <1>8 DEF Owned
<1>10. Hands(t)'  BY <1>0, <1>2, <1>9 DEF Hands
<1>11. \A c \in Buckets : c # b => NEXTF'[c] = NEXTF[c]  BY <1>0, <1>2 DEF Shapes
<1>12. NEXTF'[b] = o  BY <1>0, <1>2, <1>3 DEF Shapes
<1>13. \A u \in Thread : u # t =>
         Owned(u)' = Owned(u) /\ Pending(u)' = Pending(u) /\ Hands(u)' /\ Place(u)'
  BY <1>2, <1>3, <1>8, <1>10, <1>11, OthersStay
<1>14. Free' = Free  BY <1>2, <1>9, <1>13 DEF Free
<1>15. Unchained' \subseteq Unchained /\ o \in Unchained /\ o \notin Unchained'
  <2>1. \A u \in Thread : u # t => o \notin Pending(u)  BY <1>3, <1>7, Strangers
  <2> QED  BY <1>6, <1>13, <2>1 DEF Unchained
<1>16. Place(t)'
  <2>1. \A a \in Pending(t)' : a \in Free' /\ cut'[a] = bucket'[t] /\ word'[a] = Null
    BY <1>0, <1>2, <1>6, <1>14 DEF Place
  <2>2. bucket'[t] \in BucketsOf(t)  BY <1>2, <1>3 DEF b
  <2>3. /\ l = "chain" => /\ n'[t] > 0 /\ op'[t] \in Free' /\ cut'[op'[t]] = bucket'[t]
                          /\ word'[op'[t]] = Null
    BY <1>1, <1>2, <1>4, <1>7, <1>14 DEF b, o
  <2> QED  BY <1>8, <2>1, <2>2, <2>3 DEF Place, Setting, Holding
<1>17. Shapes'
  BY <1>0, <1>1, <1>2, <1>4 DEF Shapes, OnBucket
<1>18. Links'
  <2>1. ASSUME NEW c \in Buckets, NEXTF'[c] # Null
        PROVE  NEXTF'[c] \in Free' \ Unchained' /\ cut'[NEXTF'[c]] = c
    <3>1. CASE c = b  BY <1>2, <1>7, <1>12, <1>14, <1>15, <3>1
    <3>2. CASE c # b
      <4>1. NEXTF[c] \in Free \ Unchained /\ cut[NEXTF[c]] = c
        BY <1>0, <1>11, <2>1, <3>2 DEF Links
      <4> QED  BY <1>2, <1>11, <1>14, <1>15, <3>2, <4>1
    <3> QED  BY <3>1, <3>2
  <2>2. ASSUME NEW a \in Free, word[a] # Null
        PROVE  /\ word[a] \in Free \ Unchained' /\ cut[word[a]] = cut[a]
               /\ word[a] # NEXTF'[cut[a]]
               /\ \A c \in Free : a # c => word[a] # word[c]
    <3>1. /\ word[a] \in Free \ Unchained /\ cut[word[a]] = cut[a]
          /\ word[a] # NEXTF[cut[a]]
          /\ \A c \in Free : a # c => word[a] # word[c]
      BY <1>0, <2>2 DEF Links
    <3>2. cut[a] \in Buckets  BY <1>0, ExtentFacts DEF Shapes, Free
    <3> QED  BY <1>11, <1>12, <1>15, <3>1, <3>2
  <2> QED  BY <1>2, <1>14, <2>1, <2>2 DEF Links
<1> QED  BY <1>2, <1>10, <1>13, <1>16, <1>17, <1>18 DEF IInv, CutApart, NeverCrashes

\* overhead->ov_next = overhead + sz, in morecore: the next block joins the list.
LEMMA ChainStep ==
  ASSUME OwnBuckets, IInv, NEW t \in Thread, Chain(t)
  PROVE  IInv'
<1> DEFINE b == bucket[t]
           o == op[t]
           next == o + Amt[b]
<1>0. Shapes /\ Links /\ Hands(t) /\ Place(t) /\ pc[t] = "chain"  BY DEF IInv, Chain
<1>1. PICK l \in {"reread", "chain"} :
        pc' = [pc EXCEPT ![t] = l] /\ (l = "chain" <=> n[t] # 1)
  BY DEF Chain, Goto
<1>2. /\ word' = [word EXCEPT ![o] = next] /\ op' = [op EXCEPT ![t] = next]
      /\ n' = [n EXCEPT ![t] = n[t] - 1]
      /\ UNCHANGED <<NEXTF, cut, brk, bucket, link, held, stopped>>
  BY DEF Chain, Let
<1>3. /\ b \in BucketsOf(t) /\ b \in Buckets /\ b \in 0 .. Top - 1
      /\ o \in Free /\ cut[o] = b /\ word[o] = Null /\ n[t] > 0
  BY <1>0, OwnBucket DEF Place, OnBucket
<1>4. o \in Nat /\ n[t] \in Nat /\ Amt[b] \in Nat \ {0} /\ n[t] - 1 \in Nat /\ next \in Nat
  <2>1. o \in Nat /\ n[t] \in Nat /\ Amt[b] \in Nat \ {0}
    BY <1>0, <1>3, ExtentFacts DEF Shapes
  <2> HIDE DEF b, o
  <2> QED  BY <1>3, <2>1
<1>5. /\ o \in DOMAIN word /\ pc'[t] = l /\ op'[t] = next /\ n'[t] = n[t] - 1
      /\ \A u \in Thread : u # t => pc'[u] = pc[u] /\ op'[u] = op[u] /\ n'[u] = n[u]
  BY <1>0, <1>1, <1>2, <1>3 DEF Shapes, Free
<1>6. /\ Pending(t) = {o + i * Amt[b] : i \in 1 .. n[t]}
      /\ Pending(t)' = IF l = "chain" THEN {next + i * Amt[b] : i \in 1 .. n[t] - 1} ELSE {}
  BY <1>0, <1>1, <1>2, <1>5 DEF Pending
<1>7. /\ o \notin Pending(t) /\ next \in Pending(t) /\ Pending(t)' \subseteq Pending(t)
      /\ next \notin Pending(t)'
  <2>1. next \notin {next + i * Amt[b] : i \in 1 .. n[t] - 1}
    <3> HIDE DEF b, next
    <3> QED  BY <1>4, Following
  <2> HIDE DEF b, o
  <2>2. n[t] > 0  BY <1>3
  <2> DEFINE P == {o + i * Amt[b] : i \in 1 .. n[t]}
             Q == {next + i * Amt[b] : i \in 1 .. n[t] - 1}
  <2>3. o \notin P /\ next \in P /\ Q \subseteq P
    <3> HIDE DEF next
    <3> DEFINE size == Amt[b]
               m == n[t]
    <3>0. o \in Nat /\ size \in Nat \ {0} /\ m \in Nat  BY <1>4
    <3> HIDE DEF size, m
    <3>1. o \notin {o + i * size : i \in 1 .. m}  BY <3>0, Following
    <3>2. m > 0 => o + size \in {o + i * size : i \in 1 .. m}  BY <3>0, Following
    <3>3. m > 0 => {(o + size) + i * size : i \in 1 .. m - 1} \subseteq {o + i * size : i \in 1 .. m}
      BY <3>0, Following
    <3> QED  BY <2>2, <3>1, <3>2, <3>3 DEF next, size, m
  <2>4. Pending(t) = P /\ Pending(t)' = (IF l = "chain" THEN Q ELSE {}) /\ next \notin Q
    BY <1>6, <2>1
  <2> HIDE DEF P, Q
  <2> QED  BY <2>3, <2>4
<1>8. next \in Free /\ cut[next] = b /\ word[next] = Null /\ next # Null
  BY <1>0, <1>7 DEF Place, Free, Shapes, Null
<1>9. o # next  BY <1>7
<1> HIDE DEF b, o, next
<1>10. /\ word'[o] = next /\ DOMAIN word = DOMAIN cut
       /\ \A a \in DOMAIN cut : a # o => word'[a] = word[a]
  BY <1>0, <1>2, <1>5 DEF Shapes
<1>11. Owned(t)' = Owned(t)  BY <1>0, <1>1, <1>2, <1>5 DEF Owned
<1>12. Hands(t)'
  <2>1. \A i \in DOMAIN held[t] : held[t][i] \in Owned(t)  BY DEF Owned, Elems
  <2>2. \A i \in DOMAIN held[t] : held[t][i] # o /\ held[t][i] \in DOMAIN cut
    BY <1>0, <1>3, <2>1 DEF Free, Hands
  <2> QED  BY <1>0, <1>2, <1>10, <1>11, <2>2 DEF Hands
<1>13. \A u \in Thread : u # t =>
         Owned(u)' = Owned(u) /\ Pending(u)' = Pending(u) /\ Hands(u)' /\ Place(u)'
  BY <1>2, <1>3, <1>5, <1>10, <1>12, OthersStay
<1>14. Free' = Free  BY <1>2, <1>11, <1>13 DEF Free
<1>15. Unchained' \subseteq Unchained /\ next \in Unchained /\ next \notin Unchained'
  <2>1. \A u \in Thread : u # t => next \notin Pending(u)  BY <1>3, <1>8, Strangers
  <2> QED  BY <1>7, <1>13, <2>1 DEF Unchained
<1>16. Place(t)'
  <2>1. \A a \in Pending(t)' : a \in Free' /\ cut'[a] = bucket'[t] /\ word'[a] = Null
    <3> SUFFICES ASSUME NEW a \in Pending(t)'
                 PROVE  a \in Free' /\ cut'[a] = bucket'[t] /\ word'[a] = Null
      OBVIOUS
    <3>1. a \in Pending(t) /\ a # o  BY <1>7
    <3>2. a \in Free /\ cut[a] = bucket[t] /\ word[a] = Null /\ a \in DOMAIN cut
      BY <1>0, <3>1 DEF Place, Free
    <3> QED  BY <1>2, <1>10, <1>14, <3>1, <3>2
  <2>2. bucket'[t] \in BucketsOf(t)  BY <1>2, <1>3 DEF b
  <2>3. l = "chain" => /\ n'[t] > 0 /\ op'[t] \in Free' /\ cut'[op'[t]] = bucket'[t]
                       /\ word'[op'[t]] = Null
    <3>1. l = "chain" => n[t] - 1 > 0  BY <1>1, <1>3, <1>4
    <3>2. word'[next] = Null  BY <1>8, <1>9, <1>10 DEF Free
    <3> QED  BY <1>2, <1>5, <1>8, <1>14, <3>1, <3>2 DEF b
  <2> QED  BY <1>5, <2>1, <2>2, <2>3 DEF Place, Setting, Holding
<1>17. Shapes'
  <2>1. word' \in [DOMAIN cut -> Nat]  BY <1>0, <1>2, <1>4 DEF Shapes
  <2> QED  BY <1>0, <1>1, <1>2, <1>4, <2>1 DEF Shapes, OnBucket
<1>18. Links'
  <2>1. ASSUME NEW c \in Buckets, NEXTF[c] # Null
        PROVE  NEXTF[c] \in Free \ Unchained' /\ cut[NEXTF[c]] = c
    BY <1>0, <1>15, <2>1 DEF Links
  <2>2. NEXTF[b] # next  BY <1>0, <1>3, <1>8, <1>15 DEF Links
  <2>3. \A c \in Free : word[c] # next  BY <1>0, <1>8, <1>15 DEF Links
  <2>4. ASSUME NEW a \in Free, word'[a] # Null
        PROVE  /\ word'[a] \in Free \ Unchained' /\ cut[word'[a]] = cut[a]
               /\ word'[a] # NEXTF[cut[a]]
               /\ \A c \in Free : a # c => word'[a] # word'[c]
    <3>1. \A c \in Free : c # o => word'[c] = word[c]  BY <1>10 DEF Free
    <3>2. CASE a = o
      BY <1>3, <1>8, <1>10, <1>15, <2>2, <2>3, <3>1, <3>2
    <3>3. CASE a # o
      <4>1. /\ word[a] \in Free \ Unchained /\ cut[word[a]] = cut[a]
            /\ word[a] # NEXTF[cut[a]]
            /\ \A c \in Free : a # c => word[a] # word[c]
        BY <1>0, <2>4, <3>1, <3>3 DEF Links
      <4> QED  BY <1>10, <1>15, <2>3, <3>1, <3>3, <4>1
    <3> QED  BY <3>2, <3>3
  <2> QED  BY <1>2, <1>14, <2>1, <2>4 DEF Links
<1> QED  BY <1>2, <1>12, <1>13, <1>16, <1>17, <1>18 DEF IInv, CutApart, NeverCrashes

\* sbrk of morecore: the new blocks are above all others and nobody's, or there is no
\* memory and kmalloc looks at the list again.
LEMMA SbrkStep ==
  ASSUME OwnBuckets, IInv, NEW t \in Thread, Sbrk(t)
  PROVE  IInv'
<1> DEFINE b == bucket[t]
           new == Carved(brk, b)
<1>0. Shapes /\ Links /\ Hands(t) /\ Place(t) /\ pc[t] = "sbrk"  BY DEF IInv, Sbrk
<1>1. b \in BucketsOf(t) /\ b \in Buckets /\ b \in 0 .. Top - 1 /\ NEXTF[b] = Null
  BY <1>0, OwnBucket DEF Place, OnBucket
<1>2. CASE pc' = [pc EXCEPT ![t] = "reread"] /\ UNCHANGED <<brk, word, cut, op, n>>
  <2>1. UNCHANGED <<NEXTF, bucket, link, held, stopped>>  BY DEF Sbrk
  <2>2. stopped' \notin {"segfault", "panicked"} /\ brk =< brk
    BY <2>1 DEF IInv, NeverCrashes, Shapes
  <2>3. "reread" \in OnBucket /\ "reread" \notin Setting /\ bucket[t] \in BucketsOf(t)
        /\ pc[t] \notin {"publish", "chain"} \cup Holding
    BY <1>0, <1>1 DEF Setting, OnBucket, Holding
  <2>4. /\ brk \in Nat \ {0} /\ brk % 4 = 0 /\ op \in [Thread -> Nat]
        /\ bucket \in [Thread -> Nat] /\ n \in [Thread -> Nat] /\ link \in [Thread -> Nat]
    BY <1>0 DEF Shapes
  <2> HIDE DEF b
  <2> QED  BY <1>2, <2>1, <2>2, <2>3, <2>4, LocalStep
<1>3. CASE ~(pc' = [pc EXCEPT ![t] = "reread"] /\ UNCHANGED <<brk, word, cut, op, n>>)
  <2>1. /\ brk' = brk + SbrkAmt(b)
        /\ word' = [a \in DOMAIN word \cup new |-> IF a \in DOMAIN word THEN word[a] ELSE Null]
        /\ cut' = [a \in DOMAIN cut \cup new |-> IF a \in DOMAIN cut THEN cut[a] ELSE b]
        /\ op' = [op EXCEPT ![t] = brk] /\ n' = [n EXCEPT ![t] = NBlocks(b) - 1]
        /\ pc' = [pc EXCEPT ![t] = "publish"]
        /\ UNCHANGED <<NEXTF, bucket, link, held, stopped>>
    <3>1. b # Top  BY <1>1, GeometryAssumption
    <3> QED  BY <1>3, <3>1 DEF Sbrk, Goto, Let, Reserved
  <2>2. /\ brk \in Nat \ {0} /\ brk % 4 = 0 /\ SbrkAmt(b) \in Nat \ {0} /\ SbrkAmt(b) % 4 = 0
        /\ NBlocks(b) - 1 \in Nat /\ Extent(b) \in Nat \ {0}
    BY <1>0, <1>1, ExtentFacts DEF Shapes
  <2>3. /\ \A a \in new : a \in Nat \ {0} /\ brk =< a /\ a + Extent(b) =< brk + SbrkAmt(b)
        /\ \A a, c \in new : a # c => a + Extent(b) =< c \/ c + Extent(b) =< a
    BY <1>1, <2>2, CarvedFacts
  <2>4. DOMAIN word = DOMAIN cut /\ \A a \in DOMAIN cut :
          /\ a \in Nat /\ cut[a] \in 0 .. Top - 1 /\ Extent(cut[a]) \in Nat \ {0}
          /\ a + Extent(cut[a]) =< brk /\ a < brk
    <3>1. ASSUME NEW a \in DOMAIN cut
          PROVE  /\ a \in Nat /\ cut[a] \in 0 .. Top - 1 /\ Extent(cut[a]) \in Nat \ {0}
                 /\ a + Extent(cut[a]) =< brk
      BY <1>0, <3>1, ExtentFacts DEF Shapes, IInv, CutApart
    <3> QED  BY <1>0, <2>2, <3>1, SMTT(60) DEF Shapes
  <2>5. \A a \in new : a \notin DOMAIN cut  BY <2>2, <2>3, <2>4
  <2>6. pc'[t] = "publish" /\ op'[t] = brk /\ n'[t] = NBlocks(b) - 1
        /\ \A u \in Thread : u # t => pc'[u] = pc[u] /\ op'[u] = op[u] /\ n'[u] = n[u]
    BY <1>0, <2>1 DEF Shapes
  <2>7. Pending(t)' = new /\ Pending(t) = {}
    BY <1>0, <2>1, <2>6 DEF Pending, Carved
  <2> HIDE DEF b, new
  <2>8. /\ DOMAIN cut' = DOMAIN cut \cup new
        /\ \A a \in DOMAIN cut : cut'[a] = cut[a] /\ word'[a] = word[a]
        /\ \A a \in new : cut'[a] = b /\ word'[a] = Null
    BY <2>1, <2>4, <2>5
  <2>9. Owned(t)' = Owned(t)  BY <1>0, <2>1, <2>6 DEF Owned
  <2>10. Hands(t)'
    <3>1. \A i \in DOMAIN held[t] : held[t][i] \in Owned(t)  BY DEF Owned, Elems
    <3>2. \A i \in DOMAIN held[t] : held[t][i] \in DOMAIN cut  BY <1>0, <3>1 DEF Hands
    <3>3. held' = held /\ Owned(t) \subseteq DOMAIN cut  BY <1>0, <2>1 DEF Hands
    <3> QED  BY <1>0, <2>8, <2>9, <3>2, <3>3 DEF Hands
  <2>11. \A u \in Thread : u # t =>
           Owned(u)' = Owned(u) /\ Pending(u)' = Pending(u) /\ Hands(u)' /\ Place(u)'
    BY <2>1, <2>6, <2>8, <2>10, OthersStay
  <2>12. Free' = Free \cup new
    <3>1. \A u \in Thread : Owned(u)' = Owned(u) /\ Owned(u) \subseteq DOMAIN cut
      BY <2>9, <2>11 DEF IInv, Hands
    <3> QED  BY <2>5, <2>8, <3>1 DEF Free
  <2>13. Unchained' = Unchained \cup new  BY <2>7, <2>11 DEF Unchained
  <2>14. Place(t)'
    <3>1. \A a \in Pending(t)' : a \in Free' /\ cut'[a] = bucket'[t] /\ word'[a] = Null
      BY <2>1, <2>7, <2>8, <2>12 DEF b
    <3>2. bucket'[t] \in BucketsOf(t) /\ NEXTF'[bucket'[t]] = Null  BY <1>1, <2>1 DEF b
    <3> QED  BY <2>6, <3>1, <3>2 DEF Place, Setting, Holding
  <2>15. Shapes'
    <3>1. /\ cut' \in [DOMAIN cut' -> 0 .. Top - 1] /\ DOMAIN cut' \subseteq Nat \ {0}
          /\ word' \in [DOMAIN cut' -> Nat]
      BY <1>0, <1>1, <2>1, <2>3, <2>4, <2>8 DEF Shapes, Null
    <3>2. brk' \in Nat \ {0} /\ brk' % 4 = 0  BY <2>1, <2>2
    <3> QED  BY <1>0, <2>1, <2>2, <3>1, <3>2 DEF Shapes, OnBucket
  <2>16. CutApart'
    <3>1. \A a \in DOMAIN cut' : a + Extent(cut'[a]) =< brk'
      BY <2>1, <2>2, <2>3, <2>4, <2>8
    <3>2. ASSUME NEW a \in DOMAIN cut', NEW c \in DOMAIN cut', a < c
          PROVE  a + Extent(cut'[a]) =< c
      <4>1. CASE a \in DOMAIN cut /\ c \in DOMAIN cut
        BY <2>8, <3>2, <4>1 DEF IInv, CutApart
      <4>2. CASE a \in DOMAIN cut /\ c \in new
        BY <2>2, <2>3, <2>4, <2>8, <4>2
      <4>3. CASE a \in new /\ c \in DOMAIN cut
        BY <2>2, <2>3, <2>4, <3>2, <4>3
      <4>4. CASE a \in new /\ c \in new
        BY <2>2, <2>3, <2>8, <3>2, <4>4
      <4> QED  BY <2>8, <4>1, <4>2, <4>3, <4>4
    <3> QED  BY <3>1, <3>2 DEF CutApart
  <2>17. Links'
    <3>1. ASSUME NEW c \in Buckets, NEXTF[c] # Null
          PROVE  NEXTF[c] \in Free' \ Unchained' /\ cut'[NEXTF[c]] = c
      <4>1. NEXTF[c] \in Free \ Unchained /\ cut[NEXTF[c]] = c /\ NEXTF[c] \in DOMAIN cut
        BY <1>0, <3>1 DEF Links, Free
      <4> QED  BY <2>5, <2>8, <2>12, <2>13, <4>1
    <3>2. ASSUME NEW a \in Free', word'[a] # Null
          PROVE  /\ word'[a] \in Free' \ Unchained' /\ cut'[word'[a]] = cut'[a]
                 /\ word'[a] # NEXTF[cut'[a]]
                 /\ \A c \in Free' : a # c => word'[a] # word'[c]
      <4>1. a \in Free /\ a \in DOMAIN cut /\ word'[a] = word[a] /\ cut'[a] = cut[a]
        BY <2>8, <2>12, <3>2 DEF Free
      <4>2. /\ word[a] \in Free \ Unchained /\ cut[word[a]] = cut[a]
            /\ word[a] # NEXTF[cut[a]]
            /\ \A c \in Free : a # c => word[a] # word[c]
        BY <1>0, <3>2, <4>1 DEF Links
      <4>3. word[a] \in DOMAIN cut  BY <4>2 DEF Free
      <4>4. \A c \in Free' : a # c => word[a] # word'[c]
        BY <2>8, <2>12, <3>2, <4>1, <4>2 DEF Free
      <4> QED  BY <2>5, <2>8, <2>12, <2>13, <4>1, <4>2, <4>3, <4>4
    <3>3. NEXTF' = NEXTF  BY <2>1
    <3> QED  BY <3>1, <3>2, <3>3 DEF Links
  <2> QED  BY <2>1, <2>10, <2>11, <2>14, <2>15, <2>16, <2>17 DEF IInv, NeverCrashes
<1> QED  BY <1>2, <1>3

\* The store of NEXTF[bucket] = overhead.ov_next: nobody moved the head since it was
\* loaded, so the block leaves its list and is the thread's.
LEMMA PopStep ==
  ASSUME OwnBuckets, IInv, NEW t \in Thread, Pop(t)
  PROVE  IInv'
<1> DEFINE b == bucket[t]
           o == op[t]
<1>0. Shapes /\ Links /\ Hands(t) /\ Place(t) /\ pc[t] = "pop"  BY DEF IInv, Pop
<1>1. /\ NEXTF' = [NEXTF EXCEPT ![b] = link[t]] /\ pc' = [pc EXCEPT ![t] = "stamp"]
      /\ UNCHANGED <<word, cut, brk, op, bucket, n, link, held, stopped>>
  BY DEF Pop, Goto, Let, Popped, locals
<1>2. /\ b \in BucketsOf(t) /\ b \in Buckets /\ o # Null /\ o = NEXTF[b] /\ link[t] = word[o]
  BY <1>0, OwnBucket DEF Place, OnBucket
<1>3. o \in Free /\ o \notin Unchained /\ cut[o] = b  BY <1>0, <1>2 DEF Links
<1>4. /\ pc'[t] = "stamp" /\ \A u \in Thread : u # t => pc'[u] = pc[u]
      /\ NEXTF'[b] = word[o] /\ \A c \in Buckets : c # b => NEXTF'[c] = NEXTF[c]
  BY <1>0, <1>1, <1>2 DEF Shapes
<1>5. Owned(t)' = Owned(t) \cup {o}  BY <1>0, <1>1, <1>4 DEF Owned
<1>6. Pending(t)' = {} /\ Pending(t) = {}  BY <1>0, <1>4, NothingPending DEF Pending
<1>7. bucket'[t] = b /\ op'[t] = o  BY <1>1
<1> HIDE DEF b, o
<1>8. Hands(t)'
  BY <1>0, <1>1, <1>2, <1>3, <1>5 DEF Hands, Free
<1>9. \A u \in Thread : u # t =>
        Owned(u)' = Owned(u) /\ Pending(u)' = Pending(u) /\ Hands(u)' /\ Place(u)'
  BY <1>1, <1>2, <1>4, <1>8, OthersStay
<1>10. Free' = Free \ {o}  BY <1>1, <1>5, <1>9 DEF Free
<1>11. Unchained' = Unchained  BY <1>6, <1>9 DEF Unchained
<1>12. Place(t)'
  <2>1. o \notin Elems(held[t]) /\ o \in DOMAIN cut  BY <1>3 DEF Free, Owned
  <2> QED  BY <1>1, <1>2, <1>3, <1>4, <1>6, <1>7, <2>1
           DEF Place, Setting, OnBucket, Holding
<1>13. Shapes'
  <2>1. link[t] \in Nat  BY <1>0 DEF Shapes
  <2>2. NEXTF' \in [Buckets -> Nat]  BY <1>0, <1>1, <2>1 DEF Shapes
  <2> QED  BY <1>0, <1>1, <2>2 DEF Shapes, Holding
<1>14. Links'
  <2>1. ASSUME NEW a \in Free, word[a] # Null
        PROVE  /\ word[a] \in Free \ Unchained /\ cut[word[a]] = cut[a]
               /\ word[a] # NEXTF[cut[a]] /\ cut[a] \in Buckets
               /\ \A c \in Free : a # c => word[a] # word[c]
    BY <1>0, <2>1, ExtentFacts, ZenonT(100) DEF Links, Shapes, Free
  <2>2. word[o] # Null => word[o] \in Free \ Unchained /\ cut[word[o]] = b /\ word[o] # o
    BY <1>2, <1>3, <2>1
  <2>3. ASSUME NEW c \in Buckets, NEXTF'[c] # Null
        PROVE  NEXTF'[c] \in Free' \ Unchained' /\ cut[NEXTF'[c]] = c
    <3>1. CASE c = b  BY <1>4, <1>10, <1>11, <2>2, <2>3, <3>1
    <3>2. CASE c # b
      <4>1. NEXTF[c] \in Free \ Unchained /\ cut[NEXTF[c]] = c
        BY <1>0, <1>4, <2>3, <3>2 DEF Links
      <4> QED  BY <1>3, <1>4, <1>10, <1>11, <3>2, <4>1
    <3> QED  BY <3>1, <3>2
  <2>4. ASSUME NEW a \in Free', word[a] # Null
        PROVE  /\ word[a] \in Free' \ Unchained' /\ cut[word[a]] = cut[a]
               /\ word[a] # NEXTF'[cut[a]]
               /\ \A c \in Free' : a # c => word[a] # word[c]
    <3>1. a \in Free /\ a # o  BY <1>10
    <3>2. word[a] # o
      BY <1>2, <1>3, <2>1, <2>4, <3>1
    <3> QED  BY <1>3, <1>4, <1>10, <1>11, <2>1, <2>4, <3>1, <3>2
  <2> QED  BY <1>1, <2>3, <2>4 DEF Links
<1> QED  BY <1>1, <1>8, <1>9, <1>12, <1>13, <1>14 DEF IInv, CutApart, NeverCrashes

\* The header says that the block is in use, and of which bucket; the call returns it.
LEMMA StampStep ==
  ASSUME OwnBuckets, IInv, NEW t \in Thread, StampHeader(t)
  PROVE  IInv'
<1> DEFINE b == bucket[t]
           o == op[t]
<1>0. Shapes /\ Links /\ Hands(t) /\ Place(t) /\ pc[t] = "stamp"  BY DEF IInv, StampHeader
<1>1. /\ word' = [word EXCEPT ![o] = Stamp(word[o], b)]
      /\ held' = [held EXCEPT ![t] = Append(held[t], o)]
      /\ pc' = [pc EXCEPT ![t] = "idle"]
      /\ op' = [op EXCEPT ![t] = Null] /\ bucket' = [bucket EXCEPT ![t] = 0]
      /\ n' = [n EXCEPT ![t] = 0] /\ link' = [link EXCEPT ![t] = Null]
      /\ UNCHANGED <<NEXTF, cut, brk, stopped>>
  BY DEF StampHeader, Goto, Let
<1>2. /\ b \in BucketsOf(t) /\ b \in 0 .. 255 /\ o \in DOMAIN cut /\ cut[o] = b
      /\ o \notin Elems(held[t]) /\ word[o] \in Nat /\ o \in Nat
  BY <1>0, OwnBucket, ExtentFacts DEF Place, Holding, Shapes
<1>3. Stamp(word[o], b) \in Nat /\ OvIndex(Stamp(word[o], b)) = b
  BY <1>2, StampFacts
<1>4. /\ pc'[t] = "idle" /\ held'[t] = Append(held[t], o)
      /\ \A u \in Thread : u # t => /\ pc'[u] = pc[u] /\ op'[u] = op[u] /\ bucket'[u] = bucket[u]
                                   /\ n'[u] = n[u] /\ link'[u] = link[u] /\ held'[u] = held[u]
  BY <1>0, <1>1 DEF Shapes
<1>5. o \in Owned(t) /\ Owned(t) = Elems(held[t]) \cup {o}
  BY <1>0, OwnedBlocks DEF Holding
<1> HIDE DEF b, o
<1>6. held[t] \in Seq(Nat)  BY <1>0 DEF Shapes
<1>7. /\ DOMAIN held'[t] = 1 .. Len(held[t]) + 1 /\ DOMAIN held[t] = 1 .. Len(held[t])
      /\ \A i \in DOMAIN held[t] : held'[t][i] = held[t][i]
      /\ held'[t][Len(held[t]) + 1] = o /\ Len(held[t]) \in Nat
  BY <1>2, <1>4, <1>6
<1>8. \A i \in DOMAIN held'[t] : i \in DOMAIN held[t] \/ i = Len(held[t]) + 1
  BY <1>7
<1>9. Elems(held[t])' = Elems(held[t]) \cup {o}
  BY <1>7, <1>8 DEF Elems
<1>10. Owned(t)' = Owned(t)
  BY <1>4, <1>5, <1>9 DEF Owned
<1>11. /\ word'[o] = Stamp(word[o], b) /\ \A a \in DOMAIN cut : a # o => word'[a] = word[a]
       /\ word' \in [DOMAIN cut -> Nat]
  BY <1>0, <1>1, <1>2, <1>3 DEF Shapes
<1>12. Hands(t)'
  <2>1. \A i \in DOMAIN held[t] : held[t][i] # o /\ held[t][i] \in DOMAIN cut
    <3>1. \A i \in DOMAIN held[t] : held[t][i] \in Elems(held[t])  BY DEF Elems
    <3> QED  BY <1>0, <1>2, <1>5, <3>1 DEF Hands
  <2>2. \A i \in DOMAIN held'[t] : OvIndex(word'[held'[t][i]]) = cut[held'[t][i]]
    BY <1>0, <1>2, <1>3, <1>7, <1>8, <1>11, <2>1 DEF Hands
  <2>3. \A i, j \in DOMAIN held'[t] : i # j => held'[t][i] # held'[t][j]
    BY <1>0, <1>7, <1>8, <2>1 DEF Hands
  <2>4. cut' = cut  BY <1>1
  <2> QED  BY <1>0, <1>10, <2>2, <2>3, <2>4 DEF Hands
<1>13. \A u \in Thread : u # t =>
         Owned(u)' = Owned(u) /\ Pending(u)' = Pending(u) /\ Hands(u)' /\ Place(u)'
  <2>1. cut' = cut /\ NEXTF' = NEXTF  BY <1>1
  <2> QED  BY <1>2, <1>4, <1>11, <1>12, <2>1, OthersStay
<1>14. Pending(t) = {} /\ Pending(t)' = {}  BY <1>0, <1>4 DEF Pending
<1>15. Free' = Free /\ Unchained' = Unchained /\ o \notin Free
  BY <1>1, <1>5, <1>10, <1>13, <1>14 DEF Free, Unchained
<1>16. Place(t)'  BY <1>4, <1>14 DEF Place, Setting, OnBucket, Holding
<1>17. Shapes'
  <2>1. held' \in [Thread -> Seq(Nat)]  BY <1>0, <1>1, <1>2 DEF Shapes
  <2>2. Null \in Nat  BY DEF Null
  <2> QED  BY <1>0, <1>1, <1>11, <2>1, <2>2 DEF Shapes
<1>18. Links'
  <2>1. \A a \in Free : word'[a] = word[a]  BY <1>11, <1>15 DEF Free
  <2>2. cut' = cut /\ NEXTF' = NEXTF  BY <1>1
  <2> QED  BY <1>0, <1>15, <2>1, <2>2 DEF Links
<1> QED  BY <1>1, <1>12, <1>13, <1>16, <1>17, <1>18 DEF IInv, CutApart, NeverCrashes

\* A sequence without its i-th member.
LEMMA Without ==
  ASSUME NEW s \in Seq(Nat), NEW i \in DOMAIN s,
         \A j, k \in DOMAIN s : j # k => s[j] # s[k]
  PROVE  LET r == SubSeq(s, 1, i - 1) \o SubSeq(s, i + 1, Len(s))
         IN  /\ r \in Seq(Nat) /\ \A j \in DOMAIN r : r[j] \in Elems(s)
             /\ \A j, k \in DOMAIN r : j # k => r[j] # r[k]
             /\ s[i] \notin Elems(r) /\ Elems(s) = Elems(r) \cup {s[i]}
<1> DEFINE m == Len(s)
           r == SubSeq(s, 1, i - 1) \o SubSeq(s, i + 1, m)
           At(j) == IF j < i THEN j ELSE j + 1
<1>1. m \in Nat /\ DOMAIN s = 1 .. m /\ i \in 1 .. m /\ i \in Int  OBVIOUS
<1>2. /\ SubSeq(s, 1, i - 1) \in Seq(Nat) /\ Len(SubSeq(s, 1, i - 1)) = i - 1
      /\ \A j \in 1 .. i - 1 : SubSeq(s, 1, i - 1)[j] = s[j]
  <2>1. \A j \in 1 .. i - 1 : s[j] \in Nat  BY <1>1
  <2>2. /\ SubSeq(s, 1, i - 1) \in Seq(Nat)
        /\ Len(SubSeq(s, 1, i - 1)) = IF 1 =< i - 1 THEN i - 1 - 1 + 1 ELSE 0
        /\ \A j \in 1 .. i - 1 - 1 + 1 : SubSeq(s, 1, i - 1)[j] = s[1 + j - 1]
    <3>1. 1 \in Int /\ i - 1 \in Int  BY <1>1
    <3> HIDE DEF m, r, At
    <3> QED  BY <2>1, <3>1, SubSeqProperties
  <2>3. \A j \in 1 .. i - 1 : j \in 1 .. i - 1 - 1 + 1 /\ 1 + j - 1 = j  BY <1>1
  <2> QED  BY <1>1, <2>2, <2>3
<1>3. /\ SubSeq(s, i + 1, m) \in Seq(Nat) /\ Len(SubSeq(s, i + 1, m)) = m - i
      /\ \A j \in 1 .. m - i : SubSeq(s, i + 1, m)[j] = s[i + j]
  <2>1. \A j \in i + 1 .. m : s[j] \in Nat  BY <1>1
  <2>2. /\ SubSeq(s, i + 1, m) \in Seq(Nat)
        /\ Len(SubSeq(s, i + 1, m)) = IF i + 1 =< m THEN m - (i + 1) + 1 ELSE 0
        /\ \A j \in 1 .. m - (i + 1) + 1 : SubSeq(s, i + 1, m)[j] = s[i + 1 + j - 1]
    <3>1. i + 1 \in Int /\ m \in Int  BY <1>1
    <3> HIDE DEF m, r, At
    <3> QED  BY <2>1, <3>1, SubSeqProperties, SMTT(60)
  <2>3. \A j \in 1 .. m - i : j \in 1 .. m - (i + 1) + 1 /\ i + 1 + j - 1 = i + j  BY <1>1
  <2> QED  BY <1>1, <2>2, <2>3, SMTT(60)
<1>4. /\ r \in Seq(Nat) /\ Len(r) = m - 1 /\ DOMAIN r = 1 .. m - 1
      /\ \A j \in 1 .. m - 1 : r[j] = IF j =< i - 1 THEN SubSeq(s, 1, i - 1)[j]
                                        ELSE SubSeq(s, i + 1, m)[j - (i - 1)]
  <2> DEFINE s1 == SubSeq(s, 1, i - 1)
             s2 == SubSeq(s, i + 1, m)
  <2>1. s1 \in Seq(Nat) /\ s2 \in Seq(Nat) /\ Len(s1) = i - 1 /\ Len(s2) = m - i
    BY <1>2, <1>3
  <2> HIDE DEF s1, s2
  <2>2. /\ s1 \o s2 \in Seq(Nat) /\ Len(s1 \o s2) = Len(s1) + Len(s2)
        /\ \A j \in 1 .. Len(s1) + Len(s2) : (s1 \o s2)[j] =
             IF j <= Len(s1) THEN s1[j] ELSE s2[j - Len(s1)]
    BY <2>1, ConcatProperties
  <2>3. Len(s1) + Len(s2) = m - 1  BY <1>1, <2>1
  <2>4. r = s1 \o s2  BY DEF s1, s2
  <2> HIDE DEF r
  <2>5. /\ r \in Seq(Nat) /\ Len(r) = m - 1
        /\ \A j \in 1 .. m - 1 : r[j] = IF j =< i - 1 THEN s1[j] ELSE s2[j - (i - 1)]
    BY <2>1, <2>2, <2>3, <2>4
  <2>6. DOMAIN r = 1 .. m - 1  BY <1>1, <2>5
  <2> QED  BY <2>5, <2>6 DEF s1, s2
<1>5. \A j \in 1 .. m - 1 : r[j] = s[At(j)] /\ At(j) \in 1 .. m /\ At(j) # i
  <2> SUFFICES ASSUME NEW j \in 1 .. m - 1
               PROVE  r[j] = s[At(j)] /\ At(j) \in 1 .. m /\ At(j) # i
    OBVIOUS
  <2>0. At(j) \in 1 .. m /\ At(j) # i  BY <1>1
  <2> HIDE DEF r
  <2>1. CASE j < i
    <3>1. j \in 1 .. i - 1  BY <1>1, <2>1
    <3> QED  BY <1>2, <1>4, <2>0, <2>1, <3>1
  <2>2. CASE ~(j < i)
    <3>1. j - (i - 1) \in 1 .. m - i /\ i + (j - (i - 1)) = j + 1 /\ ~(j =< i - 1)
      BY <1>1, <2>2
    <3>2. r[j] = SubSeq(s, i + 1, m)[j - (i - 1)]  BY <1>4, <3>1
    <3> QED  BY <1>3, <2>0, <2>2, <3>1, <3>2
  <2> QED  BY <2>1, <2>2
<1>6. \A j, k \in 1 .. m - 1 : j # k => At(j) # At(k)  BY <1>1
<1>7. \A k \in 1 .. m : k # i => \E j \in 1 .. m - 1 : At(j) = k
  <2> SUFFICES ASSUME NEW k \in 1 .. m, k # i PROVE \E j \in 1 .. m - 1 : At(j) = k
    OBVIOUS
  <2>1. CASE k < i  BY <1>1, <2>1
  <2>2. CASE k > i
    <3>1. k - 1 \in 1 .. m - 1 /\ At(k - 1) = k  BY <1>1, <2>2
    <3> QED  BY <3>1
  <2> QED  BY <1>1, <2>1, <2>2
<1> HIDE DEF At, r, m
<1>8. \A j \in DOMAIN r : r[j] \in Elems(s) /\ r[j] # s[i]  BY <1>1, <1>4, <1>5, SMTT(60) DEF Elems
<1>9. \A j, k \in DOMAIN r : j # k => r[j] # r[k]  BY <1>1, <1>4, <1>5, <1>6, SMTT(60)
<1>10. s[i] \notin Elems(r)  BY <1>8 DEF Elems
<1>11. ASSUME NEW x \in Elems(s), x # s[i] PROVE x \in Elems(r)
  <2>1. PICK k \in 1 .. m : x = s[k]  BY <1>1 DEF Elems
  <2>2. PICK j \in 1 .. m - 1 : At(j) = k  BY <1>7, <1>11, <2>1
  <2>3. x = r[j] /\ j \in DOMAIN r  BY <1>4, <1>5, <2>1, <2>2
  <2> QED  BY <2>3 DEF Elems
<1>12. s[i] \in Elems(s) /\ Elems(r) \subseteq Elems(s)  BY <1>8 DEF Elems
<1>13. Elems(s) = Elems(r) \cup {s[i]}  BY <1>11, <1>12
<1> QED  BY <1>4, <1>8, <1>9, <1>10, <1>13 DEF r, m

\* kfree begins: the header names the list on which the block goes.
LEMMA CallDeallocStep ==
  ASSUME OwnBuckets, IInv, NEW t \in Thread, CallDealloc(t)
  PROVE  IInv'
<1>0. Shapes /\ Links /\ Hands(t) /\ Place(t) /\ pc[t] = "idle"  BY DEF IInv, CallDealloc
<1>1. PICK i \in DOMAIN held[t] :
        /\ op' = [op EXCEPT ![t] = held[t][i]]
        /\ bucket' = [bucket EXCEPT ![t] = OvIndex(word[held[t][i]])]
        /\ held' = [held EXCEPT ![t] = SubSeq(held[t], 1, i - 1)
                                       \o SubSeq(held[t], i + 1, Len(held[t]))]
  BY DEF CallDealloc, Let
<1>2. /\ pc' = [pc EXCEPT ![t] = "link"]
      /\ UNCHANGED <<NEXTF, word, cut, brk, n, link, stopped>>
  BY DEF CallDealloc, Goto, shared
<1> DEFINE o == held[t][i]
           r == SubSeq(held[t], 1, i - 1) \o SubSeq(held[t], i + 1, Len(held[t]))
<1>3. held[t] \in Seq(Nat) /\ \A j, k \in DOMAIN held[t] : j # k => held[t][j] # held[t][k]
  BY <1>0 DEF Shapes, Hands
<1>4. /\ r \in Seq(Nat) /\ \A j \in DOMAIN r : r[j] \in Elems(held[t])
      /\ \A j, k \in DOMAIN r : j # k => r[j] # r[k]
      /\ o \notin Elems(r) /\ Elems(held[t]) = Elems(r) \cup {o}
  BY <1>3, Without, ZenonT(100)
<1>5. /\ pc'[t] = "link" /\ op'[t] = o /\ bucket'[t] = OvIndex(word[o]) /\ held'[t] = r
      /\ \A u \in Thread : u # t => /\ pc'[u] = pc[u] /\ op'[u] = op[u] /\ bucket'[u] = bucket[u]
                                   /\ held'[u] = held[u]
  BY <1>0, <1>1, <1>2 DEF Shapes
<1>6. OvIndex(word[o]) = cut[o] /\ o \in Elems(held[t])  BY <1>0 DEF Hands, Elems
<1> HIDE DEF o, r
<1>7. Owned(t) = Elems(held[t]) /\ Owned(t)' = Elems(r) \cup {o}
  BY <1>0, <1>5 DEF Owned
<1>8. o \in DOMAIN cut /\ cut[o] \in BucketsOf(t) /\ o \in Nat /\ cut[o] \in Nat
  <2>1. o \in DOMAIN cut /\ cut[o] \in BucketsOf(t)  BY <1>0, <1>6, <1>7 DEF Hands
  <2>2. cut[o] \in 0 .. Top - 1 /\ o \in Nat  BY <1>0, <2>1 DEF Shapes
  <2> QED  BY <2>1, <2>2
<1>9. Hands(t)'
  <2>1. \A j \in DOMAIN r : OvIndex(word[r[j]]) = cut[r[j]]
    BY <1>0, <1>4 DEF Hands, Elems
  <2> QED  BY <1>0, <1>2, <1>4, <1>5, <1>7, <2>1 DEF Hands
<1>10. \A u \in Thread : u # t =>
         Owned(u)' = Owned(u) /\ Pending(u)' = Pending(u) /\ Hands(u)' /\ Place(u)'
  BY <1>2, <1>5, <1>9, OthersStay
<1>11. Pending(t) = {} /\ Pending(t)' = {}  BY <1>0, <1>5 DEF Pending
<1>12. Free' = Free /\ Unchained' = Unchained
  <2>1. \A u \in Thread : Owned(u)' = Owned(u) /\ Pending(u)' = Pending(u)
    BY <1>4, <1>7, <1>10, <1>11
  <2> QED  BY <1>2, <2>1 DEF Free, Unchained
<1>13. Place(t)'
  BY <1>2, <1>4, <1>5, <1>6, <1>8, <1>11 DEF Place, Setting, OnBucket, Holding
<1>14. Shapes'
  <2>1. op' \in [Thread -> Nat] /\ bucket' \in [Thread -> Nat] /\ held' \in [Thread -> Seq(Nat)]
    BY <1>0, <1>1, <1>4, <1>6, <1>8 DEF Shapes, o, r
  <2> QED  BY <1>0, <1>2, <2>1 DEF Shapes, Holding
<1>15. Links'
  <2>1. NEXTF' = NEXTF /\ word' = word /\ cut' = cut  BY <1>2
  <2> QED  BY <1>0, <1>12, <2>1 DEF Links
<1> QED  BY <1>2, <1>9, <1>10, <1>13, <1>14, <1>15 DEF IInv, CutApart, NeverCrashes

\* overhead->ov_next = NEXTF[size]: the header's block is still the thread's own.
LEMMA LinkBlockStep ==
  ASSUME OwnBuckets, IInv, NEW t \in Thread, LinkBlock(t)
  PROVE  IInv'
<1> DEFINE b == bucket[t]
           o == op[t]
<1>0. Shapes /\ Links /\ Hands(t) /\ Place(t) /\ pc[t] = "link"  BY DEF IInv, LinkBlock
<1>1. /\ b \in BucketsOf(t) /\ b \in Buckets /\ o \in DOMAIN cut /\ cut[o] = b
      /\ o \notin Elems(held[t])
  BY <1>0, OwnBucket DEF Place, Holding
<1>2. /\ word' = [word EXCEPT ![o] = NEXTF[b]] /\ pc' = [pc EXCEPT ![t] = "push"]
      /\ UNCHANGED <<NEXTF, cut, brk, op, bucket, n, link, held, stopped>>
  BY <1>1 DEF LinkBlock, Goto, Let, NewLink, locals
<1>3. pc'[t] = "push" /\ \A u \in Thread : u # t => pc'[u] = pc[u]
  BY <1>0, <1>2 DEF Shapes
<1>4. NEXTF[b] \in Nat  BY <1>0, <1>1 DEF Shapes
<1>5. Owned(t) = Elems(held[t]) \cup {o} /\ Owned(t)' = Owned(t)
  BY <1>0, <1>2, <1>3, OwnedBlocks DEF Owned, Holding
<1>6. bucket'[t] = b /\ op'[t] = o  BY <1>2
<1> HIDE DEF b, o
<1>7. /\ word'[o] = NEXTF[b] /\ \A a \in DOMAIN cut : a # o => word'[a] = word[a]
      /\ word' \in [DOMAIN cut -> Nat]
  BY <1>0, <1>1, <1>2, <1>4 DEF Shapes
<1>8. Hands(t)'
  <2>1. \A i \in DOMAIN held[t] : held[t][i] # o /\ held[t][i] \in DOMAIN cut
    <3>1. \A i \in DOMAIN held[t] : held[t][i] \in Elems(held[t])  BY DEF Elems
    <3> QED  BY <1>0, <1>1, <1>5, <3>1 DEF Hands
  <2>2. held' = held /\ cut' = cut  BY <1>2
  <2> QED  BY <1>0, <1>5, <1>7, <2>1, <2>2 DEF Hands
<1>9. \A u \in Thread : u # t =>
        Owned(u)' = Owned(u) /\ Pending(u)' = Pending(u) /\ Hands(u)' /\ Place(u)'
  <2>1. cut' = cut /\ NEXTF' = NEXTF  BY <1>2
  <2> QED  BY <1>1, <1>2, <1>3, <1>7, <1>8, <2>1, OthersStay
<1>10. Pending(t) = {} /\ Pending(t)' = {}  BY <1>0, <1>3 DEF Pending
<1>11. Free' = Free /\ Unchained' = Unchained /\ o \notin Free
  BY <1>2, <1>5, <1>9, <1>10 DEF Free, Unchained
<1>12. Place(t)'
  BY <1>1, <1>2, <1>3, <1>6, <1>7, <1>10 DEF Place, Setting, OnBucket, Holding
<1>13. Shapes'  BY <1>0, <1>2, <1>7 DEF Shapes, Holding
<1>14. Links'
  <2>1. \A a \in Free : word'[a] = word[a]  BY <1>7, <1>11 DEF Free
  <2>2. cut' = cut /\ NEXTF' = NEXTF  BY <1>2
  <2> QED  BY <1>0, <1>11, <2>1, <2>2 DEF Links
<1> QED  BY <1>2, <1>8, <1>9, <1>12, <1>13, <1>14 DEF IInv, CutApart, NeverCrashes

\* NEXTF[size] = overhead: the block heads its list.
LEMMA PushStep ==
  ASSUME OwnBuckets, IInv, NEW t \in Thread, Push(t)
  PROVE  IInv'
<1> DEFINE b == bucket[t]
           o == op[t]
<1>0. Shapes /\ Links /\ Hands(t) /\ Place(t) /\ pc[t] = "push"  BY DEF IInv, Push
<1>1. /\ NEXTF' = [NEXTF EXCEPT ![b] = o] /\ pc' = [pc EXCEPT ![t] = "idle"]
      /\ op' = [op EXCEPT ![t] = Null] /\ bucket' = [bucket EXCEPT ![t] = 0]
      /\ UNCHANGED <<word, cut, brk, n, link, held, stopped>>
  BY DEF Push, Goto, Let
<1>2. /\ b \in BucketsOf(t) /\ b \in Buckets /\ o \in DOMAIN cut /\ cut[o] = b
      /\ o \notin Elems(held[t]) /\ word[o] = NEXTF[b] /\ o \in Nat \ {0}
  BY <1>0, OwnBucket DEF Place, Holding, Shapes
<1>3. /\ pc'[t] = "idle" /\ NEXTF'[b] = o /\ \A c \in Buckets : c # b => NEXTF'[c] = NEXTF[c]
      /\ \A u \in Thread : u # t => pc'[u] = pc[u] /\ op'[u] = op[u] /\ bucket'[u] = bucket[u]
  BY <1>0, <1>1, <1>2 DEF Shapes
<1>4. Owned(t) = Elems(held[t]) \cup {o} /\ Owned(t)' = Elems(held[t])
  BY <1>0, <1>1, <1>3, OwnedBlocks DEF Owned, Holding
<1> HIDE DEF b, o
<1>5. Hands(t)'
  <2>1. held' = held /\ cut' = cut /\ word' = word  BY <1>1
  <2> QED  BY <1>0, <1>4, <2>1 DEF Hands
<1>6. \A u \in Thread : u # t =>
        Owned(u)' = Owned(u) /\ Pending(u)' = Pending(u) /\ Hands(u)' /\ Place(u)'
  BY <1>1, <1>2, <1>3, <1>5, OthersStay
<1>7. Pending(t) = {} /\ Pending(t)' = {}  BY <1>0, <1>3 DEF Pending
<1>8. Unchained' = Unchained /\ o \notin Unchained
  <2>1. \A u \in Thread : u # t => o \notin Pending(u)  BY <1>2, Strangers
  <2> QED  BY <1>6, <1>7, <2>1 DEF Unchained
<1>9. o \notin Free /\ Free' = Free \cup {o}
  <2>1. \A u \in Thread : u # t => o \notin Owned(u)  BY <1>2, Strangers
  <2>2. cut' = cut  BY <1>1
  <2> QED  BY <1>2, <1>4, <1>6, <2>1, <2>2 DEF Free
<1>10. Place(t)'  BY <1>3, <1>7 DEF Place, Setting, OnBucket, Holding
<1>11. Shapes'
  <2>1. NEXTF' \in [Buckets -> Nat]  BY <1>0, <1>1, <1>2 DEF Shapes
  <2>2. Null \in Nat  BY DEF Null
  <2> QED  BY <1>0, <1>1, <2>1, <2>2 DEF Shapes
<1>12. Links'
  <2>1. ASSUME NEW a \in Free, word[a] # Null
        PROVE  /\ word[a] \in Free \ Unchained /\ cut[word[a]] = cut[a]
               /\ word[a] # NEXTF[cut[a]] /\ cut[a] \in Buckets
               /\ \A c \in Free : a # c => word[a] # word[c]
    BY <1>0, <2>1, ExtentFacts, ZenonT(100) DEF Links, Shapes, Free
  <2>2. word[o] # Null => word[o] \in Free \ Unchained /\ cut[word[o]] = b
    BY <1>0, <1>2 DEF Links
  <2>3. ASSUME NEW c \in Free, word[o] # Null PROVE word[o] # word[c]
    BY <1>2, <2>1, <2>2, <2>3
  <2>4. ASSUME NEW c \in Buckets, NEXTF'[c] # Null
        PROVE  NEXTF'[c] \in Free' \ Unchained' /\ cut[NEXTF'[c]] = c
    <3>1. CASE c = b  BY <1>2, <1>3, <1>8, <1>9, <3>1
    <3>2. CASE c # b
      <4>1. NEXTF[c] \in Free \ Unchained /\ cut[NEXTF[c]] = c
        BY <1>0, <1>3, <2>4, <3>2 DEF Links
      <4> QED  BY <1>3, <1>8, <1>9, <3>2, <4>1
    <3> QED  BY <3>1, <3>2
  <2>5. ASSUME NEW a \in Free', word[a] # Null
        PROVE  /\ word[a] \in Free' \ Unchained' /\ cut[word[a]] = cut[a]
               /\ word[a] # NEXTF'[cut[a]]
               /\ \A c \in Free' : a # c => word[a] # word[c]
    <3>1. CASE a = o  BY <1>2, <1>3, <1>8, <1>9, <2>2, <2>3, <2>5, <3>1
    <3>2. CASE a # o
      <4>1. a \in Free  BY <1>9, <3>2
      <4>2. word[a] # o /\ word[a] # NEXTF'[cut[a]]  BY <1>3, <1>9, <2>1, <2>5, <4>1
      <4>3. \A c \in Free' : a # c => word[a] # word[c]
        BY <1>9, <2>1, <2>3, <2>5, <4>1
      <4> QED  BY <1>8, <1>9, <2>1, <2>5, <4>1, <4>2, <4>3
    <3> QED  BY <3>1, <3>2
  <2> QED  BY <1>1, <2>4, <2>5 DEF Links
<1> QED  BY <1>1, <1>5, <1>6, <1>10, <1>11, <1>12 DEF IInv, CutApart, NeverCrashes

-----------------------------------------------------------------------------
(* The theorems.                                                           *)

LEMMA InitInv == Init => IInv
<1> SUFFICES ASSUME Init PROVE IInv
  OBVIOUS
<1>1. /\ NEXTF = [b \in Buckets |-> Null] /\ word = [a \in {} |-> 0] /\ cut = [a \in {} |-> 0]
      /\ brk = Base /\ pc = [t \in Thread |-> "idle"]
      /\ op = [t \in Thread |-> Null] /\ bucket = [t \in Thread |-> 0]
      /\ n = [t \in Thread |-> 0] /\ link = [t \in Thread |-> Null]
      /\ held = [t \in Thread |-> <<>>] /\ stopped = "no"
  BY DEF Init
<1>2. DOMAIN cut = {} /\ Null \in Nat  BY <1>1 DEF Null
<1>3. Shapes  BY <1>1, <1>2, ThreadsAssumption DEF Shapes
<1>4. Free = {}  BY <1>2 DEF Free
<1>5. ASSUME NEW t \in Thread PROVE Hands(t) /\ Place(t)
  <2>1. pc[t] = "idle" /\ held[t] = <<>>  BY <1>1
  <2>2. Owned(t) = {} /\ Pending(t) = {}  BY <2>1 DEF Owned, Elems, Pending
  <2> QED  BY <2>1, <2>2 DEF Hands, Place, Setting, OnBucket, Holding
<1>6. Links  BY <1>1, <1>4 DEF Links
<1> QED  BY <1>1, <1>2, <1>3, <1>5, <1>6 DEF IInv, CutApart, NeverCrashes

\* Every step of every thread keeps the invariant.
THEOREM Inductive ==
  ASSUME OwnBuckets
  PROVE  IInv /\ [Next]_tvars => IInv'
<1> SUFFICES ASSUME IInv, [Next]_tvars PROVE IInv'
  OBVIOUS
<1>1. ASSUME NEW t \in Thread, Step(t) PROVE IInv'
  BY <1>1, LocalActions, PublishStep, ChainStep, SbrkStep, PopStep, StampStep,
     CallDeallocStep, LinkBlockStep, PushStep DEF Step
<1>2. CASE UNCHANGED tvars
  BY <1>2, SMTT(60) DEF IInv, Shapes, CutApart, NeverCrashes, Links, Hands, Place, Free, Unchained,
     Pending, Owned, tvars, shared, locals
<1> QED  BY <1>1, <1>2 DEF Next

\* The invariant holds in every state that threads on buckets of their own can reach.
THEOREM Safety == ASSUME OwnBuckets PROVE Spec => []IInv
<1>1. IInv /\ [Next]_tvars => IInv'  BY Inductive
<1> QED  BY <1>1, InitInv, PTL DEF Spec

\* alloc of kmalloc/src/lib.rs never hands one block to two threads, or twice to one,
\* although it takes blocks off NEXTF by a load and a store without a lock.
THEOREM OnceEach == ASSUME OwnBuckets PROVE Spec => []HandedOutOnce
<1>1. ASSUME IInv PROVE HandedOutOnce
  <2>1. \A t, u \in Thread : t # u => Owned(t) \cap Owned(u) = {}
    <3> SUFFICES ASSUME NEW t \in Thread, NEW u \in Thread, t # u, NEW a \in Owned(t)
                 PROVE  a \notin Owned(u)
      OBVIOUS
    <3>1. cut[a] \in BucketsOf(t)  BY <1>1 DEF IInv, Hands
    <3> QED  BY <1>1, <3>1, Strangers
  <2> QED  BY <1>1, <2>1 DEF HandedOutOnce, IInv, Hands
<1> QED  BY <1>1, Safety, PTL

\* morecore cuts blocks that share no byte, whenever the threads' calls of sbrk fall,
\* among them those that pad the break in the setup both may run.
THEOREM ApartAlways == ASSUME OwnBuckets PROVE Spec => []CutApart
<1>1. IInv => CutApart  BY DEF IInv
<1> QED  BY <1>1, Safety, PTL

\* No call reads a link through an address that is no block or indexes past NEXTF.
THEOREM NoCrash == ASSUME OwnBuckets PROVE Spec => []NeverCrashes
<1>1. IInv => NeverCrashes  BY DEF IInv
<1> QED  BY <1>1, Safety, PTL
-----------------------------------------------------------------------------
(* The free lists as a whole.                                              *)

\* The blocks a thread has or is about to chain: on no list.
Busy(t) == Owned(t) \cup Pending(t)
Listed(b) == {a \in DOMAIN cut : cut[a] = b /\ \A t \in Thread : a \notin Busy(t)}

\* List b runs through the free blocks of bucket b that are chained, in every state.
ListsWhole == \A b \in Buckets : RunsThrough(NEXTF[b], word, Listed(b), Null)

\* A step changes the registers of one thread.
LEMMA OwnRegisters ==
  ASSUME Shapes, NEW t \in Thread, Step(t), NEW u \in Thread, u # t
  PROVE  Busy(u)' = Busy(u)
<1> USE DEF Goto, Let, shared, locals
<1>1. /\ pc'[u] = pc[u] /\ op'[u] = op[u] /\ bucket'[u] = bucket[u]
      /\ n'[u] = n[u] /\ held'[u] = held[u]
  <2> DEFINE Goal == /\ pc'[u] = pc[u] /\ op'[u] = op[u] /\ bucket'[u] = bucket[u]
                     /\ n'[u] = n[u] /\ held'[u] = held[u]
  <2>1. (CallAlloc(t) => Goal) /\ (CheckSetup(t) => Goal) /\ (SetPageSize(t) => Goal)
    BY DEF Shapes, CallAlloc, CheckSetup, SetPageSize
  <2>2. (GetBreak(t) => Goal) /\ (Align(t) => Goal) /\ (SetPageBucket(t) => Goal)
    BY DEF Shapes, GetBreak, Align, SetPageBucket
  <2>3. Compute(t) => Goal
    BY DEF Shapes, Compute
  <2>4. (ReadHead(t) => Goal) /\ (Sbrk(t) => Goal) /\ (Publish(t) => Goal)
    BY DEF Shapes, ReadHead, Sbrk, Publish
  <2>5. (Chain(t) => Goal) /\ (Reread(t) => Goal) /\ (ReadNext(t) => Goal) /\ (Pop(t) => Goal)
    BY DEF Shapes, Chain, Reread, ReadNext, Pop
  <2>6. (StampHeader(t) => Goal) /\ (CallDealloc(t) => Goal)
    BY DEF Shapes, StampHeader, CallDealloc
  <2>7. (LinkBlock(t) => Goal) /\ (Push(t) => Goal)
    BY DEF Shapes, LinkBlock, Push
  <2> HIDE DEF Goal
  <2>8. Goal
    BY <2>1, <2>2, <2>3, <2>4, <2>5, <2>6, <2>7 DEF Step
  <2> QED  BY <2>8 DEF Goal
<1> QED  BY <1>1 DEF Busy, Owned, Pending

\* A step that leaves the heads, the blocks and what its thread has of them alone, and
\* writes at most a header of its own block, leaves every list alone.
LEMMA ListsStay ==
  ASSUME IInv, ListsWhole, NEW t \in Thread, Step(t), Busy(t)' = Busy(t),
         cut' = cut, NEXTF' = NEXTF, \A a \in DOMAIN cut : a \notin Busy(t) => word'[a] = word[a]
  PROVE  ListsWhole'
<1>1. \A u \in Thread : Busy(u)' = Busy(u)
  BY OwnRegisters DEF IInv
<1>2. ASSUME NEW b \in Buckets PROVE RunsThrough(NEXTF[b], word', Listed(b), Null)
  <2>1. RunsThrough(NEXTF[b], word, Listed(b), Null)  BY DEF ListsWhole
  <2>2. \A a \in Listed(b) : word'[a] = word[a]  BY DEF Listed
  <2> QED  BY <2>1, <2>2, RunsSame
<1>3. \A b : Listed(b)' = Listed(b)  BY <1>1 DEF Listed
<1> QED  BY <1>2, <1>3 DEF ListsWhole

\* All steps but those of morecore and the stores of NEXTF.
LEMMA QuietSteps ==
  ASSUME OwnBuckets, IInv, ListsWhole, NEW t \in Thread,
         \/ CallAlloc(t) \/ CheckSetup(t) \/ SetPageSize(t) \/ GetBreak(t) \/ Align(t)
         \/ SetPageBucket(t) \/ Compute(t) \/ ReadHead(t) \/ Reread(t) \/ ReadNext(t)
         \/ StampHeader(t) \/ CallDealloc(t) \/ LinkBlock(t)
  PROVE  ListsWhole'
<1>0. Shapes /\ Hands(t) /\ Place(t) /\ Step(t)  BY DEF IInv, Step
<1> USE DEF Goto, Let, shared, locals
<1>1. CASE pc[t] \notin {"publish", "chain"} \cup Holding /\ pc'[t] \notin {"publish", "chain"} \cup Holding
           /\ UNCHANGED <<NEXTF, word, cut, held>>
  <2>1. Owned(t)' = Owned(t)  BY <1>1 DEF Owned, Holding
  <2>2. Pending(t) = {} /\ Pending(t)' = {}  BY <1>1 DEF Pending
  <2>3. Busy(t)' = Busy(t)  BY <2>1, <2>2 DEF Busy
  <2> QED  BY <1>0, <1>1, <2>3, ListsStay
<1>2. CASE StampHeader(t)
  <2> DEFINE o == op[t]
  <2>1. /\ held' = [held EXCEPT ![t] = Append(held[t], o)] /\ pc' = [pc EXCEPT ![t] = "idle"]
        /\ word' = [word EXCEPT ![o] = Stamp(word[o], bucket[t])] /\ pc[t] = "stamp"
    BY <1>2 DEF StampHeader
  <2>2. held[t] \in Seq(Nat) /\ o \in Nat /\ pc'[t] = "idle" /\ held'[t] = Append(held[t], o)
    BY <1>0, <2>1 DEF Shapes
  <2> HIDE DEF o
  <2>3. Elems(held'[t]) = Elems(held[t]) \cup {o}
    <3>1. /\ DOMAIN held'[t] = 1 .. Len(held[t]) + 1 /\ DOMAIN held[t] = 1 .. Len(held[t])
          /\ \A i \in DOMAIN held[t] : held'[t][i] = held[t][i]
          /\ held'[t][Len(held[t]) + 1] = o /\ Len(held[t]) \in Nat
      BY <2>2
    <3>2. \A i \in DOMAIN held'[t] : i \in DOMAIN held[t] \/ i = Len(held[t]) + 1
      BY <3>1
    <3> QED  BY <3>1, <3>2 DEF Elems
  <2>4. Owned(t) = Elems(held[t]) \cup {o} /\ Owned(t)' = Elems(held'[t])
    BY <2>1, <2>2, OwnedBlocks DEF Owned, o, Holding
  <2>5. Pending(t) = {} /\ Pending(t)' = {}  BY <2>1, <2>2 DEF Pending
  <2>6. Busy(t)' = Busy(t) /\ o \in Busy(t)  BY <2>3, <2>4, <2>5 DEF Busy
  <2>7. \A a \in DOMAIN cut : a \notin Busy(t) => word'[a] = word[a]
    BY <1>0, <2>1, <2>6 DEF Shapes
  <2>8. NEXTF' = NEXTF /\ cut' = cut  BY <1>2 DEF StampHeader
  <2> QED  BY <1>0, <2>6, <2>7, <2>8, ListsStay
<1>3. CASE CallDealloc(t)
  <2>1. PICK i \in DOMAIN held[t] :
          /\ op' = [op EXCEPT ![t] = held[t][i]]
          /\ held' = [held EXCEPT ![t] = SubSeq(held[t], 1, i - 1)
                                         \o SubSeq(held[t], i + 1, Len(held[t]))]
    BY <1>3 DEF CallDealloc
  <2>2. pc' = [pc EXCEPT ![t] = "link"] /\ pc[t] = "idle" /\ word' = word
    BY <1>3 DEF CallDealloc
  <2> DEFINE o == held[t][i]
             r == SubSeq(held[t], 1, i - 1) \o SubSeq(held[t], i + 1, Len(held[t]))
  <2>3. held[t] \in Seq(Nat) /\ \A j, k \in DOMAIN held[t] : j # k => held[t][j] # held[t][k]
    BY <1>0 DEF Shapes, Hands
  <2>4. Elems(held[t]) = Elems(r) \cup {o}
    BY <2>3, Without, ZenonT(100)
  <2>5. pc'[t] = "link" /\ op'[t] = o /\ held'[t] = r
    BY <1>0, <2>1, <2>2 DEF Shapes
  <2> HIDE DEF o, r
  <2>6. Owned(t) = Elems(held[t]) /\ Owned(t)' = Elems(r) \cup {o}
    BY <2>2, <2>5 DEF Owned
  <2>7. Pending(t) = {} /\ Pending(t)' = {}  BY <2>2, <2>5 DEF Pending
  <2>8. Busy(t)' = Busy(t)  BY <2>4, <2>6, <2>7 DEF Busy
  <2>9. NEXTF' = NEXTF /\ cut' = cut  BY <1>3 DEF CallDealloc
  <2> QED  BY <1>0, <2>2, <2>8, <2>9, ListsStay
<1>4. CASE LinkBlock(t)
  <2>1. bucket[t] \in Buckets /\ pc[t] = "link"
    BY <1>0, <1>4, OwnBucket DEF LinkBlock, Place, Holding
  <2>2. /\ word' = [word EXCEPT ![op[t]] = NEXTF[bucket[t]]] /\ pc' = [pc EXCEPT ![t] = "push"]
        /\ op' = op /\ bucket' = bucket /\ n' = n /\ held' = held
    BY <1>4, <2>1 DEF LinkBlock, NewLink
  <2>3. pc'[t] = "push"  BY <1>0, <2>2 DEF Shapes
  <2>4. Busy(t)' = Busy(t) /\ op[t] \in Busy(t)
    BY <2>1, <2>2, <2>3 DEF Busy, Owned, Pending
  <2>5. \A a \in DOMAIN cut : a \notin Busy(t) => word'[a] = word[a]
    BY <1>0, <2>2, <2>4 DEF Shapes
  <2>6. NEXTF' = NEXTF /\ cut' = cut  BY <1>4 DEF LinkBlock
  <2> QED  BY <1>0, <2>4, <2>5, <2>6, ListsStay
<1>5. CASE CallAlloc(t) \/ CheckSetup(t) \/ SetPageSize(t) \/ GetBreak(t) \/ Align(t)
  <2>1. pc[t] \in {"idle"} \cup Setting /\ pc'[t] \in {"idle"} \cup Setting
        /\ UNCHANGED <<NEXTF, word, cut, held>>
    BY <1>0, <1>5 DEF Shapes, Setting, CallAlloc, CheckSetup, SetPageSize, GetBreak, Align
  <2> QED  BY <1>1, <2>1 DEF Setting, Holding
<1>6. CASE SetPageBucket(t) \/ Compute(t) \/ ReadHead(t) \/ Reread(t) \/ ReadNext(t)
  <2>1. /\ pc[t] \in {"setbucket", "compute", "head", "reread", "next"}
        /\ UNCHANGED <<NEXTF, word, cut, held>>
    BY <1>6 DEF SetPageBucket, Compute, ReadHead, Reread, ReadNext
  <2>2. pc'[t] \in {"compute", "head", "sbrk", "next", "pop", "reread"}
    BY <1>0, <1>6 DEF Shapes, SetPageBucket, Compute, ReadHead, AfterHead, Reread, ReadNext
  <2> QED  BY <1>1, <2>1, <2>2 DEF Holding
<1> QED  BY <1>2, <1>3, <1>4, <1>5, <1>6

\* A step that works on one of its thread's lists leaves all others alone.
LEMMA OneList ==
  ASSUME OwnBuckets, IInv, ListsWhole, NEW t \in Thread, Step(t), NEW b,
         \A a \in DOMAIN cut : /\ a \in DOMAIN cut' /\ cut'[a] = cut[a]
                               /\ cut[a] # b => /\ word'[a] = word[a]
                                                /\ a \in Busy(t)' <=> a \in Busy(t),
         \A a \in DOMAIN cut' : a \notin DOMAIN cut => cut'[a] = b,
         \A c \in Buckets : c # b => NEXTF'[c] = NEXTF[c],
         RunsThrough(NEXTF'[b], word', Listed(b)', Null)
  PROVE  ListsWhole'
<1>1. \A u \in Thread : u # t => Busy(u)' = Busy(u)
  BY OwnRegisters DEF IInv
<1>2. ASSUME NEW c \in Buckets, c # b
      PROVE  RunsThrough(NEXTF'[c], word', Listed(c)', Null)
  <2>1. Listed(c)' = Listed(c)
    BY <1>1, <1>2 DEF Listed
  <2>2. RunsThrough(NEXTF[c], word, Listed(c), Null)  BY DEF ListsWhole
  <2>3. \A a \in Listed(c) : word'[a] = word[a]  BY <1>2 DEF Listed
  <2>4. NEXTF'[c] = NEXTF[c]  BY <1>2
  <2> QED  BY <2>1, <2>2, <2>3, <2>4, RunsSame
<1> QED  BY <1>2 DEF ListsWhole

\* The blocks that follow p at distance size, one by one.
LEMMA FollowingOne ==
  ASSUME NEW p \in Nat, NEW size \in Nat, NEW m \in Nat
  PROVE  {p + i * size : i \in 0 .. m} = {p + i * size : i \in 1 .. m} \cup {p}
<1>1. p = p + 0 * size /\ \A i \in 0 .. m : i = 0 \/ i \in 1 .. m
  OBVIOUS
<1>2. \A i \in 1 .. m : i \in 0 .. m  OBVIOUS
<1>3. {p + i * size : i \in 0 .. m} = {p + i * size : i \in 1 .. m} \cup {p}
  <2>1. 0 \in 0 .. m  OBVIOUS
  <2> QED  BY <1>1, <1>2, <2>1
<1> QED  BY <1>3

\* The blocks after p, without the next one.
LEMMA FollowingNext ==
  ASSUME NEW p \in Nat, NEW size \in Nat, NEW m \in Nat, m > 0
  PROVE  {p + i * size : i \in 1 .. m} =
           {(p + size) + i * size : i \in 1 .. m - 1} \cup {p + size}
<1>1. 1 \in 1 .. m /\ p + size = p + 1 * size  OBVIOUS
<1>2. ASSUME NEW i \in 1 .. m - 1
      PROVE  i + 1 \in 1 .. m /\ (p + size) + i * size = p + (i + 1) * size
  <2> DEFINE x == i * size
  <2>1. (i + 1) * size = x + size /\ x \in Nat  OBVIOUS
  <2> HIDE DEF x
  <2>2. (p + size) + x = p + (x + size)  BY <2>1
  <2> QED  BY <2>1, <2>2 DEF x
<1>3. ASSUME NEW i \in 1 .. m, i # 1
      PROVE  i - 1 \in 1 .. m - 1 /\ p + i * size = (p + size) + (i - 1) * size
  <2>1. i - 1 \in 1 .. m - 1 /\ (i - 1) + 1 = i  BY <1>3
  <2> QED  BY <1>2, <2>1
<1>4. {p + i * size : i \in 1 .. m} \subseteq
        {(p + size) + i * size : i \in 1 .. m - 1} \cup {p + size}
  BY <1>1, <1>3, ZenonT(100)
<1>5. {(p + size) + i * size : i \in 1 .. m - 1} \cup {p + size}
        \subseteq {p + i * size : i \in 1 .. m}
  BY <1>1, <1>2, ZenonT(100)
<1> QED  BY <1>4, <1>5

\* morecore's first block heads a list that was empty.
LEMMA PublishLists ==
  ASSUME OwnBuckets, IInv, ListsWhole, NEW t \in Thread, Publish(t)
  PROVE  ListsWhole'
<1> PICK b, o : b = bucket[t] /\ o = op[t]
  OBVIOUS
<1>0. Shapes /\ Place(t) /\ pc[t] = "publish" /\ Step(t)  BY DEF IInv, Publish, Step
<1>1. PICK l \in {"reread", "chain"} :
        pc' = [pc EXCEPT ![t] = l] /\ (l = "chain" <=> n[t] # 0)
  BY DEF Publish, Goto
<1>2. /\ NEXTF' = [NEXTF EXCEPT ![b] = o]
      /\ UNCHANGED <<word, cut, op, bucket, n, held>>
  BY DEF Publish, Let, locals
<1>3. b \in BucketsOf(t) /\ b \in Buckets /\ b \in 0 .. Top - 1 /\ NEXTF[b] = Null
  BY <1>0, OwnBucket DEF Place, OnBucket
<1>4. o \in Nat /\ n[t] \in Nat /\ Amt[b] \in Nat \ {0} /\ pc'[t] = l
  BY <1>0, <1>1, <1>3, ExtentFacts DEF Shapes
<1>5. /\ Pending(t) = {o + i * Amt[b] : i \in 0 .. n[t]}
      /\ Pending(t)' = IF l = "chain" THEN {o + i * Amt[b] : i \in 1 .. n[t]} ELSE {}
  BY <1>0, <1>1, <1>2, <1>4 DEF Pending
<1>6. Pending(t) = Pending(t)' \cup {o} /\ o \notin Pending(t)'
  <2> DEFINE P == {o + i * Amt[b] : i \in 1 .. n[t]}
  <2>1. Pending(t) = P \cup {o} /\ o \notin P
    <3> DEFINE size == Amt[b]
               m == n[t]
    <3>1. o \in Nat /\ size \in Nat \ {0} /\ size \in Nat /\ m \in Nat  BY <1>4
    <3> HIDE DEF size, m
    <3>2. o \notin {o + i * size : i \in 1 .. m}  BY <3>1, Following
    <3>3. {o + i * size : i \in 0 .. m} = {o + i * size : i \in 1 .. m} \cup {o}
      BY <3>1, FollowingOne, ZenonT(100)
    <3> QED  BY <1>5, <3>2, <3>3 DEF size, m
  <2>2. l # "chain" => P = {}
    <3>1. l # "chain" => n[t] = 0 /\ 1 .. n[t] = {}  BY <1>1
    <3> QED  BY <3>1
  <2> HIDE DEF P
  <2>3. Pending(t)' = P  BY <1>5, <2>2 DEF P
  <2> QED  BY <2>1, <2>3
<1>7. o \in Free /\ cut[o] = b /\ word[o] = Null /\ o # Null /\ o \in DOMAIN cut
  BY <1>0, <1>6 DEF Place, Free, Shapes, Null
<1>8. Owned(t)' = Owned(t) /\ o \notin Owned(t)
  BY <1>0, <1>1, <1>2, <1>4, <1>7 DEF Owned, Free
<1>9. Busy(t) = Busy(t)' \cup {o} /\ o \notin Busy(t)'
  BY <1>6, <1>8 DEF Busy
<1>10. \A u \in Thread : u # t => Busy(u)' = Busy(u) /\ o \notin Busy(u)
  <2>1. \A u \in Thread : u # t => o \notin Pending(u) /\ o \notin Owned(u)
    BY <1>3, <1>7, Strangers
  <2> QED  BY <1>0, <2>1, OwnRegisters DEF Busy
<1>11. RunsThrough(Null, word, Listed(b), Null)  BY <1>3 DEF ListsWhole
<1>12. Listed(b) = {}  BY <1>11, RunsHead
<1>13. Listed(b)' = Listed(b) \cup {o}
  <2>1. \A a : a # o => \A u \in Thread : a \in Busy(u)' <=> a \in Busy(u)
    BY <1>9, <1>10
  <2>2. \A u \in Thread : o \notin Busy(u)'  BY <1>9, <1>10
  <2>3. cut' = cut  BY <1>2
  <2> QED  BY <1>7, <2>1, <2>2, <2>3 DEF Listed
<1>14. NEXTF'[b] = o /\ \A c \in Buckets : c # b => NEXTF'[c] = NEXTF[c]
  BY <1>0, <1>2, <1>3 DEF Shapes
<1>15. RunsThrough(o, word, Listed(b) \cup {o}, Null)
  BY <1>7, <1>11, <1>12, RunsPush
<1>16. RunsThrough(NEXTF'[b], word', Listed(b)', Null)
  BY <1>2, <1>13, <1>14, <1>15
<1>17. \A a \in DOMAIN cut : /\ a \in DOMAIN cut' /\ cut'[a] = cut[a]
                             /\ cut[a] # b => /\ word'[a] = word[a]
                                              /\ a \in Busy(t)' <=> a \in Busy(t)
  BY <1>2, <1>7, <1>9
<1>18. \A a \in DOMAIN cut' : a \notin DOMAIN cut => cut'[a] = b  BY <1>2
<1>19. \A c \in Buckets : c # b => NEXTF'[c] = NEXTF[c]  BY <1>14
<1> QED  BY <1>0, <1>16, <1>17, <1>18, <1>19, OneList

\* The next block of morecore's loop joins the list behind the last.
LEMMA ChainLists ==
  ASSUME OwnBuckets, IInv, ListsWhole, NEW t \in Thread, Chain(t)
  PROVE  ListsWhole'
<1> PICK b, o, next : b = bucket[t] /\ o = op[t] /\ next = o + Amt[b]
  OBVIOUS
<1>0. Shapes /\ Place(t) /\ pc[t] = "chain" /\ Step(t)  BY DEF IInv, Chain, Step
<1>1. PICK l \in {"reread", "chain"} :
        pc' = [pc EXCEPT ![t] = l] /\ (l = "chain" <=> n[t] # 1)
  BY DEF Chain, Goto
<1>2. /\ word' = [word EXCEPT ![o] = next] /\ op' = [op EXCEPT ![t] = next]
      /\ n' = [n EXCEPT ![t] = n[t] - 1]
      /\ UNCHANGED <<NEXTF, cut, bucket, held>>
  BY DEF Chain, Let
<1>3. /\ b \in BucketsOf(t) /\ b \in Buckets /\ b \in 0 .. Top - 1
      /\ o \in Free /\ cut[o] = b /\ word[o] = Null /\ n[t] > 0 /\ o \in DOMAIN cut
  BY <1>0, OwnBucket DEF Place, OnBucket, Free
<1>4. o \in Nat /\ n[t] \in Nat /\ Amt[b] \in Nat \ {0} /\ Amt[b] \in Nat
  BY <1>0, <1>3, ExtentFacts DEF Shapes
<1>5. pc'[t] = l /\ op'[t] = next /\ n'[t] = n[t] - 1 /\ bucket'[t] = b
  BY <1>0, <1>1, <1>2 DEF Shapes
<1>6. /\ Pending(t) = {o + i * Amt[b] : i \in 1 .. n[t]}
      /\ Pending(t)' = IF l = "chain" THEN {next + i * Amt[b] : i \in 1 .. n[t] - 1} ELSE {}
  BY <1>0, <1>1, <1>2, <1>5 DEF Pending
<1>7. Pending(t) = Pending(t)' \cup {next} /\ next \notin Pending(t)' /\ o \notin Pending(t)
  <2> DEFINE Q == {next + i * Amt[b] : i \in 1 .. n[t] - 1}
  <2>1. Pending(t) = Q \cup {next} /\ next \notin Q /\ o \notin Pending(t)
    <3> DEFINE size == Amt[b]
               m == n[t]
    <3>1. /\ o \in Nat /\ size \in Nat \ {0} /\ size \in Nat /\ m \in Nat /\ m > 0
          /\ m - 1 \in Nat
      BY <1>3, <1>4
    <3>2. next = o + size /\ next \in Nat  BY <1>4
    <3> HIDE DEF size, m
    <3>3. o \notin {o + i * size : i \in 1 .. m}  BY <3>1, Following
    <3>4. next \notin {next + i * size : i \in 1 .. m - 1}  BY <3>1, <3>2, Following
    <3>5. {o + i * size : i \in 1 .. m} =
            {(o + size) + i * size : i \in 1 .. m - 1} \cup {o + size}
      BY <3>1, FollowingNext, ZenonT(100)
    <3>6. {o + i * size : i \in 1 .. m} = {next + i * size : i \in 1 .. m - 1} \cup {next}
      BY <3>2, <3>5
    <3> QED  BY <1>6, <3>3, <3>4, <3>6 DEF size, m
  <2>2. l # "chain" => Q = {}
    <3>1. l # "chain" => 1 .. n[t] - 1 = {}  BY <1>1
    <3> QED  BY <3>1
  <2> HIDE DEF Q
  <2>3. Pending(t)' = Q  BY <1>6, <2>2 DEF Q
  <2> QED  BY <2>1, <2>3
<1>8. /\ next \in Free /\ cut[next] = b /\ word[next] = Null /\ next # Null
      /\ next \in DOMAIN cut /\ next # o
  BY <1>0, <1>7 DEF Place, Free, Shapes, Null
<1>9. Owned(t)' = Owned(t) /\ next \notin Owned(t) /\ o \notin Owned(t)
  BY <1>0, <1>1, <1>2, <1>3, <1>5, <1>8 DEF Owned, Free
<1>10. Busy(t) = Busy(t)' \cup {next} /\ next \notin Busy(t)' /\ o \notin Busy(t)
  BY <1>7, <1>9 DEF Busy
<1>11. \A u \in Thread : u # t => Busy(u)' = Busy(u) /\ next \notin Busy(u) /\ o \notin Busy(u)
  <2>1. \A u \in Thread : u # t => /\ next \notin Pending(u) /\ next \notin Owned(u)
                                  /\ o \notin Pending(u) /\ o \notin Owned(u)
    BY <1>3, <1>8, Strangers
  <2> QED  BY <1>0, <2>1, OwnRegisters DEF Busy
<1>12. RunsThrough(NEXTF[b], word, Listed(b), Null)  BY <1>3 DEF ListsWhole
<1>13. o \in Listed(b) /\ next \notin Listed(b)
  BY <1>3, <1>10, <1>11 DEF Listed
<1>14. Listed(b)' = Listed(b) \cup {next}
  <2>1. \A a : a # next => \A u \in Thread : a \in Busy(u)' <=> a \in Busy(u)
    BY <1>10, <1>11
  <2>2. \A u \in Thread : next \notin Busy(u)'  BY <1>10, <1>11
  <2>3. cut' = cut  BY <1>2
  <2> QED  BY <1>8, <2>1, <2>2, <2>3 DEF Listed
<1>15. /\ word'[o] = next /\ word'[next] = Null /\ DOMAIN word = DOMAIN cut
       /\ \A a \in DOMAIN cut : a # o => word'[a] = word[a]
  BY <1>0, <1>2, <1>3, <1>8 DEF Shapes
<1>16. \A a \in Listed(b) \ {o} : word'[a] = word[a]  BY <1>15 DEF Listed
<1>17. RunsThrough(NEXTF[b], word', Listed(b) \cup {next}, Null)
  BY <1>3, <1>8, <1>12, <1>13, <1>15, <1>16, RunsExtend
<1>18. RunsThrough(NEXTF'[b], word', Listed(b)', Null)  BY <1>2, <1>14, <1>17
<1>19. \A a \in DOMAIN cut : /\ a \in DOMAIN cut' /\ cut'[a] = cut[a]
                             /\ cut[a] # b => /\ word'[a] = word[a]
                                              /\ a \in Busy(t)' <=> a \in Busy(t)
  BY <1>2, <1>3, <1>8, <1>10, <1>15
<1>20. \A a \in DOMAIN cut' : a \notin DOMAIN cut => cut'[a] = b  BY <1>2
<1>21. \A c \in Buckets : c # b => NEXTF'[c] = NEXTF[c]  BY <1>2
<1> QED  BY <1>0, <1>18, <1>19, <1>20, <1>21, OneList

\* The head leaves its list, and the block behind it becomes the head.
LEMMA PopLists ==
  ASSUME OwnBuckets, IInv, ListsWhole, NEW t \in Thread, Pop(t)
  PROVE  ListsWhole'
<1> PICK b, o : b = bucket[t] /\ o = op[t]
  OBVIOUS
<1>0. Shapes /\ Place(t) /\ pc[t] = "pop" /\ Step(t)  BY DEF IInv, Pop, Step
<1>1. /\ NEXTF' = [NEXTF EXCEPT ![b] = link[t]] /\ pc' = [pc EXCEPT ![t] = "stamp"]
      /\ UNCHANGED <<word, cut, op, bucket, n, held>>
  BY DEF Pop, Goto, Let, Popped, locals
<1>2. /\ b \in BucketsOf(t) /\ b \in Buckets /\ o # Null /\ o = NEXTF[b] /\ link[t] = word[o]
  BY <1>0, OwnBucket DEF Place, OnBucket
<1>3. RunsThrough(o, word, Listed(b), Null)  BY <1>2 DEF ListsWhole
<1>4. o \in Listed(b) /\ RunsThrough(word[o], word, Listed(b) \ {o}, Null)
  <2>1. \A a \in Listed(b) \ {o} : word[a] = word[a]  OBVIOUS
  <2> QED  BY <1>2, <1>3, <2>1, RunsPop
<1>5. o \in DOMAIN cut /\ cut[o] = b  BY <1>4 DEF Listed
<1>6. /\ pc'[t] = "stamp" /\ NEXTF'[b] = word[o]
      /\ \A c \in Buckets : c # b => NEXTF'[c] = NEXTF[c]
  BY <1>0, <1>1, <1>2 DEF Shapes
<1>7. Owned(t)' = Owned(t) \cup {o}  BY <1>0, <1>1, <1>6 DEF Owned
<1>8. Pending(t)' = {} /\ Pending(t) = {}  BY <1>0, <1>6 DEF Pending
<1>9. Busy(t)' = Busy(t) \cup {o}  BY <1>7, <1>8 DEF Busy
<1>10. \A u \in Thread : u # t => Busy(u)' = Busy(u)  BY <1>0, OwnRegisters
<1>11. Listed(b)' = Listed(b) \ {o}
  <2>1. \A a : a # o => \A u \in Thread : a \in Busy(u)' <=> a \in Busy(u)
    BY <1>9, <1>10
  <2>2. o \in Busy(t)'  BY <1>9
  <2>3. cut' = cut  BY <1>1
  <2> QED  BY <2>1, <2>2, <2>3 DEF Listed
<1>12. RunsThrough(NEXTF'[b], word', Listed(b)', Null)  BY <1>1, <1>4, <1>6, <1>11
<1>13. \A a \in DOMAIN cut : /\ a \in DOMAIN cut' /\ cut'[a] = cut[a]
                             /\ cut[a] # b => /\ word'[a] = word[a]
                                              /\ a \in Busy(t)' <=> a \in Busy(t)
  BY <1>1, <1>5, <1>9
<1>14. \A a \in DOMAIN cut' : a \notin DOMAIN cut => cut'[a] = b  BY <1>1
<1>15. \A c \in Buckets : c # b => NEXTF'[c] = NEXTF[c]  BY <1>6
<1> QED  BY <1>0, <1>12, <1>13, <1>14, <1>15, OneList

\* The freed block becomes the head, linked to what was the head.
LEMMA PushLists ==
  ASSUME OwnBuckets, IInv, ListsWhole, NEW t \in Thread, Push(t)
  PROVE  ListsWhole'
<1> PICK b, o : b = bucket[t] /\ o = op[t]
  OBVIOUS
<1>0. Shapes /\ Place(t) /\ pc[t] = "push" /\ Step(t)  BY DEF IInv, Push, Step
<1>1. /\ NEXTF' = [NEXTF EXCEPT ![b] = o] /\ pc' = [pc EXCEPT ![t] = "idle"]
      /\ UNCHANGED <<word, cut, n, held>>
  BY DEF Push, Goto, Let
<1>2. /\ b \in BucketsOf(t) /\ b \in Buckets /\ o \in DOMAIN cut /\ cut[o] = b
      /\ o \notin Elems(held[t]) /\ word[o] = NEXTF[b] /\ o # Null
  BY <1>0, OwnBucket DEF Place, Holding, Shapes, Null
<1>3. /\ pc'[t] = "idle" /\ NEXTF'[b] = o /\ \A c \in Buckets : c # b => NEXTF'[c] = NEXTF[c]
  BY <1>0, <1>1, <1>2 DEF Shapes
<1>4. Owned(t) = Elems(held[t]) \cup {o} /\ Owned(t)' = Elems(held[t])
  BY <1>0, <1>1, <1>3, OwnedBlocks DEF Owned, Holding
<1>5. Pending(t) = {} /\ Pending(t)' = {}  BY <1>0, <1>3 DEF Pending
<1>6. Busy(t) = Busy(t)' \cup {o} /\ o \notin Busy(t)'  BY <1>2, <1>4, <1>5 DEF Busy
<1>7. \A u \in Thread : u # t => Busy(u)' = Busy(u) /\ o \notin Busy(u)
  <2>1. \A u \in Thread : u # t => o \notin Pending(u) /\ o \notin Owned(u)
    BY <1>2, Strangers
  <2> QED  BY <1>0, <2>1, OwnRegisters DEF Busy
<1>8. o \notin Listed(b)  BY <1>6 DEF Listed
<1>9. Listed(b)' = Listed(b) \cup {o}
  <2>1. \A a : a # o => \A u \in Thread : a \in Busy(u)' <=> a \in Busy(u)
    BY <1>6, <1>7
  <2>2. \A u \in Thread : o \notin Busy(u)'  BY <1>6, <1>7
  <2>3. cut' = cut  BY <1>1
  <2> QED  BY <1>2, <2>1, <2>2, <2>3 DEF Listed
<1>10. RunsThrough(NEXTF[b], word, Listed(b), Null)  BY <1>2 DEF ListsWhole
<1>11. RunsThrough(o, word, Listed(b) \cup {o}, Null)
  BY <1>2, <1>8, <1>10, RunsPush
<1>12. RunsThrough(NEXTF'[b], word', Listed(b)', Null)  BY <1>1, <1>3, <1>9, <1>11
<1>13. \A a \in DOMAIN cut : /\ a \in DOMAIN cut' /\ cut'[a] = cut[a]
                             /\ cut[a] # b => /\ word'[a] = word[a]
                                              /\ a \in Busy(t)' <=> a \in Busy(t)
  BY <1>1, <1>2, <1>6
<1>14. \A a \in DOMAIN cut' : a \notin DOMAIN cut => cut'[a] = b  BY <1>1
<1>15. \A c \in Buckets : c # b => NEXTF'[c] = NEXTF[c]  BY <1>3
<1> QED  BY <1>0, <1>12, <1>13, <1>14, <1>15, OneList

\* The blocks sbrk has just brought are on no list; without memory nothing changes.
LEMMA SbrkLists ==
  ASSUME OwnBuckets, IInv, ListsWhole, NEW t \in Thread, Sbrk(t)
  PROVE  ListsWhole'
<1> PICK b, new : b = bucket[t] /\ new = Carved(brk, b)
  OBVIOUS
<1>0. Shapes /\ Place(t) /\ pc[t] = "sbrk" /\ Step(t) /\ NEXTF' = NEXTF
  BY DEF IInv, Sbrk, Step
<1>1. b \in BucketsOf(t) /\ b \in Buckets /\ b \in 0 .. Top - 1 /\ b \in Nat
  BY <1>0, OwnBucket DEF Place, OnBucket
<1>2. CASE pc' = [pc EXCEPT ![t] = "reread"] /\ UNCHANGED <<brk, word, cut, op, n>>
  <2>1. pc'[t] = "reread" /\ held' = held  BY <1>0, <1>2 DEF Shapes, Sbrk
  <2>2. Owned(t)' = Owned(t)  BY <1>0, <2>1 DEF Owned
  <2>3. Pending(t) = {} /\ Pending(t)' = {}  BY <1>0, <2>1 DEF Pending
  <2>4. Busy(t)' = Busy(t)  BY <2>2, <2>3 DEF Busy
  <2> QED  BY <1>0, <1>2, <2>4, ListsStay
<1>3. CASE ~(pc' = [pc EXCEPT ![t] = "reread"] /\ UNCHANGED <<brk, word, cut, op, n>>)
  <2>1. /\ word' = [a \in DOMAIN word \cup new |-> IF a \in DOMAIN word THEN word[a] ELSE Null]
        /\ cut' = [a \in DOMAIN cut \cup new |-> IF a \in DOMAIN cut THEN cut[a] ELSE b]
        /\ op' = [op EXCEPT ![t] = brk] /\ n' = [n EXCEPT ![t] = NBlocks(b) - 1]
        /\ pc' = [pc EXCEPT ![t] = "publish"]
        /\ UNCHANGED <<bucket, held>>
    BY <1>3 DEF Sbrk, Goto, Let
  <2>2. pc'[t] = "publish" /\ op'[t] = brk /\ n'[t] = NBlocks(b) - 1 /\ bucket'[t] = b
    BY <1>0, <2>1 DEF Shapes
  <2>3. Pending(t)' = new /\ Pending(t) = {}
    BY <1>0, <2>2 DEF Pending, Carved
  <2>4. Owned(t)' = Owned(t)  BY <1>0, <2>1, <2>2 DEF Owned
  <2>5. Busy(t)' = Busy(t) \cup new  BY <2>3, <2>4 DEF Busy
  <2>6. \A a \in new : a \notin DOMAIN cut
    <3>1. /\ brk \in Nat \ {0} /\ brk % 4 = 0 /\ Extent(b) \in Nat \ {0}
      BY <1>0, <1>1, ExtentFacts DEF Shapes
    <3>2. \A a \in new : a \in Nat /\ brk =< a
      BY <1>1, <3>1, CarvedFacts
    <3>3. ASSUME NEW a \in DOMAIN cut PROVE a \in Nat /\ a < brk
      <4>1. /\ a \in Nat /\ cut[a] \in 0 .. Top - 1 /\ Extent(cut[a]) \in Nat \ {0}
            /\ a + Extent(cut[a]) =< brk
        BY <1>0, ExtentFacts DEF Shapes, IInv, CutApart
      <4> QED  BY <3>1, <4>1
    <3> QED  BY <3>1, <3>2, <3>3
  <2>7. /\ DOMAIN cut' = DOMAIN cut \cup new /\ DOMAIN word = DOMAIN cut
        /\ \A a \in DOMAIN cut : cut'[a] = cut[a] /\ word'[a] = word[a]
        /\ \A a \in new : cut'[a] = b
    BY <1>0, <2>1, <2>6 DEF Shapes
  <2>8. \A u \in Thread : u # t => Busy(u)' = Busy(u)  BY <1>0, OwnRegisters
  <2>9. Listed(b)' = Listed(b)
    <3>1. \A a \in DOMAIN cut : \A u \in Thread : a \in Busy(u)' <=> a \in Busy(u)
      BY <2>5, <2>6, <2>8
    <3>2. \A a \in new : a \in Busy(t)'  BY <2>5
    <3> QED  BY <2>7, <3>1, <3>2 DEF Listed
  <2>10. RunsThrough(NEXTF[b], word, Listed(b), Null)  BY <1>1 DEF ListsWhole
  <2>11. \A a \in Listed(b) : word'[a] = word[a]  BY <2>7 DEF Listed
  <2>12. RunsThrough(NEXTF'[b], word', Listed(b)', Null)
    BY <1>0, <2>9, <2>10, <2>11, RunsSame
  <2>13. \A a \in DOMAIN cut : /\ a \in DOMAIN cut' /\ cut'[a] = cut[a]
                               /\ cut[a] # b => /\ word'[a] = word[a]
                                                /\ a \in Busy(t)' <=> a \in Busy(t)
    BY <2>5, <2>6, <2>7
  <2>14. \A a \in DOMAIN cut' : a \notin DOMAIN cut => cut'[a] = b  BY <2>7
  <2>15. \A c \in Buckets : c # b => NEXTF'[c] = NEXTF[c]  BY <1>0
  <2> QED  BY <1>0, <2>12, <2>13, <2>14, <2>15, OneList
<1> QED  BY <1>2, <1>3

\* The lists are whole in every state, whatever accesses of NEXTF lie between.
THEOREM ListsSafety == ASSUME OwnBuckets PROVE Spec => [](IInv /\ ListsWhole)
<1>1. Init => ListsWhole
  <2> SUFFICES ASSUME Init, NEW b \in Buckets PROVE RunsThrough(NEXTF[b], word, Listed(b), Null)
    BY DEF ListsWhole
  <2>1. NEXTF[b] = Null /\ Listed(b) = {}  BY DEF Init, Listed
  <2> QED  BY <2>1, RunsEmpty
<1>2. IInv /\ ListsWhole /\ [Next]_tvars => ListsWhole'
  <2> SUFFICES ASSUME IInv, ListsWhole, [Next]_tvars PROVE ListsWhole'
    OBVIOUS
  <2>1. ASSUME NEW t \in Thread, Step(t) PROVE ListsWhole'
    BY <2>1, QuietSteps, PublishLists, ChainLists, SbrkLists, PopLists, PushLists DEF Step
  <2>2. ASSUME UNCHANGED tvars PROVE ListsWhole'
    <3>1. /\ NEXTF' = NEXTF /\ word' = word /\ cut' = cut /\ pc' = pc
          /\ op' = op /\ bucket' = bucket /\ n' = n /\ held' = held
      BY <2>2 DEF tvars, shared, locals
    <3>2. \A t \in Thread : Owned(t)' = Owned(t)  BY <3>1 DEF Owned
    <3>3. \A t \in Thread : Pending(t)' = Pending(t)  BY <3>1 DEF Pending
    <3>4. \A t \in Thread : Busy(t)' = Busy(t)  BY <3>2, <3>3 DEF Busy
    <3>5. \A b \in Buckets : Listed(b)' = Listed(b)  BY <3>1, <3>4 DEF Listed
    <3> QED  BY <3>1, <3>5 DEF ListsWhole
  <2> QED  BY <2>1, <2>2 DEF Next
<1>3. IInv /\ [Next]_tvars => IInv'  BY Inductive
<1> QED  BY <1>1, <1>2, <1>3, InitInv, PTL DEF Spec

\* When no call is under way, a walk from NEXTF[b] meets every block of bucket b that
\* nobody holds, once, and then null: kmalloc and kfree of kmalloc.rs lose none, although
\* between a load of the head and its store other threads go on.
THEOREM NothingEverLost == ASSUME OwnBuckets PROVE Spec => []NothingLost
<1>1. ASSUME IInv, ListsWhole, Quiet, NEW b \in Buckets
      PROVE  LET free == {a \in DOMAIN cut : cut[a] = b} \ UNION {Owned(t) : t \in Thread}
                 node == ListNode([nextf |-> NEXTF, word |-> word], b)
             IN  /\ {node[j] : j \in 0 .. Cardinality(free) - 1} = free
                 /\ node[Cardinality(free)] = Null
  <2> DEFINE free == {a \in DOMAIN cut : cut[a] = b} \ UNION {Owned(t) : t \in Thread}
             h == [nextf |-> NEXTF, word |-> word]
             node == ListNode(h, b)
  <2>1. \A t \in Thread : Busy(t) = Owned(t)
    BY <1>1 DEF Quiet, Busy, Pending
  <2>2. free = Listed(b)
    BY <2>1 DEF Listed
  <2>3. h.nextf = NEXTF /\ h.word = word /\ NEXTF[b] \in Nat /\ DOMAIN word = DOMAIN cut
        /\ \A a \in DOMAIN word : word[a] \in Nat
    BY <1>1 DEF IInv, Shapes
  <2>4. h.nextf[b] \in Nat /\ \A a \in DOMAIN h.word : h.word[a] \in Nat
    BY <2>3
  <2> HIDE DEF h, free
  <2>5. node[0] = NEXTF[b] /\ \A j \in Nat : node[j] \in DOMAIN word => node[j + 1] = word[node[j]]
    BY <2>3, <2>4, ListNodeSteps
  <2> HIDE DEF node
  <2>6. \A j \in 0 .. Cardinality(Listed(b)) - 1 :
          node[j] \in Listed(b) => node[j + 1] = word[node[j]]
    <3>1. \A j \in 0 .. Cardinality(Listed(b)) - 1 : j \in Nat  OBVIOUS
    <3> QED  BY <2>3, <2>5, <3>1 DEF Listed
  <2>7. RunsThrough(NEXTF[b], word, Listed(b), Null)  BY <1>1 DEF ListsWhole
  <2>8. /\ {node[j] : j \in 0 .. Cardinality(Listed(b)) - 1} = Listed(b)
        /\ node[Cardinality(Listed(b))] = Null
    BY <2>5, <2>6, <2>7, RunsWalk
  <2> QED  BY <2>2, <2>8 DEF free, h, node
<1>2. IInv /\ ListsWhole => NothingLost  BY <1>1 DEF NothingLost
<1> QED  BY <1>2, ListsSafety, PTL
===============================================================================
