---------------------------- MODULE KmallocProofs ----------------------------
(***************************************************************************)
(* Proofs about Kmalloc.tla and KmallocStats.tla, for every value of their *)
(* constants.                                                              *)
(*                                                                         *)
(* The invariant IInv speaks of the links of the free lists one by one (a  *)
(* list head, or the link of a free block, is null or a free block of the  *)
(* same bucket, and no block is linked to twice): that much is what makes  *)
(* the block kmalloc takes from a list one that nobody holds.  The first   *)
(* part of the module proves it: the heap operations one by one; who owns  *)
(* what; the steps of the specification; the theorems.                     *)
(*                                                                         *)
(* The second part rests on it: the free lists as wholes; what the client  *)
(* asked for (every block has room for its request and is of the smallest  *)
(* bucket that has, krealloc copies what it must, the regions the client   *)
(* holds share no byte, as Allocator promises); the alignment of blocks;   *)
(* and the statistics.  What the client asked for, and alignment, need a   *)
(* first call whose sbrk succeeds (SetupMayFail is FALSE): after one that  *)
(* failed the page bucket stays 0 and large requests get small blocks.     *)
(***************************************************************************)
EXTENDS KmallocStats, KmallocHeapProofs

-----------------------------------------------------------------------------
(* The heap operations.                                                      *)

\* What a sound heap says about a single block, gathered for the lemmas below.
LEMMA HeapFacts ==
  ASSUME NEW h, HeapInv(h)
  PROVE  /\ h.pagesz \in {0, Page} /\ h.pagebucket \in {0, PageBucket}
         /\ h.nextf \in [Buckets -> Nat] /\ h.word \in [DOMAIN h.home -> Nat]
         /\ h.home \in [DOMAIN h.home -> 0 .. Top - 1] /\ h.brk \in Nat \ {0}
         /\ DOMAIN h.word = DOMAIN h.home /\ DOMAIN h.nextf = Buckets
         /\ \A a \in DOMAIN h.home :
              /\ a \in Nat \ {0} /\ a % 4 = 0
              /\ h.word[a] \in Nat /\ h.home[a] \in 0 .. Top - 1 /\ h.home[a] \in Buckets
              /\ a + Extent(h.home[a]) <= h.brk /\ a < h.brk
  <1>1. HeapType(h) /\ HeapAligned(h) /\ HeapDisjoint(h)
    BY DEF HeapInv
  <1>2. /\ h.pagesz \in {0, Page} /\ h.pagebucket \in {0, PageBucket}
        /\ h.nextf \in [Buckets -> Nat] /\ h.word \in [DOMAIN h.home -> Nat]
        /\ h.home \in [DOMAIN h.home -> 0 .. Top - 1] /\ h.brk \in Nat \ {0}
    BY <1>1 DEF HeapType
  <1>3. DOMAIN h.word = DOMAIN h.home /\ DOMAIN h.nextf = Buckets
    BY <1>2
  <1>4. ASSUME NEW a \in DOMAIN h.home
        PROVE  /\ a \in Nat \ {0} /\ a % 4 = 0
               /\ h.word[a] \in Nat /\ h.home[a] \in 0 .. Top - 1 /\ h.home[a] \in Buckets
               /\ a + Extent(h.home[a]) <= h.brk /\ a < h.brk
    <2>1. a \in Nat \ {0} /\ a % 4 = 0 /\ a + Extent(h.home[a]) <= h.brk
      BY <1>1 DEF HeapAligned, HeapDisjoint
    <2>2. h.word[a] \in Nat /\ h.home[a] \in 0 .. Top - 1
      BY <1>2
    <2>3. h.home[a] \in Buckets /\ Extent(h.home[a]) \in Nat \ {0}
      BY <2>2, ExtentFacts
    <2> QED BY <1>2, <2>1, <2>2, <2>3, SMT
  <1> QED BY <1>2, <1>3, <1>4

\* Unlinking the head of a list and stamping it (kmalloc, after morecore) keeps the heap
\* sound and adds exactly that block to those in use.
LEMMA TakeInv ==
  ASSUME NEW h, HeapInv(h), NEW b \in Buckets, h.nextf[b] # Null
  PROVE  LET t  == Take(h, b)
             op == h.nextf[b]
         IN  /\ HeapInv(t.heap) /\ t.ret = op + Overhead
             /\ op \in DOMAIN h.home /\ op \notin Used(h)
             /\ t.heap.home = h.home /\ Used(t.heap) = Used(h) \cup {op}
<1> DEFINE op == h.nextf[b]
           g  == Take(h, b).heap
<1>1. /\ op \in DOMAIN h.home /\ h.home[op] = b /\ ~InUse(h, op)
      /\ b \in 0 .. Top - 1 /\ b \in 0 .. 255
  <2>1. op \in FreeBlocks(h, b)
    BY DEF HeapInv, LinksTyped
  <2>2. op \in DOMAIN h.home /\ h.home[op] = b /\ ~InUse(h, op)
    BY <2>1 DEF FreeBlocks
  <2>3. b \in 0 .. Top - 1
    BY <2>2, HeapFacts
  <2> QED BY <2>2, <2>3, ExtentFacts
<1>2. /\ Take(h, b).ret = op + Overhead
      /\ g = [h EXCEPT !.nextf[b] = h.word[op], !.word[op] = Stamp(h.word[op], b)]
  BY DEF Take
<1>3. HeapType(h) /\ HeapAligned(h) /\ HeapDisjoint(h) /\ LinksTyped(h) /\ LinksUnique(h) /\ IndexTrue(h)
  BY DEF HeapInv
<1> HIDE DEF op, g
<1>4. /\ g.pagesz = h.pagesz /\ g.pagebucket = h.pagebucket /\ g.home = h.home /\ g.brk = h.brk
      /\ g.nextf = [h.nextf EXCEPT ![b] = h.word[op]]
      /\ g.word = [h.word EXCEPT ![op] = Stamp(h.word[op], b)]
  BY <1>2, <1>3 DEF HeapType
<1>5. HeapType(g)
  <2>1. h.word[op] \in Nat /\ Stamp(h.word[op], b) \in Nat
    BY <1>1, HeapFacts, StampFacts
  <2>2. g.nextf \in [Buckets -> Nat] /\ g.word \in [DOMAIN g.home -> Nat]
    BY <1>1, <1>4, <2>1, HeapFacts
  <2>3. g = [pagesz |-> g.pagesz, pagebucket |-> g.pagebucket, nextf |-> g.nextf,
             word |-> g.word, home |-> g.home, brk |-> g.brk]
    BY <1>2, <1>3 DEF HeapType
  <2> QED BY <1>4, <2>2, <2>3, HeapFacts DEF HeapType
<1>6. \A a \in DOMAIN h.home :
        /\ a # op => g.word[a] = h.word[a] /\ (InUse(g, a) <=> InUse(h, a))
        /\ a = op => InUse(g, a) /\ OvIndex(g.word[a]) = b
  <2>1. \A a \in DOMAIN h.home : a # op => g.word[a] = h.word[a]
    BY <1>4, HeapFacts
  <2>2. g.word[op] = Stamp(h.word[op], b) /\ h.word[op] \in Nat
    BY <1>1, <1>4, HeapFacts
  <2>3. InUse(g, op) /\ OvIndex(g.word[op]) = b
    BY <1>1, <2>2, StampFacts, ZenonT(100) DEF InUse
  <2> QED BY <2>1, <2>3 DEF InUse
<1>7. Used(g) = Used(h) \cup {op} /\ op \notin Used(h)
  BY <1>1, <1>4, <1>6 DEF Used
<1>8. \A c \in Buckets : FreeBlocks(g, c) = FreeBlocks(h, c) \ {op}
  BY <1>4, <1>6 DEF FreeBlocks
<1>9. \A c \in Buckets : op \in FreeBlocks(h, c) => c = b
  BY <1>1 DEF FreeBlocks
<1>10. \A c \in Buckets : g.nextf[c] = IF c = b THEN h.word[op] ELSE h.nextf[c]
  BY <1>4, HeapFacts
<1>11. op \in FreeBlocks(h, b) /\ h.nextf[b] = op
  BY <1>1 DEF FreeBlocks, op
<1>12. \A c \in Buckets : \A a \in FreeBlocks(h, c) : a \in DOMAIN h.home
  BY DEF FreeBlocks
<1>13. LinksTyped(g)
  <2>1. ASSUME NEW c \in Buckets, g.nextf[c] # Null
        PROVE  g.nextf[c] \in FreeBlocks(h, c) /\ g.nextf[c] # op
    BY <1>3, <1>9, <1>10, <1>11, <2>1 DEF LinksTyped, LinksUnique
  <2>2. ASSUME NEW c \in Buckets, NEW a \in FreeBlocks(h, c), a # op, g.word[a] # Null
        PROVE  g.word[a] \in FreeBlocks(h, c) /\ g.word[a] # op
    BY <1>3, <1>6, <1>9, <1>11, <1>12, <2>2 DEF LinksTyped, LinksUnique
  <2> QED BY <1>8, <2>1, <2>2 DEF LinksTyped
<1>14. LinksUnique(g)
  <2>1. ASSUME NEW c \in Buckets, NEW a \in FreeBlocks(h, c), a # op, g.word[a] # Null
        PROVE  g.word[a] # g.nextf[c]
    BY <1>3, <1>6, <1>10, <1>11, <1>12, <2>1 DEF LinksUnique
  <2>2. ASSUME NEW c \in Buckets, NEW a \in FreeBlocks(h, c), NEW d \in FreeBlocks(h, c),
               a # op, d # op, a # d, g.word[a] # Null
        PROVE  g.word[a] # g.word[d]
    BY <1>3, <1>6, <1>12, <2>2 DEF LinksUnique
  <2> QED BY <1>8, <2>1, <2>2 DEF LinksUnique
<1>15. IndexTrue(g)
  BY <1>1, <1>3, <1>4, <1>6 DEF IndexTrue
<1>16. HeapAligned(g) /\ HeapDisjoint(g)
  BY <1>3, <1>4 DEF HeapAligned, HeapDisjoint, Apart
<1>17. HeapInv(g)
  BY <1>5, <1>13, <1>14, <1>15, <1>16 DEF HeapInv
<1> QED BY <1>1, <1>2, <1>4, <1>7, <1>17 DEF op, g

\* kfree keeps the heap sound, removes exactly its block from those in use, and leaves it
\* at the head of the list of the bucket it was cut for.
LEMMA KfreeInv ==
  ASSUME NEW h, HeapInv(h), NEW cp, cp - Overhead \in DOMAIN h.home
  PROVE  LET op == cp - Overhead
             g  == KfreeHeap(h, cp)
         IN  /\ HeapInv(g) /\ g.home = h.home /\ Used(g) = Used(h) \ {op}
             /\ InUse(h, op) => g.nextf[h.home[op]] = op
<1> DEFINE op == cp - Overhead
           b  == OvIndex(h.word[op])
           g  == KfreeHeap(h, cp)
<1>1. CASE ~InUse(h, op)
  <2>1. g = h
    BY <1>1 DEF KfreeHeap
  <2> QED BY <1>1, <2>1 DEF Used
<1>2. CASE InUse(h, op)
  <2>1. g = [h EXCEPT !.word[op] = h.nextf[b], !.nextf[b] = op]
    BY <1>2 DEF KfreeHeap
  <2>2. HeapType(h) /\ HeapAligned(h) /\ HeapDisjoint(h) /\ LinksTyped(h) /\ LinksUnique(h)
        /\ IndexTrue(h)
    BY DEF HeapInv
  <2>3. op \in DOMAIN h.home /\ b = h.home[op] /\ b \in Buckets /\ op \in Nat \ {0}
        /\ op % 4 = 0 /\ h.nextf[b] \in Nat
    BY <1>2, <2>2, HeapFacts DEF IndexTrue
  <2> HIDE DEF op, b, g
  <2>4. /\ g.pagesz = h.pagesz /\ g.pagebucket = h.pagebucket /\ g.home = h.home /\ g.brk = h.brk
        /\ g.nextf = [h.nextf EXCEPT ![b] = op]
        /\ g.word = [h.word EXCEPT ![op] = h.nextf[b]]
    BY <2>1, <2>2 DEF HeapType
  <2>5. HeapType(g)
    <3>1. g.nextf \in [Buckets -> Nat] /\ g.word \in [DOMAIN g.home -> Nat]
      BY <2>3, <2>4, HeapFacts
    <3>2. g = [pagesz |-> g.pagesz, pagebucket |-> g.pagebucket, nextf |-> g.nextf,
               word |-> g.word, home |-> g.home, brk |-> g.brk]
      BY <2>1, <2>2 DEF HeapType
    <3> QED BY <2>4, <3>1, <3>2, HeapFacts DEF HeapType
  <2>6. h.nextf[b] % 4 = 0 /\ (h.nextf[b] # Null => h.nextf[b] \in FreeBlocks(h, b))
    <3>1. h.nextf[b] # Null => h.nextf[b] \in FreeBlocks(h, b)
      BY <2>2, <2>3 DEF LinksTyped
    <3>2. h.nextf[b] # Null => h.nextf[b] \in DOMAIN h.home
      BY <3>1 DEF FreeBlocks
    <3>3. h.nextf[b] # Null => h.nextf[b] % 4 = 0
      BY <3>2, HeapFacts
    <3>4. 0 % 4 = 0
      BY SMT
    <3> QED BY <3>1, <3>3, <3>4 DEF Null
  <2>7. \A a \in DOMAIN h.home :
          /\ a # op => g.word[a] = h.word[a] /\ (InUse(g, a) <=> InUse(h, a))
          /\ a = op => ~InUse(g, a) /\ g.word[a] = h.nextf[b]
    <3>1. \A a \in DOMAIN h.home : a # op => g.word[a] = h.word[a]
      BY <2>4, HeapFacts
    <3>2. g.word[op] = h.nextf[b]
      BY <2>3, <2>4, HeapFacts
    <3>3. ~InUse(g, op)
      BY <2>3, <2>6, <3>2, AlignedIsFree DEF InUse
    <3> QED BY <3>1, <3>2, <3>3 DEF InUse
  <2>8. Used(g) = Used(h) \ {op}
    BY <2>3, <2>4, <2>7 DEF Used
  <2>9. /\ \A c \in Buckets : c # b => FreeBlocks(g, c) = FreeBlocks(h, c)
        /\ FreeBlocks(g, b) = FreeBlocks(h, b) \cup {op}
    BY <2>3, <2>4, <2>7 DEF FreeBlocks
  <2>10. \A c \in Buckets : g.nextf[c] = IF c = b THEN op ELSE h.nextf[c]
    BY <2>4, HeapFacts
  <2>11. \A c \in Buckets : op \notin FreeBlocks(h, c)
    BY <1>2 DEF FreeBlocks, op
  <2>12. \A c \in Buckets : \A a \in FreeBlocks(h, c) : a \in DOMAIN h.home
    BY DEF FreeBlocks
  <2>13. LinksTyped(g)
    <3>1. ASSUME NEW c \in Buckets, g.nextf[c] # Null
          PROVE  g.nextf[c] \in FreeBlocks(g, c)
      BY <2>2, <2>9, <2>10, <3>1 DEF LinksTyped
    <3>2. ASSUME NEW c \in Buckets, NEW a \in FreeBlocks(g, c), g.word[a] # Null
          PROVE  g.word[a] \in FreeBlocks(g, c)
      BY <2>2, <2>3, <2>6, <2>7, <2>9, <2>11, <2>12, <3>2 DEF LinksTyped
    <3> QED BY <3>1, <3>2 DEF LinksTyped
  <2>14. LinksUnique(g)
    <3>1. ASSUME NEW c \in Buckets, NEW a \in FreeBlocks(g, c), g.word[a] # Null
          PROVE  g.word[a] # g.nextf[c]
      <4>1. CASE c = b /\ a = op
        <5>1. g.word[a] = h.nextf[b] /\ g.nextf[c] = op
          BY <2>3, <2>7, <2>10, <4>1
        <5> QED BY <2>3, <2>6, <2>11, <3>1, <5>1
      <4>2. CASE c = b /\ a # op
        <5>1. a \in FreeBlocks(h, b) /\ g.word[a] = h.word[a] /\ g.nextf[c] = op
          BY <2>3, <2>7, <2>9, <2>10, <2>12, <4>2
        <5> QED BY <2>2, <2>3, <2>11, <3>1, <5>1 DEF LinksTyped
      <4>3. CASE c # b
        <5>1. a \in FreeBlocks(h, c) /\ a # op /\ g.nextf[c] = h.nextf[c]
          BY <2>9, <2>10, <2>11, <4>3
        <5>2. g.word[a] = h.word[a]
          BY <2>7, <2>12, <5>1
        <5> QED BY <2>2, <3>1, <5>1, <5>2 DEF LinksUnique
      <4> QED BY <4>1, <4>2, <4>3
    <3>2. ASSUME NEW c \in Buckets, NEW a \in FreeBlocks(g, c), NEW d \in FreeBlocks(g, c),
                 a # d, g.word[a] # Null
          PROVE  g.word[a] # g.word[d]
      <4>1. CASE a # op /\ d # op
        <5>1. a \in FreeBlocks(h, c) /\ d \in FreeBlocks(h, c)
          BY <2>9, <4>1
        <5>2. g.word[a] = h.word[a] /\ g.word[d] = h.word[d]
          BY <2>7, <2>12, <4>1, <5>1
        <5> QED BY <2>2, <3>2, <5>1, <5>2 DEF LinksUnique
      <4>2. CASE a = op
        <5>1. c = b /\ d \in FreeBlocks(h, b)
          BY <2>9, <2>11, <3>2, <4>2
        <5>2. g.word[a] = h.nextf[b] /\ g.word[d] = h.word[d]
          BY <2>3, <2>7, <2>12, <3>2, <4>2, <5>1
        <5> QED BY <2>2, <2>3, <3>2, <5>1, <5>2 DEF LinksUnique
      <4>3. CASE d = op
        <5>1. c = b /\ a \in FreeBlocks(h, b)
          BY <2>9, <2>11, <3>2, <4>3
        <5>2. g.word[d] = h.nextf[b] /\ g.word[a] = h.word[a]
          BY <2>3, <2>7, <2>12, <3>2, <4>3, <5>1
        <5> QED BY <2>2, <2>3, <3>2, <5>1, <5>2 DEF LinksUnique
      <4> QED BY <4>1, <4>2, <4>3
    <3> QED BY <3>1, <3>2 DEF LinksUnique
  <2>15. IndexTrue(g)
    BY <2>2, <2>4, <2>7 DEF IndexTrue
  <2>16. HeapAligned(g) /\ HeapDisjoint(g)
    BY <2>2, <2>4 DEF HeapAligned, HeapDisjoint, Apart
  <2>17. HeapInv(g)
    BY <2>5, <2>13, <2>14, <2>15, <2>16 DEF HeapInv
  <2> QED BY <2>3, <2>4, <2>8, <2>10, <2>17 DEF op, g
<1> QED BY <1>1, <1>2

\* morecore keeps the heap sound and changes no block there was: it adds free blocks of
\* one bucket beyond the old break, and the list of that bucket starts with them.
LEMMA MorecoreInv ==
  ASSUME NEW h, HeapInv(h), h.brk % 4 = 0, NEW b \in Buckets, SbrkCan(h, b), h.nextf[b] = Null
  PROVE  LET g == Morecore(h, b)
         IN  /\ HeapInv(g) /\ g.nextf[b] = h.brk /\ g.nextf[b] # Null
             /\ DOMAIN h.home \subseteq DOMAIN g.home
             /\ \A a \in DOMAIN h.home : g.home[a] = h.home[a]
             /\ Used(g) = Used(h)
<1> DEFINE g    == Morecore(h, b)
           op   == h.brk
           new  == Carved(op, b)
           old  == DOMAIN h.word
           last == op + (NBlocks(b) - 1) * Amt[b]
<1>1. HeapType(h) /\ HeapAligned(h) /\ HeapDisjoint(h) /\ LinksTyped(h) /\ LinksUnique(h)
      /\ IndexTrue(h)
  BY DEF HeapInv
<1>2. b \in 0 .. Top - 1
  BY GeometryAssumption, SMT DEF SbrkCan, Buckets
<1>3. /\ op \in Nat \ {0} /\ op % 4 = 0 /\ old = DOMAIN h.home
  BY HeapFacts
<1>4. g = [h EXCEPT
        !.brk = @ + SbrkAmt(b),
        !.nextf[b] = h.brk,
        !.home = [a \in old \cup new |-> IF a \in new THEN b ELSE h.home[a]],
        !.word = [a \in old \cup new |-> IF a \notin new THEN h.word[a]
                                         ELSE IF a = last THEN Null ELSE a + Amt[b]]]
  BY DEF Morecore
<1>5. /\ \A a \in new : /\ a \in Nat \ {0} /\ a % 4 = 0
                        /\ op <= a /\ a + Extent(b) <= op + SbrkAmt(b)
                        /\ a # last => a + Amt[b] \in new
      /\ \A a, c \in new : a # c => a + Extent(b) <= c \/ c + Extent(b) <= a
      /\ op \in new
  BY <1>2, <1>3, CarvedFacts
<1>6. /\ Amt[b] \in Nat \ {0} /\ Amt[b] % 4 = 0 /\ Extent(b) \in Nat \ {0}
      /\ SbrkAmt(b) \in Nat \ {0} /\ SbrkAmt(b) % 4 = 0
  BY <1>2, ExtentFacts
<1> HIDE DEF g, op, new, last, old
<1>7. \A a \in old : a \notin new /\ a < op
  BY <1>3, <1>5, HeapFacts, SMT DEF op
<1>8. /\ g.pagesz = h.pagesz /\ g.pagebucket = h.pagebucket /\ g.brk = op + SbrkAmt(b)
      /\ g.nextf = [h.nextf EXCEPT ![b] = op]
      /\ g.home = [a \in old \cup new |-> IF a \in new THEN b ELSE h.home[a]]
      /\ g.word = [a \in old \cup new |-> IF a \notin new THEN h.word[a]
                                          ELSE IF a = last THEN Null ELSE a + Amt[b]]
  BY <1>1, <1>4 DEF HeapType, op
<1>9. DOMAIN g.home = old \cup new /\ DOMAIN g.word = old \cup new
  BY <1>8
<1>10. /\ \A a \in old : g.home[a] = h.home[a] /\ g.word[a] = h.word[a]
       /\ \A a \in new : g.home[a] = b /\ g.word[a] = IF a = last THEN Null ELSE a + Amt[b]
  BY <1>7, <1>8
<1>11. \A a \in new : g.word[a] \in Nat /\ g.word[a] % 4 = 0 /\ (g.word[a] # Null => g.word[a] \in new)
  <2> SUFFICES ASSUME NEW a \in new
               PROVE  g.word[a] \in Nat /\ g.word[a] % 4 = 0 /\ (g.word[a] # Null => g.word[a] \in new)
    OBVIOUS
  <2>1. CASE a = last
    BY <1>10, <2>1, SMT DEF Null
  <2>2. CASE a # last
    BY <1>5, <1>6, <1>10, <2>2, SMT
  <2> QED BY <2>1, <2>2
<1>12. /\ \A a \in old : InUse(g, a) <=> InUse(h, a)
       /\ \A a \in new : ~InUse(g, a)
  BY <1>10, <1>11, AlignedIsFree DEF InUse
<1>13. HeapType(g)
  <2>1. g.home \in [DOMAIN g.home -> 0 .. Top - 1]
    BY <1>2, <1>3, <1>8, <1>9, HeapFacts
  <2>2. g.word \in [DOMAIN g.home -> Nat]
    <3>1. \A a \in old \cup new : g.word[a] \in Nat
      BY <1>3, <1>10, <1>11, HeapFacts
    <3> QED BY <1>8, <1>9, <3>1
  <2>3. g.nextf \in [Buckets -> Nat] /\ g.brk \in Nat \ {0}
    BY <1>3, <1>6, <1>8, HeapFacts
  <2>4. g = [pagesz |-> g.pagesz, pagebucket |-> g.pagebucket, nextf |-> g.nextf,
             word |-> g.word, home |-> g.home, brk |-> g.brk]
    BY <1>1, <1>4 DEF HeapType
  <2> QED BY <1>8, <2>1, <2>2, <2>3, <2>4, HeapFacts DEF HeapType
<1>14. Used(g) = Used(h)
  BY <1>3, <1>9, <1>12 DEF Used
<1>15. /\ \A c \in Buckets : c # b => FreeBlocks(g, c) = FreeBlocks(h, c)
       /\ FreeBlocks(g, b) = FreeBlocks(h, b) \cup new
  BY <1>3, <1>9, <1>10, <1>12 DEF FreeBlocks
<1>16. \A c \in Buckets : FreeBlocks(h, c) \subseteq old
  BY <1>3 DEF FreeBlocks
<1>17. \A c \in Buckets : g.nextf[c] = IF c = b THEN op ELSE h.nextf[c]
  BY <1>8, HeapFacts
<1>18. HeapAligned(g)
  <2>1. \A a \in DOMAIN g.home : a \in Nat \ {0} /\ a % 4 = 0
    BY <1>3, <1>5, <1>9, HeapFacts
  <2>2. g.brk % 4 = 0
    BY <1>3, <1>6, <1>8, SMT
  <2> QED BY <2>1, <2>2 DEF HeapAligned
<1>19. HeapDisjoint(g)
  <2>1. ASSUME NEW a \in DOMAIN g.home
        PROVE  a + Extent(g.home[a]) <= g.brk
    <3>1. CASE a \in new
      BY <1>5, <1>8, <1>10, <3>1
    <3>2. CASE a \in old
      <4>1. a + Extent(h.home[a]) <= op /\ a \in Nat /\ Extent(h.home[a]) \in Nat
        BY <1>3, <3>2, HeapFacts, ExtentFacts DEF op
      <4>2. g.home[a] = h.home[a] /\ g.brk = op + SbrkAmt(b)
        BY <1>8, <1>10, <3>2
      <4> QED BY <1>3, <1>6, <4>1, <4>2, SMT
    <3> QED BY <1>9, <3>1, <3>2
  <2>2. ASSUME NEW a \in DOMAIN g.home, NEW c \in DOMAIN g.home, a # c
        PROVE  Apart(g, a, c)
    <3>1. CASE a \in new /\ c \in new
      BY <1>5, <1>10, <2>2, <3>1 DEF Apart
    <3>2. CASE a \in old /\ c \in old
      BY <1>1, <1>3, <1>10, <2>2, <3>2 DEF Apart, HeapDisjoint
    <3>3. ASSUME NEW x \in old, NEW y \in new
          PROVE  x + Extent(g.home[x]) <= y
      <4>1. x + Extent(h.home[x]) <= op /\ x \in Nat /\ Extent(h.home[x]) \in Nat
        BY <1>3, HeapFacts, ExtentFacts DEF op
      <4>2. op <= y /\ y \in Nat
        BY <1>5
      <4> QED BY <1>3, <1>10, <4>1, <4>2, SMT
    <3> QED BY <1>9, <3>1, <3>2, <3>3 DEF Apart
  <2> QED BY <2>1, <2>2 DEF HeapDisjoint
<1>20. LinksTyped(g)
  <2>1. ASSUME NEW c \in Buckets, g.nextf[c] # Null
        PROVE  g.nextf[c] \in FreeBlocks(g, c)
    BY <1>1, <1>5, <1>15, <1>17, <2>1 DEF LinksTyped
  <2>2. ASSUME NEW c \in Buckets, NEW a \in FreeBlocks(g, c), g.word[a] # Null
        PROVE  g.word[a] \in FreeBlocks(g, c)
    BY <1>1, <1>10, <1>11, <1>15, <1>16, <2>2 DEF LinksTyped
  <2> QED BY <2>1, <2>2 DEF LinksTyped
<1>21. LinksUnique(g)
  <2>1. ASSUME NEW c \in Buckets, NEW a \in FreeBlocks(g, c), g.word[a] # Null
        PROVE  g.word[a] # g.nextf[c]
    <3>1. CASE a \in new
      <4>1. c = b
        BY <1>7, <1>15, <1>16, <3>1
      <4>2. a \in Nat /\ op <= a /\ g.word[a] = a + Amt[b]
        BY <1>5, <1>10, <2>1, <3>1
      <4> QED BY <1>3, <1>6, <1>17, <4>1, <4>2, SMT
    <3>2. CASE a \in old
      <4>1. a \in FreeBlocks(h, c) /\ g.word[a] = h.word[a]
        BY <1>7, <1>10, <1>15, <3>2
      <4>2. g.word[a] \in old /\ g.word[a] # h.nextf[c]
        BY <1>1, <1>16, <2>1, <4>1 DEF LinksTyped, LinksUnique
      <4>3. op \notin old
        BY <1>5, <1>7
      <4> QED BY <1>17, <4>2, <4>3
    <3> QED BY <1>15, <1>16, <3>1, <3>2
  <2>2. ASSUME NEW c \in Buckets, NEW a \in FreeBlocks(g, c), NEW d \in FreeBlocks(g, c),
               a # d, g.word[a] # Null
        PROVE  g.word[a] # g.word[d]
    <3>1. ASSUME NEW x \in old, x \in FreeBlocks(g, c), NEW y \in new
          PROVE  g.word[x] = Null \/ g.word[x] # g.word[y]
      <4>1. x \in FreeBlocks(h, c) /\ g.word[x] = h.word[x]
        BY <1>7, <1>10, <1>15, <3>1
      <4>2. g.word[x] # Null => g.word[x] \in old
        BY <1>1, <1>16, <4>1 DEF LinksTyped
      <4> QED BY <1>7, <1>11, <4>2
    <3>2. CASE a \in old /\ d \in old
      <4>1. /\ a \in FreeBlocks(h, c) /\ g.word[a] = h.word[a]
            /\ d \in FreeBlocks(h, c) /\ g.word[d] = h.word[d]
        BY <1>7, <1>10, <1>15, <3>2
      <4> QED BY <1>1, <2>2, <4>1 DEF LinksUnique
    <3>3. CASE a \in new /\ d \in new
      <4>1. a \in Nat /\ d \in Nat /\ g.word[a] = a + Amt[b]
        BY <1>5, <1>10, <2>2, <3>3
      <4>2. g.word[d] = Null \/ g.word[d] = d + Amt[b]
        BY <1>10, <3>3
      <4> QED BY <1>6, <2>2, <4>1, <4>2, SMT
    <3> QED BY <1>15, <1>16, <2>2, <3>1, <3>2, <3>3
  <2> QED BY <2>1, <2>2 DEF LinksUnique
<1>22. IndexTrue(g)
  BY <1>1, <1>3, <1>9, <1>10, <1>12 DEF IndexTrue
<1>23. HeapInv(g)
  BY <1>13, <1>18, <1>19, <1>20, <1>21, <1>22 DEF HeapInv
<1> QED BY <1>3, <1>9, <1>10, <1>14, <1>17, <1>23 DEF g, op, Null

\* Moving the break upwards and learning the page size (the first call of kmalloc, or
\* another user of sbrk) touches no block.
LEMMA BreakInv ==
  ASSUME NEW h, HeapInv(h), NEW g,
         g = [pagesz |-> g.pagesz, pagebucket |-> g.pagebucket, nextf |-> h.nextf,
              word |-> h.word, home |-> h.home, brk |-> g.brk],
         g.pagesz \in {0, Page}, g.pagebucket \in {0, PageBucket},
         g.brk \in Nat, h.brk <= g.brk,
         g.pagesz # 0 \/ SetupMayFail => g.brk % 4 = 0
  PROVE  HeapInv(g) /\ g.home = h.home /\ Used(g) = Used(h)
<1>1. HeapType(h) /\ HeapAligned(h) /\ HeapDisjoint(h) /\ LinksTyped(h) /\ LinksUnique(h)
      /\ IndexTrue(h)
  BY DEF HeapInv
<1>2. g.nextf = h.nextf /\ g.home = h.home /\ g.word = h.word
  OBVIOUS
<1>4. HeapType(g)
  <2>1. g.brk \in Nat \ {0}
    BY HeapFacts, SMT
  <2> QED BY <1>2, <2>1, HeapFacts DEF HeapType
<1>5. HeapAligned(g)
  BY <1>1, <1>2 DEF HeapAligned
<1>6. HeapDisjoint(g)
  <2>1. \A a \in DOMAIN g.home : a + Extent(g.home[a]) <= g.brk
    <3> SUFFICES ASSUME NEW a \in DOMAIN h.home
                 PROVE  a + Extent(h.home[a]) <= g.brk
      BY <1>2
    <3>1. a \in Nat /\ Extent(h.home[a]) \in Nat /\ a + Extent(h.home[a]) <= h.brk /\ h.brk \in Nat
      BY HeapFacts, ExtentFacts
    <3> QED BY <3>1, SMT
  <2> QED BY <1>1, <1>2, <2>1 DEF HeapDisjoint, Apart
<1>7. \A a : InUse(g, a) <=> InUse(h, a)
  BY <1>2 DEF InUse
<1>8. \A c \in Buckets : FreeBlocks(g, c) = FreeBlocks(h, c)
  BY <1>2, <1>7 DEF FreeBlocks
<1>9. LinksTyped(g)
  BY <1>1, <1>2, <1>8 DEF LinksTyped
<1>10. LinksUnique(g)
  BY <1>1, <1>2, <1>8 DEF LinksUnique
<1>11. IndexTrue(g)
  BY <1>1, <1>2, <1>7 DEF IndexTrue
<1>12. Used(g) = Used(h)
  BY <1>2, <1>7 DEF Used
<1>13. HeapInv(g)
  BY <1>4, <1>5, <1>6, <1>9, <1>10, <1>11 DEF HeapInv
<1> QED BY <1>2, <1>12, <1>13

\* What an outcome r of kmalloc on heap h may be: nothing new in use, or one block more.
Allocates(h, r) ==
  /\ HeapInv(r.heap)
  /\ DOMAIN h.home \subseteq DOMAIN r.heap.home
  /\ \A a \in DOMAIN h.home : r.heap.home[a] = h.home[a]
  /\ r.ret = Null => Used(r.heap) = Used(h) /\ r.heap.nextf = h.nextf
  /\ r.ret # Null => \E op \in DOMAIN r.heap.home \ Used(h) :
                       r.ret = op + Overhead /\ Used(r.heap) = Used(h) \cup {op}

\* kmalloc once it has chosen a bucket: the list's head, or morecore's, or a refusal.
LEMMA FromBucketInv ==
  ASSUME NEW h, HeapInv(h), h.brk % 4 = 0, NEW b \in Buckets, NEW r \in FromBucket(h, b)
  PROVE  Allocates(h, r)
<1>1. ASSUME NEW g, HeapInv(g), g.nextf[b] # Null, DOMAIN h.home \subseteq DOMAIN g.home,
             \A a \in DOMAIN h.home : g.home[a] = h.home[a], Used(g) = Used(h), r = Take(g, b)
      PROVE  Allocates(h, r)
  <2> DEFINE op == g.nextf[b]
  <2>1. /\ HeapInv(r.heap) /\ r.ret = op + Overhead
        /\ op \in DOMAIN g.home /\ op \notin Used(g)
        /\ r.heap.home = g.home /\ Used(r.heap) = Used(g) \cup {op}
    BY <1>1, TakeInv
  <2>2. op \in Nat \ {0}
    BY <1>1, <2>1, HeapFacts
  <2>3. r.ret # Null
    BY <2>1, <2>2, GeometryAssumption, SMTT(60) DEF Null
  <2> HIDE DEF op
  <2> QED BY <1>1, <2>1, <2>3 DEF Allocates
<1>2. CASE r = Refuse(h)
  BY <1>2 DEF Allocates, Refuse
<1>3. CASE h.nextf[b] # Null /\ r = Take(h, b)
  BY <1>1, <1>3
<1>4. CASE h.nextf[b] = Null /\ SbrkCan(h, b) /\ r = Take(Morecore(h, b), b)
  <2> DEFINE g == Morecore(h, b)
  <2>1. /\ HeapInv(g) /\ g.nextf[b] # Null
        /\ DOMAIN h.home \subseteq DOMAIN g.home
        /\ \A a \in DOMAIN h.home : g.home[a] = h.home[a]
        /\ Used(g) = Used(h)
    BY <1>4, MorecoreInv
  <2> HIDE DEF g
  <2>2. r = Take(g, b)
    BY <1>4 DEF g
  <2> QED BY <1>1, <2>1, <2>2
<1> QED BY <1>2, <1>3, <1>4 DEF FromBucket

\* The loop of kmalloc stops at a bucket that exists, whether the page bucket is known or not.
LEMMA LoopInBuckets ==
  ASSUME NEW h, HeapInv(h), NEW n \in Nat, NEW k \in LoopExit(n)
  PROVE  FirstBucket(h, n) + k \in Buckets
<1>1. h.pagebucket \in {0, PageBucket} /\ PageBucket \in 0 .. Top - 1
  BY HeapFacts, GeometryFacts
<1>2. k \in 0 .. Top - FirstAmt(n)
  BY DEF LoopExit
<1>3. FirstBucket(h, n) \in Nat /\ FirstBucket(h, n) <= FirstAmt(n) /\ FirstAmt(n) \in Nat
  BY <1>1, SMT DEF FirstBucket, FirstAmt
<1>4. Top \in Nat /\ NBUCKETS \in Nat /\ Top < NBUCKETS
  BY GeometryAssumption
<1> DEFINE x == FirstBucket(h, n)
           y == FirstAmt(n)
<1> HIDE DEF x, y
<1>5. x + k \in 0 .. NBUCKETS - 1
  BY <1>2, <1>3, <1>4, SMT DEF x, y
<1> QED BY <1>5 DEF Buckets, x

\* kmalloc after the first call: the bucket it chooses is one that nextf has.
LEMMA AfterSetupInv ==
  ASSUME NEW h, HeapInv(h), h.pagesz # 0, NEW n \in Nat, NEW r \in AfterSetup(h, n)
  PROVE  Allocates(h, r)
<1>1. h.brk % 4 = 0
  BY DEF HeapInv, HeapAligned
<1>2. CASE r = Refuse(h)
  BY <1>2 DEF Allocates, Refuse
<1>3. CASE r # Refuse(h)
  <2>1. PICK k \in LoopExit(n) : r \in FromBucket(h, FirstBucket(h, n) + k)
    BY <1>3 DEF AfterSetup
  <2>2. FirstBucket(h, n) + k \in Buckets
    BY LoopInBuckets
  <2> QED BY <1>1, <2>1, <2>2, FromBucketInv
<1> QED BY <1>2, <1>3

\* The first call's padding: the heap stays sound, with page size and page bucket known.
LEMMA SetupDoneInv ==
  ASSUME NEW h, HeapInv(h)
  PROVE  LET g == SetupDone(h)
         IN  /\ HeapInv(g) /\ g.home = h.home /\ Used(g) = Used(h) /\ g.nextf = h.nextf
             /\ g.pagesz = Page /\ g.pagesz # 0 /\ g.pagebucket = PageBucket
             /\ g.word = h.word /\ g.brk = h.brk + Padding(h.brk)
<1> DEFINE g == SetupDone(h)
           p == Padding(h.brk)
<1>0. /\ h.pagesz \in {0, Page} /\ h.pagebucket \in {0, PageBucket} /\ h.brk \in Nat \ {0}
      /\ h = [pagesz |-> h.pagesz, pagebucket |-> h.pagebucket, nextf |-> h.nextf,
              word |-> h.word, home |-> h.home, brk |-> h.brk]
  BY DEF HeapInv, HeapType
<1>1. g = [pagesz |-> Page, pagebucket |-> PageBucket, nextf |-> h.nextf,
           word |-> h.word, home |-> h.home, brk |-> h.brk + p]
  <2> DEFINE f == SetupFailed(h)
  <2>1. f = [pagesz |-> Page, pagebucket |-> h.pagebucket, nextf |-> h.nextf,
             word |-> h.word, home |-> h.home, brk |-> h.brk]
    BY <1>0 DEF SetupFailed
  <2> HIDE DEF f
  <2>2. g = [f EXCEPT !.pagebucket = PageBucket, !.brk = f.brk + Padding(f.brk)]
    BY DEF SetupDone, f
  <2>3. f.brk = h.brk
    BY <2>1
  <2>4. g = [f EXCEPT !.pagebucket = PageBucket, !.brk = h.brk + p]
    BY <2>2, <2>3
  <2> HIDE DEF g, p
  <2> QED BY <2>1, <2>4
<1>2. p \in Nat /\ (h.brk + p) % 4 = 0
  BY <1>0, PaddingFacts
<1> HIDE DEF g, p
<1>3. g.brk \in Nat /\ h.brk <= g.brk /\ g.brk % 4 = 0
  BY <1>0, <1>1, <1>2, SMT
<1>4. g.pagesz = Page /\ g.pagesz # 0 /\ g.pagebucket = PageBucket
  BY <1>1, GeometryFacts, SMT
<1>5. HeapInv(g) /\ g.home = h.home /\ Used(g) = Used(h) /\ g.nextf = h.nextf
  BY <1>1, <1>3, <1>4, BreakInv
<1>6. g.word = h.word /\ g.brk = h.brk + p
  BY <1>1
<1> QED BY <1>4, <1>5, <1>6 DEF g, p

\* kmalloc as a whole, on its first call and on any later one.
LEMMA KmallocInv ==
  ASSUME NEW h, HeapInv(h), NEW n \in Nat, NEW r \in KmallocOutcomes(h, n)
  PROVE  Allocates(h, r)
<1>1. /\ h.pagesz \in {0, Page} /\ h.pagebucket \in {0, PageBucket} /\ h.brk \in Nat \ {0}
      /\ h = [pagesz |-> h.pagesz, pagebucket |-> h.pagebucket, nextf |-> h.nextf,
              word |-> h.word, home |-> h.home, brk |-> h.brk]
  BY DEF HeapInv, HeapType
<1>2. CASE h.pagesz # 0
  BY <1>2, AfterSetupInv DEF KmallocOutcomes
<1>3. CASE h.pagesz = 0 /\ r \in AfterSetup(SetupDone(h), n)
  <2> DEFINE g == SetupDone(h)
  <2>1. /\ HeapInv(g) /\ g.home = h.home /\ Used(g) = Used(h) /\ g.nextf = h.nextf
        /\ g.pagesz # 0
    BY SetupDoneInv
  <2>2. r \in AfterSetup(g, n)
    BY <1>3
  <2> HIDE DEF g
  <2>3. Allocates(g, r)
    BY <2>1, <2>2, AfterSetupInv
  <2> QED BY <2>1, <2>3 DEF Allocates
<1>4. CASE SetupMayFail /\ r = Refuse(SetupFailed(h))
  <2> DEFINE g == SetupFailed(h)
  <2>1. g = [pagesz |-> Page, pagebucket |-> h.pagebucket, nextf |-> h.nextf,
             word |-> h.word, home |-> h.home, brk |-> h.brk]
    BY <1>1 DEF SetupFailed
  <2>2. r = Refuse(g)
    BY <1>4
  <2> HIDE DEF g
  <2>3. h.brk % 4 = 0 /\ h.brk <= h.brk
    BY <1>1, <1>4, SMT DEF HeapInv, HeapAligned
  <2>4. HeapInv(g) /\ g.home = h.home /\ Used(g) = Used(h) /\ g.nextf = h.nextf
    BY <1>1, <2>1, <2>3, BreakInv
  <2> QED BY <2>2, <2>4 DEF Allocates, Refuse
<1> QED BY <1>2, <1>3, <1>4 DEF KmallocOutcomes

-----------------------------------------------------------------------------
(* The client's pointers.                                                    *)

\* A successful kmalloc hands the client a pointer it did not hold.
LEMMA GrantOwns ==
  ASSUME NEW h, NEW L, NEW S, HeapInv(h), Owns(h, L, S),
         NEW r, Allocates(h, r), r.ret # Null
  PROVE  r.ret \in Nat /\ Owns(r.heap, L \cup {r.ret}, S \ {r.ret})
<1>1. PICK op \in DOMAIN r.heap.home \ Used(h) :
        r.ret = op + Overhead /\ Used(r.heap) = Used(h) \cup {op}
  BY DEF Allocates
<1>2. op \in Nat /\ op + Overhead \in Nat /\ (op + Overhead) - Overhead = op
  <2>1. HeapInv(r.heap) /\ op \in DOMAIN r.heap.home
    BY DEF Allocates
  <2>2. op \in Nat
    BY <2>1, HeapFacts
  <2> QED BY <2>2, GeometryAssumption, SMT
<1>3. \A p \in (L \cup {r.ret}) \cup (S \ {r.ret}) : p \in Nat /\ p - Overhead \in DOMAIN r.heap.home
  BY <1>1, <1>2 DEF Owns, Allocates
<1>4. Used(r.heap) = {p - Overhead : p \in L \cup {r.ret}}
  BY <1>1, <1>2 DEF Owns
<1> QED BY <1>1, <1>2, <1>3, <1>4 DEF Owns

\* A refused kmalloc leaves the client with what it held.
LEMMA RefuseOwns ==
  ASSUME NEW h, NEW L, NEW S, HeapInv(h), Owns(h, L, S),
         NEW r, Allocates(h, r), r.ret = Null
  PROVE  Owns(r.heap, L, S)
  BY DEF Owns, Allocates

\* kfree of a pointer, live or already freed, leaves the client with all the others.
LEMMA KfreeOwns ==
  ASSUME NEW h, NEW L, NEW S, HeapInv(h), Owns(h, L, S), NEW cp \in L \cup S
  PROVE  LET g == KfreeHeap(h, cp)
         IN  HeapInv(g) /\ g.home = h.home /\ Owns(g, L \ {cp}, S \cup {cp})
<1> DEFINE g == KfreeHeap(h, cp)
<1>1. cp \in Nat /\ cp - Overhead \in DOMAIN h.home
  BY DEF Owns
<1>2. HeapInv(g) /\ g.home = h.home /\ Used(g) = Used(h) \ {cp - Overhead}
  BY <1>1, KfreeInv
<1> HIDE DEF g
<1>3. \A p \in L : p \in Nat /\ (p - Overhead = cp - Overhead <=> p = cp)
  <2>1. \A p \in Nat : p - Overhead = cp - Overhead <=> p = cp
    BY <1>1, GeometryAssumption, SMT
  <2> QED BY <2>1 DEF Owns
<1>4. Used(g) = {p - Overhead : p \in L \ {cp}}
  BY <1>2, <1>3 DEF Owns
<1>5. Owns(g, L \ {cp}, S \cup {cp})
  BY <1>1, <1>2, <1>4 DEF Owns
<1> QED BY <1>2, <1>5 DEF g

\* The client's two maps stay functions into Nat.
LEMMA MapFacts ==
  ASSUME NEW f, f \in [DOMAIN f -> Nat], NEW x, NEW n \in Nat, NEW S
  PROVE  /\ Put(f, x, n) \in [DOMAIN f \cup {x} -> Nat]
         /\ Drop(f, S) \in [DOMAIN f \ S -> Nat]
         /\ DOMAIN Put(f, x, n) = DOMAIN f \cup {x} /\ DOMAIN Drop(f, S) = DOMAIN f \ S
  BY DEF Put, Drop

\* The part common to kmalloc and kcalloc: a sound outcome, recorded by the client.
LEMMA ObtainInv ==
  ASSUME IInv, NEW r, Allocates(heap, r), NEW n \in Nat,
         heap' = r.heap, Obtain(r.ret, n), copied' = NoCopy, fault' \in BOOLEAN
  PROVE  IInv'
<1> USE DEF IInv
<1>1. HeapInv(heap') /\ HeapType(heap')
  BY DEF Allocates, HeapInv
<1>2. CASE r.ret = Null
  <2>1. live' = live /\ stale' = stale
    BY <1>2 DEF Obtain
  <2>2. Owns(heap', DOMAIN live, DOMAIN stale)
    BY <1>2, RefuseOwns
  <2> QED BY <1>1, <2>1, <2>2 DEF TypeOK, Owns
<1>3. CASE r.ret # Null
  <2>1. live' = Put(live, r.ret, n) /\ stale' = Drop(stale, {r.ret})
    BY <1>3 DEF Obtain
  <2>2. /\ live' \in [DOMAIN live \cup {r.ret} -> Nat] /\ DOMAIN live' = DOMAIN live \cup {r.ret}
        /\ stale' \in [DOMAIN stale \ {r.ret} -> Nat] /\ DOMAIN stale' = DOMAIN stale \ {r.ret}
    BY <2>1, MapFacts DEF TypeOK
  <2>3. Owns(heap', DOMAIN live', DOMAIN stale')
    BY <1>3, <2>2, GrantOwns
  <2> QED BY <1>1, <2>2, <2>3 DEF TypeOK, Owns
<1> QED BY <1>2, <1>3

-----------------------------------------------------------------------------
(* The steps of the specification.                                           *)

\* Before the first call there is no block and every list is empty.
LEMMA InitInv == Init => IInv
<1> SUFFICES ASSUME Init
             PROVE  IInv
  OBVIOUS
<1>1. PICK base \in Bases :
        heap = [pagesz |-> 0, pagebucket |-> 0, nextf |-> [b \in Buckets |-> Null],
                word |-> [a \in {} |-> 0], home |-> [a \in {} |-> 0], brk |-> base]
  BY DEF Init
<1>2. /\ DOMAIN live = {} /\ DOMAIN stale = {} /\ DOMAIN heap.home = {}
      /\ live \in [DOMAIN live -> Nat] /\ stale \in [DOMAIN stale -> Nat]
      /\ copied = NoCopy /\ fault \in BOOLEAN
  BY <1>1 DEF Init
<1>3. HeapType(heap)
  BY <1>1, <1>2, ClientAssumption DEF HeapType, Null
<1>4. HeapAligned(heap)
  BY <1>1, <1>2, ClientAssumption DEF HeapAligned
<1>5. \A b \in Buckets : FreeBlocks(heap, b) = {} /\ heap.nextf[b] = Null
  BY <1>1, <1>2 DEF FreeBlocks
<1>6. HeapDisjoint(heap) /\ IndexTrue(heap) /\ LinksTyped(heap) /\ LinksUnique(heap)
  BY <1>2, <1>5 DEF HeapDisjoint, IndexTrue, LinksTyped, LinksUnique
<1>7. Owns(heap, DOMAIN live, DOMAIN stale)
  BY <1>2 DEF Owns, Used
<1> QED BY <1>2, <1>3, <1>4, <1>6, <1>7 DEF IInv, HeapInv, TypeOK

\* kmalloc preserves the invariant.
LEMMA KmallocStep ==
  ASSUME IInv, NEW n \in Nat, Kmalloc(n)
  PROVE  IInv'
<1>1. PICK r \in KmallocOutcomes(heap, n) : heap' = r.heap /\ Obtain(r.ret, n)
  BY DEF Kmalloc
<1>2. Allocates(heap, r)
  BY KmallocInv DEF IInv
<1>3. copied' = NoCopy /\ fault' \in BOOLEAN
  BY DEF Kmalloc, IInv, TypeOK
<1> QED BY <1>1, <1>2, <1>3, ObtainInv

\* kcalloc preserves the invariant, whatever its multiplication wraps to.
LEMMA KcallocStep ==
  ASSUME IInv, NEW nelem \in Nat, NEW elsize \in Nat, Kcalloc(nelem, elsize)
  PROVE  IInv'
<1> DEFINE n == (nelem * elsize) % WordMod
<1>1. PICK r \in KmallocOutcomes(heap, n) :
        heap' = r.heap /\ Obtain(r.ret, n) /\ fault' = (r.ret = Null /\ n > 0) /\ copied' = NoCopy
  BY DEF Kcalloc
<1>2. n \in Nat
  <2>1. Top \in 0 .. Top
    BY GeometryAssumption, SMT
  <2>2. WordMod \in Nat \ {0}
    BY <2>1, GeometryFacts, SMT DEF WordMod
  <2>3. nelem * elsize \in Nat
    BY SMT
  <2> QED BY <2>2, <2>3, DivFacts, SMT
<1> HIDE DEF n
<1>3. Allocates(heap, r)
  BY <1>2, KmallocInv DEF IInv
<1>4. fault' \in BOOLEAN
  BY <1>1
<1> QED BY <1>1, <1>2, <1>3, <1>4, ObtainInv

\* kfree preserves the invariant, of null and of a block freed before too.
LEMMA KfreeStep ==
  ASSUME IInv, NEW cp \in Pointers, Kfree(cp)
  PROVE  IInv'
<1>1. /\ live' = Drop(live, {cp})
      /\ stale' = IF cp \in DOMAIN live THEN Put(stale, cp, live[cp]) ELSE stale
      /\ copied' = NoCopy /\ fault' = fault
      /\ heap' = IF cp = Null THEN heap ELSE KfreeHeap(heap, cp)
  BY DEF Kfree
<1>2. live' \in [DOMAIN live \ {cp} -> Nat] /\ DOMAIN live' = DOMAIN live \ {cp}
  <2>1. 0 \in Nat
    OBVIOUS
  <2> QED BY <1>1, <2>1, MapFacts DEF IInv, TypeOK
<1>3. /\ DOMAIN stale' = IF cp \in DOMAIN live THEN DOMAIN stale \cup {cp} ELSE DOMAIN stale
      /\ stale' \in [DOMAIN stale' -> Nat]
  <2>1. stale \in [DOMAIN stale -> Nat] /\ live \in [DOMAIN live -> Nat]
    BY DEF IInv, TypeOK
  <2>2. CASE cp \in DOMAIN live
    <3>1. stale' = Put(stale, cp, live[cp]) /\ live[cp] \in Nat
      BY <1>1, <2>1, <2>2
    <3>2. stale' \in [DOMAIN stale \cup {cp} -> Nat] /\ DOMAIN stale' = DOMAIN stale \cup {cp}
      BY <2>1, <3>1, MapFacts
    <3> QED BY <2>2, <3>2
  <2>3. CASE cp \notin DOMAIN live
    BY <1>1, <2>1, <2>3
  <2> QED BY <2>2, <2>3
<1>4. \A p \in DOMAIN live \cup DOMAIN stale : p # Null
  <2>1. \A p \in DOMAIN live \cup DOMAIN stale : p \in Nat /\ p - Overhead \in DOMAIN heap.home
    BY DEF IInv, TypeOK
  <2>2. \A p \in DOMAIN live \cup DOMAIN stale : p - Overhead \in Nat
    BY <2>1, HeapFacts DEF IInv
  <2> QED BY <2>1, <2>2, GeometryAssumption, SMTT(60) DEF Null
<1>5. CASE cp = Null
  <2>1. heap' = heap /\ live' \in [DOMAIN live' -> Nat] /\ DOMAIN live' = DOMAIN live
        /\ DOMAIN stale' = DOMAIN stale
    BY <1>1, <1>2, <1>3, <1>4, <1>5
  <2> QED BY <1>1, <1>3, <2>1 DEF IInv, TypeOK, Owns
<1>6. CASE cp # Null
  <2>1. cp \in DOMAIN live \cup DOMAIN stale
    BY <1>6 DEF Pointers
  <2>2. HeapInv(heap') /\ Owns(heap', DOMAIN live \ {cp}, DOMAIN stale \cup {cp})
    BY <1>1, <1>6, <2>1, KfreeOwns DEF IInv
  <2>3. DOMAIN stale' = DOMAIN stale \cup {cp}
    BY <1>3, <2>1
  <2>4. Owns(heap', DOMAIN live', DOMAIN stale')
    BY <1>2, <2>2, <2>3
  <2> QED BY <1>1, <1>2, <1>3, <2>2, <2>4 DEF IInv, TypeOK, Owns, HeapInv
<1> QED BY <1>5, <1>6

\* krealloc of a block, in use or already freed, preserves the invariant: in place, moved,
\* or refused after the old block has been freed.
LEMMA ResizeStep ==
  ASSUME IInv, NEW cp \in DOMAIN live \cup DOMAIN stale, NEW n \in Nat, Resize(cp, n)
  PROVE  IInv'
<1> DEFINE had == IF cp \in DOMAIN live THEN live[cp] ELSE stale[cp]
           L == DOMAIN live
           S == DOMAIN stale
<1>1. PICK r \in KreallocOutcomes(heap, cp, n) :
        /\ heap' = r.heap
        /\ IF r.ret = Null
           THEN live' = Drop(live, {cp}) /\ stale' = Put(stale, cp, had)
           ELSE /\ live' = Put(Drop(live, {cp}), r.ret, n)
                /\ stale' = Drop(stale, {cp, r.ret})
        /\ copied' = IF r.ret \in {Null, cp} THEN NoCopy
                     ELSE [src |-> cp, dst |-> r.ret, len |-> CopyLen(heap, cp, n),
                           had |-> had, known |-> OldBucket(heap, cp - Overhead) # NBUCKETS]
  BY DEF Resize
<1>2. fault' \in BOOLEAN /\ had \in Nat /\ HeapInv(heap) /\ Owns(heap, L, S)
  BY DEF Resize, IInv, TypeOK
<1>3. IF r.ret = Null
      THEN /\ live' \in [L \ {cp} -> Nat] /\ DOMAIN live' = L \ {cp}
           /\ stale' \in [S \cup {cp} -> Nat] /\ DOMAIN stale' = S \cup {cp}
      ELSE /\ live' \in [(L \ {cp}) \cup {r.ret} -> Nat] /\ DOMAIN live' = (L \ {cp}) \cup {r.ret}
           /\ stale' \in [S \ {cp, r.ret} -> Nat] /\ DOMAIN stale' = S \ {cp, r.ret}
  <2>1. live \in [DOMAIN live -> Nat] /\ stale \in [DOMAIN stale -> Nat]
    BY DEF IInv, TypeOK
  <2>2. /\ Drop(live, {cp}) \in [L \ {cp} -> Nat] /\ DOMAIN Drop(live, {cp}) = L \ {cp}
        /\ Put(stale, cp, had) \in [S \cup {cp} -> Nat]
        /\ DOMAIN Put(stale, cp, had) = S \cup {cp}
        /\ Drop(stale, {cp, r.ret}) \in [S \ {cp, r.ret} -> Nat]
        /\ DOMAIN Drop(stale, {cp, r.ret}) = S \ {cp, r.ret}
    BY <1>2, <2>1, MapFacts
  <2>3. /\ Put(Drop(live, {cp}), r.ret, n) \in [(L \ {cp}) \cup {r.ret} -> Nat]
        /\ DOMAIN Put(Drop(live, {cp}), r.ret, n) = (L \ {cp}) \cup {r.ret}
    <3> DEFINE f == Drop(live, {cp})
    <3>1. DOMAIN f = L \ {cp} /\ f \in [DOMAIN f -> Nat]
      BY <2>2
    <3> HIDE DEF f
    <3>2. Put(f, r.ret, n) \in [DOMAIN f \cup {r.ret} -> Nat]
          /\ DOMAIN Put(f, r.ret, n) = DOMAIN f \cup {r.ret}
      BY <3>1, MapFacts, ZenonT(100)
    <3> QED BY <3>1, <3>2 DEF f
  <2> QED BY <1>1, <2>2, <2>3
<1>4. copied' # NoCopy => copied'.dst = r.ret /\ copied'.src = cp /\ r.ret \notin {Null, cp}
  BY <1>1
<1> HIDE DEF had
<1>5. HeapInv(heap') /\ Owns(heap', DOMAIN live', DOMAIN stale')
  <2>1. CASE StaysInPlace(heap, cp - Overhead, n)
    <3>1. r.heap = heap /\ r.ret = cp
      BY <2>1 DEF KreallocOutcomes
    <3>2. cp \in L /\ cp \notin S /\ cp # Null
      <4>1. cp \in Nat /\ cp - Overhead \in DOMAIN heap.home
        BY <1>2 DEF Owns
      <4>2. cp - Overhead \in Nat \ {0}
        BY <1>2, <4>1, HeapFacts
      <4>3. InUse(heap, cp - Overhead)
        BY <2>1 DEF StaysInPlace
      <4>4. PICK p \in L : cp - Overhead = p - Overhead
        BY <1>2, <4>1, <4>3 DEF Owns, Used
      <4>5. p \in Nat
        BY <1>2 DEF Owns
      <4>6. cp = p /\ cp # Null
        BY <4>1, <4>2, <4>4, <4>5, GeometryAssumption, SMTT(60) DEF Null
      <4> QED BY <1>2, <4>6 DEF Owns
    <3>3. DOMAIN live' = L /\ DOMAIN stale' = S
      BY <1>3, <3>1, <3>2
    <3> QED BY <1>1, <1>2, <3>1, <3>3
  <2>2. CASE ~StaysInPlace(heap, cp - Overhead, n)
    <3> DEFINE g == KfreeHeap(heap, cp)
    <3>1. r \in KmallocOutcomes(g, n)
      BY <2>2 DEF KreallocOutcomes
    <3>2. HeapInv(g) /\ Owns(g, L \ {cp}, S \cup {cp})
      BY <1>2, KfreeOwns
    <3> HIDE DEF g
    <3>3. Allocates(g, r)
      BY <3>1, <3>2, KmallocInv
    <3>4. CASE r.ret = Null
      BY <1>1, <1>3, <3>2, <3>3, <3>4, RefuseOwns DEF Allocates
    <3>5. CASE r.ret # Null
      <4>1. Owns(r.heap, (L \ {cp}) \cup {r.ret}, (S \cup {cp}) \ {r.ret})
        BY <3>2, <3>3, <3>5, GrantOwns
      <4>2. Owns(r.heap, (L \ {cp}) \cup {r.ret}, S \ {cp, r.ret})
        BY <4>1 DEF Owns
      <4> QED BY <1>1, <1>3, <3>3, <3>5, <4>2 DEF Allocates
    <3> QED BY <3>4, <3>5
  <2> QED BY <2>1, <2>2
<1>6. live' \in [DOMAIN live' -> Nat] /\ stale' \in [DOMAIN stale' -> Nat]
  BY <1>3
<1>7. copied' # NoCopy => copied'.dst \in DOMAIN live' /\ copied'.src # copied'.dst
  BY <1>3, <1>4
<1> QED BY <1>2, <1>5, <1>6, <1>7 DEF IInv, TypeOK, Owns, HeapInv

\* Other code moving the break by a multiple of 4 preserves the invariant.
LEMMA ForeignSbrkStep ==
  ASSUME IInv, NEW k \in ForeignMoves, ForeignSbrk(k)
  PROVE  IInv'
<1>1. /\ heap' = [heap EXCEPT !.brk = @ + k] /\ copied' = NoCopy
      /\ live' = live /\ stale' = stale /\ fault' = fault
  BY DEF ForeignSbrk
<1>2. k \in Nat /\ k % 4 = 0
  BY ClientAssumption
<1>3. HeapInv(heap) /\ heap.brk \in Nat \ {0}
  BY HeapFacts DEF IInv
<1>4. heap' = [pagesz |-> heap.pagesz, pagebucket |-> heap.pagebucket, nextf |-> heap.nextf,
               word |-> heap.word, home |-> heap.home, brk |-> heap.brk + k]
  BY <1>1, <1>3 DEF HeapInv, HeapType
<1>5. heap'.pagesz = heap.pagesz /\ heap'.pagebucket = heap.pagebucket /\ heap'.brk = heap.brk + k
  BY <1>4
<1>6. heap.pagesz # 0 \/ SetupMayFail => heap.brk % 4 = 0
  BY <1>3 DEF HeapInv, HeapAligned
<1>7. /\ heap'.brk \in Nat /\ heap.brk <= heap'.brk
      /\ heap'.pagesz # 0 \/ SetupMayFail => heap'.brk % 4 = 0
  BY <1>2, <1>3, <1>5, <1>6, SMT
<1>8. heap' = [pagesz |-> heap'.pagesz, pagebucket |-> heap'.pagebucket, nextf |-> heap.nextf,
               word |-> heap.word, home |-> heap.home, brk |-> heap'.brk]
  BY <1>4, <1>5
<1>9. heap'.pagesz \in {0, Page} /\ heap'.pagebucket \in {0, PageBucket}
  BY <1>3, <1>5, HeapFacts
<1>10. HeapInv(heap') /\ heap'.home = heap.home /\ Used(heap') = Used(heap)
  BY <1>3, <1>7, <1>8, <1>9, BreakInv
<1> QED BY <1>1, <1>10 DEF IInv, TypeOK, Owns, HeapInv

-----------------------------------------------------------------------------
(* What becomes of a freed block.                                            *)

\* The block of a pointer the client holds is in use, and kfree puts it first on the list
\* of the bucket it was cut for.
LEMMA FreedFirst ==
  ASSUME IInv, NEW cp \in DOMAIN live
  PROVE  /\ cp # Null /\ cp \notin DOMAIN stale
         /\ KfreeHeap(heap, cp).nextf[heap.home[cp - Overhead]] = cp - Overhead
<1>1. HeapInv(heap) /\ Owns(heap, DOMAIN live, DOMAIN stale)
  BY DEF IInv
<1>2. cp \in Nat /\ cp - Overhead \in DOMAIN heap.home /\ InUse(heap, cp - Overhead)
  BY <1>1 DEF Owns, Used
<1>3. cp - Overhead \in Nat
  BY <1>1, <1>2, HeapFacts
<1>4. cp # Null
  BY <1>2, <1>3, GeometryAssumption, SMT DEF Null
<1> QED BY <1>1, <1>2, <1>4, KfreeInv DEF Owns

\* A kmalloc or kcalloc takes no pointer from the client.
LEMMA ObtainKeeps ==
  ASSUME NEW q, NEW n, Obtain(q, n)
  PROVE  DOMAIN live \subseteq DOMAIN live'
  BY DEF Obtain, Put

\* The only pointer a krealloc takes from the client is its argument; when no other
\* comes in its place, the block is the first of its list.
LEMMA ResizeFirst ==
  ASSUME IInv, NEW cp \in DOMAIN live \cup DOMAIN stale, NEW n \in Nat, Resize(cp, n),
         NEW p \in DOMAIN live \ DOMAIN live', DOMAIN live' \subseteq DOMAIN live
  PROVE  heap'.nextf[heap.home[p - Overhead]] = p - Overhead
<1> DEFINE L == DOMAIN live
           S == DOMAIN stale
           g == KfreeHeap(heap, cp)
<1>1. PICK r \in KreallocOutcomes(heap, cp, n) :
        /\ heap' = r.heap
        /\ IF r.ret = Null THEN live' = Drop(live, {cp})
           ELSE live' = Put(Drop(live, {cp}), r.ret, n)
  BY DEF Resize
<1>2. HeapInv(heap) /\ Owns(heap, L, S)
  BY DEF IInv
<1>3. DOMAIN live' = IF r.ret = Null THEN L \ {cp} ELSE (L \ {cp}) \cup {r.ret}
  BY <1>1 DEF Drop, Put
<1>4. p = cp /\ cp \in L /\ r.ret # cp
  BY <1>3, FreedFirst
<1>5. cp # Null /\ g.nextf[heap.home[cp - Overhead]] = cp - Overhead
  BY <1>4, FreedFirst
<1>6. HeapInv(g) /\ Owns(g, L \ {cp}, S \cup {cp})
  BY <1>2, KfreeOwns
<1>7. r \in KmallocOutcomes(g, n)
  BY <1>4 DEF KreallocOutcomes
<1> HIDE DEF g
<1>8. Allocates(g, r)
  BY <1>6, <1>7, KmallocInv
<1>9. CASE r.ret = Null
  BY <1>1, <1>4, <1>5, <1>8, <1>9 DEF Allocates
<1>10. CASE r.ret # Null
  <2>1. r.ret \in L \ {cp}
    BY <1>3, <1>4, <1>10
  <2>2. r.ret - Overhead \in Used(g)
    BY <1>6, <2>1 DEF Owns
  <2>3. PICK op \in DOMAIN r.heap.home \ Used(g) : r.ret = op + Overhead
    BY <1>8, <1>10 DEF Allocates
  <2>4. op \in Nat
    BY <1>8, HeapFacts DEF Allocates
  <2>5. r.ret - Overhead = op
    BY <2>3, <2>4, GeometryAssumption, SMT
  <2> QED BY <2>2, <2>3, <2>5
<1> QED BY <1>9, <1>10

-----------------------------------------------------------------------------
(* The theorems.                                                             *)

\* IInv is inductive: every call of the allocator preserves it.
THEOREM Inductive == IInv /\ [Next]_vars => IInv'
<1> SUFFICES ASSUME IInv, [Next]_vars
             PROVE  IInv'
  OBVIOUS
<1>1. Requests \subseteq Nat /\ Counts \subseteq Nat
  BY ClientAssumption
<1>2. ASSUME NEW n \in Requests, Kmalloc(n)
      PROVE  IInv'
  BY <1>1, <1>2, KmallocStep
<1>3. ASSUME NEW nelem \in Counts, NEW elsize \in Requests, Kcalloc(nelem, elsize)
      PROVE  IInv'
  BY <1>1, <1>3, KcallocStep
<1>4. ASSUME NEW cp \in Pointers, Kfree(cp)
      PROVE  IInv'
  BY <1>4, KfreeStep
<1>5. ASSUME NEW cp \in Pointers, NEW n \in Requests, Krealloc(cp, n)
      PROVE  IInv'
  <2>1. CASE Kmalloc(n)
    BY <1>1, <2>1, KmallocStep
  <2>2. CASE Kfree(cp)
    BY <2>2, KfreeStep
  <2>3. CASE cp # Null /\ Resize(cp, n)
    BY <1>1, <2>3, ResizeStep DEF Pointers
  <2> QED BY <1>5, <2>1, <2>2, <2>3 DEF Krealloc
<1>6. ASSUME NEW k \in ForeignMoves, ForeignSbrk(k)
      PROVE  IInv'
  BY <1>6, ForeignSbrkStep
<1>7. CASE UNCHANGED vars
  BY <1>7 DEF vars, IInv, TypeOK, Owns
<1> QED BY <1>2, <1>3, <1>4, <1>5, <1>6, <1>7 DEF Next, Calls

\* The inductive invariant holds in every reachable state, for every page size, bucket
\* count, request and limit the assumptions allow.
THEOREM Safety == Spec => []IInv
<1>1. Init => IInv
  BY InitInv
<1>2. IInv /\ [Next]_vars => IInv'
  BY Inductive
<1> QED BY <1>1, <1>2, PTL DEF Spec

\* Type correctness of the allocator and of the client's bookkeeping.
THEOREM TypeCorrect == Spec => []TypeOK
<1>1. IInv => TypeOK
  BY DEF IInv
<1> QED BY <1>1, Safety, PTL

\* No two blocks cut by morecore share a byte and none reaches past the break, also when
\* other code moves the break between two calls of morecore.
THEOREM NoSharedByte == Spec => []BlocksDisjoint
<1>1. IInv => BlocksDisjoint
  BY DEF IInv, HeapInv, BlocksDisjoint
<1> QED BY <1>1, Safety, PTL

\* The header of every block tells the truth, whatever the client did: kfree's sanity check
\* and the bucket it reads from the header can be relied on.
THEOREM TrueHeaders == Spec => []HeadersTrue
<1>1. IInv => HeadersTrue
  <2> SUFFICES ASSUME IInv, NEW a \in DOMAIN heap.home
               PROVE  /\ InUse(heap, a) <=> a + Overhead \in DOMAIN live
                      /\ InUse(heap, a) => OvIndex(heap.word[a]) = heap.home[a]
    BY DEF HeadersTrue
  <2>1. InUse(heap, a) => OvIndex(heap.word[a]) = heap.home[a]
    BY DEF IInv, HeapInv, IndexTrue
  <2>2. a \in Nat /\ (a + Overhead) - Overhead = a
    <3>1. a \in Nat
      BY HeapFacts DEF IInv
    <3> QED BY <3>1, GeometryAssumption, SMTT(60)
  <2>3. \A p \in DOMAIN live : p - Overhead = a <=> p = a + Overhead
    <3> SUFFICES ASSUME NEW p \in DOMAIN live
                 PROVE  p - Overhead = a <=> p = a + Overhead
      OBVIOUS
    <3>1. p \in Nat
      BY DEF IInv, TypeOK
    <3> QED BY <2>2, <3>1, GeometryAssumption, SMTT(60)
  <2>4. InUse(heap, a) <=> \E p \in DOMAIN live : p - Overhead = a
    BY DEF IInv, Owns, Used
  <2> QED BY <2>1, <2>3, <2>4
<1> QED BY <1>1, Safety, PTL

\* A block freed by kfree, or by a krealloc that then found no memory, heads the list of
\* its bucket: findbucket's first pass finds it.
THEOREM FreedHeadsList == Spec => FreedIsFirst
<1>1. ASSUME IInv, [Next]_vars, NEW p \in DOMAIN live \ DOMAIN live',
             DOMAIN live' \subseteq DOMAIN live
      PROVE  heap'.nextf[heap.home[p - Overhead]] = p - Overhead
  <2>1. Requests \subseteq Nat
    BY ClientAssumption
  <2>2. ASSUME NEW n, Kmalloc(n)
        PROVE  FALSE
    BY <1>1, <2>2, ObtainKeeps DEF Kmalloc
  <2>3. ASSUME NEW nelem, NEW elsize, Kcalloc(nelem, elsize)
        PROVE  FALSE
    BY <1>1, <2>3, ObtainKeeps DEF Kcalloc
  <2>4. ASSUME NEW cp \in Pointers, Kfree(cp)
        PROVE  heap'.nextf[heap.home[p - Overhead]] = p - Overhead
    <3>1. live' = Drop(live, {cp}) /\ heap' = IF cp = Null THEN heap ELSE KfreeHeap(heap, cp)
      BY <2>4 DEF Kfree
    <3>2. p = cp
      BY <1>1, <3>1 DEF Drop
    <3> QED BY <1>1, <3>1, <3>2, FreedFirst
  <2>5. ASSUME NEW cp \in Pointers, NEW n \in Requests, Krealloc(cp, n)
        PROVE  heap'.nextf[heap.home[p - Overhead]] = p - Overhead
    <3>1. CASE cp # Null /\ Resize(cp, n)
      BY <1>1, <2>1, <3>1, ResizeFirst DEF Pointers
    <3> QED BY <2>2, <2>4, <2>5, <3>1 DEF Krealloc
  <2>6. ASSUME NEW k, ForeignSbrk(k)
        PROVE  FALSE
    BY <1>1, <2>6 DEF ForeignSbrk
  <2>7. CASE UNCHANGED vars
    BY <1>1, <2>7 DEF vars
  <2> QED BY <1>1, <2>2, <2>3, <2>4, <2>5, <2>6, <2>7 DEF Next, Calls
<1>2. IInv /\ [Next]_vars =>
        [\A p \in DOMAIN live \ DOMAIN live' :
           DOMAIN live' \subseteq DOMAIN live =>
             heap.nextf'[heap.home[p - Overhead]] = p - Overhead]_vars
  BY <1>1
<1> QED BY <1>2, Safety, PTL DEF Spec, FreedIsFirst

-----------------------------------------------------------------------------
(* The second part: the free lists, the sizes, the alignment, the counts.    *)

\* Once a call has set up the page size, the page bucket is known too.
SetUp(h) == h.pagesz # 0 => h.pagebucket = PageBucket

\* Block a is of the smallest bucket with room for n bytes.
Fits(h, a, n) ==
  /\ n <= Capacity(h.home[a])
  /\ h.home[a] > 0 => n > Capacity(h.home[a] - 1)

FitInv ==
  /\ IInv /\ SetUp(heap)
  /\ \A p \in DOMAIN live : Fits(heap, p - Overhead, live[p])

\* The size kcalloc computes is a number, reduced to the width of size_t.
LEMMA ProductWraps ==
  ASSUME NEW nelem \in Nat, NEW elsize \in Nat
  PROVE  (nelem * elsize) % WordMod \in Nat
<1>1. Top \in 0 .. Top
  BY GeometryAssumption, SMT
<1>2. WordMod \in Nat \ {0}
  BY <1>1, GeometryFacts, SMT DEF WordMod
<1>3. nelem * elsize \in Nat
  BY SMT
<1> QED BY <1>2, <1>3, DivFacts, SMT

-----------------------------------------------------------------------------
(* The free lists.                                                           *)

\* Every list runs through the free blocks of its bucket and ends in null.
ListsWhole(h) ==
  \A b \in Buckets : RunsThrough(h.nextf[b], h.word, FreeBlocks(h, b), Null)

\* The free blocks of a bucket are those cut for it that are not in use.
LEMMA FreeNotUsed ==
  ASSUME NEW h, NEW b
  PROVE  FreeBlocks(h, b) = {a \in DOMAIN h.home : h.home[a] = b} \ Used(h)
  BY DEF FreeBlocks, Used

\* kmalloc takes the head: the list it was on goes on from the block after it.
LEMMA TakeLists ==
  ASSUME NEW h, HeapInv(h), ListsWhole(h), NEW b \in Buckets, h.nextf[b] # Null
  PROVE  ListsWhole(Take(h, b).heap)
<1> DEFINE op == h.nextf[b]
           g  == Take(h, b).heap
<1>1. op \in FreeBlocks(h, b) /\ g.home = h.home /\ Used(g) = Used(h) \cup {op}
  BY TakeInv DEF HeapInv, LinksTyped
<1>2. g = [h EXCEPT !.nextf[b] = h.word[op], !.word[op] = Stamp(h.word[op], b)]
  BY DEF Take
<1>3. HeapType(h)
  BY DEF HeapInv
<1> HIDE DEF op, g
<1>4. /\ g.nextf = [h.nextf EXCEPT ![b] = h.word[op]]
      /\ g.word = [h.word EXCEPT ![op] = Stamp(h.word[op], b)]
  BY <1>2, <1>3 DEF HeapType
<1>5. /\ \A c \in Buckets : g.nextf[c] = IF c = b THEN h.word[op] ELSE h.nextf[c]
      /\ \A a \in DOMAIN h.home : a # op => g.word[a] = h.word[a]
  BY <1>4, HeapFacts
<1>6. \A c : FreeBlocks(g, c) = FreeBlocks(h, c) \ {op}
  BY <1>1, FreeNotUsed
<1>7. \A c : \A a \in FreeBlocks(h, c) : a \in DOMAIN h.home /\ h.home[a] = c
  BY DEF FreeBlocks
<1>8. ASSUME NEW c \in Buckets
      PROVE  RunsThrough(g.nextf[c], g.word, FreeBlocks(g, c), Null)
  <2>1. RunsThrough(h.nextf[c], h.word, FreeBlocks(h, c), Null)
    BY DEF ListsWhole
  <2>2. CASE c = b
    <3>1. h.nextf[c] = op /\ op # Null
      BY <2>2 DEF op
    <3>2. \A y \in FreeBlocks(h, c) \ {op} : g.word[y] = h.word[y]
      BY <1>5, <1>7
    <3>3. RunsThrough(h.word[op], g.word, FreeBlocks(h, c) \ {op}, Null)
      BY <2>1, <3>1, <3>2, RunsPop
    <3> QED BY <1>5, <1>6, <2>2, <3>3
  <2>3. CASE c # b
    <3>1. FreeBlocks(g, c) = FreeBlocks(h, c)
      BY <1>1, <1>6, <1>7, <2>3
    <3>2. \A y \in FreeBlocks(h, c) : g.word[y] = h.word[y]
      BY <1>1, <1>5, <1>7, <2>3
    <3>3. RunsThrough(h.nextf[c], g.word, FreeBlocks(h, c), Null)
      BY <2>1, <3>2, RunsSame
    <3> QED BY <1>5, <2>3, <3>1, <3>3
  <2> QED BY <2>2, <2>3
<1> QED BY <1>8 DEF ListsWhole, g

\* kfree puts its block before the head of the list its header names, which is the right one.
LEMMA KfreeLists ==
  ASSUME NEW h, HeapInv(h), ListsWhole(h), NEW cp, cp - Overhead \in DOMAIN h.home
  PROVE  ListsWhole(KfreeHeap(h, cp))
<1> DEFINE op == cp - Overhead
           b  == OvIndex(h.word[op])
           g  == KfreeHeap(h, cp)
<1>1. CASE ~InUse(h, op)
  BY <1>1 DEF KfreeHeap
<1>2. CASE InUse(h, op)
  <2>1. g = [h EXCEPT !.word[op] = h.nextf[b], !.nextf[b] = op]
    BY <1>2 DEF KfreeHeap
  <2>2. HeapType(h)
    BY DEF HeapInv
  <2>3. /\ op \in DOMAIN h.home /\ b = h.home[op] /\ b \in Buckets /\ op # Null
        /\ h.nextf[b] \in Nat
    BY <1>2, HeapFacts DEF HeapInv, IndexTrue, Null
  <2>4. g.home = h.home /\ Used(g) = Used(h) \ {op} /\ op \in Used(h)
    BY <1>2, KfreeInv DEF Used
  <2> HIDE DEF op, b, g
  <2>5. /\ g.nextf = [h.nextf EXCEPT ![b] = op]
        /\ g.word = [h.word EXCEPT ![op] = h.nextf[b]]
    BY <2>1, <2>2 DEF HeapType
  <2>6. /\ \A c \in Buckets : g.nextf[c] = IF c = b THEN op ELSE h.nextf[c]
        /\ g.word[op] = h.nextf[b]
        /\ \A a \in DOMAIN h.home : a # op => g.word[a] = h.word[a]
    BY <2>3, <2>5, HeapFacts
  <2>7. /\ \A c : c # b => FreeBlocks(g, c) = FreeBlocks(h, c)
        /\ FreeBlocks(g, b) = FreeBlocks(h, b) \cup {op}
        /\ \A c : op \notin FreeBlocks(h, c)
    BY <2>3, <2>4, FreeNotUsed
  <2>8. \A c : \A a \in FreeBlocks(h, c) : a \in DOMAIN h.home /\ a # op
    BY <2>7 DEF FreeBlocks
  <2>9. ASSUME NEW c \in Buckets
        PROVE  RunsThrough(g.nextf[c], g.word, FreeBlocks(g, c), Null)
    <3>1. RunsThrough(h.nextf[c], h.word, FreeBlocks(h, c), Null)
      BY DEF ListsWhole
    <3>2. \A y \in FreeBlocks(h, c) : g.word[y] = h.word[y]
      BY <2>6, <2>8
    <3>3. CASE c = b
      <4>1. RunsThrough(op, g.word, FreeBlocks(h, c) \cup {op}, Null)
        BY <2>3, <2>6, <2>7, <3>1, <3>2, <3>3, RunsPush
      <4> QED BY <2>6, <2>7, <3>3, <4>1
    <3>4. CASE c # b
      <4>1. RunsThrough(h.nextf[c], g.word, FreeBlocks(h, c), Null)
        BY <3>1, <3>2, RunsSame
      <4> QED BY <2>6, <2>7, <3>4, <4>1
    <3> QED BY <3>3, <3>4
  <2> QED BY <2>9 DEF ListsWhole, g
<1> QED BY <1>1, <1>2

\* The loop of morecore chains the blocks it cuts in the order of their addresses, and the
\* last link, which it does not write, is null as sbrk left it.
LEMMA CarvedChain ==
  ASSUME NEW b \in 0 .. Top - 1, NEW op \in Nat \ {0}, op % 4 = 0, NEW w,
         \A a \in Carved(op, b) :
           w[a] = IF a = op + (NBlocks(b) - 1) * Amt[b] THEN Null ELSE a + Amt[b]
  PROVE  RunsThrough(op, w, Carved(op, b), Null)
<1> DEFINE N == NBlocks(b)
           A == Amt[b]
           s == [i \in 0 .. N |-> IF i = N THEN Null ELSE op + i * A]
           C == Carved(op, b)
<1>1. A \in Nat \ {0} /\ N \in Nat \ {0}
  BY ExtentFacts
<1>2. C = {op + i * A : i \in 0 .. N - 1} /\ \A a \in C : a \in Nat \ {0}
  BY CarvedFacts DEF Carved
<1>3. \A a \in C : w[a] = IF a = op + (N - 1) * A THEN Null ELSE a + A
  OBVIOUS
<1> HIDE DEF N, A, C
<1>4. \A i \in Nat : i * A \in Nat /\ (i + 1) * A = i * A + A
  BY <1>1, SMT
<1>5. \A i, j \in Nat : i < j => i * A < j * A
  <2> SUFFICES ASSUME NEW i \in Nat, NEW j \in Nat, i < j PROVE i * A < j * A
    OBVIOUS
  <2>1. i + 1 \in Nat /\ i + 1 <= j /\ A \in Nat
    BY <1>1, SMT
  <2>2. (i + 1) * A <= j * A
    BY <2>1, MultMono
  <2> DEFINE x == i * A
             y == j * A
  <2>3. x \in Nat /\ y \in Nat /\ x + A <= y
    BY <1>4, <2>2
  <2> HIDE DEF x, y
  <2>4. x < y
    BY <1>1, <2>3, SMT
  <2> QED BY <2>4 DEF x, y
<1>6. \A i \in 0 .. N - 1 : i \in Nat /\ i \in 0 .. N /\ i + 1 \in 0 .. N /\ i # N
  BY <1>1, SMT
<1>7. /\ \A i \in 0 .. N - 1 : s[i] = op + i * A /\ s[i] \in C
      /\ s[N] = Null /\ N \in 0 .. N /\ 0 \in 0 .. N /\ 0 # N
  BY <1>1, <1>2, <1>6, SMT
<1>8. s \in [0 .. N -> C \cup {Null}]
  <2>1. \A i \in 0 .. N : i # N => i \in 0 .. N - 1
    BY <1>1, SMT
  <2> QED BY <1>7, <2>1
<1> HIDE DEF s
<1>9. s[0] = op
  <2>1. 0 \in 0 .. N - 1 /\ op + 0 * A = op
    BY <1>1, SMT
  <2> QED BY <1>7, <2>1
<1>10. ASSUME NEW i \in 0 .. N - 1
       PROVE  w[s[i]] = s[i + 1]
  <2> DEFINE x == i * A
             y == (N - 1) * A
  <2>1. x \in Nat /\ s[i] = op + x /\ s[i] \in C /\ (i + 1) * A = x + A
    BY <1>4, <1>6, <1>7
  <2>2. CASE i = N - 1
    <3>1. i + 1 = N
      BY <1>1, <2>2, SMT
    <3> QED BY <1>3, <1>7, <2>1, <2>2, <3>1
  <2>3. CASE i # N - 1
    <3>1. i + 1 \in 0 .. N - 1 /\ N - 1 \in Nat /\ i < N - 1
      BY <1>1, <2>3, SMT
    <3>2. x < y /\ y \in Nat
      BY <1>4, <1>5, <1>6, <3>1
    <3>3. s[i + 1] = op + (x + A)
      BY <1>7, <2>1, <3>1
    <3> HIDE DEF x, y
    <3>4. op + x # op + y /\ op + (x + A) = (op + x) + A
      BY <1>1, <2>1, <3>2, SMT
    <3> QED BY <1>3, <2>1, <3>3, <3>4 DEF y
  <2> QED BY <2>2, <2>3
<1>11. ASSUME NEW i \in 0 .. N - 1, NEW j \in 0 .. N - 1, s[i] = s[j]
       PROVE  i = j
  <2> DEFINE x == i * A
             y == j * A
  <2>1. x \in Nat /\ y \in Nat /\ (i < j => x < y) /\ (j < i => y < x)
    BY <1>4, <1>5, <1>6
  <2>2. op + x = op + y
    BY <1>7, <1>11
  <2> HIDE DEF x, y
  <2>3. x = y
    BY <2>1, <2>2, SMT
  <2> QED BY <1>6, <2>1, <2>3, SMT
<1>12. Null \notin C
  BY <1>2 DEF Null
<1>13. \A a \in C : \E i \in 0 .. N - 1 : s[i] = a
  BY <1>2, <1>7
<1>14. ListedBy(op, w, C, Null, N, s)
  BY <1>1, <1>7, <1>8, <1>9, <1>10, <1>11, <1>12, <1>13 DEF ListedBy
<1> QED BY <1>14 DEF RunsThrough, C

\* morecore is called for an empty list, so nothing is lost when it replaces the head.
LEMMA MorecoreLists ==
  ASSUME NEW h, HeapInv(h), ListsWhole(h), h.brk % 4 = 0, NEW b \in Buckets, SbrkCan(h, b),
         h.nextf[b] = Null
  PROVE  ListsWhole(Morecore(h, b))
<1> DEFINE g == Morecore(h, b)
           new == Carved(h.brk, b)
           old == DOMAIN h.home
<1>1. /\ g.nextf[b] = h.brk /\ Used(g) = Used(h) /\ HeapInv(g)
      /\ \A a \in old : a \in DOMAIN g.home /\ g.home[a] = h.home[a]
  BY MorecoreInv
<1>2. b \in 0 .. Top - 1 /\ h.brk \in Nat \ {0} /\ HeapType(h) /\ DOMAIN h.word = old
  <2>1. b < Top
    BY DEF SbrkCan
  <2> QED BY <2>1, HeapFacts, GeometryAssumption, SMT DEF Buckets, HeapInv
<1>3. /\ g.nextf = [h.nextf EXCEPT ![b] = h.brk]
      /\ g.home = [a \in old \cup new |-> IF a \in new THEN b ELSE h.home[a]]
      /\ g.word = [a \in old \cup new |->
                     IF a \notin new THEN h.word[a]
                     ELSE IF a = h.brk + (NBlocks(b) - 1) * Amt[b] THEN Null ELSE a + Amt[b]]
  BY <1>2 DEF Morecore, HeapType
<1>4. \A a \in new : a \notin old
  <2>1. \A a \in new : a \in Nat /\ h.brk <= a
    BY <1>2, CarvedFacts
  <2>2. \A a \in old : a \in Nat /\ a < h.brk
    BY HeapFacts
  <2> HIDE DEF new, old
  <2> QED BY <1>2, <2>1, <2>2
<1> HIDE DEF g, new, old
<1>5. \A c \in Buckets : g.nextf[c] = IF c = b THEN h.brk ELSE h.nextf[c]
  BY <1>3, HeapFacts
<1>6. \A a \in new : a \notin Used(g)
  BY <1>1, <1>4 DEF Used, old
<1>7. \A c : c # b => FreeBlocks(g, c) = FreeBlocks(h, c)
  <2> SUFFICES ASSUME NEW c, c # b
               PROVE  FreeBlocks(g, c) = FreeBlocks(h, c)
    OBVIOUS
  <2>1. {a \in DOMAIN g.home : g.home[a] = c} = {a \in old : h.home[a] = c}
    BY <1>3, <1>4
  <2> QED BY <1>1, <2>1, FreeNotUsed DEF old
<1>8. FreeBlocks(g, b) = new
  <2>1. FreeBlocks(h, b) = {}
    BY RunsHead DEF ListsWhole
  <2>2. \A a \in old : h.home[a] = b => a \in Used(h)
    BY <2>1, FreeNotUsed DEF old
  <2>3. FreeBlocks(g, b) = {a \in DOMAIN g.home : g.home[a] = b} \ Used(g)
    BY FreeNotUsed
  <2> QED BY <1>1, <1>3, <1>4, <1>6, <2>2, <2>3
<1>9. ASSUME NEW c \in Buckets
      PROVE  RunsThrough(g.nextf[c], g.word, FreeBlocks(g, c), Null)
  <2>1. CASE c = b
    <3>1. \A a \in new : g.word[a] = IF a = h.brk + (NBlocks(b) - 1) * Amt[b] THEN Null
                                     ELSE a + Amt[b]
      BY <1>3
    <3>2. RunsThrough(h.brk, g.word, new, Null)
      BY <1>2, <3>1, CarvedChain DEF new
    <3> QED BY <1>5, <1>8, <2>1, <3>2
  <2>2. CASE c # b
    <3>1. RunsThrough(h.nextf[c], h.word, FreeBlocks(h, c), Null)
      BY DEF ListsWhole
    <3>2. \A y \in FreeBlocks(h, c) : y \in old
      BY DEF FreeBlocks, old
    <3>3. \A y \in FreeBlocks(h, c) : g.word[y] = h.word[y]
      BY <1>3, <1>4, <3>2
    <3>4. RunsThrough(h.nextf[c], g.word, FreeBlocks(h, c), Null)
      BY <3>1, <3>3, RunsSame
    <3> QED BY <1>5, <1>7, <2>2, <3>4
  <2> QED BY <2>1, <2>2
<1> QED BY <1>9 DEF ListsWhole, g

\* The setup of the first call, and other users of sbrk, leave the lists alone.
LEMMA SameLists ==
  ASSUME NEW h, ListsWhole(h), NEW g, g.nextf = h.nextf, g.word = h.word, g.home = h.home
  PROVE  ListsWhole(g)
<1>1. \A b : FreeBlocks(g, b) = FreeBlocks(h, b)
  BY DEF FreeBlocks, InUse
<1> QED BY <1>1 DEF ListsWhole

LEMMA FromBucketLists ==
  ASSUME NEW h, HeapInv(h), ListsWhole(h), h.brk % 4 = 0, NEW b \in Buckets,
         NEW r \in FromBucket(h, b)
  PROVE  ListsWhole(r.heap)
<1>1. CASE r = Refuse(h)
  BY <1>1 DEF Refuse
<1>2. CASE h.nextf[b] # Null /\ r = Take(h, b)
  BY <1>2, TakeLists
<1>3. CASE h.nextf[b] = Null /\ SbrkCan(h, b) /\ r = Take(Morecore(h, b), b)
  <2>1. HeapInv(Morecore(h, b)) /\ Morecore(h, b).nextf[b] # Null
    BY <1>3, MorecoreInv
  <2>2. ListsWhole(Morecore(h, b))
    BY <1>3, MorecoreLists
  <2> QED BY <1>3, <2>1, <2>2, TakeLists
<1> QED BY <1>1, <1>2, <1>3 DEF FromBucket

\* Every outcome of kmalloc leaves the lists whole.
LEMMA AfterSetupLists ==
  ASSUME NEW h, HeapInv(h), ListsWhole(h), h.pagesz # 0, NEW n \in Nat,
         NEW r \in AfterSetup(h, n)
  PROVE  ListsWhole(r.heap)
<1>1. h.brk % 4 = 0
  BY DEF HeapInv, HeapAligned
<1>2. CASE r = Refuse(h)
  BY <1>2 DEF Refuse
<1>3. CASE r # Refuse(h)
  <2>1. PICK k \in LoopExit(n) : r \in FromBucket(h, FirstBucket(h, n) + k)
    BY <1>3 DEF AfterSetup
  <2>2. FirstBucket(h, n) + k \in Buckets
    BY LoopInBuckets
  <2> QED BY <1>1, <2>1, <2>2, FromBucketLists
<1> QED BY <1>2, <1>3

LEMMA KmallocLists ==
  ASSUME NEW h, HeapInv(h), ListsWhole(h), NEW n \in Nat, NEW r \in KmallocOutcomes(h, n)
  PROVE  ListsWhole(r.heap)
<1>1. CASE h.pagesz # 0
  BY <1>1, AfterSetupLists DEF KmallocOutcomes
<1>2. CASE r \in AfterSetup(SetupDone(h), n)
  <2> DEFINE g == SetupDone(h)
  <2>1. HeapInv(g) /\ g.pagesz # 0 /\ g.nextf = h.nextf /\ g.word = h.word /\ g.home = h.home
    BY SetupDoneInv
  <2>2. r \in AfterSetup(g, n)
    BY <1>2
  <2> HIDE DEF g
  <2>3. ListsWhole(g)
    BY <2>1, SameLists
  <2> QED BY <2>1, <2>2, <2>3, AfterSetupLists
<1>3. CASE r = Refuse(SetupFailed(h))
  <2> DEFINE g == SetupFailed(h)
  <2>1. g.nextf = h.nextf /\ g.word = h.word /\ g.home = h.home
    BY DEF SetupFailed, HeapInv, HeapType
  <2>2. r.heap = g
    BY <1>3 DEF Refuse
  <2> HIDE DEF g
  <2> QED BY <2>1, <2>2, SameLists
<1> QED BY <1>1, <1>2, <1>3 DEF KmallocOutcomes

LEMMA KreallocLists ==
  ASSUME NEW h, HeapInv(h), ListsWhole(h), NEW cp, cp - Overhead \in DOMAIN h.home,
         NEW n \in Nat, NEW r \in KreallocOutcomes(h, cp, n)
  PROVE  ListsWhole(r.heap)
<1>1. CASE r = [heap |-> h, ret |-> cp]
  BY <1>1
<1>2. CASE r \in KmallocOutcomes(KfreeHeap(h, cp), n)
  BY <1>2, KfreeInv, KfreeLists, KmallocLists
<1> QED BY <1>1, <1>2 DEF KreallocOutcomes

\* A sound heap with whole lists: what every step keeps.
ListInv == IInv /\ ListsWhole(heap)

LEMMA ListStep ==
  ASSUME ListInv, [Next]_vars
  PROVE  ListInv'
<1>1. IInv'
  BY Inductive DEF ListInv
<1>2. HeapInv(heap) /\ ListsWhole(heap) /\ Owns(heap, DOMAIN live, DOMAIN stale)
  BY DEF ListInv, IInv
<1>3. Requests \subseteq Nat /\ Counts \subseteq Nat
  BY ClientAssumption
<1>4. ASSUME NEW n \in Nat, Kmalloc(n)
      PROVE  ListsWhole(heap')
  BY <1>2, <1>4, KmallocLists DEF Kmalloc
<1>5. ASSUME NEW nelem \in Counts, NEW elsize \in Requests, Kcalloc(nelem, elsize)
      PROVE  ListsWhole(heap')
  <2> DEFINE n == (nelem * elsize) % WordMod
  <2>1. n \in Nat
    <3>1. nelem \in Nat /\ elsize \in Nat
      BY <1>3
    <3> QED BY <3>1, ProductWraps
  <2>2. PICK r \in KmallocOutcomes(heap, n) : heap' = r.heap
    BY <1>5 DEF Kcalloc
  <2> HIDE DEF n
  <2> QED BY <1>2, <2>1, <2>2, KmallocLists
<1>6. ASSUME NEW cp \in Pointers, Kfree(cp)
      PROVE  ListsWhole(heap')
  <2>1. cp # Null => cp - Overhead \in DOMAIN heap.home
    BY <1>2 DEF Pointers, Owns
  <2> QED BY <1>2, <1>6, <2>1, KfreeLists DEF Kfree
<1>7. ASSUME NEW cp \in Pointers, NEW n \in Requests, Krealloc(cp, n)
      PROVE  ListsWhole(heap')
  <2>1. CASE Kmalloc(n)
    BY <1>3, <1>4, <2>1
  <2>2. CASE Kfree(cp)
    BY <1>6, <2>2
  <2>3. CASE cp # Null /\ Resize(cp, n)
    <3>1. cp - Overhead \in DOMAIN heap.home /\ n \in Nat
      BY <1>2, <1>3, <2>3 DEF Pointers, Owns
    <3>2. PICK r \in KreallocOutcomes(heap, cp, n) : heap' = r.heap
      BY <2>3 DEF Resize
    <3> QED BY <1>2, <3>1, <3>2, KreallocLists
  <2> QED BY <1>7, <2>1, <2>2, <2>3 DEF Krealloc
<1>8. ASSUME NEW k \in ForeignMoves, ForeignSbrk(k)
      PROVE  ListsWhole(heap')
  <2>1. heap'.nextf = heap.nextf /\ heap'.word = heap.word /\ heap'.home = heap.home
    BY <1>2, <1>8 DEF ForeignSbrk, HeapInv, HeapType
  <2> QED BY <1>2, <2>1, SameLists
<1>9. ASSUME UNCHANGED vars
      PROVE  ListsWhole(heap')
  <2>1. heap' = heap
    BY <1>9 DEF vars
  <2> QED BY <1>2, <2>1
<1> DEFINE Goal == ListsWhole(heap')
<1> HIDE DEF Goal
<1>10. Goal
  BY <1>3, <1>4, <1>5, <1>6, <1>7, <1>8, <1>9 DEF Next, Calls, Goal
<1> QED BY <1>1, <1>10 DEF ListInv, Goal

\* A list of a sound heap, as the code follows it: the free blocks of its bucket, then null.
LEMMA ListFacts ==
  ASSUME NEW h, HeapInv(h), ListsWhole(h), NEW b \in Buckets
  PROVE  LET free == FreeBlocks(h, b)
             k    == Cardinality(free)
             node == ListNode(h, b)
         IN  /\ IsFiniteSet(free) /\ k \in Nat
             /\ {node[j] : j \in 0 .. k - 1} = free /\ node[k] = Null
<1> DEFINE node == ListNode(h, b)
<1>1. h.nextf[b] \in Nat /\ (\A a \in DOMAIN h.word : h.word[a] \in Nat)
      /\ \A a \in FreeBlocks(h, b) : a \in DOMAIN h.word
  BY HeapFacts DEF FreeBlocks
<1>2. node[0] = h.nextf[b]
  BY <1>1, ListNodeSteps
<1>3. \A j \in Nat : node[j] \in FreeBlocks(h, b) => node[j + 1] = h.word[node[j]]
  BY <1>1, ListNodeSteps
<1> HIDE DEF node
<1>4. RunsThrough(h.nextf[b], h.word, FreeBlocks(h, b), Null)
  BY DEF ListsWhole
<1>5. \A j \in 0 .. Cardinality(FreeBlocks(h, b)) - 1 : j \in Nat
  BY SMT
<1> QED BY <1>2, <1>3, <1>4, <1>5, RunsWalk DEF node

LEMMA ListInit == Init => ListInv
<1> SUFFICES ASSUME Init PROVE ListsWhole(heap)
  BY InitInv DEF ListInv
<1>1. /\ \A b \in Buckets : heap.nextf[b] = Null
      /\ DOMAIN heap.home = {}
  BY DEF Init
<1>2. \A b \in Buckets : FreeBlocks(heap, b) = {}
  BY <1>1 DEF FreeBlocks
<1> QED BY <1>1, <1>2, RunsEmpty DEF ListsWhole

\* The free lists are whole in every reachable state.
THEOREM ListSafety == Spec => []ListInv
<1>1. Init => ListInv
  BY ListInit
<1>2. ListInv /\ [Next]_vars => ListInv'
  BY ListStep
<1> QED BY <1>1, <1>2, PTL DEF Spec

\* Free list b, followed from nextf[b], runs through every free block of bucket b once and
\* ends in null, after any calls, any refusal of sbrk and any double free.
THEOREM ListsAlwaysExact == Spec => []FreeListsExact
<1>1. ListInv => FreeListsExact
  <2> SUFFICES ASSUME ListInv, NEW b \in Buckets
               PROVE  LET free == FreeBlocks(heap, b)
                          k    == Cardinality(free)
                          node == ListNode(heap, b)
                      IN  {node[j] : j \in 0 .. k - 1} = free /\ node[k] = Null
    BY DEF FreeListsExact
  <2> QED BY ListFacts DEF ListInv, IInv
<1> QED BY <1>1, ListSafety, PTL

-----------------------------------------------------------------------------
(* The bucket that kmalloc's loop chooses.                                   *)

\* Where kmalloc's loop stops there is room, and in the bucket before there is not.
LEMMA LoopBucket ==
  ASSUME NEW h, h.pagebucket = PageBucket, NEW n \in Nat, NEW k \in LoopExit(n)
  PROVE  LET b == FirstBucket(h, n) + k
         IN  b \in 0 .. Top /\ n <= Capacity(b) /\ (b > 0 => n > Capacity(b - 1))
<1> DEFINE P == PageBucket
<1>1. /\ P \in 0 .. Top - 1 /\ P \in 0 .. Top /\ Amt[P] = Page /\ Page \in Nat /\ Top \in Nat
      /\ Overhead \in {4, 8} /\ \A b \in 0 .. Top : Amt[b] \in Nat
      /\ \A b, c \in 0 .. Top : b < c => Amt[b] < Amt[c]
  <2>1. P \in 0 .. Top - 1 /\ Amt[P] = Page /\ Page \in Nat
    BY GeometryFacts
  <2>2. Top \in Nat /\ Overhead \in {4, 8} /\ \A b, c \in 0 .. Top : b < c => Amt[b] < Amt[c]
    BY GeometryAssumption, AmtFacts
  <2>3. \A b \in 0 .. Top : Amt[b] \in Nat
    BY GeometryFacts
  <2>4. P \in 0 .. Top
    BY <2>1, <2>2
  <2> QED BY <2>1, <2>2, <2>3, <2>4
<1>2. /\ k \in 0 .. Top - FirstAmt(n) /\ n <= Room(n, k)
      /\ \A j \in 0 .. k - 1 : n > Room(n, j)
  BY DEF LoopExit
<1> HIDE DEF P
<1>3. \A b \in 0 .. Top : /\ b < P => Amt[b] < Page
                          /\ b >= P => Amt[b] >= Page
  <2>1. \A b \in 0 .. Top : b > P => Amt[b] > Page  BY <1>1
  <2>2. \A b \in 0 .. Top : b < P => Amt[b] < Page  BY <1>1
  <2> QED BY <1>1, <2>1, <2>2
<1>4. \A b \in 0 .. Top : /\ b < P => Capacity(b) = Amt[b] - Overhead
                          /\ b >= P => Capacity(b) = Amt[b] + Page - Overhead
  <2> TAKE b \in 0 .. Top
  <2>1. CASE b < P
    BY <1>1, <1>3, <2>1 DEF Capacity, Extent
  <2>2. CASE ~(b < P)
    <3>1. b >= P /\ ~(Amt[b] < Page)
      BY <1>1, <1>3, <2>2
    <3> QED BY <1>1, <2>2, <3>1 DEF Capacity, Extent
  <2> QED BY <2>1, <2>2
<1>5. CASE Small(n)
  <2>1. /\ FirstBucket(h, n) = 0 /\ k \in 0 .. Top
        /\ \A j \in 0 .. k : Room(n, j) = Amt[j] - Overhead
    BY <1>1, <1>2, <1>5 DEF FirstBucket, FirstAmt, Room
  <2>2. n <= Page - Overhead
    BY <1>5 DEF Small
  <2>3. k <= P
    <3> SUFFICES ASSUME P < k PROVE FALSE
      BY <1>1, <2>1
    <3>1. P \in 0 .. k - 1
      BY <1>1, <2>1
    <3>2. n > Amt[P] - Overhead
      BY <1>1, <1>2, <2>1, <3>1
    <3> QED BY <1>1, <2>2, <3>2
  <2>4. n <= Amt[k] - Overhead
    BY <1>2, <2>1
  <2>5. n <= Capacity(k)
    BY <1>1, <1>4, <2>1, <2>4
  <2>6. k > 0 => n > Capacity(k - 1)
    <3> SUFFICES ASSUME k > 0 PROVE n > Capacity(k - 1)
      OBVIOUS
    <3>1. k - 1 \in 0 .. k - 1 /\ k - 1 \in 0 .. Top /\ k - 1 \in 0 .. k /\ k - 1 < P
      BY <1>1, <2>1, <2>3
    <3>2. n > Amt[k - 1] - Overhead
      BY <1>2, <2>1, <3>1
    <3> QED BY <1>4, <3>1, <3>2
  <2> QED BY <2>1, <2>5, <2>6
<1>6. CASE ~Small(n)
  <2>1. /\ FirstBucket(h, n) = P /\ k \in 0 .. Top - P
        /\ \A j \in 0 .. k : Room(n, j) = Amt[P + j] + (Page - Overhead)
    BY <1>1, <1>2, <1>6 DEF FirstBucket, FirstAmt, Room, P
  <2>2. n > Page - Overhead
    BY <1>1, <1>6 DEF Small
  <2>3. P + k \in 0 .. Top /\ P + k >= P
    BY <1>1, <2>1
  <2>4. n <= Amt[P + k] + (Page - Overhead)
    BY <1>2, <2>1
  <2>5. n <= Capacity(P + k)
    BY <1>1, <1>4, <2>3, <2>4
  <2>6. P + k > 0 => n > Capacity(P + k - 1)
    <3> SUFFICES ASSUME P + k > 0 PROVE n > Capacity(P + k - 1)
      OBVIOUS
    <3>1. P + k - 1 \in 0 .. Top
      BY <1>1, <2>1, <2>3
    <3>2. CASE k = 0
      <4>1. P + k - 1 < P
        BY <1>1, <3>2
      <4>2. Capacity(P + k - 1) = Amt[P + k - 1] - Overhead /\ Amt[P + k - 1] < Page
        BY <1>3, <1>4, <3>1, <4>1
      <4> QED BY <1>1, <2>2, <3>1, <4>2
    <3>3. CASE k > 0
      <4>1. k - 1 \in 0 .. k - 1 /\ k - 1 \in 0 .. k /\ P + k - 1 = P + (k - 1) /\ P + k - 1 >= P
        BY <1>1, <2>1, <3>3
      <4>2. n > Amt[P + (k - 1)] + (Page - Overhead)
        BY <1>2, <2>1, <4>1
      <4>3. Capacity(P + k - 1) = Amt[P + k - 1] + Page - Overhead
        BY <1>4, <3>1, <4>1
      <4> QED BY <1>1, <3>1, <4>1, <4>2, <4>3
    <3> QED BY <2>1, <3>2, <3>3
  <2>7. FirstBucket(h, n) + k = P + k
    BY <2>1
  <2> QED BY <1>1, <2>1, <2>3, <2>5, <2>6, <2>7
<1> QED BY <1>5, <1>6

-----------------------------------------------------------------------------
(* What kmalloc returns fits.                                                *)

\* The block taken from list b was cut for b.
LEMMA FromBucketFits ==
  ASSUME NEW h, HeapInv(h), h.brk % 4 = 0, NEW b \in Buckets, NEW r \in FromBucket(h, b)
  PROVE  /\ r.heap.pagesz = h.pagesz /\ r.heap.pagebucket = h.pagebucket
         /\ r.ret # Null => r.heap.home[r.ret - Overhead] = b
<1>1. ASSUME NEW g, HeapInv(g), g.nextf[b] # Null, r = Take(g, b)
      PROVE  /\ r.heap.pagesz = g.pagesz /\ r.heap.pagebucket = g.pagebucket
             /\ r.heap.home[r.ret - Overhead] = b
  <2> DEFINE op == g.nextf[b]
  <2>1. r.heap.home = g.home /\ r.ret = op + Overhead /\ op \in DOMAIN g.home
    BY <1>1, TakeInv
  <2>2. op \in FreeBlocks(g, b)
    BY <1>1 DEF HeapInv, LinksTyped
  <2>3. g.home[op] = b
    BY <2>2 DEF FreeBlocks
  <2>4. op \in Nat
    BY <1>1, <2>1, HeapFacts
  <2>5. r.ret - Overhead = op
    BY <2>1, <2>4, GeometryAssumption, SMT
  <2>6. r.heap.pagesz = g.pagesz /\ r.heap.pagebucket = g.pagebucket
    BY <1>1 DEF Take, HeapInv, HeapType
  <2> QED BY <2>1, <2>3, <2>5, <2>6
<1>2. CASE r = Refuse(h)
  BY <1>2 DEF Refuse
<1>3. CASE h.nextf[b] # Null /\ r = Take(h, b)
  BY <1>1, <1>3
<1>4. CASE h.nextf[b] = Null /\ SbrkCan(h, b) /\ r = Take(Morecore(h, b), b)
  <2>1. HeapInv(Morecore(h, b)) /\ Morecore(h, b).nextf[b] # Null
    BY <1>4, MorecoreInv
  <2>2. Morecore(h, b).pagesz = h.pagesz /\ Morecore(h, b).pagebucket = h.pagebucket
    BY DEF Morecore, HeapInv, HeapType
  <2> QED BY <1>1, <1>4, <2>1, <2>2
<1> QED BY <1>2, <1>3, <1>4 DEF FromBucket

\* An outcome r of kmalloc(n): set up, and if it is a block then one that fits.
OutcomeFits(r, n) ==
  /\ SetUp(r.heap)
  /\ r.ret # Null => Fits(r.heap, r.ret - Overhead, n)

\* After the first call kmalloc returns a block that fits or none.
LEMMA AfterSetupFits ==
  ASSUME NEW h, HeapInv(h), h.pagesz # 0, SetUp(h), NEW n \in Nat, NEW r \in AfterSetup(h, n)
  PROVE  OutcomeFits(r, n)
<1>1. h.brk % 4 = 0 /\ h.pagebucket = PageBucket
  BY DEF HeapInv, HeapAligned, SetUp
<1>2. CASE r = Refuse(h)
  BY <1>2 DEF OutcomeFits, Refuse
<1>3. CASE r # Refuse(h)
  <2>1. PICK k \in LoopExit(n) : r \in FromBucket(h, FirstBucket(h, n) + k)
    BY <1>3 DEF AfterSetup
  <2> DEFINE b == FirstBucket(h, n) + k
  <2>2. b \in 0 .. Top /\ n <= Capacity(b) /\ (b > 0 => n > Capacity(b - 1))
    BY <1>1, LoopBucket
  <2>3. r \in FromBucket(h, b)
    BY <2>1
  <2> HIDE DEF b
  <2>4. b \in Buckets
    BY <2>2, GeometryAssumption, SMT DEF Buckets
  <2>5. /\ r.heap.pagesz = h.pagesz /\ r.heap.pagebucket = h.pagebucket
        /\ r.ret # Null => r.heap.home[r.ret - Overhead] = b
    BY <1>1, <2>3, <2>4, FromBucketFits
  <2> QED BY <1>1, <2>2, <2>5 DEF OutcomeFits, SetUp, Fits
<1> QED BY <1>2, <1>3

\* So does kmalloc as a whole, if the first call's sbrk does not fail.
LEMMA KmallocFits ==
  ASSUME SetupMayFail = FALSE,
         NEW h, HeapInv(h), SetUp(h), NEW n \in Nat, NEW r \in KmallocOutcomes(h, n)
  PROVE  OutcomeFits(r, n)
<1>1. CASE h.pagesz # 0
  BY <1>1, AfterSetupFits DEF KmallocOutcomes
<1>2. CASE h.pagesz = 0
  <2>1. r \in AfterSetup(SetupDone(h), n)
    BY <1>2 DEF KmallocOutcomes
  <2>2. HeapInv(SetupDone(h)) /\ SetupDone(h).pagesz # 0 /\ SetUp(SetupDone(h))
    BY SetupDoneInv DEF SetUp
  <2> QED BY <2>1, <2>2, AfterSetupFits
<1> QED BY <1>1, <1>2

-----------------------------------------------------------------------------
(* The steps keep every block fitting.                                       *)

\* Blocks keep their bucket, so what fitted fits.
LEMMA StillFits ==
  ASSUME NEW h, NEW g, NEW a \in DOMAIN h.home, NEW n, Fits(h, a, n),
         \A c \in DOMAIN h.home : g.home[c] = h.home[c]
  PROVE  Fits(g, a, n)
  BY DEF Fits

\* kmalloc and kcalloc.
LEMMA ObtainFits ==
  ASSUME SetupMayFail = FALSE, FitInv, NEW n \in Nat, NEW r \in KmallocOutcomes(heap, n),
         heap' = r.heap, Obtain(r.ret, n)
  PROVE  /\ SetUp(heap)'
         /\ \A p \in DOMAIN live' : Fits(heap', p - Overhead, live'[p])
<1>1. Allocates(heap, r) /\ OutcomeFits(r, n)
  BY KmallocInv, KmallocFits DEF FitInv, IInv
<1>2. \A p \in DOMAIN live : Fits(heap', p - Overhead, live[p])
  <2>1. \A p \in DOMAIN live : p - Overhead \in DOMAIN heap.home
    BY DEF FitInv, IInv, Owns
  <2> QED BY <1>1, <2>1, StillFits DEF FitInv, Allocates
<1>3. CASE r.ret = Null
  BY <1>1, <1>2, <1>3 DEF Obtain, OutcomeFits, SetUp
<1>4. CASE r.ret # Null
  <2>1. live' = Put(live, r.ret, n)
    BY <1>4 DEF Obtain
  <2>2. DOMAIN live' = DOMAIN live \cup {r.ret} /\ live'[r.ret] = n
        /\ \A p \in DOMAIN live : p # r.ret => live'[p] = live[p]
    BY <2>1 DEF Put
  <2> QED BY <1>1, <1>2, <1>4, <2>2 DEF OutcomeFits, SetUp
<1> QED BY <1>3, <1>4

\* A block that krealloc returns in place is of the bucket its header names, and the
\* test for doing so is that the new size belongs to that bucket.
LEMMA InPlaceFits ==
  ASSUME HeapInv(heap), NEW cp, cp - Overhead \in DOMAIN heap.home,
         NEW n \in Nat, StaysInPlace(heap, cp - Overhead, n)
  PROVE  Fits(heap, cp - Overhead, n)
<1> DEFINE a == cp - Overhead
           b == heap.home[a]
<1>1. InUse(heap, a) /\ b \in 0 .. Top - 1
  BY HeapFacts DEF StaysInPlace
<1>2. OldBucket(heap, a) = b
  BY <1>1 DEF OldBucket, HeapInv, IndexTrue
<1>3. b # NBUCKETS
  BY <1>1, GeometryAssumption, SMTT(60)
<1>4. n <= OldBytes(b) /\ n > LowerBytes(b)
  BY <1>2 DEF StaysInPlace
<1> HIDE DEF b
<1>5. OldBytes(b) = Capacity(b) /\ (b > 0 => LowerBytes(b) = Capacity(b - 1))
  BY <1>1, <1>3, SMT DEF OldBytes, LowerBytes
<1> QED BY <1>4, <1>5 DEF Fits, b

\* krealloc: the block it returns fits, in place or moved, and the others stay.
LEMMA ResizeFits ==
  ASSUME SetupMayFail = FALSE, FitInv, NEW cp \in DOMAIN live \cup DOMAIN stale,
         NEW n \in Nat, Resize(cp, n)
  PROVE  /\ SetUp(heap)'
         /\ \A p \in DOMAIN live' : Fits(heap', p - Overhead, live'[p])
<1>1. PICK r \in KreallocOutcomes(heap, cp, n) :
        /\ heap' = r.heap
        /\ IF r.ret = Null THEN live' = Drop(live, {cp})
           ELSE live' = Put(Drop(live, {cp}), r.ret, n)
  BY DEF Resize
<1>2. /\ HeapInv(heap) /\ Owns(heap, DOMAIN live, DOMAIN stale) /\ SetUp(heap)
      /\ \A p \in DOMAIN live : p - Overhead \in DOMAIN heap.home
      /\ cp - Overhead \in DOMAIN heap.home
  BY DEF FitInv, IInv, Owns
<1>3. /\ SetUp(r.heap)
      /\ \A c \in DOMAIN heap.home : r.heap.home[c] = heap.home[c]
      /\ r.ret # Null => Fits(r.heap, r.ret - Overhead, n)
  <2>1. CASE StaysInPlace(heap, cp - Overhead, n)
    <3>1. r.heap = heap /\ r.ret = cp
      BY <2>1 DEF KreallocOutcomes
    <3> QED BY <1>2, <2>1, <3>1, InPlaceFits
  <2>2. CASE ~StaysInPlace(heap, cp - Overhead, n)
    <3> DEFINE g == KfreeHeap(heap, cp)
    <3>1. r \in KmallocOutcomes(g, n)
      BY <2>2 DEF KreallocOutcomes
    <3>2. HeapInv(g) /\ g.home = heap.home
      BY <1>2, KfreeInv
    <3>3. g.pagesz = heap.pagesz /\ g.pagebucket = heap.pagebucket
      BY <1>2 DEF KfreeHeap, HeapInv, HeapType
    <3> HIDE DEF g
    <3>4. SetUp(g)
      BY <1>2, <3>3 DEF SetUp
    <3>5. OutcomeFits(r, n) /\ Allocates(g, r)
      BY <3>1, <3>2, <3>4, KmallocFits, KmallocInv
    <3> QED BY <3>2, <3>5 DEF OutcomeFits, Allocates
  <2> QED BY <2>1, <2>2
<1>4. \A p \in DOMAIN live : Fits(heap', p - Overhead, live[p])
  BY <1>1, <1>2, <1>3, StillFits DEF FitInv
<1>5. \A p \in DOMAIN live' : \/ p \in DOMAIN live /\ live'[p] = live[p]
                              \/ r.ret # Null /\ p = r.ret /\ live'[p] = n
  BY <1>1, ZenonT(100) DEF Drop, Put
<1> QED BY <1>1, <1>3, <1>4, <1>5 DEF SetUp

\* kfree takes blocks away from the client and changes no bucket.
LEMMA KfreeFits ==
  ASSUME FitInv, NEW cp \in Pointers, Kfree(cp)
  PROVE  /\ SetUp(heap)'
         /\ \A p \in DOMAIN live' : Fits(heap', p - Overhead, live'[p])
<1>1. live' = Drop(live, {cp}) /\ heap' = IF cp = Null THEN heap ELSE KfreeHeap(heap, cp)
  BY DEF Kfree
<1>2. HeapInv(heap) /\ SetUp(heap) /\ \A p \in DOMAIN live : p - Overhead \in DOMAIN heap.home
  BY DEF FitInv, IInv, Owns
<1>3. /\ heap'.pagesz = heap.pagesz /\ heap'.pagebucket = heap.pagebucket
      /\ heap'.home = heap.home
  BY <1>1, <1>2 DEF KfreeHeap, HeapInv, HeapType
<1>4. \A p \in DOMAIN live' : p \in DOMAIN live /\ live'[p] = live[p]
  BY <1>1 DEF Drop
<1> QED BY <1>2, <1>3, <1>4, StillFits DEF FitInv, SetUp

\* Every step keeps every block fitting.
LEMMA FitStep ==
  ASSUME SetupMayFail = FALSE, FitInv, [Next]_vars
  PROVE  FitInv'
<1>1. IInv'
  BY Inductive DEF FitInv
<1>2. Requests \subseteq Nat /\ Counts \subseteq Nat
  BY ClientAssumption
<1> DEFINE Goal == SetUp(heap)' /\ \A p \in DOMAIN live' : Fits(heap', p - Overhead, live'[p])
<1>3. ASSUME NEW n \in Nat, Kmalloc(n)
      PROVE  Goal
  <2>1. PICK r \in KmallocOutcomes(heap, n) : heap' = r.heap /\ Obtain(r.ret, n)
    BY <1>3 DEF Kmalloc
  <2> QED BY <2>1, ObtainFits
<1>4. ASSUME NEW nelem \in Counts, NEW elsize \in Requests, Kcalloc(nelem, elsize)
      PROVE  Goal
  <2> DEFINE n == (nelem * elsize) % WordMod
  <2>1. n \in Nat
    <3>1. nelem \in Nat /\ elsize \in Nat
      BY <1>2
    <3> QED BY <3>1, ProductWraps
  <2>2. PICK r \in KmallocOutcomes(heap, n) : heap' = r.heap /\ Obtain(r.ret, n)
    BY <1>4 DEF Kcalloc
  <2> HIDE DEF n
  <2> QED BY <2>1, <2>2, ObtainFits
<1>5. ASSUME NEW cp \in Pointers, Kfree(cp)
      PROVE  Goal
  BY <1>5, KfreeFits
<1>6. ASSUME NEW cp \in Pointers, NEW n \in Requests, Krealloc(cp, n)
      PROVE  Goal
  <2>1. CASE cp = Null /\ Kmalloc(n)
    BY <1>2, <1>3, <2>1
  <2>2. CASE cp # Null /\ n = 0 /\ Kfree(cp)
    BY <1>5, <2>2
  <2>3. CASE cp # Null /\ n > 0 /\ Resize(cp, n)
    BY <1>2, <2>3, ResizeFits DEF Pointers
  <2> QED BY <1>6, <2>1, <2>2, <2>3 DEF Krealloc
<1>7. ASSUME NEW k \in ForeignMoves, ForeignSbrk(k)
      PROVE  Goal
  <2>1. heap'.pagesz = heap.pagesz /\ heap'.pagebucket = heap.pagebucket
        /\ heap'.home = heap.home /\ live' = live
    BY <1>7 DEF ForeignSbrk, FitInv, IInv, HeapInv, HeapType
  <2> QED BY <2>1 DEF FitInv, SetUp, Fits
<1>8. ASSUME UNCHANGED vars
      PROVE  Goal
  BY <1>8 DEF vars, FitInv, SetUp, Fits
<1> HIDE DEF Goal
<1>9. Goal
  BY <1>2, <1>3, <1>4, <1>5, <1>6, <1>7, <1>8 DEF Next, Calls
<1> QED BY <1>1, <1>9 DEF FitInv, Goal

-----------------------------------------------------------------------------
(* The theorems.                                                             *)

\* Every block in the client's hands is of the smallest bucket with room for its request.
THEOREM FitSafety == ASSUME SetupMayFail = FALSE PROVE Spec => []FitInv
<1>1. Init => FitInv
  <2>1. Init => SetUp(heap) /\ DOMAIN live = {}
    BY DEF Init, SetUp
  <2> QED BY <2>1, InitInv DEF FitInv
<1>2. FitInv /\ [Next]_vars => FitInv'
  BY FitStep
<1> QED BY <1>1, <1>2, PTL DEF Spec

\* kmalloc, kcalloc and krealloc never return a block too small for what was asked, also
\* when a block changes hands through its free list or is kept by krealloc.
THEOREM RoomAlways == ASSUME SetupMayFail = FALSE PROVE Spec => []RoomForRequest
<1>1. FitInv => RoomForRequest
  BY DEF FitInv, RoomForRequest, Fits
<1> QED BY <1>1, FitSafety, PTL

\* kmalloc and krealloc agree on the bucket of a size: no smaller one would do.
THEOREM TightAlways == ASSUME SetupMayFail = FALSE PROVE Spec => []TightFit
<1>1. FitInv => TightFit
  BY DEF FitInv, TightFit, Fits
<1> QED BY <1>1, FitSafety, PTL

-----------------------------------------------------------------------------
(* What krealloc copies.                                                     *)

\* Walking a list from its head never leaves the free blocks of its bucket.
LEMMA WalkStaysFree ==
  ASSUME NEW h, HeapInv(h), NEW b \in Buckets
  PROVE  \A j \in Nat : ListNode(h, b)[j] \in FreeBlocks(h, b) \cup {Null}
<1> DEFINE node == ListNode(h, b)
           Free == FreeBlocks(h, b)
           Good == {j \in Nat : node[j] \in Free \cup {Null}}
<1>1. /\ node[0] = h.nextf[b]
      /\ \A j \in Nat : node[j + 1] = IF node[j] \in DOMAIN h.word THEN h.word[node[j]] ELSE Null
  BY HeapFacts, ListNodeSteps
<1>2. /\ h.nextf[b] \in Free \cup {Null}
      /\ \A a \in Free : h.word[a] \in Free \cup {Null}
      /\ Null \notin DOMAIN h.word
  BY HeapFacts DEF HeapInv, LinksTyped, HeapAligned, Null
<1> HIDE DEF node, Free
<1>3. 0 \in Good
  BY <1>1, <1>2
<1>4. ASSUME NEW j \in Nat, j \in Good
      PROVE  j + 1 \in Good
  BY <1>1, <1>2, <1>4
<1> HIDE DEF Good
<1>5. Nat \subseteq Good
  BY <1>3, <1>4, NumberInduction, Zenon
<1> QED BY <1>5 DEF Good, node, Free

\* findbucket answers -1 or the bucket the block was cut for, whatever length it searches.
LEMMA FindbucketTrue ==
  ASSUME NEW h, HeapInv(h), NEW op \in DOMAIN h.home, NEW len, Findbucket(h, op, len) >= 0
  PROVE  Findbucket(h, op, len) = h.home[op]
<1> DEFINE found == {b \in Buckets : OnList(h, b, op, len)}
<1>1. op # Null /\ h.home[op] \in Nat
  BY HeapFacts DEF HeapInv, HeapAligned, Null
<1>2. \A b \in found : b = h.home[op]
  <2> SUFFICES ASSUME NEW b \in Buckets, OnList(h, b, op, len) PROVE b = h.home[op]
    OBVIOUS
  <2>1. PICK j \in 0 .. WalkLen(h, len) - 1 : ListNode(h, b)[j] = op
    BY DEF OnList
  <2>2. j \in Nat
    BY SMT
  <2>3. op \in FreeBlocks(h, b)
    BY <1>1, <2>1, <2>2, WalkStaysFree
  <2> QED BY <2>3 DEF FreeBlocks
<1>3. CASE found = {}
  BY <1>3, SMT DEF Findbucket
<1>4. CASE found # {}
  <2>1. Findbucket(h, op, len) = CHOOSE b \in found : \A c \in found : b <= c
    BY <1>4 DEF Findbucket
  <2> HIDE DEF found
  <2>2. h.home[op] <= h.home[op]
    BY <1>1, SMT
  <2>3. \E b \in found : \A c \in found : b <= c
    BY <1>2, <1>4, <2>2
  <2> QED BY <1>2, <2>1, <2>3
<1> QED BY <1>3, <1>4

\* The bytes of a block that the caller can use are a number.
LEMMA CapacityTyped ==
  ASSUME NEW b \in 0 .. Top - 1
  PROVE  Capacity(b) \in Int
<1> DEFINE e == Extent(b)
<1>1. e \in Nat /\ Overhead \in {4, 8}
  BY ExtentFacts, GeometryAssumption
<1>2. Capacity(b) = e - Overhead
  BY DEF Capacity
<1> HIDE DEF e
<1> QED BY <1>1, <1>2, SMT

\* The bucket krealloc works with is the block's own, or it knows that it knows none.
LEMMA OldBucketTrue ==
  ASSUME NEW h, HeapInv(h), NEW op \in DOMAIN h.home
  PROVE  OldBucket(h, op) \in {h.home[op], NBUCKETS}
<1>1. CASE InUse(h, op)
  BY <1>1 DEF OldBucket, HeapInv, IndexTrue
<1>2. CASE ~InUse(h, op)
  BY <1>2, FindbucketTrue DEF OldBucket
<1> QED BY <1>1, <1>2

\* The byte count of an unknown bucket, 2 - sizeof(union overhead) as an unsigned number,
\* is more than any block holds.
LEMMA UnknownIsLarge ==
  ASSUME NEW b \in 0 .. Top - 1
  PROVE  OldBytes(NBUCKETS) \in Nat /\ Capacity(b) < OldBytes(NBUCKETS)
<1>1. /\ Overhead \in {4, 8} /\ Top \in 0 .. Top /\ b \in 0 .. Top /\ b < Top
  BY GeometryAssumption, SMT
<1>2. /\ PageBucket \in 0 .. Top /\ PageBucket < Top /\ Amt[PageBucket] = Page /\ Page >= 8
  BY GeometryFacts, <1>1, SMT
<1> DEFINE A == Amt[b]
           T == Amt[Top]
           W == WordMod
           r == (2 - Overhead) % W
           q == (2 - Overhead) \div W
           m == W * q
<1>3. A \in Nat /\ T \in Nat /\ Page \in Nat /\ A < T /\ Page < T
  BY <1>1, <1>2, AmtFacts
<1>4. W = 2 * T
  BY DEF WordMod
<1>5. Capacity(b) <= (A + Page) - Overhead /\ Capacity(b) \in Int
  BY <1>1, <1>3 DEF Capacity, Extent
<1>6. OldBytes(NBUCKETS) = r
  BY DEF OldBytes
<1> HIDE DEF A, T, W
<1>7. W \in Nat \ {0} /\ W >= 18
  BY <1>2, <1>3, <1>4, SMT
<1>8. q \in Int /\ r \in 0 .. W - 1 /\ 2 - Overhead = m + r
  BY <1>1, <1>7, SMT
<1> HIDE DEF q, r
<1>9. m \in Int /\ (q >= 0 => m >= 0) /\ (q <= -1 => m <= 0 - W)
  <2> DEFINE p == (0 - q) - 1
             n == W * p
  <2>1. p \in Int /\ (q <= -1 => p \in Nat)
    BY <1>8, SMT
  <2>2. m \in Int /\ n \in Int /\ m = (0 - W) - n
    BY <1>7, <1>8, SMT
  <2>3. q >= 0 => m >= 0
    BY <1>7, <1>8, SMT
  <2>4. p \in Nat => n >= 0
    BY <1>7, SMT
  <2> HIDE DEF m, n, p
  <2> QED BY <1>7, <2>1, <2>2, <2>3, <2>4, SMT
<1> HIDE DEF m
<1>10. r >= W + (2 - Overhead)
  BY <1>1, <1>7, <1>8, <1>9, SMT
<1> QED BY <1>1, <1>3, <1>4, <1>5, <1>6, <1>7, <1>8, <1>10, SMT

\* Blocks are never cut again: a step leaves every block its bucket.
LEMMA BucketsStay ==
  ASSUME IInv, [Next]_vars
  PROVE  \A a \in DOMAIN heap.home : heap'.home[a] = heap.home[a]
<1> DEFINE Goal == \A a \in DOMAIN heap.home : heap'.home[a] = heap.home[a]
<1>1. HeapInv(heap) /\ Owns(heap, DOMAIN live, DOMAIN stale)
  BY DEF IInv
<1>2. Requests \subseteq Nat /\ Counts \subseteq Nat
  BY ClientAssumption
<1>3. ASSUME NEW n \in Nat, NEW r \in KmallocOutcomes(heap, n), heap' = r.heap
      PROVE  Goal
  BY <1>1, <1>3, KmallocInv DEF Allocates
<1>4. ASSUME NEW cp \in Pointers, Kfree(cp)
      PROVE  Goal
  BY <1>1, <1>4 DEF Kfree, KfreeHeap, HeapInv, HeapType
<1>5. ASSUME NEW nelem \in Counts, NEW elsize \in Requests, Kcalloc(nelem, elsize)
      PROVE  Goal
  <2>1. (nelem * elsize) % WordMod \in Nat
    BY <1>2, ProductWraps
  <2> QED BY <1>3, <1>5, <2>1 DEF Kcalloc
<1>6. ASSUME NEW cp \in DOMAIN live \cup DOMAIN stale, NEW n \in Nat, Resize(cp, n)
      PROVE  Goal
  <2>1. PICK r \in KreallocOutcomes(heap, cp, n) : heap' = r.heap
    BY <1>6 DEF Resize
  <2>2. CASE r = [heap |-> heap, ret |-> cp]
    BY <2>1, <2>2
  <2>3. CASE r \in KmallocOutcomes(KfreeHeap(heap, cp), n)
    <3> DEFINE g == KfreeHeap(heap, cp)
    <3>1. HeapInv(g) /\ g.home = heap.home
      BY <1>1, KfreeInv DEF Owns
    <3> HIDE DEF g
    <3> QED BY <2>1, <2>3, <3>1, KmallocInv DEF Allocates, g
  <2> QED BY <2>1, <2>2, <2>3 DEF KreallocOutcomes
<1>7. ASSUME NEW cp \in Pointers, NEW n \in Requests, Krealloc(cp, n)
      PROVE  Goal
  BY <1>2, <1>3, <1>4, <1>6, <1>7 DEF Krealloc, Pointers, Kmalloc
<1>8. ASSUME NEW k \in ForeignMoves, ForeignSbrk(k)
      PROVE  Goal
  BY <1>1, <1>8 DEF ForeignSbrk, HeapInv, HeapType
<1>9. ASSUME UNCHANGED vars
      PROVE  Goal
  BY <1>9 DEF vars
<1>10. ASSUME NEW n \in Nat, Kmalloc(n)
      PROVE  Goal
  BY <1>3, <1>10 DEF Kmalloc
<1> HIDE DEF Goal
<1>11. Goal
  BY <1>2, <1>4, <1>5, <1>7, <1>8, <1>9, <1>10 DEF Next, Calls
<1> QED BY <1>11 DEF Goal

\* The blocks a client has freed still fit what it had asked for, until they are handed out.
StaleFit == \A p \in DOMAIN stale : Fits(heap, p - Overhead, stale[p])

CopyInv == FitInv /\ StaleFit /\ KreallocCopies

\* What was freed keeps its size, and what is freed now was held with it.
LEMMA StaleComes ==
  ASSUME [Next]_vars
  PROVE  \A p \in DOMAIN stale' : \/ p \in DOMAIN stale /\ stale'[p] = stale[p]
                                  \/ p \in DOMAIN live /\ stale'[p] = live[p]
<1> DEFINE Goal == \A p \in DOMAIN stale' : \/ p \in DOMAIN stale /\ stale'[p] = stale[p]
                                            \/ p \in DOMAIN live /\ stale'[p] = live[p]
<1>1. ASSUME NEW p, NEW n, Obtain(p, n)
      PROVE  Goal
  BY <1>1 DEF Obtain, Drop
<1>2. ASSUME NEW cp, Kfree(cp)
      PROVE  Goal
  BY <1>2 DEF Kfree, Put
<1>3. ASSUME NEW cp \in DOMAIN live \cup DOMAIN stale, NEW n, Resize(cp, n)
      PROVE  Goal
  <2> DEFINE had == IF cp \in DOMAIN live THEN live[cp] ELSE stale[cp]
  <2>1. \/ stale' = Put(stale, cp, had)
        \/ \E q : stale' = Drop(stale, {cp, q})
    BY <1>3 DEF Resize
  <2>2. CASE stale' = Put(stale, cp, had)
    BY <2>2 DEF Put
  <2>3. CASE \E q : stale' = Drop(stale, {cp, q})
    BY <2>3 DEF Drop
  <2> QED BY <2>1, <2>2, <2>3
<1>4. ASSUME NEW cp \in Pointers, NEW n, Krealloc(cp, n)
      PROVE  Goal
  BY <1>1, <1>2, <1>3, <1>4 DEF Krealloc, Pointers, Kmalloc
<1>5. ASSUME NEW k, ForeignSbrk(k)
      PROVE  Goal
  BY <1>5 DEF ForeignSbrk
<1>6. ASSUME UNCHANGED vars
      PROVE  Goal
  BY <1>6 DEF vars
<1>7. ASSUME NEW n, Kmalloc(n)
      PROVE  Goal
  BY <1>1, <1>7 DEF Kmalloc
<1>8. ASSUME NEW nelem, NEW elsize, Kcalloc(nelem, elsize)
      PROVE  Goal
  BY <1>1, <1>8 DEF Kcalloc
<1> HIDE DEF Goal
<1>9. Goal
  BY <1>2, <1>4, <1>5, <1>6, <1>7, <1>8 DEF Next, Calls
<1> QED BY <1>9 DEF Goal

\* Only krealloc copies, and then from cp to the block it got instead.
LEMMA OnlyResizeCopies ==
  ASSUME [Next]_vars
  PROVE  \/ copied' = NoCopy
         \/ UNCHANGED vars
         \/ \E cp \in DOMAIN live \cup DOMAIN stale, n \in Requests : Resize(cp, n)
  BY DEF Next, Calls, Kmalloc, Kcalloc, Kfree, Krealloc, ForeignSbrk, Pointers, NoCopy

\* Every byte of the old request that the new block has room for, and none past either block.
LEMMA ResizeCopies ==
  ASSUME SetupMayFail = FALSE, FitInv, FitInv', StaleFit, [Next]_vars,
         NEW cp \in DOMAIN live \cup DOMAIN stale, NEW n \in Nat, Resize(cp, n)
  PROVE  KreallocCopies'
<1> DEFINE had == IF cp \in DOMAIN live THEN live[cp] ELSE stale[cp]
           op  == cp - Overhead
           ob  == OldBucket(heap, op)
           onb == OldBytes(ob)
<1>1. PICK r \in KreallocOutcomes(heap, cp, n) :
        /\ live' = IF r.ret = Null THEN Drop(live, {cp}) ELSE Put(Drop(live, {cp}), r.ret, n)
        /\ copied' = IF r.ret \in {Null, cp} THEN NoCopy
                     ELSE [src |-> cp, dst |-> r.ret, len |-> CopyLen(heap, cp, n),
                           had |-> had, known |-> ob # NBUCKETS]
  BY DEF Resize
<1>2. SUFFICES ASSUME r.ret \notin {Null, cp} PROVE KreallocCopies'
  BY <1>1 DEF KreallocCopies
<1>3. r.ret \in DOMAIN live' /\ live'[r.ret] = n
  BY <1>1, <1>2 DEF Put
<1>4. n <= Capacity(heap'.home[r.ret - Overhead])
  BY <1>3 DEF FitInv, Fits
<1>5. /\ HeapInv(heap) /\ op \in DOMAIN heap.home /\ heap.home[op] \in 0 .. Top - 1
      /\ had \in Nat
  <2>1. HeapInv(heap) /\ op \in DOMAIN heap.home /\ had \in Nat
    BY DEF FitInv, IInv, Owns, TypeOK
  <2> QED BY <2>1, HeapFacts
<1>6. had <= Capacity(heap.home[op])
  BY DEF FitInv, StaleFit, Fits
<1>7. heap'.home[op] = heap.home[op]
  BY <1>5, BucketsStay DEF FitInv
<1> DEFINE cap == Capacity(heap.home[op])
<1>8. /\ cap \in Int /\ onb \in Nat /\ had <= onb
      /\ ob # NBUCKETS => onb = cap
  <2>1. ob \in {heap.home[op], NBUCKETS}
    BY <1>5, OldBucketTrue
  <2>2. heap.home[op] # NBUCKETS
    BY <1>5, GeometryAssumption, SMT
  <2>3. cap \in Int
    BY <1>5, CapacityTyped
  <2>4. OldBytes(NBUCKETS) \in Nat /\ cap < OldBytes(NBUCKETS)
    BY <1>5, UnknownIsLarge
  <2>5. CASE ob = NBUCKETS
    <3> HIDE DEF cap, ob
    <3> QED BY <1>5, <1>6, <2>3, <2>4, <2>5, SMT DEF cap
  <2>6. CASE ob = heap.home[op]
    <3>1. onb = cap
      BY <2>2, <2>6 DEF OldBytes
    <3> HIDE DEF cap, ob, onb
    <3> QED BY <1>5, <1>6, <2>3, <2>6, <3>1, SMT DEF cap
  <2> QED BY <2>1, <2>5, <2>6
<1>9. CopyLen(heap, cp, n) = IF n < onb THEN n ELSE onb
  BY DEF CopyLen
<1> HIDE DEF had, op, ob, onb, cap
<1> DEFINE len == CopyLen(heap, cp, n)
<1>10. /\ copied'.len = len /\ copied'.had = had /\ copied'.dst = r.ret /\ copied'.src = cp
       /\ copied'.known = (ob # NBUCKETS)
  BY <1>1, <1>2
<1>11. len <= n /\ len <= onb /\ len >= Min2(had, n)
  BY <1>5, <1>8, <1>9, SMT DEF Min2
<1>12. len <= Capacity(heap'.home[r.ret - Overhead])
  <2>1. Capacity(heap'.home[r.ret - Overhead]) \in Int
    <3>1. HeapInv(heap)' /\ r.ret - Overhead \in DOMAIN heap'.home
      BY <1>3 DEF FitInv, IInv, Owns
    <3>2. heap'.home[r.ret - Overhead] \in 0 .. Top - 1
      BY <3>1, HeapFacts
    <3> QED BY <3>2, CapacityTyped
  <2> QED BY <1>4, <1>8, <1>9, <2>1, SMT
<1>13. ob # NBUCKETS => len <= Capacity(heap'.home[cp - Overhead])
  BY <1>7, <1>8, <1>11 DEF cap, op
<1> HIDE DEF len
<1> QED BY <1>3, <1>10, <1>11, <1>12, <1>13 DEF KreallocCopies

LEMMA CopyStep ==
  ASSUME SetupMayFail = FALSE, CopyInv, [Next]_vars
  PROVE  CopyInv'
<1>1. FitInv /\ StaleFit /\ KreallocCopies /\ IInv
  BY DEF CopyInv, FitInv
<1>2. FitInv'
  BY <1>1, FitStep
<1>3. StaleFit'
  <2>1. \A p \in DOMAIN live \cup DOMAIN stale : p - Overhead \in DOMAIN heap.home
    BY <1>1 DEF IInv, Owns
  <2>2. \A a \in DOMAIN heap.home : heap'.home[a] = heap.home[a]
    BY <1>1, BucketsStay
  <2> SUFFICES ASSUME NEW p \in DOMAIN stale' PROVE Fits(heap', p - Overhead, stale'[p])
    BY DEF StaleFit
  <2>3. CASE p \in DOMAIN stale /\ stale'[p] = stale[p]
    BY <1>1, <2>1, <2>2, <2>3, StillFits DEF StaleFit
  <2>4. CASE p \in DOMAIN live /\ stale'[p] = live[p]
    BY <1>1, <2>1, <2>2, <2>4, StillFits DEF FitInv
  <2> QED BY <2>3, <2>4, StaleComes
<1>4. KreallocCopies'
  <2>1. CASE copied' = NoCopy
    BY <2>1 DEF KreallocCopies
  <2>2. CASE UNCHANGED vars
    BY <1>1, <2>2 DEF KreallocCopies, vars
  <2>3. CASE \E cp \in DOMAIN live \cup DOMAIN stale, n \in Requests : Resize(cp, n)
    BY <1>1, <1>2, <2>3, ResizeCopies, ClientAssumption
  <2> QED BY <2>1, <2>2, <2>3, OnlyResizeCopies
<1> QED BY <1>2, <1>3, <1>4 DEF CopyInv

\* A krealloc that moves a block copies all of the old request that fits, writes nothing
\* past the new block and, when it knows the old block's bucket, reads nothing past that one.
THEOREM CopiesAlways == ASSUME SetupMayFail = FALSE PROVE Spec => []KreallocCopies
<1>1. Init => CopyInv
  <2>1. Init => FitInv
    <3>1. Init => SetUp(heap) /\ DOMAIN live = {}
      BY DEF Init, SetUp
    <3> QED BY <3>1, InitInv DEF FitInv
  <2> QED BY <2>1 DEF Init, CopyInv, StaleFit, KreallocCopies
<1>2. CopyInv /\ [Next]_vars => CopyInv'
  BY CopyStep
<1>3. CopyInv => KreallocCopies
  BY DEF CopyInv
<1> QED BY <1>1, <1>2, <1>3, PTL DEF Spec

-----------------------------------------------------------------------------
(* The promise of Allocator.                                                 *)

\* The regions of two pointers the client holds lie in two blocks, clear of each other.
LEMMA RegionsApart ==
  ASSUME FitInv, NEW p \in DOMAIN live, NEW q \in DOMAIN live, p # q
  PROVE  /\ p \in Nat /\ p > 0
         /\ p + Promise!Span(live[p]) <= q \/ q + Promise!Span(live[q]) <= p
<1> DEFINE a == p - Overhead
           c == q - Overhead
           ea == Extent(heap.home[a])
           ec == Extent(heap.home[c])
<1>1. /\ p \in Nat /\ q \in Nat /\ a \in DOMAIN heap.home /\ c \in DOMAIN heap.home
      /\ live[p] \in Nat /\ live[q] \in Nat /\ HeapInv(heap) /\ Overhead \in {4, 8}
  BY GeometryAssumption DEF FitInv, IInv, Owns, TypeOK
<1>2. /\ a \in Nat /\ c \in Nat /\ heap.home[a] \in 0 .. Top - 1 /\ heap.home[c] \in 0 .. Top - 1
  BY <1>1, HeapFacts
<1>3. ea \in Nat \ {0} /\ ec \in Nat \ {0}
  BY <1>2, ExtentFacts
<1>4. live[p] <= ea - Overhead /\ live[q] <= ec - Overhead
  BY DEF FitInv, Fits, Capacity
<1>5. p = a + Overhead /\ q = c + Overhead /\ a # c
  BY <1>1, <1>2, SMT
<1>6. a + ea <= c \/ c + ec <= a
  BY <1>1, <1>5 DEF HeapInv, HeapDisjoint, Apart
<1> HIDE DEF a, c, ea, ec
<1>7. p > 0
  BY <1>1, <1>2, <1>5, SMT
<1>8. p + Promise!Span(live[p]) <= q \/ q + Promise!Span(live[q]) <= p
  BY <1>1, <1>2, <1>3, <1>4, <1>5, <1>6, SMT DEF Promise!Span
<1> QED BY <1>1, <1>7, <1>8

\* A pointer the client holds is not null.
LEMMA PointerPositive ==
  ASSUME IInv, NEW p \in DOMAIN live
  PROVE  p \in Nat /\ p > 0
<1>1. p \in Nat /\ p - Overhead \in DOMAIN heap.home /\ HeapInv(heap)
  BY DEF IInv, Owns
<1>2. p - Overhead \in Nat
  BY <1>1, HeapFacts
<1> QED BY <1>1, <1>2, GeometryAssumption, SMT

\* Regions the client holds share no byte and none is at null.
RegionsClear ==
  \A p \in DOMAIN live :
    /\ p > 0
    /\ \A q \in DOMAIN live :
         p # q => p + Promise!Span(live[p]) <= q \/ q + Promise!Span(live[q]) <= p

LEMMA FitRegions == FitInv => RegionsClear
BY RegionsApart, PointerPositive DEF RegionsClear, FitInv

\* A pointer that kmalloc returns is none of those the client holds.
LEMMA NewPointer ==
  ASSUME NEW h, NEW L, NEW S, HeapInv(h), Owns(h, L, S),
         NEW r, Allocates(h, r), r.ret # Null
  PROVE  r.ret \notin L
<1>1. PICK op \in DOMAIN r.heap.home \ Used(h) : r.ret = op + Overhead
  BY DEF Allocates
<1>2. op \in Nat
  BY HeapFacts DEF Allocates
<1>3. r.ret - Overhead = op
  BY <1>1, <1>2, GeometryAssumption, SMT
<1> QED BY <1>1, <1>3 DEF Owns

\* What a step may do to the client's regions: nothing, or add one, drop one, or put one
\* in another's place.
ClientStep ==
  \/ live' = live
  \/ \E p, n : p \notin DOMAIN live /\ live' = Put(live, p, n)
  \/ \E p \in DOMAIN live : live' = Drop(live, {p})
  \/ \E p \in DOMAIN live : \E q, n :
       q \notin DOMAIN live \ {p} /\ live' = Put(Drop(live, {p}), q, n)

LEMMA ObtainClient ==
  ASSUME IInv, NEW n \in Nat, NEW r \in KmallocOutcomes(heap, n), Obtain(r.ret, n)
  PROVE  ClientStep
<1>1. CASE r.ret = Null
  BY <1>1 DEF Obtain, ClientStep
<1>2. CASE r.ret # Null
  <2>1. live' = Put(live, r.ret, n)
    BY <1>2 DEF Obtain
  <2>2. r.ret \notin DOMAIN live
    BY <1>2, KmallocInv, NewPointer DEF IInv
  <2> QED BY <2>1, <2>2 DEF ClientStep
<1> QED BY <1>1, <1>2

\* Dropping a pointer that is not there drops nothing.
LEMMA DropNothing ==
  ASSUME IInv, NEW cp, cp \notin DOMAIN live
  PROVE  Drop(live, {cp}) = live
<1>1. live = [y \in DOMAIN live |-> live[y]]
  BY DEF IInv, TypeOK
<1>2. DOMAIN live \ {cp} = DOMAIN live
  OBVIOUS
<1> QED BY <1>1, <1>2 DEF Drop

LEMMA ResizeClient ==
  ASSUME IInv, NEW cp \in DOMAIN live \cup DOMAIN stale, NEW n \in Nat, Resize(cp, n)
  PROVE  ClientStep
<1>1. PICK r \in KreallocOutcomes(heap, cp, n) :
        /\ heap' = r.heap
        /\ IF r.ret = Null THEN live' = Drop(live, {cp})
           ELSE live' = Put(Drop(live, {cp}), r.ret, n)
  BY DEF Resize
<1>2. HeapInv(heap) /\ Owns(heap, DOMAIN live, DOMAIN stale)
  BY DEF IInv
<1>3. r.ret # Null => r.ret \notin DOMAIN live \ {cp}
  <2>1. CASE StaysInPlace(heap, cp - Overhead, n)
    BY <2>1 DEF KreallocOutcomes
  <2>2. CASE ~StaysInPlace(heap, cp - Overhead, n)
    <3> DEFINE g == KfreeHeap(heap, cp)
    <3>1. r \in KmallocOutcomes(g, n)
      BY <2>2 DEF KreallocOutcomes
    <3>2. HeapInv(g) /\ Owns(g, DOMAIN live \ {cp}, DOMAIN stale \cup {cp})
      BY <1>2, KfreeOwns
    <3> HIDE DEF g
    <3> QED BY <3>1, <3>2, KmallocInv, NewPointer
  <2> QED BY <2>1, <2>2
<1>4. CASE cp \in DOMAIN live
  BY <1>1, <1>3, <1>4 DEF ClientStep
<1>5. CASE cp \notin DOMAIN live
  <2>1. Drop(live, {cp}) = live
    BY <1>5, DropNothing
  <2> QED BY <1>1, <1>3, <1>5, <2>1 DEF ClientStep
<1> QED BY <1>4, <1>5

\* The steps of the specification, as the client's regions show them.
LEMMA ClientSteps ==
  ASSUME IInv, [Next]_vars
  PROVE  ClientStep
<1>1. Requests \subseteq Nat /\ Counts \subseteq Nat
  BY ClientAssumption
<1>2. ASSUME NEW n \in Nat, Kmalloc(n)
      PROVE  ClientStep
  BY <1>2, ObtainClient DEF Kmalloc
<1>3. ASSUME NEW nelem \in Counts, NEW elsize \in Requests, Kcalloc(nelem, elsize)
      PROVE  ClientStep
  <2> DEFINE n == (nelem * elsize) % WordMod
  <2>1. n \in Nat
    <3>1. nelem \in Nat /\ elsize \in Nat
      BY <1>1
    <3> QED BY <3>1, ProductWraps
  <2>2. PICK r \in KmallocOutcomes(heap, n) : Obtain(r.ret, n)
    BY <1>3 DEF Kcalloc
  <2> HIDE DEF n
  <2> QED BY <2>1, <2>2, ObtainClient
<1>4. ASSUME NEW cp \in Pointers, Kfree(cp)
      PROVE  ClientStep
  <2>1. live' = Drop(live, {cp})
    BY <1>4 DEF Kfree
  <2>2. CASE cp \in DOMAIN live
    BY <2>1, <2>2 DEF ClientStep
  <2>3. CASE cp \notin DOMAIN live
    BY <2>1, <2>3, DropNothing DEF ClientStep
  <2> QED BY <2>2, <2>3
<1>5. ASSUME NEW cp \in Pointers, NEW n \in Requests, Krealloc(cp, n)
      PROVE  ClientStep
  <2>1. CASE cp = Null /\ Kmalloc(n)
    BY <1>1, <1>2, <2>1
  <2>2. CASE cp # Null /\ n = 0 /\ Kfree(cp)
    BY <1>4, <2>2
  <2>3. CASE cp # Null /\ n > 0 /\ Resize(cp, n)
    BY <1>1, <2>3, ResizeClient DEF Pointers
  <2> QED BY <1>5, <2>1, <2>2, <2>3 DEF Krealloc
<1>6. ASSUME NEW k \in ForeignMoves, ForeignSbrk(k)
      PROVE  ClientStep
  BY <1>6 DEF ForeignSbrk, ClientStep
<1>7. CASE UNCHANGED vars
  BY <1>7 DEF vars, ClientStep
<1> QED BY <1>1, <1>2, <1>3, <1>4, <1>5, <1>6, <1>7 DEF Next, Calls

\* A region that appears in a step is clear of those that stay.
LEMMA NewRegionClear ==
  ASSUME RegionsClear', NEW f, DOMAIN f \subseteq DOMAIN live', NEW q \in DOMAIN live',
         q \notin DOMAIN f, \A p \in DOMAIN f : live'[p] = f[p]
  PROVE  q > 0 /\ Promise!Clear(f, q, live'[q])
  BY DEF RegionsClear, Promise!Clear

\* The allocator keeps its promise: regions never overlap, no pointer is null, and only
\* the client's own calls make one appear, disappear or move.
THEOREM PromiseKept == ASSUME SetupMayFail = FALSE PROVE Spec => KeepsPromise
<1>1. Init => Promise!Init
  BY DEF Init, Promise!Init
<1>2. FitInv /\ RegionsClear' /\ [Next]_vars => [Promise!Next]_live
  <2> SUFFICES ASSUME FitInv, RegionsClear', [Next]_vars PROVE Promise!Next \/ live' = live
    OBVIOUS
  <2>1. ClientStep
    BY ClientSteps DEF FitInv
  <2>2. ASSUME NEW p, NEW n, p \notin DOMAIN live, live' = Put(live, p, n)
        PROVE  Promise!Next
    <3>1. /\ DOMAIN live' = DOMAIN live \cup {p} /\ live'[p] = n
          /\ \A q \in DOMAIN live : live'[q] = live[q]
      BY <2>2 DEF Put
    <3>2. p > 0 /\ Promise!Clear(live, p, n)
      BY <2>2, <3>1, NewRegionClear
    <3>3. live' = Promise!With(live, p, n)
      BY <2>2 DEF Put, Promise!With
    <3>4. Promise!Grant(p, live'[p])
      BY <2>2, <3>1, <3>2, <3>3 DEF Promise!Grant
    <3> QED BY <3>1, <3>4 DEF Promise!Next
  <2>3. ASSUME NEW p \in DOMAIN live, live' = Drop(live, {p})
        PROVE  Promise!Next
    BY <2>3 DEF Drop, Promise!Without, Promise!Release, Promise!Next
  <2>4. ASSUME NEW p \in DOMAIN live, NEW q, NEW n, q \notin DOMAIN live \ {p},
               live' = Put(Drop(live, {p}), q, n)
        PROVE  Promise!Next
    <3> DEFINE f == Drop(live, {p})
    <3>1. DOMAIN f = DOMAIN live \ {p} /\ f = Promise!Without(live, p)
      BY DEF Drop, Promise!Without
    <3>2. live' = Put(f, q, n) /\ q \notin DOMAIN f
      BY <2>4, <3>1
    <3> HIDE DEF f
    <3>3. /\ DOMAIN live' = DOMAIN f \cup {q} /\ live'[q] = n
          /\ \A x \in DOMAIN f : live'[x] = f[x]
      BY <3>2 DEF Put
    <3>4. q > 0 /\ Promise!Clear(f, q, n)
      BY <3>2, <3>3, NewRegionClear
    <3>5. live' = Promise!With(f, q, n)
      BY <3>2 DEF Put, Promise!With
    <3>6. Promise!Move(p, q, live'[q])
      BY <2>4, <3>1, <3>3, <3>4, <3>5 DEF Promise!Move
    <3> QED BY <2>4, <3>3, <3>6 DEF Promise!Next
  <2> QED BY <2>1, <2>2, <2>3, <2>4 DEF ClientStep
<1> QED BY <1>1, <1>2, FitSafety, FitRegions, PTL DEF Spec, KeepsPromise, Promise!Spec

-----------------------------------------------------------------------------
(* Alignment.                                                                *)

\* x is a multiple of m.
Multiple(x, m) == \E k \in Nat : x = k * m

\* Sums of multiples, and multiples of multiples, are multiples.
LEMMA MultipleSum ==
  ASSUME NEW x \in Nat, NEW y \in Nat, NEW m \in Nat, Multiple(x, m), Multiple(y, m)
  PROVE  Multiple(x + y, m)
<1>1. PICK j \in Nat : x = j * m
  BY DEF Multiple
<1>2. PICK k \in Nat : y = k * m
  BY DEF Multiple
<1>3. x + y = (j + k) * m /\ j + k \in Nat
  BY <1>1, <1>2, SMT
<1> QED BY <1>3 DEF Multiple

LEMMA MultipleOfMultiple ==
  ASSUME NEW x \in Nat, NEW y \in Nat, NEW m \in Nat, Multiple(x, y), Multiple(y, m)
  PROVE  Multiple(x, m)
<1>1. PICK j \in Nat : x = j * y
  BY DEF Multiple
<1>2. PICK k \in Nat : y = k * m
  BY DEF Multiple
<1>3. x = (j * k) * m /\ j * k \in Nat
  BY <1>1, <1>2, SMT
<1> QED BY <1>3 DEF Multiple

\* A multiple leaves no remainder, and what leaves none is a multiple.
LEMMA MultipleRemainder ==
  ASSUME NEW x \in Nat, NEW m \in Nat \ {0}
  PROVE  Multiple(x, m) <=> x % m = 0
<1> DEFINE q == x \div m
           r == x % m
<1>1. q \in Nat /\ r \in 0 .. m - 1 /\ x = (m * q) + r
  BY DivFacts
<1>2. m * q \in Nat /\ m * q = q * m
  BY <1>1, SMT
<1> HIDE DEF q, r
<1>3. r = 0 => Multiple(x, m)
  <2> SUFFICES ASSUME r = 0 PROVE Multiple(x, m)
    OBVIOUS
  <2>1. x = q * m
    <3> DEFINE p == q * m
    <3>1. x = p + r /\ p \in Nat
      BY <1>1, <1>2
    <3> HIDE DEF p
    <3>2. x = p
      BY <3>1
    <3> QED BY <3>2 DEF p
  <2> QED BY <1>1, <2>1 DEF Multiple
<1>4. Multiple(x, m) => r = 0
  <2> SUFFICES ASSUME Multiple(x, m) PROVE r = 0
    OBVIOUS
  <2>1. PICK k \in Nat : x = k * m
    BY DEF Multiple
  <2> DEFINE p == q * m
             y == k * m
  <2>2. p \in Nat /\ y \in Nat /\ y = p + r
    BY <1>1, <1>2, <2>1
  <2>3. k < q => y + m <= p
    <3> SUFFICES ASSUME k < q PROVE y + m <= p
      OBVIOUS
    <3>1. k + 1 \in Nat /\ k + 1 <= q
      BY <1>1, SMT
    <3>2. (k + 1) * m <= q * m
      BY <1>1, <3>1, MultMono
    <3>3. (k + 1) * m = y + m
      BY SMT
    <3> QED BY <3>2, <3>3
  <2>4. q < k => p + m <= y
    <3> SUFFICES ASSUME q < k PROVE p + m <= y
      OBVIOUS
    <3>1. q + 1 \in Nat /\ q + 1 <= k
      BY <1>1, SMT
    <3>2. (q + 1) * m <= k * m
      BY <1>1, <3>1, MultMono
    <3>3. (q + 1) * m = p + m
      BY <1>1, SMT
    <3> QED BY <3>2, <3>3
  <2>5. q = k => p = y
    OBVIOUS
  <2> HIDE DEF p, y
  <2> QED BY <1>1, <2>2, <2>3, <2>4, <2>5, SMT
<1> QED BY <1>3, <1>4 DEF r

\* Each size 8 << b is a multiple of the smaller ones.
LEMMA SizesDivide ==
  ASSUME NEW b \in 0 .. Top, NEW c \in 0 .. Top, b <= c
  PROVE  Multiple(Amt[c], Amt[b])
<1> DEFINE S == {i \in 0 .. c : b <= i => Multiple(Amt[i], Amt[b])}
<1>0. /\ Top \in Nat /\ Amt \in [0 .. Top -> Nat \ {0}]
      /\ \A i \in 0 .. Top - 1 : i \in 0 .. Top /\ i + 1 \in 0 .. Top /\ Amt[i + 1] = 2 * Amt[i]
  BY GeometryAssumption, SMT
<1>1. Multiple(Amt[b], Amt[b])
  <2>1. Amt[b] = 1 * Amt[b]
    BY <1>0, SMT
  <2> QED BY <2>1 DEF Multiple
<1>2. 0 \in S
  <2>1. 0 \in 0 .. c /\ (b <= 0 => b = 0)
    BY SMT
  <2> QED BY <1>1, <2>1
<1>3. ASSUME NEW i \in 0 .. c - 1, i \in S PROVE i + 1 \in S
  <2>1. i \in 0 .. Top - 1 /\ i + 1 \in 0 .. c /\ (b <= i + 1 => b <= i \/ b = i + 1)
    BY <1>0, SMT
  <2>2. CASE b <= i
    <3>1. PICK k \in Nat : Amt[i] = k * Amt[b]
      BY <1>3, <2>2 DEF Multiple
    <3>2. Amt[i + 1] = (2 * k) * Amt[b] /\ 2 * k \in Nat
      BY <1>0, <2>1, <3>1, SMT
    <3> QED BY <2>1, <3>2 DEF Multiple
  <2>3. CASE b = i + 1
    BY <1>1, <2>1, <2>3
  <2> QED BY <2>1, <2>2, <2>3
<1> HIDE DEF S
<1>4. c \in Nat /\ c \in 0 .. c
  BY SMT
<1>5. 0 .. c \subseteq S
  BY <1>2, <1>3, <1>4, InductionTo, Zenon
<1> QED BY <1>4, <1>5 DEF S

\* Where the data after the break, and the data of each block, may start.
HeapFits(h) ==
  /\ h.pagesz = 0 => DOMAIN h.home = {}
  /\ h.pagesz # 0 => Multiple(h.brk + Overhead, Page)
  /\ \A a \in DOMAIN h.home : Multiple(a + Overhead, Min2(Amt[h.home[a]], Page))

\* "align break pointer so all data will be page aligned": the first call's padding does.
LEMMA PaddingAligns ==
  ASSUME NEW brk \in Nat
  PROVE  Multiple(brk + Padding(brk) + Overhead, Page)
<1>1. Page \in Nat \ {0} /\ Overhead \in Nat
  BY GeometryFacts, GeometryAssumption, SMT
<1> DEFINE r == brk % Page
           q == brk \div Page
           m == Page * q
<1>2. q \in Nat /\ r \in 0 .. Page - 1 /\ brk = m + r
  BY <1>1, DivFacts
<1>3. m \in Nat
  BY <1>1, <1>2, SMT
<1>4. m + Page = (q + 1) * Page /\ m + Page + Page = (q + 2) * Page
  BY <1>1, <1>2, SMT
<1>5. Multiple(m + Page, Page) /\ Multiple(m + Page + Page, Page)
  <2>1. q + 1 \in Nat /\ q + 2 \in Nat
    BY <1>2, SMT
  <2> HIDE DEF q, m
  <2> QED BY <1>4, <2>1 DEF Multiple
<1> HIDE DEF r, q, m
<1>6. CASE Page - Overhead - r < 0
  <2>1. Padding(brk) = Page - Overhead - r + Page
    BY <1>6 DEF Padding, r
  <2>2. brk + Padding(brk) + Overhead = m + Page + Page
    BY <1>1, <1>2, <1>3, <2>1, SMT
  <2> QED BY <1>5, <2>2
<1>7. CASE ~(Page - Overhead - r < 0)
  <2>1. Padding(brk) = Page - Overhead - r
    BY <1>7 DEF Padding, r
  <2>2. brk + Padding(brk) + Overhead = m + Page
    BY <1>1, <1>2, <1>3, <2>1, SMT
  <2> QED BY <1>5, <2>2
<1> QED BY <1>6, <1>7

\* The blocks of one sbrk, and the break it leaves, are aligned as its start is.
LEMMA CarvedAligned ==
  ASSUME NEW b \in 0 .. Top - 1, NEW op \in Nat, Multiple(op + Overhead, Page)
  PROVE  /\ \A a \in Carved(op, b) : Multiple(a + Overhead, Min2(Amt[b], Page))
         /\ Multiple(op + SbrkAmt(b) + Overhead, Page)
<1>1. /\ b \in 0 .. Top /\ PageBucket \in 0 .. Top /\ Amt[PageBucket] = Page
      /\ Page \in Nat \ {0} /\ Amt[b] \in Nat \ {0} /\ Overhead \in Nat
      /\ NBlocks(b) \in Nat \ {0} /\ SbrkAmt(b) \in Nat
  <2>1. PageBucket \in 0 .. Top - 1 /\ Page \in Nat /\ Page >= 8 /\ Top \in Nat /\ Overhead \in {4, 8}
    BY GeometryFacts, GeometryAssumption
  <2> QED BY <2>1, GeometryFacts, ExtentFacts, SMT
<1>2. Multiple(Page, Page)
  BY <1>1, SizesDivide
<1>3. CASE Amt[b] < Page
  <2>1. Min2(Amt[b], Page) = Amt[b] /\ SbrkAmt(b) = Page
    BY <1>3 DEF Min2, SbrkAmt
  <2>2. b <= PageBucket
    <3>1. b = PageBucket \/ b < PageBucket \/ PageBucket < b
      BY <1>1, SMT
    <3>2. PageBucket < b => Page < Amt[b]
      BY <1>1, AmtFacts
    <3> QED BY <1>1, <1>3, <3>1, <3>2, SMT
  <2>3. Multiple(Page, Amt[b])
    BY <1>1, <2>2, SizesDivide
  <2>4. Multiple(op + Overhead, Amt[b])
    BY <1>1, <2>3, MultipleOfMultiple
  <2>5. ASSUME NEW a \in Carved(op, b) PROVE Multiple(a + Overhead, Amt[b])
    <3>1. PICK i \in 0 .. NBlocks(b) - 1 : a = op + i * Amt[b]
      BY DEF Carved
    <3> DEFINE p == i * Amt[b]
    <3>2. i \in Nat /\ p \in Nat
      BY <1>1, SMT
    <3>3. Multiple(p, Amt[b])
      BY <3>2 DEF Multiple
    <3> HIDE DEF p
    <3>4. a + Overhead = (op + Overhead) + p /\ op + Overhead \in Nat
      BY <1>1, <3>1, <3>2, SMT DEF p
    <3> QED BY <1>1, <2>4, <3>2, <3>3, <3>4, MultipleSum
  <2>6. op + SbrkAmt(b) + Overhead = (op + Overhead) + Page /\ op + Overhead \in Nat
    BY <1>1, <2>1, SMT
  <2>7. Multiple(op + SbrkAmt(b) + Overhead, Page)
    BY <1>1, <1>2, <2>6, MultipleSum
  <2> QED BY <2>1, <2>5, <2>7
<1>4. CASE ~(Amt[b] < Page)
  <2>1. Min2(Amt[b], Page) = Page /\ SbrkAmt(b) = Amt[b] + Page /\ NBlocks(b) = 1
    BY <1>4 DEF Min2, SbrkAmt, NBlocks
  <2>2. PageBucket <= b
    <3>1. b = PageBucket \/ b < PageBucket \/ PageBucket < b
      BY <1>1, SMT
    <3>2. b < PageBucket => Amt[b] < Page
      BY <1>1, AmtFacts
    <3> QED BY <1>1, <1>4, <3>1, <3>2, SMT
  <2>3. Multiple(Amt[b], Page)
    BY <1>1, <2>2, SizesDivide
  <2>4. Carved(op, b) = {op}
    <3>1. \A i \in 0 .. 1 - 1 : i = 0
      BY SMT
    <3>2. 0 \in 0 .. 1 - 1 /\ op + 0 * Amt[b] = op
      BY <1>1, SMT
    <3> QED BY <2>1, <3>1, <3>2 DEF Carved
  <2>5. /\ op + SbrkAmt(b) + Overhead = (op + Overhead) + (Amt[b] + Page)
        /\ op + Overhead \in Nat /\ Amt[b] + Page \in Nat
    BY <1>1, <2>1, SMT
  <2>6. Multiple(Amt[b] + Page, Page)
    BY <1>1, <1>2, <2>3, MultipleSum
  <2>7. Multiple(op + SbrkAmt(b) + Overhead, Page)
    BY <1>1, <2>5, <2>6, MultipleSum
  <2> QED BY <2>1, <2>4, <2>7
<1> QED BY <1>3, <1>4

\* Nobody else leaves the data after the break off a page's start.
PageMoves == \A k \in ForeignMoves : Multiple(k, Page)

\* Taking and freeing blocks moves none and leaves the break alone.
LEMMA TakeAligns ==
  ASSUME NEW h, HeapInv(h), HeapFits(h), NEW b \in Buckets
  PROVE  HeapFits(Take(h, b).heap)
<1> DEFINE g == Take(h, b).heap
<1>1. g.pagesz = h.pagesz /\ g.home = h.home /\ g.brk = h.brk
  BY DEF Take, HeapInv, HeapType
<1> HIDE DEF g
<1>2. HeapFits(g)
  BY <1>1 DEF HeapFits
<1> QED BY <1>2 DEF g

LEMMA KfreeAligns ==
  ASSUME NEW h, HeapInv(h), HeapFits(h), NEW cp
  PROVE  HeapFits(KfreeHeap(h, cp))
<1> DEFINE g == KfreeHeap(h, cp)
<1>1. g.pagesz = h.pagesz /\ g.home = h.home /\ g.brk = h.brk
  BY DEF KfreeHeap, HeapInv, HeapType
<1> HIDE DEF g
<1>2. HeapFits(g)
  BY <1>1 DEF HeapFits
<1> QED BY <1>2 DEF g

\* morecore starts its blocks at the old break and leaves the new one aligned like it.
LEMMA MorecoreAligns ==
  ASSUME NEW h, HeapInv(h), HeapFits(h), h.pagesz # 0, NEW b \in Buckets, SbrkCan(h, b)
  PROVE  HeapFits(Morecore(h, b))
<1> DEFINE g   == Morecore(h, b)
           op  == h.brk
           new == Carved(op, b)
<1>1. /\ b \in 0 .. Top - 1 /\ op \in Nat
      /\ DOMAIN h.word = DOMAIN h.home
  <2>1. b \in 0 .. Top - 1
    BY GeometryAssumption, SMT DEF SbrkCan, Buckets
  <2> QED BY <2>1, HeapFacts
<1>2. /\ g.pagesz = h.pagesz /\ g.brk = op + SbrkAmt(b)
      /\ g.home = [a \in DOMAIN h.word \cup new |-> IF a \in new THEN b ELSE h.home[a]]
  BY DEF Morecore, HeapInv, HeapType
<1> HIDE DEF g, op
<1>3. Multiple(op + Overhead, Page)
  BY DEF HeapFits, op
<1>4. /\ \A a \in new : Multiple(a + Overhead, Min2(Amt[b], Page))
      /\ Multiple(op + SbrkAmt(b) + Overhead, Page)
  BY <1>1, <1>3, CarvedAligned
<1> HIDE DEF new
<1>5. \A a \in DOMAIN g.home : Multiple(a + Overhead, Min2(Amt[g.home[a]], Page))
  BY <1>1, <1>2, <1>4 DEF HeapFits
<1>6. HeapFits(g)
  BY <1>2, <1>4, <1>5 DEF HeapFits
<1> QED BY <1>6 DEF g

\* Every outcome of kmalloc, on its first call and on any later one.
LEMMA FromBucketAligns ==
  ASSUME NEW h, HeapInv(h), HeapFits(h), h.pagesz # 0, NEW b \in Buckets,
         NEW r \in FromBucket(h, b)
  PROVE  HeapFits(r.heap)
<1>1. CASE r = Refuse(h)
  BY <1>1 DEF Refuse
<1>2. CASE r = Take(h, b)
  BY <1>2, TakeAligns
<1>3. CASE h.nextf[b] = Null /\ SbrkCan(h, b) /\ r = Take(Morecore(h, b), b)
  <2>1. h.brk % 4 = 0
    BY DEF HeapInv, HeapAligned
  <2>2. HeapInv(Morecore(h, b))
    BY <1>3, <2>1, MorecoreInv
  <2>3. HeapFits(Morecore(h, b))
    BY <1>3, MorecoreAligns
  <2> QED BY <1>3, <2>2, <2>3, TakeAligns
<1> QED BY <1>1, <1>2, <1>3 DEF FromBucket

LEMMA AfterSetupAligns ==
  ASSUME NEW h, HeapInv(h), HeapFits(h), h.pagesz # 0, NEW n \in Nat,
         NEW r \in AfterSetup(h, n)
  PROVE  HeapFits(r.heap)
<1>1. CASE r = Refuse(h)
  BY <1>1 DEF Refuse
<1>2. CASE r # Refuse(h)
  <2>1. PICK k \in LoopExit(n) : r \in FromBucket(h, FirstBucket(h, n) + k)
    BY <1>2 DEF AfterSetup
  <2>2. FirstBucket(h, n) + k \in Buckets
    BY LoopInBuckets
  <2> QED BY <2>1, <2>2, FromBucketAligns
<1> QED BY <1>1, <1>2

LEMMA KmallocAligns ==
  ASSUME SetupMayFail = FALSE, NEW h, HeapInv(h), HeapFits(h), NEW n \in Nat,
         NEW r \in KmallocOutcomes(h, n)
  PROVE  HeapFits(r.heap)
<1>1. CASE h.pagesz # 0
  BY <1>1, AfterSetupAligns DEF KmallocOutcomes
<1>2. CASE h.pagesz = 0
  <2> DEFINE g == SetupDone(h)
  <2>1. HeapInv(g) /\ g.pagesz # 0 /\ g.home = h.home /\ g.brk = h.brk + Padding(h.brk)
    BY SetupDoneInv
  <2>2. r \in AfterSetup(g, n)
    BY <1>2 DEF KmallocOutcomes
  <2> HIDE DEF g
  <2>3. Multiple(g.brk + Overhead, Page)
    BY <2>1, PaddingAligns, HeapFacts
  <2>4. HeapFits(g)
    BY <1>2, <2>1, <2>3 DEF HeapFits
  <2> QED BY <2>1, <2>2, <2>4, AfterSetupAligns
<1> QED BY <1>1, <1>2

\* Every step of the specification, other code moving the break by whole pages.
LEMMA AlignStep ==
  ASSUME SetupMayFail = FALSE, IInv, HeapFits(heap), [Next]_vars,
         \A k \in ForeignMoves : ForeignSbrk(k) => Multiple(k, Page)
  PROVE  HeapFits(heap')
<1>1. HeapInv(heap) /\ Owns(heap, DOMAIN live, DOMAIN stale)
  BY DEF IInv
<1>2. Requests \subseteq Nat /\ Counts \subseteq Nat
  BY ClientAssumption
<1>3. ASSUME NEW n \in Nat, Kmalloc(n)
      PROVE  HeapFits(heap')
  BY <1>1, <1>3, KmallocAligns DEF Kmalloc
<1>4. ASSUME NEW nelem \in Counts, NEW elsize \in Requests, Kcalloc(nelem, elsize)
      PROVE  HeapFits(heap')
  <2> DEFINE n == (nelem * elsize) % WordMod
  <2>1. n \in Nat
    BY <1>2, ProductWraps
  <2>2. PICK r \in KmallocOutcomes(heap, n) : heap' = r.heap
    BY <1>4 DEF Kcalloc
  <2> HIDE DEF n
  <2> QED BY <1>1, <2>1, <2>2, KmallocAligns
<1>5. ASSUME NEW cp \in Pointers, Kfree(cp)
      PROVE  HeapFits(heap')
  BY <1>1, <1>5, KfreeAligns DEF Kfree
<1>6. ASSUME NEW cp \in Pointers, NEW n \in Requests, Krealloc(cp, n)
      PROVE  HeapFits(heap')
  <2>1. CASE Kmalloc(n)
    BY <1>2, <1>3, <2>1
  <2>2. CASE Kfree(cp)
    BY <1>5, <2>2
  <2>3. CASE cp # Null /\ Resize(cp, n)
    <3>1. cp - Overhead \in DOMAIN heap.home /\ n \in Nat
      BY <1>1, <1>2, <2>3 DEF Pointers, Owns
    <3>2. PICK r \in KreallocOutcomes(heap, cp, n) : heap' = r.heap
      BY <2>3 DEF Resize
    <3>3. CASE r = [heap |-> heap, ret |-> cp]
      BY <1>1, <3>2, <3>3
    <3>4. CASE r \in KmallocOutcomes(KfreeHeap(heap, cp), n)
      BY <1>1, <3>1, <3>2, <3>4, KfreeInv, KfreeAligns, KmallocAligns
    <3> QED BY <3>2, <3>3, <3>4 DEF KreallocOutcomes
  <2> QED BY <1>6, <2>1, <2>2, <2>3 DEF Krealloc
<1>7. ASSUME NEW k \in ForeignMoves, ForeignSbrk(k)
      PROVE  HeapFits(heap')
  <2>1. heap'.pagesz = heap.pagesz /\ heap'.home = heap.home /\ heap'.brk = heap.brk + k
    BY <1>1, <1>7 DEF ForeignSbrk, HeapInv, HeapType
  <2>2. CASE heap.pagesz # 0
    <3>1. Multiple(k, Page) /\ Multiple(heap.brk + Overhead, Page)
      BY <1>7, <2>2 DEF HeapFits
    <3>2. k \in Nat /\ heap.brk \in Nat /\ Overhead \in Nat /\ Page \in Nat
      <4>1. Overhead \in {4, 8}
        BY GeometryAssumption
      <4>2. Overhead \in Nat
        BY <4>1, SMT
      <4> QED BY <1>1, <4>2, ClientAssumption, GeometryFacts, HeapFacts
    <3>3. /\ heap.brk + k + Overhead = (heap.brk + Overhead) + k
          /\ heap.brk + Overhead \in Nat
      BY <3>2, SMT
    <3>4. Multiple(heap.brk + k + Overhead, Page)
      BY <3>1, <3>2, <3>3, MultipleSum
    <3> QED BY <2>1, <2>2, <3>4 DEF HeapFits
  <2>3. CASE heap.pagesz = 0
    BY <2>1, <2>3 DEF HeapFits
  <2> QED BY <2>2, <2>3
<1>8. ASSUME UNCHANGED vars
      PROVE  HeapFits(heap')
  BY <1>8 DEF vars
<1> DEFINE Goal == HeapFits(heap')
<1> HIDE DEF Goal
<1>9. Goal
  BY <1>3, <1>4, <1>5, <1>6, <1>7, <1>8, <1>2 DEF Next, Calls, Goal
<1> QED BY <1>9 DEF Goal

\* The first call sets the page size, and nothing unsets it.
LEMMA KmallocSets ==
  ASSUME SetupMayFail = FALSE, NEW h, HeapInv(h), NEW n \in Nat, NEW r \in KmallocOutcomes(h, n)
  PROVE  r.heap.pagesz # 0
<1>1. ASSUME NEW g, HeapInv(g), g.pagesz # 0, r \in AfterSetup(g, n)
      PROVE  r.heap.pagesz # 0
  <2>1. g.brk % 4 = 0
    BY <1>1 DEF HeapInv, HeapAligned
  <2>2. CASE r = Refuse(g)
    BY <1>1, <2>2 DEF Refuse
  <2>3. CASE r # Refuse(g)
    <3>1. PICK k \in LoopExit(n) : r \in FromBucket(g, FirstBucket(g, n) + k)
      BY <1>1, <2>3 DEF AfterSetup
    <3>2. FirstBucket(g, n) + k \in Buckets
      BY <1>1, LoopInBuckets
    <3>3. r.heap.pagesz = g.pagesz
      BY <1>1, <2>1, <3>1, <3>2, FromBucketFits
    <3> QED BY <1>1, <3>3
  <2> QED BY <2>2, <2>3
<1>2. CASE h.pagesz # 0
  BY <1>1, <1>2 DEF KmallocOutcomes
<1>3. CASE h.pagesz = 0
  <2>1. HeapInv(SetupDone(h)) /\ SetupDone(h).pagesz # 0
    BY SetupDoneInv
  <2> QED BY <1>1, <1>3, <2>1 DEF KmallocOutcomes
<1> QED BY <1>2, <1>3

\* There is no block before the first call of kmalloc.
NoneYet == heap.pagesz = 0 => DOMAIN heap.home = {}

LEMMA NoneYetStep ==
  ASSUME SetupMayFail = FALSE, IInv, NoneYet, [Next]_vars
  PROVE  NoneYet'
<1>1. HeapInv(heap) /\ Owns(heap, DOMAIN live, DOMAIN stale)
  BY DEF IInv
<1>2. Requests \subseteq Nat /\ Counts \subseteq Nat
  BY ClientAssumption
<1>3. ASSUME NEW n \in Nat, Kmalloc(n)
      PROVE  NoneYet'
  BY <1>1, <1>3, KmallocSets DEF Kmalloc, NoneYet
<1>4. ASSUME NEW nelem \in Counts, NEW elsize \in Requests, Kcalloc(nelem, elsize)
      PROVE  NoneYet'
  <2> DEFINE n == (nelem * elsize) % WordMod
  <2>1. n \in Nat
    BY <1>2, ProductWraps
  <2>2. PICK r \in KmallocOutcomes(heap, n) : heap' = r.heap
    BY <1>4 DEF Kcalloc
  <2> HIDE DEF n
  <2> QED BY <1>1, <2>1, <2>2, KmallocSets DEF NoneYet
<1>5. ASSUME NEW cp \in Pointers, Kfree(cp)
      PROVE  NoneYet'
  <2>1. heap'.pagesz = heap.pagesz /\ heap'.home = heap.home
    BY <1>1, <1>5 DEF Kfree, KfreeHeap, HeapInv, HeapType
  <2> QED BY <2>1 DEF NoneYet
<1>6. ASSUME NEW cp \in Pointers, NEW n \in Requests, Krealloc(cp, n)
      PROVE  NoneYet'
  <2>1. CASE Kmalloc(n)
    BY <1>2, <1>3, <2>1
  <2>2. CASE Kfree(cp)
    BY <1>5, <2>2
  <2>3. CASE cp # Null /\ Resize(cp, n)
    <3>1. cp - Overhead \in DOMAIN heap.home /\ n \in Nat
      BY <1>1, <1>2, <2>3 DEF Pointers, Owns
    <3>2. PICK r \in KreallocOutcomes(heap, cp, n) : heap' = r.heap
      BY <2>3 DEF Resize
    <3>3. CASE r = [heap |-> heap, ret |-> cp]
      BY <3>2, <3>3 DEF NoneYet
    <3>4. CASE r \in KmallocOutcomes(KfreeHeap(heap, cp), n)
      BY <1>1, <3>1, <3>2, <3>4, KfreeInv, KmallocSets DEF NoneYet
    <3> QED BY <3>2, <3>3, <3>4 DEF KreallocOutcomes
  <2> QED BY <1>6, <2>1, <2>2, <2>3 DEF Krealloc
<1>7. ASSUME NEW k \in ForeignMoves, ForeignSbrk(k)
      PROVE  NoneYet'
  <2>1. heap'.pagesz = heap.pagesz /\ heap'.home = heap.home
    BY <1>1, <1>7 DEF ForeignSbrk, HeapInv, HeapType
  <2> QED BY <2>1 DEF NoneYet
<1>8. ASSUME UNCHANGED vars
      PROVE  NoneYet'
  BY <1>8 DEF vars, NoneYet
<1> QED BY <1>2, <1>3, <1>4, <1>5, <1>6, <1>7, <1>8 DEF Next, Calls

\* HeapFits is what the properties say of remainders.
LEMMA FitsIsAligned ==
  ASSUME NEW h, HeapInv(h), h.pagesz = 0 => DOMAIN h.home = {}
  PROVE  HeapFits(h) <=>
         /\ \A a \in DOMAIN h.home : (a + Overhead) % Min2(Amt[h.home[a]], Page) = 0
         /\ h.pagesz # 0 => (h.brk + Overhead) % Page = 0
<1>1. Overhead \in Nat /\ Page \in Nat \ {0} /\ h.brk \in Nat
  <2>1. Overhead \in {4, 8}
    BY GeometryAssumption
  <2>2. Overhead \in Nat
    BY <2>1, SMT
  <2> QED BY <2>2, GeometryFacts, HeapFacts, SMT
<1>2. Multiple(h.brk + Overhead, Page) <=> (h.brk + Overhead) % Page = 0
  <2>1. h.brk + Overhead \in Nat
    BY <1>1, SMT
  <2> QED BY <1>1, <2>1, MultipleRemainder
<1>3. ASSUME NEW a \in DOMAIN h.home
      PROVE  Multiple(a + Overhead, Min2(Amt[h.home[a]], Page))
             <=> (a + Overhead) % Min2(Amt[h.home[a]], Page) = 0
  <2> DEFINE m == Min2(Amt[h.home[a]], Page)
  <2>1. a \in Nat /\ h.home[a] \in 0 .. Top - 1
    BY HeapFacts
  <2>2. Amt[h.home[a]] \in Nat \ {0} /\ Page \in Nat \ {0}
    BY <2>1, ExtentFacts, GeometryFacts, SMT
  <2>3. m \in Nat \ {0}
    BY <2>2 DEF Min2
  <2>4. a + Overhead \in Nat
    BY <1>1, <2>1, SMT
  <2> HIDE DEF m
  <2>5. Multiple(a + Overhead, m) <=> (a + Overhead) % m = 0
    BY <2>3, <2>4, MultipleRemainder
  <2> QED BY <2>5 DEF m
<1> QED BY <1>2, <1>3 DEF HeapFits

\* "align break pointer so all data will be page aligned" (kmalloc.c:163), which is done
\* once, is enough for every block there will be as long as other code moves the break by
\* whole pages or not at all.
THEOREM AlignedAlways ==
  ASSUME SetupMayFail = FALSE, PageMoves
  PROVE  Spec => []DataAligned
<1> DEFINE AInv == IInv /\ HeapFits(heap)
<1>1. Init => AInv
  <2> SUFFICES ASSUME Init PROVE HeapFits(heap)
    BY InitInv
  <2>1. heap.pagesz = 0 /\ DOMAIN heap.home = {}
    BY DEF Init
  <2> QED BY <2>1 DEF HeapFits
<1>2. AInv /\ [Next]_vars => AInv'
  BY Inductive, AlignStep DEF PageMoves
<1>3. AInv => DataAligned
  BY FitsIsAligned DEF IInv, HeapFits, DataAligned
<1> HIDE DEF AInv
<1>4. AInv /\ [Next]_vars => AInv'
  BY <1>2
<1> QED BY <1>1, <1>3, <1>4, PTL DEF Spec

\* Once the data and the break are aligned, no call of kmalloc, kcalloc, kfree or krealloc
\* changes that, whatever other code did to the break before.
THEOREM AloneAlways ==
  ASSUME SetupMayFail = FALSE
  PROVE  Spec => AlignedAlone
<1> DEFINE NInv == IInv /\ NoneYet
<1>1. Init => NInv
  BY InitInv DEF Init, NoneYet
<1>2. NInv /\ [Next]_vars => NInv'
  BY Inductive, NoneYetStep
<1>3. NInv /\ NInv' /\ [Next]_vars =>
        [(heap' # [heap EXCEPT !.brk = heap'.brk]) =>
           (DataAligned /\ BreakAligned => DataAligned' /\ BreakAligned')]_vars
  <2> SUFFICES ASSUME IInv, NoneYet, HeapInv(heap'), NoneYet', [Next]_vars,
                      heap' # [heap EXCEPT !.brk = heap'.brk], DataAligned, BreakAligned
               PROVE  DataAligned' /\ BreakAligned'
    BY DEF IInv
  <2>1. HeapFits(heap)
    BY FitsIsAligned DEF IInv, NoneYet, DataAligned, BreakAligned
  <2>2. ASSUME NEW k \in ForeignMoves, ForeignSbrk(k)
        PROVE  FALSE
    <3>1. heap' = [heap EXCEPT !.brk = @ + k] /\ heap'.brk = heap.brk + k
      BY <2>2 DEF ForeignSbrk, IInv, HeapInv, HeapType
    <3> QED BY <3>1
  <2>3. HeapFits(heap')
    BY <2>1, <2>2, AlignStep
  <2> QED BY <2>3, FitsIsAligned DEF NoneYet, DataAligned, BreakAligned
<1> HIDE DEF NInv
<1> QED BY <1>1, <1>2, <1>3, PTL DEF Spec, AlignedAlone

-----------------------------------------------------------------------------
(* The statistics.                                                           *)

\* Every block lies below the limit of memory.
Below(h) == \A a \in DOMAIN h.home : a < HeapLimit

\* No outcome of kmalloc puts a block above it.
LEMMA FromBucketBelow ==
  ASSUME NEW h, HeapInv(h), h.brk % 4 = 0, Below(h), NEW b \in Buckets, NEW r \in FromBucket(h, b)
  PROVE  Below(r.heap)
<1>1. CASE r = Refuse(h)
  BY <1>1 DEF Refuse
<1>2. CASE h.nextf[b] # Null /\ r = Take(h, b)
  <2>1. r.heap.home = h.home
    BY <1>2, TakeInv
  <2> QED BY <2>1 DEF Below
<1>3. CASE h.nextf[b] = Null /\ SbrkCan(h, b) /\ r = Take(Morecore(h, b), b)
  <2> DEFINE g   == Morecore(h, b)
             new == Carved(h.brk, b)
  <2>1. HeapInv(g) /\ g.nextf[b] # Null
    BY <1>3, MorecoreInv
  <2>2. b \in 0 .. Top - 1 /\ h.brk \in Nat \ {0} /\ DOMAIN h.word = DOMAIN h.home
    <3>1. b \in 0 .. Top - 1
      BY <1>3, GeometryAssumption, SMT DEF SbrkCan, Buckets
    <3> QED BY <3>1, HeapFacts
  <2>3. DOMAIN g.home = DOMAIN h.home \cup new
    BY <2>2 DEF Morecore, HeapInv, HeapType
  <2> HIDE DEF g, new
  <2>4. ASSUME NEW a \in new PROVE a < HeapLimit
    <3>1. a \in Nat /\ a + Extent(b) <= h.brk + SbrkAmt(b)
      BY <2>2, <2>4, CarvedFacts DEF new
    <3>2. Extent(b) \in Nat \ {0} /\ SbrkAmt(b) \in Nat /\ h.brk + SbrkAmt(b) <= HeapLimit
      BY <1>3, <2>2, ExtentFacts DEF SbrkCan
    <3> QED BY <2>2, <3>1, <3>2, EnvironmentAssumption, SMT
  <2>5. Below(g)
    BY <2>3, <2>4 DEF Below
  <2>6. r.heap.home = g.home
    BY <1>3, <2>1, TakeInv DEF g
  <2> QED BY <2>5, <2>6 DEF Below
<1> QED BY <1>1, <1>2, <1>3 DEF FromBucket

LEMMA AfterSetupBelow ==
  ASSUME NEW h, HeapInv(h), h.pagesz # 0, Below(h), NEW n \in Nat, NEW r \in AfterSetup(h, n)
  PROVE  Below(r.heap)
<1>1. h.brk % 4 = 0
  BY DEF HeapInv, HeapAligned
<1>2. CASE r = Refuse(h)
  BY <1>2 DEF Refuse
<1>3. CASE r # Refuse(h)
  <2>1. PICK k \in LoopExit(n) : r \in FromBucket(h, FirstBucket(h, n) + k)
    BY <1>3 DEF AfterSetup
  <2>2. FirstBucket(h, n) + k \in Buckets
    BY LoopInBuckets
  <2> QED BY <1>1, <2>1, <2>2, FromBucketBelow
<1> QED BY <1>2, <1>3

LEMMA KmallocBelow ==
  ASSUME NEW h, HeapInv(h), Below(h), NEW n \in Nat, NEW r \in KmallocOutcomes(h, n)
  PROVE  Below(r.heap)
<1>1. CASE h.pagesz # 0
  BY <1>1, AfterSetupBelow DEF KmallocOutcomes
<1>2. CASE r \in AfterSetup(SetupDone(h), n)
  <2> DEFINE g == SetupDone(h)
  <2>1. HeapInv(g) /\ g.pagesz # 0 /\ g.home = h.home
    BY SetupDoneInv
  <2>2. r \in AfterSetup(g, n)
    BY <1>2
  <2> HIDE DEF g
  <2>3. Below(g)
    BY <2>1 DEF Below
  <2> QED BY <2>1, <2>2, <2>3, AfterSetupBelow
<1>3. CASE r = Refuse(SetupFailed(h))
  <2>1. r.heap.home = h.home
    BY <1>3 DEF Refuse, SetupFailed, HeapInv, HeapType
  <2> QED BY <2>1 DEF Below
<1> QED BY <1>1, <1>2, <1>3 DEF KmallocOutcomes

\* Pointer cp, or none, leaves the client, and then one block at most comes to it.
Exchanges(cp) ==
  /\ DOMAIN live \ {cp} \subseteq DOMAIN live'
  /\ \A p, q \in DOMAIN live' \ (DOMAIN live \ {cp}) : p = q

\* What a call on cp, or on none, does to the blocks and to the client's pointers.
LEMMA ObtainExchanges ==
  ASSUME IInv, Below(heap), NEW n \in Nat, NEW r \in KmallocOutcomes(heap, n),
         heap' = r.heap, Obtain(r.ret, n)
  PROVE  Below(heap') /\ Exchanges(Null)
<1>1. Below(heap')
  BY KmallocBelow DEF IInv
<1>2. Null \notin DOMAIN live
  BY PointerPositive, SMT DEF Null
<1>3. CASE r.ret = Null
  <2>1. live' = live
    BY <1>3 DEF Obtain
  <2> QED BY <1>1, <1>2, <2>1 DEF Exchanges
<1>4. CASE r.ret # Null
  <2>1. DOMAIN live' = DOMAIN live \cup {r.ret}
    BY <1>4 DEF Obtain, Put
  <2> QED BY <1>1, <1>2, <2>1 DEF Exchanges
<1> QED BY <1>1, <1>3, <1>4

LEMMA KfreeExchanges ==
  ASSUME IInv, Below(heap), NEW cp \in Pointers, Kfree(cp)
  PROVE  Below(heap') /\ Exchanges(cp)
<1>1. heap'.home = heap.home
  BY DEF Kfree, KfreeHeap, IInv, HeapInv, HeapType
<1>2. DOMAIN live' = DOMAIN live \ {cp}
  BY DEF Kfree, Drop
<1> QED BY <1>1, <1>2 DEF Below, Exchanges

LEMMA ResizeExchanges ==
  ASSUME IInv, Below(heap), NEW cp \in DOMAIN live \cup DOMAIN stale, NEW n \in Nat, Resize(cp, n)
  PROVE  Below(heap') /\ Exchanges(cp)
<1>1. PICK r \in KreallocOutcomes(heap, cp, n) :
        /\ heap' = r.heap
        /\ IF r.ret = Null THEN live' = Drop(live, {cp})
           ELSE live' = Put(Drop(live, {cp}), r.ret, n)
  BY DEF Resize
<1>2. Below(heap')
  <2>1. CASE r = [heap |-> heap, ret |-> cp]
    BY <1>1, <2>1
  <2>2. CASE r \in KmallocOutcomes(KfreeHeap(heap, cp), n)
    <3> DEFINE g == KfreeHeap(heap, cp)
    <3>1. HeapInv(g) /\ g.home = heap.home
      BY KfreeInv DEF Owns, IInv
    <3> HIDE DEF g
    <3>2. Below(g)
      BY <3>1 DEF Below
    <3> QED BY <1>1, <2>2, <3>1, <3>2, KmallocBelow DEF g
  <2> QED BY <1>1, <2>1, <2>2 DEF KreallocOutcomes
<1>3. CASE r.ret = Null
  <2>1. DOMAIN live' = DOMAIN live \ {cp}
    BY <1>1, <1>3 DEF Drop
  <2> QED BY <1>2, <2>1 DEF Exchanges
<1>4. CASE r.ret # Null
  <2>1. DOMAIN live' = (DOMAIN live \ {cp}) \cup {r.ret}
    BY <1>1, <1>4 DEF Drop, Put
  <2> QED BY <1>2, <2>1 DEF Exchanges
<1> QED BY <1>3, <1>4

\* Each step of StatsNext counts what it exchanges, and a step of Next it is.
LEMMA StatsSteps ==
  ASSUME IInv, Below(heap), [StatsNext]_statsvars
  PROVE  /\ [Next]_vars /\ Below(heap')
         /\ \/ \E cp \in Pointers : Exchanges(cp) /\ Count(cp)
            \/ live' = live /\ heap'.home = heap.home /\ nmalloc' = nmalloc
<1> DEFINE Goal == /\ Below(heap')
                   /\ \/ \E cp \in Pointers : Exchanges(cp) /\ Count(cp)
                      \/ live' = live /\ heap'.home = heap.home /\ nmalloc' = nmalloc
<1>1. Requests \subseteq Nat /\ Counts \subseteq Nat /\ Null \in Pointers
  BY ClientAssumption DEF Pointers
<1>2. ASSUME NEW n \in Nat, Kmalloc(n), Count(Null)
      PROVE  Goal
  BY <1>1, <1>2, ObtainExchanges DEF Kmalloc
<1>3. ASSUME NEW nelem \in Counts, NEW elsize \in Requests, Kcalloc(nelem, elsize), Count(Null)
      PROVE  Goal
  <2> DEFINE n == (nelem * elsize) % WordMod
  <2>1. n \in Nat
    BY <1>1, ProductWraps
  <2>2. PICK r \in KmallocOutcomes(heap, n) : heap' = r.heap /\ Obtain(r.ret, n)
    BY <1>3 DEF Kcalloc
  <2> HIDE DEF n
  <2> QED BY <1>1, <1>3, <2>1, <2>2, ObtainExchanges
<1>4. ASSUME NEW cp \in Pointers, Kfree(cp), Count(cp)
      PROVE  Goal
  BY <1>4, KfreeExchanges
<1>5. ASSUME NEW cp \in Pointers, NEW n \in Requests, Krealloc(cp, n), Count(cp)
      PROVE  Goal
  <2>1. CASE cp = Null /\ Kmalloc(n)
    BY <1>1, <1>2, <1>5, <2>1
  <2>2. CASE Kfree(cp)
    BY <1>4, <1>5, <2>2
  <2>3. CASE cp # Null /\ Resize(cp, n)
    BY <1>1, <1>5, <2>3, ResizeExchanges DEF Pointers
  <2> QED BY <1>5, <2>1, <2>2, <2>3 DEF Krealloc
<1>6. ASSUME NEW k \in ForeignMoves, ForeignSbrk(k), UNCHANGED nmalloc
      PROVE  Goal
  <2>1. heap'.home = heap.home
    BY <1>6 DEF ForeignSbrk, IInv, HeapInv, HeapType
  <2> QED BY <1>6, <2>1 DEF ForeignSbrk, Below
<1>7. ASSUME UNCHANGED statsvars
      PROVE  Goal
  BY <1>7 DEF statsvars, vars
<1> HIDE DEF Goal
<1>8. Goal
  BY <1>1, <1>2, <1>3, <1>4, <1>5, <1>6, <1>7 DEF StatsNext, StatsCalls
<1>9. [Next]_vars
  BY DEF StatsNext, StatsCalls, Next, Calls, statsvars
<1> QED BY <1>8, <1>9 DEF Goal

\* The blocks of bucket b, and the client's pointers to such.
Blocks(h, b) == {a \in DOMAIN h.home : h.home[a] = b}
Holds(h, L, b) == {p \in L : h.home[p - Overhead] = b}

CountInv ==
  /\ ListInv /\ Below(heap)
  /\ \A b \in Buckets : nmalloc[b] = Cardinality(Holds(heap, DOMAIN live, b))

\* There are less blocks than addresses, so an unsigned can count them; and to each block in
\* use there is one pointer.
LEMMA BlocksFinite ==
  ASSUME HeapLimit <= WordMod, NEW h, NEW L, NEW S, HeapInv(h), Owns(h, L, S), Below(h), NEW b
  PROVE  /\ IsFiniteSet(Blocks(h, b)) /\ IsFiniteSet(Holds(h, L, b))
         /\ Cardinality(Holds(h, L, b)) \in 0 .. WordMod - 1
         /\ Cardinality(Holds(h, L, b)) + Cardinality(FreeBlocks(h, b)) = Cardinality(Blocks(h, b))
<1>1. /\ HeapLimit \in Nat /\ WordMod \in Nat \ {0} /\ Overhead \in Nat
      /\ \A a \in DOMAIN h.home : a \in Nat \ {0} /\ a < HeapLimit
  <2>1. Top \in 0 .. Top
    BY GeometryAssumption, SMT
  <2>2. Amt[Top] \in Nat \ {0}
    BY <2>1, GeometryFacts
  <2>3. WordMod \in Nat \ {0}
    BY <2>2, SMT DEF WordMod
  <2> QED BY <2>3, EnvironmentAssumption, GeometryAssumption, HeapFacts DEF Below
<1>2. IsFiniteSet(1 .. HeapLimit - 1) /\ Cardinality(1 .. HeapLimit - 1) \in 0 .. WordMod - 1
  <2>1. 1 \in Int /\ HeapLimit - 1 \in Int
    BY <1>1, SMT
  <2>2. /\ IsFiniteSet(1 .. HeapLimit - 1)
        /\ Cardinality(1 .. HeapLimit - 1) = IF 1 > HeapLimit - 1 THEN 0 ELSE (HeapLimit - 1) - 1 + 1
    BY <2>1, FS_Interval
  <2> DEFINE c == Cardinality(1 .. HeapLimit - 1)
  <2> HIDE DEF c
  <2>3. c \in 0 .. WordMod - 1
    BY <1>1, <2>2, SMT DEF c
  <2> QED BY <2>2, <2>3 DEF c
<1> DEFINE T == {a \in Blocks(h, b) : InUse(h, a)}
           I == 1 .. HeapLimit - 1
<1>3. Blocks(h, b) \in SUBSET I /\ T \in SUBSET I
  BY <1>1, SMT DEF Blocks
<1>4. IsFiniteSet(Blocks(h, b)) /\ IsFiniteSet(T) /\ Cardinality(T) <= Cardinality(I)
  BY <1>2, <1>3, FS_Subset
<1>5. /\ IsFiniteSet(Holds(h, L, b)) /\ Cardinality(Holds(h, L, b)) = Cardinality(T)
  <2> DEFINE f == [a \in T |-> a + Overhead]
  <2>1. \A p \in L : /\ p \in Nat /\ p - Overhead \in DOMAIN h.home
                               /\ InUse(h, p - Overhead) /\ (p - Overhead) + Overhead = p
    <3> SUFFICES ASSUME NEW p \in L
                 PROVE  /\ p \in Nat /\ p - Overhead \in DOMAIN h.home
                        /\ InUse(h, p - Overhead) /\ (p - Overhead) + Overhead = p
      OBVIOUS
    <3>1. p \in Nat /\ p - Overhead \in Used(h)
      BY DEF Owns
    <3>2. (p - Overhead) + Overhead = p
      BY <1>1, <3>1, SMT
    <3> QED BY <3>1, <3>2 DEF Used
  <2>2. \A a \in T : a + Overhead \in L /\ (a + Overhead) - Overhead = a
    <3> SUFFICES ASSUME NEW a \in T
                 PROVE  a + Overhead \in L /\ (a + Overhead) - Overhead = a
      OBVIOUS
    <3>1. a \in Nat /\ a \in Used(h)
      BY <1>1 DEF Used, Blocks
    <3>2. PICK p \in L : a = p - Overhead
      BY <3>1 DEF Owns
    <3>3. a + Overhead = p
      BY <2>1, <3>2
    <3>4. (a + Overhead) - Overhead = a
      BY <1>1, <3>1, SMT
    <3> QED BY <3>3, <3>4
  <2>3. \A p \in Holds(h, L, b) : p - Overhead \in T /\ (p - Overhead) + Overhead = p
    BY <2>1 DEF Holds, Blocks
  <2>4. \A a \in T : a + Overhead \in Holds(h, L, b)
    BY <2>2 DEF Holds, Blocks
  <2> HIDE DEF T
  <2>5. f \in [T -> Holds(h, L, b)] /\ \A a \in T : f[a] = a + Overhead
    BY <2>4
  <2> HIDE DEF f
  <2>6. f \in Surjection(T, Holds(h, L, b))
    BY <2>3, <2>5 DEF Surjection
  <2>7. \A a, c \in T : f[a] = f[c] => a = c
    BY <2>2, <2>5
  <2>8. f \in Bijection(T, Holds(h, L, b))
    BY <2>5, <2>6, <2>7 DEF Bijection, Injection, IsInjective
  <2>9. ExistsBijection(T, Holds(h, L, b))
    BY <2>8 DEF ExistsBijection
  <2> QED BY <1>4, <2>9, FS_Bijection
<1>6. Cardinality(T) + Cardinality(FreeBlocks(h, b)) = Cardinality(Blocks(h, b))
  <2> DEFINE F == FreeBlocks(h, b)
  <2>1. Blocks(h, b) = T \cup F /\ T \cap F = {} /\ F \in SUBSET Blocks(h, b)
    BY DEF Blocks, FreeBlocks
  <2>2. IsFiniteSet(F)
    BY <1>4, <2>1, FS_Subset
  <2>3. Cardinality(T) \in Nat /\ Cardinality(F) \in Nat
    BY <1>4, <2>2, FS_CardinalityType
  <2>4. Cardinality(T \cup F) = Cardinality(T) + Cardinality(F) - Cardinality({})
    BY <1>4, <2>1, <2>2, FS_Union
  <2> HIDE DEF T, F
  <2>5. Cardinality({}) = 0
    BY FS_EmptySet
  <2>6. Cardinality(T \cup F) = Cardinality(T) + Cardinality(F)
    <3> DEFINE x == Cardinality(T)
               y == Cardinality(F)
               z == Cardinality(T \cup F)
    <3>1. z = x + y - 0 /\ x \in Nat /\ y \in Nat
      BY <2>3, <2>4, <2>5
    <3> HIDE DEF x, y, z
    <3>2. z = x + y
      BY <3>1, SMT
    <3> QED BY <3>2 DEF x, y, z
  <2> QED BY <2>1, <2>6 DEF F
<1> HIDE DEF T, I
<1>7. Cardinality(T) \in 0 .. WordMod - 1
  <2>1. Cardinality(T) \in Nat
    BY <1>4, FS_CardinalityType
  <2> DEFINE x == Cardinality(T)
             y == Cardinality(I)
  <2>2. x \in Nat /\ x <= y /\ y \in 0 .. WordMod - 1
    BY <1>2, <1>4, <2>1 DEF I
  <2> HIDE DEF x, y
  <2>3. x \in 0 .. WordMod - 1
    BY <1>1, <2>2, SMT
  <2> QED BY <2>3 DEF x
<1> QED BY <1>4, <1>5, <1>6, <1>7

\* The length mstats prints is the number of free blocks.
LEMMA LengthIs ==
  ASSUME HeapLimit <= WordMod, CountInv, NEW b \in Buckets
  PROVE  Length(b) = Cardinality(FreeBlocks(heap, b))
<1> DEFINE k    == Cardinality(FreeBlocks(heap, b))
           m    == Cardinality(DOMAIN heap.word)
           node == ListNode(heap, b)
<1>0. HeapInv(heap) /\ ListsWhole(heap)
  BY DEF CountInv, ListInv, IInv
<1>1. /\ k \in Nat /\ node[k] = Null
      /\ {node[j] : j \in 0 .. k - 1} = FreeBlocks(heap, b)
  BY <1>0, ListFacts
<1>2. \A j \in 0 .. k - 1 : node[j] # Null
  BY <1>0, <1>1, HeapFacts, ZenonT(100) DEF FreeBlocks, Null
<1>3. k <= m /\ m \in Nat
  <2> DEFINE I == 1 .. HeapLimit - 1
  <2>1. DOMAIN heap.word = DOMAIN heap.home
    BY <1>0, HeapFacts
  <2>2. IsFiniteSet(I)
    <3>1. 1 \in Int /\ HeapLimit - 1 \in Int
      BY EnvironmentAssumption, SMT
    <3> QED BY <3>1, FS_Interval
  <2>3. DOMAIN heap.word \in SUBSET I
    <3> SUFFICES ASSUME NEW a \in DOMAIN heap.home PROVE a \in I
      BY <2>1
    <3>1. a \in Nat \ {0} /\ a < HeapLimit /\ HeapLimit \in Nat
      BY <1>0, HeapFacts, EnvironmentAssumption DEF CountInv, Below
    <3> QED BY <3>1, SMT
  <2>4. IsFiniteSet(DOMAIN heap.word)
    BY <2>2, <2>3, FS_Subset
  <2>5. FreeBlocks(heap, b) \in SUBSET DOMAIN heap.word
    BY <2>1 DEF FreeBlocks
  <2> QED BY <2>4, <2>5, FS_Subset, FS_CardinalityType
<1> HIDE DEF k, m, node
<1> DEFINE Is(j) == node[j] = Null /\ \A i \in 0 .. j - 1 : node[i] # Null
<1>4. k \in 0 .. m /\ Is(k)
  BY <1>1, <1>2, <1>3, SMT
<1>5. ASSUME NEW j \in 0 .. m, Is(j) PROVE j = k
  <2>1. j \in Nat /\ (j < k => j \in 0 .. k - 1) /\ (k < j => k \in 0 .. j - 1)
    BY <1>1, <1>3, SMT
  <2>2. ~(j < k) /\ ~(k < j)
    BY <1>1, <1>2, <1>5, <2>1
  <2> QED BY <1>1, <2>1, <2>2, SMT
<1>6. Length(b) = CHOOSE j \in 0 .. m : Is(j)
  BY DEF Length, m, node
<1> HIDE DEF Is
<1>7. (CHOOSE j \in 0 .. m : Is(j)) = k
  BY <1>4, <1>5
<1> QED BY <1>6, <1>7 DEF k

\* IInv makes the headers true: of the client's pointers exactly, and with the right bucket.
LEMMA HeadersOf ==
  ASSUME NEW h, NEW L, NEW S, HeapInv(h), Owns(h, L, S)
  PROVE  /\ \A p \in L : /\ p - Overhead \in DOMAIN h.home /\ InUse(h, p - Overhead)
                         /\ OvIndex(h.word[p - Overhead]) = h.home[p - Overhead]
         /\ \A p \in S : ~InUse(h, p - Overhead)
<1>1. \A p \in L : p - Overhead \in Used(h)
  BY DEF Owns
<1>2. ASSUME NEW p \in S, InUse(h, p - Overhead)
      PROVE  FALSE
  <2>1. p \in Nat /\ p - Overhead \in Used(h) /\ p \notin L
    BY <1>2 DEF Owns, Used
  <2>2. PICK q \in L : q - Overhead = p - Overhead /\ q \in Nat
    BY <2>1 DEF Owns
  <2>3. q = p
    BY <2>1, <2>2, GeometryAssumption, SMT
  <2> QED BY <2>1, <2>3
<1> QED BY <1>1, <1>2 DEF Used, HeapInv, IndexTrue

\* What a step counts is what it exchanges.
LEMMA CountsExchange ==
  ASSUME HeapLimit <= WordMod, CountInv, IInv', Below(heap'), NEW cp \in Pointers,
         Exchanges(cp), Count(cp), \A a \in DOMAIN heap.home : heap'.home[a] = heap.home[a],
         NEW b \in Buckets
  PROVE  nmalloc'[b] = Cardinality(Holds(heap', DOMAIN live', b))
<1> DEFINE rest == Holds(heap, DOMAIN live, b) \ {cp}
           came == {p \in DOMAIN live' \ (DOMAIN live \ {cp}) : heap'.home[p - Overhead] = b}
           old  == Cardinality(Holds(heap, DOMAIN live, b))
           new  == Cardinality(Holds(heap', DOMAIN live', b))
           in   == IF b \in Taken(cp) THEN 1 ELSE 0
           out  == IF b \in Freed(cp) THEN 1 ELSE 0
<1>0. IInv /\ Below(heap) /\ nmalloc[b] = old
  BY DEF CountInv, ListInv
<1>1. IsFiniteSet(Holds(heap, DOMAIN live, b)) /\ old \in 0 .. WordMod - 1
  BY <1>0, BlocksFinite DEF IInv
<1>2. new \in 0 .. WordMod - 1
  BY BlocksFinite DEF IInv
<1>3. Holds(heap', DOMAIN live', b) = rest \cup came
  <2>1. \A p \in DOMAIN live : p - Overhead \in DOMAIN heap.home
    BY <1>0, HeadersOf DEF IInv
  <2>2. \A p \in DOMAIN live \ {cp} : p \in DOMAIN live' /\ heap'.home[p - Overhead] = heap.home[p - Overhead]
    BY <2>1 DEF Exchanges
  <2> QED BY <2>2 DEF Holds
<1>4. b \in Freed(cp) <=> cp \in Holds(heap, DOMAIN live, b)
  <2>1. CASE cp = Null
    <3>1. Null \notin DOMAIN live
      BY <1>0, PointerPositive, SMT DEF Null
    <3> QED BY <2>1, <3>1 DEF Freed, Holds
  <2>2. CASE cp # Null
    BY <1>0, <2>2, HeadersOf DEF IInv, Freed, Holds, Pointers
  <2> QED BY <2>1, <2>2
<1>5. b \in Taken(cp) <=> came # {}
  <2>1. \A p \in DOMAIN live' : OvIndex(heap'.word[p - Overhead]) = heap'.home[p - Overhead]
    BY HeadersOf DEF IInv
  <2> QED BY <2>1 DEF Taken
<1>6. IsFiniteSet(rest) /\ Cardinality(rest) = old - out
  <2>1. /\ IsFiniteSet(rest)
        /\ Cardinality(rest) = IF cp \in Holds(heap, DOMAIN live, b) THEN old - 1 ELSE old
    BY <1>1, FS_RemoveElement
  <2> HIDE DEF rest, old
  <2>2. old - 0 = old
    BY <1>1, SMT
  <2> QED BY <1>4, <2>1, <2>2
<1>7. new = Cardinality(rest) + in
  <2>1. Cardinality(rest) \in Nat
    BY <1>6, FS_CardinalityType
  <2>2. CASE came = {}
    <3>1. Holds(heap', DOMAIN live', b) = rest /\ in = 0
      BY <1>3, <1>5, <2>2
    <3> HIDE DEF rest, came, in
    <3> QED BY <2>1, <3>1, SMT
  <2>3. CASE came # {}
    <3>1. PICK p : p \in came
      BY <2>3
    <3>2. came = {p} /\ p \notin rest
      BY <3>1 DEF Exchanges, Holds
    <3>3. Holds(heap', DOMAIN live', b) = rest \cup {p} /\ in = 1
      BY <1>3, <1>5, <2>3, <3>2
    <3> HIDE DEF rest, came, in
    <3> QED BY <1>6, <3>2, <3>3, FS_AddElement
  <2> QED BY <2>2, <2>3
<1>8. nmalloc'[b] = (nmalloc[b] + in - out) % WordMod
  BY DEF Count
<1>9. nmalloc'[b] = (old + in - out) % WordMod
  BY <1>0, <1>8
<1>10. WordMod \in Nat \ {0}
  <2>1. Top \in 0 .. Top
    BY GeometryAssumption, SMT
  <2>2. Amt[Top] \in Nat \ {0}
    BY <2>1, GeometryFacts
  <2> QED BY <2>2, SMT DEF WordMod
<1>11. in \in {0, 1} /\ out \in {0, 1}
  OBVIOUS
<1> HIDE DEF in, out, old, new, rest
<1>12. old + in - out = new
  BY <1>1, <1>2, <1>6, <1>7, <1>11, SMT
<1>13. new % WordMod = new
  BY <1>2, <1>10, SMT
<1> QED BY <1>9, <1>12, <1>13 DEF new

\* The counts are right in every state that the calls of a build with MSTATS reach.
THEOREM StatsSafety == ASSUME HeapLimit <= WordMod PROVE StatsSpec => []CountInv
<1>1. StatsInit => CountInv
  <2> SUFFICES ASSUME StatsInit PROVE CountInv
    OBVIOUS
  <2>1. Init /\ DOMAIN heap.home = {} /\ DOMAIN live = {} /\ \A b \in Buckets : nmalloc[b] = 0
    BY DEF StatsInit, Init
  <2>2. ListInv
    BY <2>1, ListInit
  <2>3. \A b : Holds(heap, DOMAIN live, b) = {}
    BY <2>1 DEF Holds
  <2>4. Cardinality({}) = 0
    BY FS_EmptySet
  <2> QED BY <2>1, <2>2, <2>3, <2>4 DEF CountInv, Below
<1>2. CountInv /\ [StatsNext]_statsvars => CountInv'
  <2> SUFFICES ASSUME CountInv, [StatsNext]_statsvars PROVE CountInv'
    OBVIOUS
  <2>0. IInv /\ Below(heap) /\ ListInv
    BY DEF CountInv, ListInv
  <2>1. /\ [Next]_vars /\ Below(heap')
        /\ \/ \E cp \in Pointers : Exchanges(cp) /\ Count(cp)
           \/ live' = live /\ heap'.home = heap.home /\ nmalloc' = nmalloc
    BY <2>0, StatsSteps
  <2>2. ListInv' /\ IInv'
    BY <2>0, <2>1, ListStep DEF ListInv
  <2>3. \A a \in DOMAIN heap.home : heap'.home[a] = heap.home[a]
    BY <2>0, <2>1, BucketsStay
  <2>4. ASSUME NEW b \in Buckets PROVE nmalloc'[b] = Cardinality(Holds(heap', DOMAIN live', b))
    <3>1. CASE \E cp \in Pointers : Exchanges(cp) /\ Count(cp)
      BY <2>1, <2>2, <2>3, <3>1, CountsExchange
    <3>2. CASE live' = live /\ heap'.home = heap.home /\ nmalloc' = nmalloc
      <4>1. Holds(heap', DOMAIN live', b) = Holds(heap, DOMAIN live, b)
        BY <3>2 DEF Holds
      <4> QED BY <3>2, <4>1 DEF CountInv
    <3> QED BY <2>1, <3>1, <3>2
  <2> QED BY <2>1, <2>2, <2>4 DEF CountInv
<1> QED BY <1>1, <1>2, PTL DEF StatsSpec

\* "nmalloc[i] is the difference between the number of mallocs and frees for a given block
\* size": it counts the client's blocks of that size, and with the length of the free list
\* all there are, where an unsigned can hold an address.
THEOREM StatsAlwaysTrue == ASSUME HeapLimit <= WordMod PROVE StatsSpec => []StatsTrue
<1>1. ASSUME CountInv PROVE StatsTrue
  <2>0. IInv /\ Below(heap)
    BY <1>1 DEF CountInv, ListInv
  <2>1. \A p \in DOMAIN stale : UsableSize(p) = 0
    BY <2>0, HeadersOf DEF IInv, UsableSize
  <2>2. \A p \in DOMAIN live : UsableSize(p) = heap.home[p - Overhead]
    <3> SUFFICES ASSUME NEW p \in DOMAIN live PROVE UsableSize(p) = heap.home[p - Overhead]
      OBVIOUS
    <3>1. p # Null
      BY <2>0, PointerPositive, SMT DEF Null
    <3> QED BY <2>0, <3>1, HeadersOf DEF IInv, UsableSize
  <2>3. ASSUME NEW b \in Buckets
        PROVE  /\ nmalloc[b] = Cardinality({p \in DOMAIN live : UsableSize(p) = b})
               /\ nmalloc[b] + Length(b) = Cardinality({a \in DOMAIN heap.home : heap.home[a] = b})
    <3>1. {p \in DOMAIN live : UsableSize(p) = b} = Holds(heap, DOMAIN live, b)
      BY <2>2 DEF Holds
    <3>2. nmalloc[b] = Cardinality(Holds(heap, DOMAIN live, b))
      BY <1>1 DEF CountInv
    <3>3. Length(b) = Cardinality(FreeBlocks(heap, b))
      BY <1>1, LengthIs
    <3>4. Cardinality(Holds(heap, DOMAIN live, b)) + Cardinality(FreeBlocks(heap, b)) = Cardinality(Blocks(heap, b))
      BY <2>0, BlocksFinite DEF IInv
    <3> QED BY <3>1, <3>2, <3>3, <3>4 DEF Blocks
  <2> QED BY <2>1, <2>3 DEF StatsTrue
<1>2. CountInv => StatsTrue
  BY <1>1
<1> QED BY <1>2, StatsSafety, PTL
=============================================================================
