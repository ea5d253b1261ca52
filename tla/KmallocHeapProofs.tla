-------------------------- MODULE KmallocHeapProofs --------------------------
(***************************************************************************)
(* Lemmas about the operators of KmallocHeap.tla, for every geometry: the  *)
(* two bytes of a header word, the sizes of blocks and of what morecore    *)
(* reserves, the padding of the first call, where morecore's loop cuts     *)
(* memory, and what a walk of a free list reads.  The proofs about Kmalloc *)
(* and KmallocThreads rest on them.                                        *)
(***************************************************************************)
EXTENDS KmallocHeap, Chains, TLAPS

\* Division with remainder, in the form the alignment arithmetic needs.
LEMMA DivFacts ==
  ASSUME NEW x \in Nat, NEW y \in Nat \ {0}
  PROVE  /\ x \div y \in Nat /\ x % y \in 0 .. y - 1
         /\ x = (y * (x \div y)) + (x % y)
  BY SMT

\* A multiple of 4 leaves no remainder: the solver sees it for a single factor only.
LEMMA FourTimes ==
  ASSUME NEW k \in Int
  PROVE  (4 * k) % 4 = 0
  BY SMT

\* Every multiple of a size that 4 divides is divisible by 4.
LEMMA Mult4 ==
  ASSUME NEW i \in Int, NEW a \in Int, a % 4 = 0
  PROVE  (i * a) % 4 = 0
<1>1. PICK q \in Int : a = 4 * q
  BY SMT
<1>2. i * a = 4 * (i * q)
  BY <1>1, SMT
<1>3. i * q \in Int
  BY <1>1, SMT
<1> QED BY <1>2, <1>3, FourTimes

\* Multiplication by a natural number is monotone: block i ends before block j starts.
LEMMA MultMono ==
  ASSUME NEW i \in Nat, NEW j \in Nat, NEW a \in Nat, i <= j
  PROVE  i * a <= j * a
  BY SMT

\* The stamp of kmalloc (ov_magic = MAGIC, ov_index = bucket): both bytes read back as
\* written, whatever the rest of the word holds, because a bucket index fits in a u_char.
LEMMA StampFacts ==
  ASSUME NEW w \in Nat, NEW b \in 0 .. 255
  PROVE  /\ Stamp(w, b) \in Nat
         /\ OvMagic(Stamp(w, b)) = MAGIC
         /\ OvIndex(Stamp(w, b)) = b
<1> DEFINE q == w \div 65536
           s == q * 65536 + 256 * b + 239
<1>1. q \in Nat
  BY SMT
<1> HIDE DEF q
<1>2. s \in Nat /\ s % 256 = 239
  BY <1>1, SMT
<1>3. s \div 256 = q * 256 + b
  BY <1>1, SMT
<1>4. (s \div 256) % 256 = b
  BY <1>1, <1>3, SMT
<1>5. Stamp(w, b) = s
  BY DEF Stamp, MAGIC, q
<1> QED BY <1>2, <1>4, <1>5 DEF OvMagic, OvIndex, MAGIC

\* "ov_magic can not be a valid ov_next bit pattern": a word whose bottom two bits are
\* zero, as the null pointer's and every block address's are, is never taken for MAGIC.
LEMMA AlignedIsFree ==
  ASSUME NEW w \in Nat, w % 4 = 0
  PROVE  OvMagic(w) # MAGIC
  BY SMT DEF OvMagic, MAGIC

\* The sizes 8 << b are multiples of 8 and grow with b.
LEMMA AmtFacts ==
  /\ \A b \in 0 .. Top : Amt[b] \in Nat \ {0} /\ Amt[b] % 8 = 0
  /\ \A b, c \in 0 .. Top : b < c => Amt[b] < Amt[c]
<1>1. /\ Top \in Nat /\ Amt \in [0 .. Top -> Nat \ {0}] /\ Amt[0] = 8
      /\ \A b \in 0 .. Top - 1 : b \in 0 .. Top /\ b + 1 \in 0 .. Top /\ Amt[b + 1] = 2 * Amt[b]
  BY GeometryAssumption, SMT
<1>2. \A b \in 0 .. Top : Amt[b] % 8 = 0
  <2> DEFINE Eights == {b \in 0 .. Top : Amt[b] % 8 = 0}
  <2>1. 0 \in Eights
    BY <1>1, SMT
  <2>2. ASSUME NEW b \in 0 .. Top - 1, b \in Eights
        PROVE  b + 1 \in Eights
    <3>1. Amt[b] \in Nat /\ Amt[b] % 8 = 0
      BY <1>1, <2>2
    <3>2. (2 * Amt[b]) % 8 = 0
      BY <3>1, SMT
    <3> QED BY <1>1, <3>2
  <2> HIDE DEF Eights
  <2>3. 0 .. Top \subseteq Eights
    BY <1>1, <2>1, <2>2, InductionTo, Zenon
  <2> QED BY <2>3 DEF Eights
<1>3. ASSUME NEW b \in 0 .. Top, NEW c \in 0 .. Top, b < c
      PROVE  Amt[b] < Amt[c]
  <2> DEFINE Larger == {i \in 0 .. c : b < i => Amt[b] < Amt[i]}
  <2>1. 0 \in Larger
    BY SMT
  <2>2. ASSUME NEW i \in 0 .. c - 1, i \in Larger
        PROVE  i + 1 \in Larger
    <3>1. i \in 0 .. Top - 1 /\ i + 1 \in 0 .. c
      BY <1>1, SMT
    <3>2. Amt[b] \in Nat \ {0} /\ Amt[i] \in Nat \ {0} /\ Amt[i + 1] = 2 * Amt[i]
      BY <1>1, <3>1
    <3>3. b < i + 1 => b = i \/ b < i
      BY <3>1, SMT
    <3> QED BY <2>2, <3>1, <3>2, <3>3, SMT
  <2> HIDE DEF Larger
  <2>3. c \in Nat /\ c \in 0 .. c
    BY SMT
  <2>4. 0 .. c \subseteq Larger
    BY <2>1, <2>2, <2>3, InductionTo, Zenon
  <2> QED BY <1>3, <2>3, <2>4 DEF Larger
<1> QED BY <1>1, <1>2, <1>3

\* The page bucket exists and the block sizes are positive multiples of 4.
LEMMA GeometryFacts ==
  /\ PageBucket \in 0 .. Top - 1 /\ Amt[PageBucket] = Page
  /\ Page \in Nat /\ Page >= 8 /\ Page % 8 = 0
  /\ \A b \in 0 .. Top : Amt[b] \in Nat \ {0} /\ Amt[b] % 4 = 0
<1>1. PageBucket \in 0 .. Top - 1 /\ Amt[PageBucket] = Page
  BY GeometryAssumption DEF PageBucket
<1>2. \A b \in 0 .. Top : Amt[b] \in Nat \ {0} /\ Amt[b] % 8 = 0
  BY AmtFacts
<1>3. \A m \in Nat \ {0} : m % 8 = 0 => m % 4 = 0 /\ m >= 8
  BY SMT
<1>4. PageBucket \in 0 .. Top
  BY <1>1, GeometryAssumption
<1> QED BY <1>1, <1>2, <1>3, <1>4

\* The blocks that one sbrk of morecore is cut into fit in what it asked for.
LEMMA ExtentFacts ==
  ASSUME NEW b \in 0 .. Top - 1
  PROVE  /\ b \in 0 .. Top /\ b \in Buckets /\ b \in 0 .. 255
         /\ Amt[b] \in Nat \ {0} /\ Amt[b] % 4 = 0
         /\ Extent(b) \in Nat \ {0} /\ NBlocks(b) \in Nat \ {0}
         /\ SbrkAmt(b) \in Nat \ {0} /\ SbrkAmt(b) % 4 = 0
         /\ NBlocks(b) = 1 => Extent(b) <= SbrkAmt(b)
         /\ NBlocks(b) > 1 => Extent(b) = Amt[b] /\ NBlocks(b) * Amt[b] <= SbrkAmt(b)
<1>1. b \in 0 .. Top /\ b \in Buckets /\ b \in 0 .. 255
  BY GeometryAssumption, SMT DEF Buckets
<1>2. Amt[b] \in Nat \ {0} /\ Amt[b] % 4 = 0
  BY <1>1, GeometryFacts
<1>3. Page \in Nat /\ Page >= 8 /\ Page % 4 = 0
  BY GeometryFacts, SMT
<1>4. CASE Amt[b] < Page
  <2> DEFINE q == Page \div Amt[b]
             r == Page % Amt[b]
             m == Amt[b] * q
  <2>1. q \in Nat /\ r \in 0 .. Amt[b] - 1 /\ Page = m + r
    BY <1>2, <1>3, DivFacts
  <2>2. q # 0 /\ m = q * Amt[b]
    <3>1. q = 0 => m = 0
      BY <1>2, SMT
    <3>2. m = q * Amt[b]
      BY <1>2, <2>1, SMT
    <3>3. m \in Int
      BY <1>2, <2>1, SMT
    <3> HIDE DEF q, r, m
    <3> QED BY <1>2, <1>3, <1>4, <2>1, <3>1, <3>2, <3>3, SMT
  <2>3. q * Amt[b] <= Page
    <3>1. m \in Int
      BY <1>2, <2>1, SMT
    <3> HIDE DEF q, r, m
    <3> QED BY <1>2, <1>3, <2>1, <2>2, <3>1, SMT
  <2>4. Extent(b) = Amt[b] /\ NBlocks(b) = q /\ SbrkAmt(b) = Page
    BY <1>4 DEF Extent, NBlocks, SbrkAmt
  <2>5. Extent(b) <= SbrkAmt(b)
    BY <1>2, <1>3, <1>4, <2>4, SMT
  <2> HIDE DEF q, r, m
  <2> QED BY <1>1, <1>2, <1>3, <2>1, <2>2, <2>3, <2>4, <2>5
<1>5. CASE ~(Amt[b] < Page)
  <2>1. Extent(b) = Amt[b] + Page /\ NBlocks(b) = 1 /\ SbrkAmt(b) = Amt[b] + Page
    BY <1>5 DEF Extent, NBlocks, SbrkAmt
  <2> QED BY <1>1, <1>2, <1>3, <2>1, SMT
<1> QED BY <1>4, <1>5

\* The first call's padding is not negative and leaves the break on a multiple of 4.
LEMMA PaddingFacts ==
  ASSUME NEW brk \in Nat
  PROVE  Padding(brk) \in Nat /\ (brk + Padding(brk)) % 4 = 0
<1>1. Page \in Nat \ {0} /\ Page >= 8 /\ Page % 4 = 0 /\ Overhead \in {4, 8}
  BY GeometryFacts, GeometryAssumption, SMTT(60)
<1> DEFINE r == brk % Page
           q == brk \div Page
           m == Page * q
<1>2. q \in Nat /\ r \in 0 .. Page - 1 /\ brk = m + r
  BY <1>1, DivFacts
<1>3. m \in Int /\ m % 4 = 0
  BY <1>1, <1>2, Mult4, SMT
<1> HIDE DEF r, q, m
<1>4. CASE Page - Overhead - r < 0
  <2>1. Padding(brk) = Page - Overhead - r + Page
    BY <1>4 DEF Padding, r
  <2> QED BY <1>1, <1>2, <1>3, <2>1, SMT
<1>5. CASE ~(Page - Overhead - r < 0)
  <2>1. Padding(brk) = Page - Overhead - r
    BY <1>5 DEF Padding, r
  <2> QED BY <1>1, <1>2, <1>3, <1>5, <2>1, SMT
<1> QED BY <1>4, <1>5

\* The loop of morecore: its blocks are aligned, lie in the new memory, share no byte, and
\* the address after a block that is not the last is the next block.
LEMMA CarvedFacts ==
  ASSUME NEW b \in 0 .. Top - 1, NEW op \in Nat \ {0}, op % 4 = 0
  PROVE  /\ \A a \in Carved(op, b) :
              /\ a \in Nat \ {0} /\ a % 4 = 0
              /\ op <= a /\ a + Extent(b) <= op + SbrkAmt(b)
         /\ \A a, c \in Carved(op, b) :
              a # c => a + Extent(b) <= c \/ c + Extent(b) <= a
         /\ op \in Carved(op, b)
         /\ \A a \in Carved(op, b) :
              a # op + (NBlocks(b) - 1) * Amt[b] => a + Amt[b] \in Carved(op, b)
<1> DEFINE N == NBlocks(b)
           A == Amt[b]
<1>1. A \in Nat \ {0} /\ A % 4 = 0 /\ N \in Nat \ {0} /\ Extent(b) \in Nat \ {0}
      /\ SbrkAmt(b) \in Nat
  BY ExtentFacts
<1>2. N = 1 => Extent(b) <= SbrkAmt(b)
  BY ExtentFacts
<1>3. N > 1 => Extent(b) = A /\ N * A <= SbrkAmt(b)
  BY ExtentFacts
<1>4. Carved(op, b) = {op + i * A : i \in 0 .. N - 1}
  BY DEF Carved
<1> HIDE DEF N, A
<1>5. \A i \in Nat : i * A \in Nat /\ (i * A) % 4 = 0 /\ (i + 1) * A = i * A + A
  <2> SUFFICES ASSUME NEW i \in Nat
               PROVE  i * A \in Nat /\ (i * A) % 4 = 0 /\ (i + 1) * A = i * A + A
    OBVIOUS
  <2>1. i \in Int /\ A \in Int /\ A % 4 = 0
    BY <1>1
  <2>2. (i * A) % 4 = 0
    BY <2>1, Mult4
  <2>3. i * A \in Nat /\ (i + 1) * A = i * A + A
    BY <1>1, SMT
  <2> QED BY <2>2, <2>3
<1>6. \A i, j \in Nat : i < j => i * A + A <= j * A
  <2> SUFFICES ASSUME NEW i \in Nat, NEW j \in Nat, i < j
               PROVE  (i + 1) * A <= j * A
    BY <1>5
  <2>1. i + 1 \in Nat /\ i + 1 <= j /\ A \in Nat
    BY <1>1, SMT
  <2> QED BY <2>1, MultMono
<1>7. ASSUME NEW i \in 0 .. N - 1
      PROVE  op + i * A + Extent(b) <= op + SbrkAmt(b)
  <2> DEFINE x == i * A
             y == N * A
  <2>1. x \in Nat /\ y \in Nat /\ x + A <= y
    BY <1>1, <1>5, <1>6, SMT
  <2>2. CASE N = 1
    <3>1. i = 0 /\ 0 * A = 0
      BY <1>1, <2>2, SMT
    <3> QED BY <1>1, <1>2, <2>2, <3>1, SMT
  <2>3. CASE N > 1
    <3> HIDE DEF x, y
    <3>1. y <= SbrkAmt(b) /\ Extent(b) = A
      BY <1>3, <2>3 DEF y
    <3>2. op + x + Extent(b) <= op + SbrkAmt(b)
      BY <1>1, <2>1, <3>1, SMT
    <3> QED BY <3>2 DEF x
  <2> QED BY <1>1, <2>2, <2>3, SMT
<1>8. ASSUME NEW a \in Carved(op, b)
      PROVE  a \in Nat \ {0} /\ a % 4 = 0 /\ op <= a /\ a + Extent(b) <= op + SbrkAmt(b)
  <2>1. PICK i \in 0 .. N - 1 : a = op + i * A
    BY <1>4
  <2> DEFINE x == i * A
  <2>2. x \in Nat /\ x % 4 = 0 /\ a = op + x
    BY <1>1, <1>5, <2>1, SMT
  <2>3. a + Extent(b) <= op + SbrkAmt(b)
    BY <1>7, <2>1
  <2> HIDE DEF x
  <2> QED BY <2>2, <2>3, SMT
<1>9. ASSUME NEW a \in Carved(op, b), NEW c \in Carved(op, b), a # c
      PROVE  a + Extent(b) <= c \/ c + Extent(b) <= a
  <2>1. PICK i \in 0 .. N - 1 : a = op + i * A
    BY <1>4
  <2>2. PICK j \in 0 .. N - 1 : c = op + j * A
    BY <1>4
  <2> DEFINE x == i * A
             y == j * A
  <2>3. N > 1
    <3>1. N = 1 => i = 0 /\ j = 0
      BY <1>1, SMT
    <3> QED BY <1>1, <1>9, <2>1, <2>2, <3>1, SMT
  <2>4. Extent(b) = A
    BY <1>3, <2>3
  <2>5. x \in Nat /\ y \in Nat /\ (i < j => x + A <= y) /\ (j < i => y + A <= x)
    BY <1>1, <1>5, <1>6, SMT
  <2>6. i < j \/ j < i
    BY <1>9, <2>1, <2>2, SMT
  <2>7. a = op + x /\ c = op + y
    BY <2>1, <2>2
  <2> HIDE DEF x, y
  <2> QED BY <1>1, <2>4, <2>5, <2>6, <2>7, SMT
<1>10. op \in Carved(op, b)
  <2>1. 0 \in 0 .. N - 1 /\ op = op + 0 * A
    BY <1>1, SMT
  <2> QED BY <1>4, <2>1
<1>11. ASSUME NEW a \in Carved(op, b), a # op + (N - 1) * A
       PROVE  a + A \in Carved(op, b)
  <2>1. PICK i \in 0 .. N - 1 : a = op + i * A
    BY <1>4
  <2>2. i # N - 1
    BY <1>11, <2>1
  <2>3. i + 1 \in 0 .. N - 1 /\ i \in Nat
    BY <1>1, <2>2, SMT
  <2> DEFINE x == i * A
  <2>4. x \in Nat /\ (i + 1) * A = x + A /\ a = op + x
    BY <1>5, <2>1, <2>3
  <2> HIDE DEF x
  <2>5. a + A = op + (i + 1) * A
    BY <1>1, <2>4, SMT
  <2> QED BY <1>4, <2>3, <2>5
<1> QED BY <1>8, <1>9, <1>10, <1>11 DEF N, A

\* The sequence that findbucket and mstats follow is defined step by step.
LEMMA ListNodeSteps ==
  ASSUME NEW h, NEW b, h.nextf[b] \in Nat, \A a \in DOMAIN h.word : h.word[a] \in Nat
  PROVE  /\ ListNode(h, b)[0] = h.nextf[b]
         /\ \A j \in Nat : /\ ListNode(h, b)[j] \in Nat
                           /\ ListNode(h, b)[j + 1] = IF ListNode(h, b)[j] \in DOMAIN h.word
                                                     THEN h.word[ListNode(h, b)[j]] ELSE Null
<1> DEFINE step == [x \in Nat |-> IF x \in DOMAIN h.word THEN h.word[x] ELSE Null]
           After(node) == [j \in Nat |-> IF j = 0 THEN h.nextf[b]
                                        ELSE IF node[j - 1] \in DOMAIN h.word THEN h.word[node[j - 1]]
                                        ELSE Null]
<1>1. step \in [Nat -> Nat]
  BY DEF Null
<1> HIDE DEF step
<1>2. PICK g \in [Nat -> Nat] : g[0] = h.nextf[b] /\ \A n \in Nat : g[n + 1] = step[g[n]]
  BY <1>1, Recursion
<1>3. g = After(g)
  <2>1. ASSUME NEW j \in Nat, j # 0
        PROVE  g[j] = IF g[j - 1] \in DOMAIN h.word THEN h.word[g[j - 1]] ELSE Null
    <3>1. j - 1 \in Nat /\ (j - 1) + 1 = j
      BY <2>1, SMT
    <3>2. g[j] = step[g[j - 1]] /\ g[j - 1] \in Nat
      BY <1>2, <3>1
    <3> QED BY <3>2 DEF step
  <2>2. \A j \in Nat : g[j] = After(g)[j]
    BY <1>2, <2>1
  <2> QED BY <2>2
<1> HIDE DEF After
<1>4. ListNode(h, b) = CHOOSE node : node = After(node)
  BY DEF ListNode, After
<1>5. ListNode(h, b) = After(ListNode(h, b))
  BY <1>3, <1>4
<1> DEFINE node == ListNode(h, b)
<1> HIDE DEF node
<1>6. \A j \in Nat : node[j] = IF j = 0 THEN h.nextf[b]
                              ELSE IF node[j - 1] \in DOMAIN h.word THEN h.word[node[j - 1]]
                              ELSE Null
  BY <1>5 DEF After, node
<1>7. \A j \in Nat : node[j] \in Nat
  BY <1>6 DEF Null
<1>8. ASSUME NEW j \in Nat
      PROVE  node[j + 1] = IF node[j] \in DOMAIN h.word THEN h.word[node[j]] ELSE Null
  <2>1. j + 1 \in Nat /\ j + 1 # 0 /\ (j + 1) - 1 = j
    BY SMT
  <2> QED BY <1>6, <2>1
<1> QED BY <1>6, <1>7, <1>8 DEF node
=============================================================================
