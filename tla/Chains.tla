-------------------------------- MODULE Chains --------------------------------
(***************************************************************************)
(* Induction over the natural numbers and what it says about linked lists, *)
(* in a form the provers can use: the statement to prove for every n is a  *)
(* set of numbers, so no lemma takes an operator as a parameter.  It rests *)
(* on the library's theorem that the finite sets are well founded under    *)
(* strict inclusion, applied to the intervals 0 .. n.                      *)
(*                                                                         *)
(* The free lists of kmalloc.c, of its Rust port and of fixalloc are all   *)
(* a head and a link per block; RunsThrough is what it means that such a   *)
(* list is whole, and the lemmas after it what pushing, popping and        *)
(* chaining blocks do to it.                                               *)
(***************************************************************************)
EXTENDS Integers, FiniteSets, FiniteSetTheorems, TLAPS

-----------------------------------------------------------------------------
(* Induction and recursion.                                                  *)

\* A nonempty set of numbers has a least member.
LEMMA LeastNumber ==
  ASSUME NEW M \in SUBSET Nat, M # {}
  PROVE  \E m \in M : \A k \in M : m <= k
<1> DEFINE R == StrictSubsetOrdering(Nat)
           F == FiniteSubsetsOf(Nat)
           T == {0 .. m : m \in M}
<1>1. IsWellFoundedOn(R, F)
  BY FS_StrictSubsetOrderingWellFounded
<1>2. \A m \in M : 0 .. m \in SUBSET Nat /\ IsFiniteSet(0 .. m)
  BY FS_Interval
<1>3. T \subseteq F /\ T # {}
  BY <1>2 DEF FiniteSubsetsOf
<1> HIDE DEF R, F, T
<1>4. PICK x \in T : \A y \in T : ~(<<y, x>> \in R)
  BY <1>1, <1>3, WFMin
<1>5. PICK m \in M : x = 0 .. m
  BY <1>4 DEF T
<1>6. ASSUME NEW k \in M, ~(m <= k)
      PROVE  FALSE
  <2>1. m \in Nat /\ k \in Nat
    OBVIOUS
  <2>2. 0 .. k \in SUBSET Nat /\ 0 .. m \in SUBSET Nat /\ 0 .. k \subseteq 0 .. m
    BY <1>6, <2>1, SMT
  <2>3. m \in 0 .. m /\ m \notin 0 .. k
    BY <1>6, <2>1, SMT
  <2>4. <<0 .. k, 0 .. m>> \in R
    BY <2>2, <2>3 DEF R, StrictSubsetOrdering
  <2>5. 0 .. k \in T
    BY DEF T
  <2> QED BY <1>4, <1>5, <2>4, <2>5
<1> QED BY <1>6

\* A set that holds 0, and n + 1 whenever it holds a number n below N, holds all of 0 .. N.
LEMMA InductionTo ==
  ASSUME NEW N \in Nat, NEW S, 0 \in S, \A n \in 0 .. N - 1 : n \in S => n + 1 \in S
  PROVE  0 .. N \subseteq S
<1> DEFINE M == {n \in 0 .. N : n \notin S}
<1>1. SUFFICES ASSUME M # {} PROVE FALSE
  OBVIOUS
<1>2. M \in SUBSET Nat
  BY SMT
<1> HIDE DEF M
<1>3. PICK m \in M : \A k \in M : m <= k
  BY <1>1, <1>2, LeastNumber
<1>4. m \in 0 .. N /\ m \notin S /\ m # 0
  BY <1>3 DEF M
<1>5. m - 1 \in 0 .. N - 1 /\ m - 1 \in 0 .. N /\ (m - 1) + 1 = m /\ ~(m <= m - 1)
  BY <1>4, SMT
<1>6. m - 1 \in S
  BY <1>3, <1>5 DEF M
<1> QED BY <1>4, <1>5, <1>6

\* A set that holds 0, and n + 1 whenever it holds n, holds every number.
LEMMA NumberInduction ==
  ASSUME NEW S, 0 \in S, \A n \in Nat : n \in S => n + 1 \in S
  PROVE  Nat \subseteq S
<1> SUFFICES ASSUME NEW N \in Nat PROVE N \in S
  OBVIOUS
<1>1. \A n \in 0 .. N - 1 : n \in S => n + 1 \in S
  OBVIOUS
<1>2. 0 .. N \subseteq S
  BY <1>1, InductionTo, Zenon
<1> QED BY <1>2

\* g holds the first n + 1 values of the sequence that starts at first and goes on by step.
Segment(S, first, step, n, g) ==
  /\ g \in [0 .. n -> S] /\ g[0] = first
  /\ \A i \in 0 .. n - 1 : g[i + 1] = step[g[i]]

\* Two segments of one sequence agree where both are defined.
LEMMA SegmentsAgree ==
  ASSUME NEW S, NEW first, NEW step, NEW n \in Nat, NEW m \in Nat, n <= m,
         NEW f, Segment(S, first, step, n, f), NEW g, Segment(S, first, step, m, g)
  PROVE  \A i \in 0 .. n : f[i] = g[i]
<1> DEFINE Same == {i \in 0 .. n : f[i] = g[i]}
<1>1. 0 \in Same
  BY DEF Segment
<1>2. ASSUME NEW i \in 0 .. n - 1, i \in Same
      PROVE  i + 1 \in Same
  <2>1. i \in 0 .. m - 1 /\ i + 1 \in 0 .. n
    BY SMT
  <2> QED BY <1>2, <2>1 DEF Segment
<1> HIDE DEF Same
<1>3. 0 .. n \subseteq Same
  BY <1>1, <1>2, InductionTo, Zenon
<1> QED BY <1>3 DEF Same

\* Every segment can be made longer, so there is one of every length.
LEMMA SegmentExists ==
  ASSUME NEW S, NEW first \in S, NEW step \in [S -> S], NEW n \in Nat
  PROVE  \E g : Segment(S, first, step, n, g)
<1> DEFINE Reached == {k \in Nat : \E g : Segment(S, first, step, k, g)}
<1>1. 0 \in Reached
  <2> DEFINE g == [i \in 0 .. 0 |-> first]
  <2>1. g \in [0 .. 0 -> S] /\ g[0] = first /\ \A i \in 0 .. 0 - 1 : g[i + 1] = step[g[i]]
    BY SMT
  <2>2. Segment(S, first, step, 0, g)
    BY <2>1 DEF Segment
  <2> QED BY <2>2
<1>2. ASSUME NEW k \in Nat, k \in Reached
      PROVE  k + 1 \in Reached
  <2>1. PICK g : Segment(S, first, step, k, g)
    BY <1>2
  <2> DEFINE f == [i \in 0 .. k + 1 |-> IF i = k + 1 THEN step[g[k]] ELSE g[i]]
  <2>2. g \in [0 .. k -> S] /\ g[0] = first /\ \A i \in 0 .. k - 1 : g[i + 1] = step[g[i]]
    BY <2>1 DEF Segment
  <2>3. f \in [0 .. k + 1 -> S]
    BY <2>2, SMT
  <2>4. f[0] = first
    BY <2>2, SMT
  <2>5. ASSUME NEW i \in 0 .. (k + 1) - 1
        PROVE  f[i + 1] = step[f[i]]
    <3>1. i \in 0 .. k /\ i + 1 \in 0 .. k + 1 /\ i \in 0 .. k + 1 /\ i # k + 1
      BY SMT
    <3>2. CASE i = k
      BY <3>1, <3>2
    <3>3. CASE i # k
      <4>1. i \in 0 .. k - 1 /\ i + 1 # k + 1
        BY <3>1, <3>3, SMT
      <4> QED BY <2>2, <3>1, <4>1
    <3> QED BY <3>2, <3>3
  <2> HIDE DEF f
  <2>6. Segment(S, first, step, k + 1, f)
    BY <2>3, <2>4, <2>5 DEF Segment
  <2> QED BY <2>6
<1> HIDE DEF Reached
<1>3. Nat \subseteq Reached
  BY <1>1, <1>2, NumberInduction, Zenon
<1> QED BY <1>3 DEF Reached

\* The sequence itself: a sequence of numbers defined by its first value and its step exists.
LEMMA Recursion ==
  ASSUME NEW first \in Nat, NEW step \in [Nat -> Nat]
  PROVE  \E g \in [Nat -> Nat] : g[0] = first /\ \A n \in Nat : g[n + 1] = step[g[n]]
<1> DEFINE Part(n) == CHOOSE g : Segment(Nat, first, step, n, g)
           G == [n \in Nat |-> Part(n)[n]]
<1>1. \A n \in Nat : Segment(Nat, first, step, n, Part(n))
  BY SegmentExists
<1> HIDE DEF Part
<1>2. G \in [Nat -> Nat]
  <2> SUFFICES ASSUME NEW n \in Nat PROVE Part(n)[n] \in Nat
    OBVIOUS
  <2>1. Part(n) \in [0 .. n -> Nat] /\ n \in 0 .. n
    BY <1>1 DEF Segment
  <2> QED BY <2>1
<1>3. G[0] = first
  BY <1>1 DEF Segment
<1>4. ASSUME NEW n \in Nat
      PROVE  G[n + 1] = step[G[n]]
  <2>1. n + 1 \in Nat /\ n <= n + 1 /\ n \in 0 .. n /\ n \in 0 .. (n + 1) - 1
    BY SMT
  <2>2. Segment(Nat, first, step, n, Part(n)) /\ Segment(Nat, first, step, n + 1, Part(n + 1))
    BY <1>1, <2>1
  <2>3. Part(n)[n] = Part(n + 1)[n]
    BY <2>1, <2>2, SegmentsAgree
  <2>4. Part(n + 1)[n + 1] = step[Part(n + 1)[n]]
    BY <2>1, <2>2 DEF Segment
  <2> QED BY <2>1, <2>3, <2>4
<1> HIDE DEF G
<1> QED BY <1>2, <1>3, <1>4

-----------------------------------------------------------------------------
(* Linked lists.                                                             *)

\* s lists the n blocks that the list holds, in order, and nil after them.
ListedBy(first, link, S, nil, n, s) ==
  /\ n \in Nat /\ s \in [0 .. n -> S \cup {nil}] /\ nil \notin S
  /\ s[0] = first /\ s[n] = nil
  /\ \A i \in 0 .. n - 1 : s[i] \in S /\ link[s[i]] = s[i + 1]
  /\ \A x \in S : \E i \in 0 .. n - 1 : s[i] = x
  /\ \A i, j \in 0 .. n - 1 : s[i] = s[j] => i = j

\* The list that starts at first runs through every member of S once and ends in nil.
RunsThrough(first, link, S, nil) == \E n, s : ListedBy(first, link, S, nil, n, s)

\* The empty list.
LEMMA RunsEmpty ==
  ASSUME NEW link, NEW nil
  PROVE  RunsThrough(nil, link, {}, nil)
<1> DEFINE s == [i \in 0 .. 0 |-> nil]
<1>1. 0 \in Nat /\ s \in [0 .. 0 -> {} \cup {nil}] /\ s[0] = nil /\ 0 .. 0 - 1 = {}
  BY SMT
<1> HIDE DEF s
<1>2. ListedBy(nil, link, {}, nil, 0, s)
  BY <1>1 DEF ListedBy
<1> QED BY <1>2 DEF RunsThrough

\* The head is nil just when the list is empty, and else a member.
LEMMA RunsHead ==
  ASSUME NEW first, NEW link, NEW S, NEW nil, RunsThrough(first, link, S, nil)
  PROVE  /\ nil \notin S
         /\ first = nil <=> S = {}
         /\ first # nil => first \in S
<1>1. PICK n, s : ListedBy(first, link, S, nil, n, s)
  BY DEF RunsThrough
<1>2. CASE n = 0
  <2>1. 0 .. n - 1 = {}
    BY <1>2, SMT
  <2> QED BY <1>1, <1>2, <2>1 DEF ListedBy
<1>3. CASE n # 0
  <2>1. 0 \in 0 .. n - 1
    BY <1>1, <1>3, SMT DEF ListedBy
  <2> QED BY <1>1, <2>1 DEF ListedBy
<1> QED BY <1>2, <1>3

\* A change elsewhere does not touch the list.
LEMMA RunsSame ==
  ASSUME NEW first, NEW link, NEW S, NEW nil, RunsThrough(first, link, S, nil),
         NEW other, \A x \in S : other[x] = link[x]
  PROVE  RunsThrough(first, other, S, nil)
<1>1. PICK n, s : ListedBy(first, link, S, nil, n, s)
  BY DEF RunsThrough
<1>2. ListedBy(first, other, S, nil, n, s)
  BY <1>1 DEF ListedBy
<1> QED BY <1>2 DEF RunsThrough

\* Pushing a block that is not on the list.
LEMMA RunsPush ==
  ASSUME NEW first, NEW link, NEW S, NEW nil, RunsThrough(first, link, S, nil),
         NEW x, x \notin S, x # nil,
         NEW other, other[x] = first, \A y \in S : other[y] = link[y]
  PROVE  RunsThrough(x, other, S \cup {x}, nil)
<1>1. PICK n, s : ListedBy(first, link, S, nil, n, s)
  BY DEF RunsThrough
<1>2. /\ n \in Nat /\ s \in [0 .. n -> S \cup {nil}] /\ nil \notin S
      /\ s[0] = first /\ s[n] = nil
      /\ \A i \in 0 .. n - 1 : s[i] \in S /\ link[s[i]] = s[i + 1]
      /\ \A y \in S : \E i \in 0 .. n - 1 : s[i] = y
      /\ \A i, j \in 0 .. n - 1 : s[i] = s[j] => i = j
  BY <1>1 DEF ListedBy
<1> DEFINE T == S \cup {x}
           r == [i \in 0 .. n + 1 |-> IF i = 0 THEN x ELSE s[i - 1]]
<1>3. n + 1 \in Nat /\ 0 \in 0 .. n + 1 /\ n + 1 \in 0 .. n + 1 /\ n + 1 # 0 /\ (n + 1) - 1 = n
  BY <1>2, SMT
<1>4. \A i \in 0 .. n + 1 : i # 0 => i - 1 \in 0 .. n
  BY <1>2, SMT
<1>5. r \in [0 .. n + 1 -> T \cup {nil}] /\ r[0] = x /\ r[n + 1] = nil
  BY <1>2, <1>3, <1>4
<1>6. ASSUME NEW i \in 0 .. (n + 1) - 1
      PROVE  r[i] \in T /\ other[r[i]] = r[i + 1]
  <2>1. i \in 0 .. n + 1 /\ i + 1 \in 0 .. n + 1 /\ i + 1 # 0 /\ (i + 1) - 1 = i
    BY <1>2, SMT
  <2>2. CASE i = 0
    BY <1>2, <2>1, <2>2
  <2>3. CASE i # 0
    <3>1. i - 1 \in 0 .. n - 1 /\ (i - 1) + 1 = i
      BY <1>2, <2>3, SMT
    <3> QED BY <1>2, <2>1, <2>3, <3>1
  <2> QED BY <2>2, <2>3
<1>7. ASSUME NEW y \in T
      PROVE  \E i \in 0 .. (n + 1) - 1 : r[i] = y
  <2>1. CASE y = x
    <3>1. 0 \in 0 .. (n + 1) - 1
      BY <1>2, SMT
    <3> QED BY <1>5, <2>1, <3>1
  <2>2. CASE y # x
    <3>1. PICK i \in 0 .. n - 1 : s[i] = y
      BY <1>2, <2>2
    <3>2. i + 1 \in 0 .. (n + 1) - 1 /\ i + 1 \in 0 .. n + 1 /\ i + 1 # 0 /\ (i + 1) - 1 = i
      BY <1>2, SMT
    <3> QED BY <3>1, <3>2
  <2> QED BY <2>1, <2>2
<1>8. ASSUME NEW i \in 0 .. (n + 1) - 1, NEW j \in 0 .. (n + 1) - 1, r[i] = r[j]
      PROVE  i = j
  <2>1. \A k \in 0 .. (n + 1) - 1 :
          /\ k \in 0 .. n + 1
          /\ k # 0 => k - 1 \in 0 .. n - 1
    BY <1>2, SMT
  <2>2. ASSUME NEW k \in 0 .. (n + 1) - 1, k # 0
        PROVE  r[k] = s[k - 1] /\ r[k] \in S
    <3>1. k \in 0 .. n + 1 /\ k - 1 \in 0 .. n - 1
      BY <2>1, <2>2
    <3>2. r[k] = s[k - 1]
      BY <2>2, <3>1
    <3> QED BY <1>2, <3>1, <3>2
  <2>3. i = 0 <=> j = 0
    <3> HIDE DEF r
    <3>1. r[i] = x <=> i = 0
      BY <1>5, <2>2
    <3>2. r[j] = x <=> j = 0
      BY <1>5, <2>2
    <3> QED BY <1>8, <3>1, <3>2
  <2>4. CASE i # 0 /\ j # 0
    <3>1. i - 1 = j - 1
      BY <1>2, <1>8, <2>1, <2>2, <2>4
    <3> QED BY <3>1, SMT
  <2> QED BY <2>3, <2>4
<1> HIDE DEF r, T
<1>9. nil \notin T
  BY <1>2 DEF T
<1>10. ListedBy(x, other, T, nil, n + 1, r)
  BY <1>3, <1>5, <1>6, <1>7, <1>8, <1>9 DEF ListedBy
<1> QED BY <1>10 DEF RunsThrough, T

\* Popping the head.
LEMMA RunsPop ==
  ASSUME NEW first, NEW link, NEW S, NEW nil, RunsThrough(first, link, S, nil), first # nil,
         NEW other, \A y \in S \ {first} : other[y] = link[y]
  PROVE  first \in S /\ RunsThrough(link[first], other, S \ {first}, nil)
<1>1. PICK n, s : ListedBy(first, link, S, nil, n, s)
  BY DEF RunsThrough
<1>2. /\ n \in Nat /\ s \in [0 .. n -> S \cup {nil}] /\ nil \notin S
      /\ s[0] = first /\ s[n] = nil
      /\ \A i \in 0 .. n - 1 : s[i] \in S /\ link[s[i]] = s[i + 1]
      /\ \A y \in S : \E i \in 0 .. n - 1 : s[i] = y
      /\ \A i, j \in 0 .. n - 1 : s[i] = s[j] => i = j
  BY <1>1 DEF ListedBy
<1>3. n # 0
  BY <1>2
<1>4. n - 1 \in Nat /\ 0 \in 0 .. n - 1 /\ (n - 1) + 1 = n
  BY <1>2, <1>3, SMT
<1>5. first \in S
  BY <1>2, <1>4
<1> DEFINE T == S \ {first}
           r == [i \in 0 .. n - 1 |-> s[i + 1]]
<1>6. \A i \in 0 .. n - 1 : i + 1 \in 0 .. n /\ (i # n - 1 => i + 1 \in 0 .. n - 1) /\ i + 1 # 0
  BY <1>2, SMT
<1>7. \A i \in 0 .. n - 1 : i # 0 => s[i] \in T
  BY <1>2, <1>4
<1>8. \A i \in 0 .. n - 1 : i # n - 1 => r[i] \in T
  BY <1>6, <1>7
<1>9. r[n - 1] = nil /\ r[0] = link[first]
  <2>1. n - 1 \in 0 .. n - 1 /\ 0 + 1 = 1
    BY <1>4, SMT
  <2> QED BY <1>2, <1>4, <2>1
<1>10. r \in [0 .. n - 1 -> T \cup {nil}]
  BY <1>8, <1>9
<1>11. ASSUME NEW i \in 0 .. (n - 1) - 1
       PROVE  r[i] \in T /\ other[r[i]] = r[i + 1]
  <2>1. i \in 0 .. n - 1 /\ i # n - 1 /\ i + 1 \in 0 .. n - 1
    BY <1>2, SMT
  <2>2. r[i] \in T /\ r[i] = s[i + 1] /\ r[i + 1] = s[(i + 1) + 1]
    BY <1>8, <2>1
  <2> QED BY <1>2, <2>1, <2>2
<1>12. ASSUME NEW y \in T
       PROVE  \E i \in 0 .. (n - 1) - 1 : r[i] = y
  <2>1. PICK i \in 0 .. n - 1 : s[i] = y
    BY <1>2
  <2>2. i # 0
    BY <1>2, <2>1
  <2>3. i - 1 \in 0 .. (n - 1) - 1 /\ i - 1 \in 0 .. n - 1 /\ (i - 1) + 1 = i
    BY <1>2, <2>2, SMT
  <2> QED BY <2>1, <2>3
<1>13. ASSUME NEW i \in 0 .. (n - 1) - 1, NEW j \in 0 .. (n - 1) - 1, r[i] = r[j]
       PROVE  i = j
  <2>1. i \in 0 .. n - 1 /\ j \in 0 .. n - 1 /\ i + 1 \in 0 .. n - 1 /\ j + 1 \in 0 .. n - 1
    BY <1>2, SMT
  <2>2. i + 1 = j + 1
    BY <1>2, <1>13, <2>1
  <2> QED BY <2>2, SMT
<1> HIDE DEF r, T
<1>14. nil \notin T
  BY <1>2 DEF T
<1>15. ListedBy(link[first], other, T, nil, n - 1, r)
  BY <1>4, <1>9, <1>10, <1>11, <1>12, <1>13, <1>14 DEF ListedBy
<1> QED BY <1>5, <1>15 DEF RunsThrough, T

\* Chaining one more block behind the last.
LEMMA RunsExtend ==
  ASSUME NEW first, NEW link, NEW S, NEW nil, RunsThrough(first, link, S, nil),
         NEW last \in S, link[last] = nil, NEW x, x \notin S, x # nil,
         NEW other, other[last] = x, other[x] = nil,
         \A y \in S \ {last} : other[y] = link[y]
  PROVE  RunsThrough(first, other, S \cup {x}, nil)
<1>1. PICK n, s : ListedBy(first, link, S, nil, n, s)
  BY DEF RunsThrough
<1>2. /\ n \in Nat /\ s \in [0 .. n -> S \cup {nil}] /\ nil \notin S
      /\ s[0] = first /\ s[n] = nil
      /\ \A i \in 0 .. n - 1 : s[i] \in S /\ link[s[i]] = s[i + 1]
      /\ \A y \in S : \E i \in 0 .. n - 1 : s[i] = y
      /\ \A i, j \in 0 .. n - 1 : s[i] = s[j] => i = j
  BY <1>1 DEF ListedBy
<1>3. n # 0 /\ n - 1 \in 0 .. n - 1 /\ s[n - 1] = last
  <2>1. PICK k \in 0 .. n - 1 : s[k] = last
    BY <1>2
  <2>2. k + 1 \in 0 .. n /\ (k + 1 # n => k + 1 \in 0 .. n - 1)
    BY <1>2, SMT
  <2>3. s[k + 1] = nil
    BY <1>2, <2>1
  <2>4. k + 1 = n
    BY <1>2, <2>2, <2>3
  <2>5. k = n - 1 /\ n # 0
    BY <1>2, <2>4, SMT
  <2> QED BY <2>1, <2>5
<1> DEFINE T == S \cup {x}
           r == [i \in 0 .. n + 1 |-> IF i = n THEN x ELSE IF i = n + 1 THEN nil ELSE s[i]]
<1>4. /\ n + 1 \in Nat /\ n + 1 \in 0 .. n + 1 /\ n \in 0 .. n + 1 /\ 0 \in 0 .. n + 1
      /\ n + 1 # n /\ n + 1 # 0
  BY <1>2, SMT
<1>5. \A i \in 0 .. n + 1 : i # n /\ i # n + 1 => i \in 0 .. n - 1
  BY <1>2, SMT
<1>6. \A i \in 0 .. n - 1 : i \in 0 .. n + 1 /\ i # n /\ i # n + 1
  BY <1>2, SMT
<1>7. r[n] = x /\ r[n + 1] = nil /\ \A i \in 0 .. n - 1 : r[i] = s[i] /\ r[i] \in S
  BY <1>2, <1>4, <1>6
<1>8. \A i \in 0 .. (n + 1) - 1 : i = n \/ i \in 0 .. n - 1
  BY <1>2, SMT
<1>9. r \in [0 .. n + 1 -> T \cup {nil}]
  <2>1. \A i \in 0 .. n + 1 : r[i] \in T \cup {nil}
    BY <1>5, <1>7
  <2> QED BY <2>1
<1> HIDE DEF r, T
<1>10. r[0] = first
  <2>1. 0 \in 0 .. n - 1
    BY <1>2, <1>3, SMT
  <2> QED BY <1>2, <1>7, <2>1
<1>11. ASSUME NEW i \in 0 .. (n + 1) - 1
       PROVE  r[i] \in T /\ other[r[i]] = r[i + 1]
  <2>1. CASE i = n
    BY <1>7, <2>1 DEF T
  <2>2. CASE i = n - 1
    <3>1. r[i] = last /\ i + 1 = n
      BY <1>2, <1>3, <1>7, <2>2
    <3> QED BY <1>7, <3>1 DEF T
  <2>3. CASE i # n /\ i # n - 1
    <3>1. i \in 0 .. n - 1 /\ i + 1 \in 0 .. n - 1
      BY <1>2, <2>3, SMT
    <3>2. s[i] # last
      BY <1>2, <1>3, <2>3, <3>1
    <3> QED BY <1>2, <1>7, <3>1, <3>2 DEF T
  <2> QED BY <2>1, <2>2, <2>3
<1>12. ASSUME NEW y \in T
       PROVE  \E i \in 0 .. (n + 1) - 1 : r[i] = y
  <2>1. n \in 0 .. (n + 1) - 1 /\ \A i \in 0 .. n - 1 : i \in 0 .. (n + 1) - 1
    BY <1>2, SMT
  <2> QED BY <1>2, <1>7, <2>1 DEF T
<1>13. ASSUME NEW i \in 0 .. (n + 1) - 1, NEW j \in 0 .. (n + 1) - 1, r[i] = r[j]
       PROVE  i = j
  <2>1. CASE i \in 0 .. n - 1 /\ j \in 0 .. n - 1
    BY <1>2, <1>7, <1>13, <2>1
  <2>2. CASE i = n \/ j = n
    BY <1>7, <1>8, <1>13, <2>2
  <2> QED BY <1>8, <2>1, <2>2
<1>14. nil \notin T
  BY <1>2 DEF T
<1>15. ListedBy(first, other, T, nil, n + 1, r)
  BY <1>4, <1>7, <1>9, <1>10, <1>11, <1>12, <1>13, <1>14 DEF ListedBy
<1> QED BY <1>15 DEF RunsThrough, T

\* A set whose members a one-to-one sequence counts is finite and has that many.
LEMMA CountedOnce ==
  ASSUME NEW S, NEW n \in Nat, NEW s, \A i \in 0 .. n - 1 : s[i] \in S,
         \A x \in S : \E i \in 0 .. n - 1 : s[i] = x,
         \A i, j \in 0 .. n - 1 : s[i] = s[j] => i = j
  PROVE  IsFiniteSet(S) /\ Cardinality(S) = n
<1> DEFINE I == 0 .. n - 1
           r == [i \in I |-> s[i]]
<1>1. IsFiniteSet(I) /\ Cardinality(I) = n
  <2>1. 0 \in Int /\ n - 1 \in Int
    BY SMT
  <2>2. IsFiniteSet(I) /\ Cardinality(I) = IF 0 > n - 1 THEN 0 ELSE (n - 1) - 0 + 1
    BY <2>1, FS_Interval
  <2> HIDE DEF I
  <2> QED BY <2>2, SMT
<1>2. r \in [I -> S] /\ \A i \in I : r[i] = s[i]
  OBVIOUS
<1> HIDE DEF r
<1>3. r \in Bijection(I, S)
  BY <1>2 DEF Bijection, Injection, Surjection, IsInjective
<1> HIDE DEF I
<1>4. ExistsBijection(I, S)
  BY <1>3 DEF ExistsBijection
<1> QED BY <1>1, <1>4, FS_Bijection

\* Following the links from the head, as the code does, meets every member and then nil.
LEMMA RunsWalk ==
  ASSUME NEW first, NEW link, NEW S, NEW nil, RunsThrough(first, link, S, nil),
         NEW node, node[0] = first,
         \A j \in 0 .. Cardinality(S) - 1 : node[j] \in S => node[j + 1] = link[node[j]]
  PROVE  /\ IsFiniteSet(S) /\ Cardinality(S) \in Nat
         /\ {node[j] : j \in 0 .. Cardinality(S) - 1} = S
         /\ node[Cardinality(S)] = nil /\ nil \notin S
<1>1. PICK n, s : ListedBy(first, link, S, nil, n, s)
  BY DEF RunsThrough
<1>2. /\ n \in Nat /\ nil \notin S /\ s[0] = first /\ s[n] = nil
      /\ \A i \in 0 .. n - 1 : s[i] \in S /\ link[s[i]] = s[i + 1]
      /\ \A y \in S : \E i \in 0 .. n - 1 : s[i] = y
      /\ \A i, j \in 0 .. n - 1 : s[i] = s[j] => i = j
  BY <1>1 DEF ListedBy
<1>3. IsFiniteSet(S) /\ Cardinality(S) = n
  BY <1>2, CountedOnce
<1> DEFINE Same == {j \in 0 .. n : node[j] = s[j]}
<1>4. 0 \in Same
  BY <1>2, SMT
<1>5. ASSUME NEW j \in 0 .. n - 1, j \in Same
      PROVE  j + 1 \in Same
  <2>1. j + 1 \in 0 .. n
    BY <1>2, SMT
  <2>2. node[j] = s[j] /\ s[j] \in S /\ link[s[j]] = s[j + 1]
    BY <1>2, <1>5
  <2>3. node[j + 1] = link[node[j]]
    BY <1>3, <2>2
  <2> QED BY <2>1, <2>2, <2>3
<1> HIDE DEF Same
<1>6. 0 .. n \subseteq Same
  BY <1>2, <1>4, <1>5, InductionTo, Zenon
<1>7. \A j \in 0 .. n : node[j] = s[j]
  BY <1>6 DEF Same
<1>8. n \in 0 .. n /\ \A j \in 0 .. n - 1 : j \in 0 .. n
  BY <1>2, SMT
<1> QED BY <1>2, <1>3, <1>7, <1>8
===============================================================================
