---------------------------- MODULE FixAllocProofs ----------------------------
(***************************************************************************)
(* Proofs about the Go version of FixAlloc.tla, for every size of chunks,  *)
(* links and objects, and for every amount of memory that others take.     *)
(*                                                                         *)
(* As in KmallocProofs the invariant speaks of the links one by one (the   *)
(* list's head, and the link of a freed object, is null or a freed object, *)
(* and nothing is linked to twice).  It adds where objects may lie, what   *)
(* is left of the chunk, and that what was never handed out was never      *)
(* written.  The list as a whole comes at the end, on top of it.           *)
(***************************************************************************)
EXTENDS FixAlloc, Chains, TLAPS

Struct == [size : Nat, list : Nat, chunk : Nat, nchunk : Nat, nalloc : Nat,
           inuse : Int, zero : BOOLEAN]

Shapes ==
  /\ f \in Struct
  /\ next \in [Freed -> Nat] /\ Freed \subseteq Nat \ {0}
  /\ live \subseteq Nat \ {0} /\ chunks \subseteq Nat /\ dirty \subseteq Nat
  /\ brk \in Nat \ {0} /\ ret \in Nat /\ ended \in BOOLEAN

\* Before init nothing has happened; after it the fields that stay have their values.
Start ==
  /\ f.size = 0 => f = ZeroStruct /\ Objects = {} /\ chunks = {} /\ dirty = {} /\ ret = Nil
  /\ f.size # 0 => /\ f.zero /\ LinkSize =< f.size
                   /\ f.size =< f.nalloc /\ f.nalloc =< FixAllocChunk
                   /\ \E k \in Nat : f.nalloc = k * f.size
                   /\ \E k \in Nat : f.nchunk = k * f.size
                   /\ f.nchunk =< f.nalloc

Links ==
  /\ live \cap Freed = {}
  /\ f.list # Nil => f.list \in Freed
  /\ \A a \in Freed : next[a] # Nil => next[a] \in Freed /\ next[a] # f.list
  /\ \A a, c \in Freed : a # c /\ next[a] # Nil => next[a] # next[c]

InPlace == \A p \in Objects : p + f.size =< brk /\ Object(p) \subseteq Owned

Apart == \A p, q \in Objects : p # q => p + f.size =< q \/ q + f.size =< p

Uncut ==
  /\ f.nchunk # 0 => f.chunk # 0 /\ f.chunk + f.nchunk =< brk
  /\ Span(f.chunk, f.nchunk) \subseteq Owned
  /\ \A p \in Objects : f.nchunk # 0 => p + f.size =< f.chunk \/ f.chunk + f.nchunk =< p

Clean ==
  /\ \A a \in dirty : a < brk /\ a \notin Span(f.chunk, f.nchunk)
  /\ HandedOutZero

IInv == Shapes /\ Start /\ Links /\ InPlace /\ Apart /\ Uncut /\ Clean

-----------------------------------------------------------------------------
(* Arithmetic, and the fields of the struct after each operation.            *)

\* What init computes as nalloc: the largest multiple of size that a chunk holds.
LEMMA Multiple ==
  ASSUME NEW c \in Nat, NEW s \in Nat \ {0}, s =< c
  PROVE  /\ c \div s \in Nat /\ (c \div s) * s \in Nat
         /\ s =< (c \div s) * s /\ (c \div s) * s =< c
<1> DEFINE q == c \div s
<1>1. q \in Nat /\ c % s \in 0 .. s - 1 /\ c = (s * q) + (c % s)
  BY SMT
<1>2. q # 0
  BY <1>1, SMT
<1> HIDE DEF q
<1>3. s * q \in Nat /\ q * s = s * q
  BY <1>1, SMT
<1>4. s =< s * q
  BY <1>1, <1>2, SMT
<1>5. s * q =< c
  <2>1. c % s \in Nat
    BY <1>1, SMT
  <2> QED BY <1>1, <1>3, <2>1, SMT
<1> QED BY <1>1, <1>3, <1>4, <1>5, SMT DEF q

\* A multiple of size that is smaller than size is zero: no remainder is wasted.
LEMMA NoRemainder ==
  ASSUME NEW k \in Nat, NEW s \in Nat \ {0}, k * s < s
  PROVE  k * s = 0
<1>1. CASE k = 0
  BY <1>1, SMT
<1>2. CASE k >= 1
  <2>1. k * s >= s
    BY <1>2, SMT
  <2>2. k * s \in Nat
    BY SMT
  <2> QED BY <2>1, <2>2, SMT
<1> QED BY <1>1, <1>2, SMT

\* Cutting one object from a multiple of size leaves a multiple of size.
LEMMA OneLess ==
  ASSUME NEW k \in Nat, NEW s \in Nat \ {0}, s =< k * s
  PROVE  \E j \in Nat : k * s - s = j * s
<1>1. k # 0
  BY SMT
<1>2. k - 1 \in Nat /\ k * s - s = (k - 1) * s
  BY <1>1, SMT
<1> QED BY <1>2

\* Assignments to one field leave the others alone.
LEMMA SetList ==
  ASSUME NEW g \in Struct, NEW v \in Nat
  PROVE  LET h == [g EXCEPT !.list = v]
         IN  /\ h \in Struct /\ h.list = v /\ h.size = g.size /\ h.chunk = g.chunk
             /\ h.nchunk = g.nchunk /\ h.nalloc = g.nalloc /\ h.inuse = g.inuse /\ h.zero = g.zero
  BY DEF Struct

LEMMA SetChunk ==
  ASSUME NEW g \in Struct, NEW v \in Nat
  PROVE  LET h == [g EXCEPT !.chunk = v]
         IN  /\ h \in Struct /\ h.chunk = v /\ h.size = g.size /\ h.list = g.list
             /\ h.nchunk = g.nchunk /\ h.nalloc = g.nalloc /\ h.inuse = g.inuse /\ h.zero = g.zero
  BY DEF Struct

LEMMA SetNchunk ==
  ASSUME NEW g \in Struct, NEW v \in Nat
  PROVE  LET h == [g EXCEPT !.nchunk = v]
         IN  /\ h \in Struct /\ h.nchunk = v /\ h.size = g.size /\ h.list = g.list
             /\ h.chunk = g.chunk /\ h.nalloc = g.nalloc /\ h.inuse = g.inuse /\ h.zero = g.zero
  BY DEF Struct

LEMMA SetInuse ==
  ASSUME NEW g \in Struct, NEW v \in Int
  PROVE  LET h == [g EXCEPT !.inuse = v]
         IN  /\ h \in Struct /\ h.inuse = v /\ h.size = g.size /\ h.list = g.list
             /\ h.chunk = g.chunk /\ h.nchunk = g.nchunk /\ h.nalloc = g.nalloc /\ h.zero = g.zero
  BY DEF Struct

LEMMA SetSize ==
  ASSUME NEW g \in Struct, NEW v \in Nat
  PROVE  LET h == [g EXCEPT !.size = v]
         IN  /\ h \in Struct /\ h.size = v /\ h.list = g.list /\ h.chunk = g.chunk
             /\ h.nchunk = g.nchunk /\ h.nalloc = g.nalloc /\ h.inuse = g.inuse /\ h.zero = g.zero
  BY DEF Struct

LEMMA SetNalloc ==
  ASSUME NEW g \in Struct, NEW v \in Nat
  PROVE  LET h == [g EXCEPT !.nalloc = v]
         IN  /\ h \in Struct /\ h.nalloc = v /\ h.size = g.size /\ h.list = g.list
             /\ h.chunk = g.chunk /\ h.nchunk = g.nchunk /\ h.inuse = g.inuse /\ h.zero = g.zero
  BY DEF Struct

LEMMA SetZero ==
  ASSUME NEW g \in Struct, NEW v \in BOOLEAN
  PROVE  LET h == [g EXCEPT !.zero = v]
         IN  /\ h \in Struct /\ h.zero = v /\ h.size = g.size /\ h.list = g.list
             /\ h.chunk = g.chunk /\ h.nchunk = g.nchunk /\ h.nalloc = g.nalloc /\ h.inuse = g.inuse
  BY DEF Struct

LEMMA ZeroFields ==
  LET g == ZeroStruct
  IN  /\ g \in Struct /\ g.size = 0 /\ g.list = Nil /\ g.chunk = 0 /\ g.nchunk = 0
      /\ g.nalloc = 0 /\ g.inuse = 0 /\ g.zero = FALSE
  BY DEF ZeroStruct, Struct, Nil

LEMMA InitFields ==
  ASSUME NEW s \in Nat \ {0}, s =< FixAllocChunk
  PROVE  LET g == InitStruct(s)
         IN  /\ g \in Struct /\ g.size = s /\ g.list = Nil /\ g.chunk = 0 /\ g.nchunk = 0
             /\ g.nalloc = (FixAllocChunk \div s) * s /\ g.inuse = 0 /\ g.zero = TRUE
<1> DEFINE n == (FixAllocChunk \div s) * s
<1>1. n \in Nat
  BY Multiple, FixAllocAssumption
<1> HIDE DEF n
<1> DEFINE f1 == [ZeroStruct EXCEPT !.size = s]
           f2 == [f1 EXCEPT !.nalloc = n]
<1>2. /\ f1 \in Struct /\ f1.size = s /\ f1.list = Nil /\ f1.chunk = 0 /\ f1.nchunk = 0
      /\ f1.nalloc = 0 /\ f1.inuse = 0 /\ f1.zero = FALSE
  BY ZeroFields, SetSize
<1> HIDE DEF f1
<1>3. /\ f2 \in Struct /\ f2.size = s /\ f2.list = Nil /\ f2.chunk = 0 /\ f2.nchunk = 0
      /\ f2.nalloc = n /\ f2.inuse = 0 /\ f2.zero = FALSE
  BY <1>1, <1>2, SetNalloc
<1>4. InitStruct(s) = [f2 EXCEPT !.zero = TRUE]
  BY DEF InitStruct, f1, n
<1> HIDE DEF f2
<1> QED BY <1>3, <1>4, SetZero, ZenonT(100) DEF n

\* The struct after an object is cut, after one is taken from the list, after one is freed.
LEMMA CutFields ==
  ASSUME f \in Struct, NEW start \in Nat, NEW n \in Nat, f.size =< n
  PROVE  LET g == Cut(start, n)
         IN  /\ g \in Struct /\ g.size = f.size /\ g.list = f.list /\ g.chunk = start + f.size
             /\ g.nchunk = n - f.size /\ g.nalloc = f.nalloc /\ g.inuse = f.inuse + f.size
             /\ g.zero = f.zero
<1>1. n - f.size \in Nat /\ start + f.size \in Nat /\ f.inuse + f.size \in Int
  BY DEF Struct
<1> DEFINE f1 == [f EXCEPT !.chunk = start + f.size]
           f2 == [f1 EXCEPT !.nchunk = n - f.size]
           f3 == [f2 EXCEPT !.inuse = f.inuse + f.size]
<1>2. /\ f1 \in Struct /\ f1.size = f.size /\ f1.list = f.list /\ f1.chunk = start + f.size
      /\ f1.nalloc = f.nalloc /\ f1.inuse = f.inuse /\ f1.zero = f.zero
  BY <1>1, SetChunk
<1> HIDE DEF f1
<1>3. /\ f2 \in Struct /\ f2.size = f.size /\ f2.list = f.list /\ f2.chunk = start + f.size
      /\ f2.nchunk = n - f.size /\ f2.nalloc = f.nalloc /\ f2.inuse = f.inuse /\ f2.zero = f.zero
  BY <1>1, <1>2, SetNchunk
<1>4. Cut(start, n) = [f2 EXCEPT !.inuse = f2.inuse + f.size]
  BY DEF Cut, f1
<1> HIDE DEF f2
<1>5. Cut(start, n) = f3
  BY <1>3, <1>4
<1> QED BY <1>1, <1>3, <1>5, SetInuse

LEMMA PopFields ==
  ASSUME f \in Struct, next[f.list] \in Nat
  PROVE  LET g == PopList
         IN  /\ g \in Struct /\ g.size = f.size /\ g.list = next[f.list] /\ g.chunk = f.chunk
             /\ g.nchunk = f.nchunk /\ g.nalloc = f.nalloc /\ g.inuse = f.inuse + f.size
             /\ g.zero = f.zero
<1>1. f.inuse + f.size \in Int
  BY DEF Struct
<1> DEFINE f1 == [f EXCEPT !.list = next[f.list]]
<1>2. /\ f1 \in Struct /\ f1.size = f.size /\ f1.list = next[f.list] /\ f1.chunk = f.chunk
      /\ f1.nchunk = f.nchunk /\ f1.nalloc = f.nalloc /\ f1.inuse = f.inuse /\ f1.zero = f.zero
  BY SetList
<1>3. PopList = [f1 EXCEPT !.inuse = f1.inuse + f.size]
  BY DEF PopList
<1> HIDE DEF f1
<1>4. PopList = [f1 EXCEPT !.inuse = f.inuse + f.size]
  BY <1>2, <1>3
<1> QED BY <1>1, <1>2, <1>4, SetInuse

LEMMA PushFields ==
  ASSUME f \in Struct, NEW p \in Nat
  PROVE  LET g == PushList(p)
         IN  /\ g \in Struct /\ g.size = f.size /\ g.list = p /\ g.chunk = f.chunk
             /\ g.nchunk = f.nchunk /\ g.nalloc = f.nalloc /\ g.inuse = f.inuse - f.size
             /\ g.zero = f.zero
<1>1. f.inuse - f.size \in Int
  BY DEF Struct
<1> DEFINE f1 == [f EXCEPT !.list = p]
<1>2. /\ f1 \in Struct /\ f1.size = f.size /\ f1.list = p /\ f1.chunk = f.chunk
      /\ f1.nchunk = f.nchunk /\ f1.nalloc = f.nalloc /\ f1.inuse = f.inuse /\ f1.zero = f.zero
  BY SetList
<1>3. PushList(p) = [f1 EXCEPT !.inuse = f1.inuse - f.size]
  BY DEF PushList
<1> HIDE DEF f1
<1>4. PushList(p) = [f1 EXCEPT !.inuse = f.inuse - f.size]
  BY <1>2, <1>3
<1> QED BY <1>1, <1>2, <1>4, SetInuse

-----------------------------------------------------------------------------
(* Init and the steps.                                                       *)

LEMMA InitInv == Init => IInv
<1> SUFFICES ASSUME Init PROVE IInv
  OBVIOUS
<1>1. ZeroStruct \in Struct /\ ZeroStruct.size = 0 /\ ZeroStruct.nchunk = 0 /\ ZeroStruct.list = Nil
  BY ZeroFields
<1>2. f = ZeroStruct /\ Freed = {} /\ live = {} /\ Objects = {}
  BY DEF Init, Freed, Objects
<1>3. Shapes
  <2>1. next \in [Freed -> Nat]
    BY <1>2 DEF Init, Freed
  <2>2. /\ chunks = {} /\ dirty = {} /\ live = {} /\ brk = 1 /\ ret = 0 /\ ended = FALSE
    BY DEF Init, Nil
  <2>3. brk \in Nat \ {0} /\ ret \in Nat
    BY <2>2
  <2>4. f \in Struct
    BY <1>1, <1>2
  <2> QED BY <1>2, <2>1, <2>2, <2>3, <2>4 DEF Shapes
<1>4. Start /\ Links /\ InPlace /\ Apart
  BY <1>1, <1>2 DEF Init, Start, Links, InPlace, Apart
<1>5. Uncut
  <2>1. Span(f.chunk, f.nchunk) = {}
    BY <1>1, <1>2 DEF Span, ZeroStruct
  <2> QED BY <1>1, <1>2, <2>1 DEF Uncut
<1>6. Clean
  BY <1>2 DEF Init, Clean, HandedOutZero
<1> QED BY <1>3, <1>4, <1>5, <1>6 DEF IInv

\* What happens when init, or alloc before init, gives up.
LEMMA ThrowStep == IInv /\ Throw => IInv'
<1> SUFFICES ASSUME IInv, Throw PROVE IInv'
  OBVIOUS
<1>1. ended' = TRUE /\ UNCHANGED <<f, next, dirty, chunks, brk, live, ret>>
  BY DEF Throw
<1>2. Freed' = Freed /\ Objects' = Objects /\ Owned' = Owned
  BY <1>1 DEF Freed, Objects, Owned
<1>3. Shapes'
  BY <1>1, <1>2 DEF IInv, Shapes
<1> QED BY <1>1, <1>2, <1>3
        DEF IInv, Start, Links, InPlace, Apart, Uncut, Clean, HandedOutZero, Object

LEMMA SetUpStep ==
  ASSUME IInv, NEW s \in Sizes, SetUp(s)
  PROVE  IInv'
<1>1. f.size = 0 /\ f = ZeroStruct /\ Objects = {} /\ chunks = {} /\ dirty = {} /\ ret = Nil
  BY DEF SetUp, IInv, Start
<1>2. CASE Throw
  BY <1>2, ThrowStep
<1>3. CASE s =< FixAllocChunk /\ f' = InitStruct(ObjectSize(s))
           /\ UNCHANGED <<next, dirty, chunks, brk, live, ret, ended>>
  <2> DEFINE z == ObjectSize(s)
  <2>1. z \in Nat \ {0} /\ LinkSize =< z /\ z =< FixAllocChunk
    BY <1>3, FixAllocAssumption DEF ObjectSize
  <2> DEFINE k == FixAllocChunk \div z
  <2>2. k \in Nat /\ k * z \in Nat /\ z =< k * z /\ k * z =< FixAllocChunk
    BY <2>1, FixAllocAssumption, Multiple
  <2> HIDE DEF z
  <2>3. /\ f' \in Struct /\ f'.size = z /\ f'.list = Nil /\ f'.chunk = 0 /\ f'.nchunk = 0
        /\ f'.nalloc = k * z /\ f'.zero = TRUE
    BY <1>3, <2>1, InitFields DEF z
  <2> HIDE DEF k
  <2>4. Freed' = Freed /\ Objects' = Objects /\ Freed = {} /\ live = {}
    BY <1>1, <1>3 DEF Freed, Objects
  <2>5. Shapes'
    BY <1>3, <2>3, <2>4 DEF IInv, Shapes
  <2>6. Start'
    <3>1. 0 = 0 * z
      BY <2>1
    <3>2. \E j \in Nat : f'.nchunk = j * f'.size
      BY <2>3, <3>1
    <3> QED BY <2>1, <2>2, <2>3, <3>2 DEF Start
  <2>7. Span(f'.chunk, f'.nchunk) = {}
    BY <2>3 DEF Span
  <2>8. Links' /\ InPlace' /\ Apart' /\ Uncut'
    BY <1>1, <2>3, <2>4, <2>7 DEF Links, InPlace, Apart, Uncut
  <2>9. Clean'
    BY <1>1, <1>3 DEF Clean, HandedOutZero
  <2> QED BY <2>5, <2>6, <2>8, <2>9 DEF IInv
<1> QED BY <1>2, <1>3 DEF SetUp

\* A struct that is set up has a positive size.
LEMMA Sized ==
  ASSUME IInv, f.size # 0
  PROVE  /\ f.size \in Nat \ {0} /\ LinkSize =< f.size /\ LinkSize \in Nat \ {0}
         /\ f.chunk \in Nat /\ f.nchunk \in Nat /\ f.nalloc \in Nat /\ f.zero = TRUE
  BY FixAllocAssumption DEF IInv, Shapes, Start, Struct

LEMMA AllocFromListStep ==
  ASSUME IInv, AllocFromList
  PROVE  IInv'
<1> DEFINE h == f.list
<1>1. /\ f.size # 0 /\ h # Nil /\ f' = PopList /\ live' = live \cup {h} /\ ret' = h
      /\ UNCHANGED <<chunks, brk, ended>>
  BY DEF AllocFromList
<1>2. f \in Struct /\ h \in Freed /\ next \in [Freed -> Nat] /\ Freed \subseteq Nat \ {0}
  BY <1>1 DEF IInv, Shapes, Links
<1>3. dirty' = dirty \ Object(h) /\ next' = Restrict(next, DOMAIN next \ {h})
  BY <1>1, Sized DEF AllocFromList
<1>4. /\ f' \in Struct /\ f'.size = f.size /\ f'.list = next[h] /\ f'.chunk = f.chunk
      /\ f'.nchunk = f.nchunk /\ f'.nalloc = f.nalloc /\ f'.zero = f.zero
  BY <1>1, <1>2, PopFields
<1>5. /\ Freed' = Freed \ {h} /\ next' \in [Freed' -> Nat]
      /\ \A a \in Freed' : next'[a] = next[a]
  BY <1>2, <1>3 DEF Freed, Restrict
<1>6. Objects' = Objects /\ Owned' = Owned
  BY <1>1, <1>2, <1>4, <1>5 DEF Objects, Owned
<1> HIDE DEF h
<1>7. Shapes'
  BY <1>1, <1>2, <1>3, <1>4, <1>5 DEF IInv, Shapes
<1>8. Start'
  BY <1>1, <1>4 DEF IInv, Start
<1>9. Links'
  <2>1. /\ \A a \in Freed : next[a] # Nil => next[a] \in Freed /\ next[a] # h
        /\ \A a, c \in Freed : a # c /\ next[a] # Nil => next[a] # next[c]
        /\ live \cap Freed = {}
    BY DEF IInv, Links, h
  <2>2. live' \cap Freed' = {}
    BY <1>1, <1>5, <2>1
  <2>3. f'.list # Nil => f'.list \in Freed'
    BY <1>2, <1>4, <1>5, <2>1
  <2>4. \A a \in Freed' : next'[a] # Nil => next'[a] \in Freed' /\ next'[a] # f'.list
    BY <1>2, <1>4, <1>5, <2>1
  <2>5. \A a, c \in Freed' : a # c /\ next'[a] # Nil => next'[a] # next'[c]
    BY <1>5, <2>1
  <2> QED BY <2>2, <2>3, <2>4, <2>5 DEF Links
<1>10. InPlace' /\ Apart' /\ Uncut'
  BY <1>1, <1>4, <1>6 DEF IInv, InPlace, Apart, Uncut, Object
<1>11. Clean'
  <2>1. \A a \in dirty' : a < brk' /\ a \notin Span(f'.chunk, f'.nchunk)
    BY <1>1, <1>3, <1>4 DEF IInv, Clean
  <2>2. HandedOutZero'
    BY <1>1, <1>3, <1>4 DEF HandedOutZero, Object
  <2> QED BY <2>1, <2>2 DEF Clean
<1> QED BY <1>7, <1>8, <1>9, <1>10, <1>11 DEF IInv

\* An object cut from the front of n bytes that are owned, unused and clean.
LEMMA FreshStep ==
  ASSUME IInv, f.size # 0, NEW start \in Nat \ {0}, NEW n \in Nat, f.size =< n, n =< f.nalloc,
         \E k \in Nat : n = k * f.size,
         Owned \subseteq Owned', Span(start, n) \subseteq Owned', chunks' \subseteq Nat,
         brk' \in Nat, brk =< brk', start + n =< brk',
         \A q \in Objects : q + f.size =< start \/ start + n =< q,
         f' = Cut(start, n), live' = live \cup {start}, ret' = start, UNCHANGED <<next, ended>>,
         f.list = Nil, dirty' \subseteq Nat, \A a \in dirty' : a < brk' /\ a \notin Span(start, n)
  PROVE  IInv'
<1>1. /\ f.size \in Nat \ {0} /\ LinkSize =< f.size /\ f.nalloc \in Nat /\ f.zero = TRUE
      /\ f \in Struct
  BY Sized DEF IInv, Shapes
<1>2. /\ f' \in Struct /\ f'.size = f.size /\ f'.list = Nil /\ f'.chunk = start + f.size
      /\ f'.nchunk = n - f.size /\ f'.nalloc = f.nalloc /\ f'.zero = TRUE
  BY <1>1, CutFields
<1>3. Freed' = Freed /\ Objects' = Objects \cup {start}
  BY DEF Freed, Objects
<1>4. Objects \subseteq Nat \ {0} /\ brk \in Nat
  BY DEF IInv, Shapes, Objects
<1>5. start \notin Objects
  BY <1>1, <1>4
<1>6. Shapes'
  BY <1>2, <1>3 DEF IInv, Shapes
<1>7. Start'
  <2>1. \E k \in Nat : f'.nchunk = k * f'.size
    <3>1. PICK k \in Nat : n = k * f.size
      OBVIOUS
    <3>2. PICK j \in Nat : k * f.size - f.size = j * f.size
      BY <1>1, <3>1, OneLess
    <3>3. f'.nchunk = j * f'.size
      BY <1>2, <3>1, <3>2
    <3> QED BY <3>3
  <2>2. \E k \in Nat : f'.nalloc = k * f'.size
    BY <1>2 DEF IInv, Start
  <2>3. f'.nchunk =< f'.nalloc
    BY <1>1, <1>2
  <2>4. f.size =< f.nalloc /\ f.nalloc =< FixAllocChunk
    BY DEF IInv, Start
  <2> QED BY <1>1, <1>2, <2>1, <2>2, <2>3, <2>4 DEF Start
<1>8. Links'
  BY <1>2, <1>3, <1>5 DEF IInv, Links, Objects
<1>9. InPlace'
  <2>1. ASSUME NEW q \in Objects
        PROVE  q + f.size =< brk' /\ Span(q, f.size) \subseteq Owned'
    BY <1>1, <1>4 DEF IInv, InPlace, Object
  <2>2. start + f.size =< brk' /\ Span(start, f.size) \subseteq Span(start, n)
    BY <1>1 DEF Span
  <2> QED BY <1>2, <1>3, <2>1, <2>2 DEF InPlace, Object
<1>10. Apart'
  <2>1. ASSUME NEW q \in Objects
        PROVE  q + f.size =< start \/ start + f.size =< q
    BY <1>1, <1>4
  <2> QED BY <1>2, <1>3, <2>1 DEF IInv, Apart
<1>11. Uncut'
  <2>1. f'.chunk # 0 /\ f'.chunk + f'.nchunk = start + n
    BY <1>1, <1>2
  <2>2. Span(f'.chunk, f'.nchunk) \subseteq Span(start, n)
    BY <1>1, <1>2 DEF Span
  <2>3. ASSUME NEW q \in Objects
        PROVE  q + f'.size =< f'.chunk \/ f'.chunk + f'.nchunk =< q
    BY <1>1, <1>2, <1>4, <2>1
  <2>4. start + f'.size =< f'.chunk
    BY <1>1, <1>2
  <2> QED BY <1>3, <2>1, <2>2, <2>3, <2>4 DEF Uncut
<1>12. Clean'
  <2>1. Span(f'.chunk, f'.nchunk) \subseteq Span(start, n) /\ Span(start, f.size) \subseteq Span(start, n)
    BY <1>1, <1>2 DEF Span
  <2>2. \A a \in dirty' : a < brk' /\ a \notin Span(f'.chunk, f'.nchunk)
    BY <2>1
  <2>3. HandedOutZero'
    BY <1>2, <2>1 DEF HandedOutZero, Object
  <2> QED BY <2>2, <2>3 DEF Clean
<1> QED BY <1>6, <1>7, <1>8, <1>9, <1>10, <1>11, <1>12 DEF IInv

LEMMA AllocFromChunkStep ==
  ASSUME Lang = "go", IInv, AllocFromChunk
  PROVE  IInv'
<1>1. /\ f.size # 0 /\ f.list = Nil /\ ~(f.nchunk < f.size)
      /\ f' = Cut(f.chunk, f.nchunk) /\ live' = live \cup {f.chunk} /\ ret' = f.chunk
      /\ UNCHANGED <<next, dirty, chunks, brk, ended>>
  BY DEF AllocFromChunk, NeedsChunk, Slot, GoSlot
<1>2. /\ f.size \in Nat \ {0} /\ f.chunk \in Nat /\ f.nchunk \in Nat /\ f.nalloc \in Nat
  BY <1>1, Sized
<1>3. f.size =< f.nchunk /\ f.nchunk # 0
  BY <1>1, <1>2
<1>4. /\ f.chunk \in Nat \ {0} /\ f.nchunk =< f.nalloc /\ \E k \in Nat : f.nchunk = k * f.size
      /\ f.chunk + f.nchunk =< brk /\ Span(f.chunk, f.nchunk) \subseteq Owned
      /\ \A q \in Objects : q + f.size =< f.chunk \/ f.chunk + f.nchunk =< q
  BY <1>1, <1>2, <1>3 DEF IInv, Uncut, Start
<1>5. f'.nalloc = f.nalloc
  BY <1>1, <1>2, <1>3, CutFields DEF IInv, Shapes
<1>6. Owned' = Owned
  BY <1>1, <1>5 DEF Owned
<1>7. /\ brk \in Nat /\ chunks \subseteq Nat /\ dirty \subseteq Nat
      /\ \A a \in dirty : a < brk /\ a \notin Span(f.chunk, f.nchunk)
  BY DEF IInv, Shapes, Clean
<1> DEFINE start == f.chunk
           n == f.nchunk
<1>8. /\ start \in Nat \ {0} /\ n \in Nat /\ f.size =< n /\ n =< f.nalloc
      /\ \E k \in Nat : n = k * f.size
  BY <1>2, <1>3, <1>4
<1>9. /\ Owned \subseteq Owned' /\ Span(start, n) \subseteq Owned' /\ chunks' \subseteq Nat
      /\ brk' \in Nat /\ brk =< brk' /\ start + n =< brk'
  BY <1>1, <1>4, <1>6, <1>7
<1>10. /\ dirty' \subseteq Nat
       /\ \A a \in dirty' : a < brk' /\ a \notin Span(start, n)
       /\ \A q \in Objects : q + f.size =< start \/ start + n =< q
  BY <1>1, <1>4, <1>7
<1>11. f' = Cut(start, n) /\ live' = live \cup {start} /\ ret' = start
  BY <1>1
<1> HIDE DEF start, n
<1> QED BY <1>1, <1>8, <1>9, <1>10, <1>11, FreshStep

LEMMA AllocNewChunkStep ==
  ASSUME Lang = "go", IInv, NEW gap \in Gaps, AllocNewChunk(gap)
  PROVE  IInv'
<1> DEFINE start == brk + gap
           n == f.nalloc
<1>1. /\ f.size # 0 /\ f.list = Nil /\ f' = Cut(start, n) /\ live' = live \cup {start}
      /\ ret' = start /\ chunks' = chunks \cup {start} /\ brk' = start + n
      /\ dirty' = dirty \cup Span(brk, gap) /\ UNCHANGED <<next, ended>>
  BY DEF AllocNewChunk, Slot, GoSlot
<1>2. /\ f.size \in Nat \ {0} /\ n \in Nat /\ gap \in Nat /\ brk \in Nat \ {0}
      /\ chunks \subseteq Nat /\ dirty \subseteq Nat /\ f \in Struct
  BY <1>1, Sized, FixAllocAssumption DEF IInv, Shapes
<1>3. start \in Nat \ {0} /\ brk =< start
  BY <1>2
<1>4. f.size =< n /\ n =< f.nalloc /\ \E k \in Nat : n = k * f.size
  BY <1>1, <1>2 DEF IInv, Start
<1> HIDE DEF start, n
<1>5. f'.nalloc = f.nalloc
  BY <1>1, <1>2, <1>3, <1>4, CutFields
<1>6. Owned' = Owned \cup Span(start, n)
  BY <1>1, <1>5 DEF Owned, n
<1>7. chunks' \subseteq Nat /\ brk' \in Nat /\ brk =< brk' /\ start + n =< brk'
  BY <1>1, <1>2, <1>3
<1>8. \A q \in Objects : q + f.size =< start \/ start + n =< q
  <2>1. \A q \in Objects : q \in Nat /\ q + f.size =< brk
    BY DEF IInv, InPlace, Shapes, Objects
  <2> QED BY <1>2, <1>3, <2>1
<1>9. /\ dirty' \subseteq Nat
      /\ \A a \in dirty' : a < brk' /\ a \notin Span(start, n)
  <2>1. ASSUME NEW a \in Span(brk, gap)
        PROVE  a \in Nat /\ a < start
    BY <1>2 DEF Span, start
  <2>2. \A a \in dirty : a \in Nat /\ a < brk
    BY <1>2 DEF IInv, Clean
  <2>3. \A a \in dirty' : a \in Nat /\ a < start
    BY <1>1, <1>2, <1>3, <2>1, <2>2
  <2>4. \A a \in dirty' : a < brk' /\ a \notin Span(start, n)
    BY <1>1, <1>2, <1>3, <2>3 DEF Span
  <2> QED BY <2>3, <2>4
<1> QED BY <1>1, <1>2, <1>3, <1>4, <1>6, <1>7, <1>8, <1>9, FreshStep

LEMMA FreeStep ==
  ASSUME IInv, NEW p \in live, Free(p)
  PROVE  IInv'
<1>1. /\ f' = PushList(p) /\ live' = live \ {p} /\ ret' = Nil /\ UNCHANGED <<chunks, brk, ended>>
      /\ next' = [a \in DOMAIN next \cup {p} |-> IF a = p THEN f.list ELSE next[a]]
      /\ dirty' \subseteq dirty \cup Span(p, LinkSize)
  BY DEF Free
<1>2. /\ f \in Struct /\ p \in Nat \ {0} /\ next \in [Freed -> Nat] /\ Freed \subseteq Nat \ {0}
      /\ p \in Objects /\ f.list \in Nat /\ live \subseteq Nat \ {0} /\ dirty \subseteq Nat
  BY DEF IInv, Shapes, Objects, Struct
<1>3. f.size # 0
  BY <1>2 DEF IInv, Start
<1>4. /\ f' \in Struct /\ f'.size = f.size /\ f'.list = p /\ f'.chunk = f.chunk
      /\ f'.nchunk = f.nchunk /\ f'.nalloc = f.nalloc /\ f'.zero = f.zero
  BY <1>1, <1>2, PushFields
<1>5. /\ Freed' = Freed \cup {p} /\ next' \in [Freed' -> Nat] /\ next'[p] = f.list
      /\ \A a \in Freed \ {p} : next'[a] = next[a]
  BY <1>1, <1>2 DEF Freed
<1>6. Objects' = Objects /\ Owned' = Owned
  BY <1>1, <1>2, <1>4, <1>5 DEF Objects, Owned
<1>7. dirty' \subseteq Nat
  BY <1>1, <1>2, <1>3, Sized DEF Span
<1>8. Shapes'
  BY <1>1, <1>2, <1>4, <1>5, <1>7 DEF IInv, Shapes, Nil
<1>9. Start'
  BY <1>3, <1>4 DEF IInv, Start
<1>10. Links'
  <2>1. /\ \A a \in Freed : next[a] # Nil => next[a] \in Freed /\ next[a] # f.list
        /\ \A a, c \in Freed : a # c /\ next[a] # Nil => next[a] # next[c]
        /\ live \cap Freed = {} /\ p \notin Freed /\ (f.list # Nil => f.list \in Freed)
    BY DEF IInv, Links
  <2>2. live' \cap Freed' = {} /\ f'.list \in Freed'
    BY <1>1, <1>4, <1>5, <2>1
  <2>3. \A a \in Freed' : next'[a] # Nil => next'[a] \in Freed' /\ next'[a] # f'.list
    BY <1>4, <1>5, <2>1
  <2>4. \A a, c \in Freed' : a # c /\ next'[a] # Nil => next'[a] # next'[c]
    BY <1>5, <2>1
  <2> QED BY <2>2, <2>3, <2>4 DEF Links
<1>11. InPlace' /\ Apart' /\ Uncut'
  BY <1>1, <1>4, <1>6 DEF IInv, InPlace, Apart, Uncut, Object
<1>12. Clean'
  <2>1. /\ f.size \in Nat \ {0} /\ LinkSize =< f.size /\ LinkSize \in Nat
        /\ f.chunk \in Nat /\ f.nchunk \in Nat /\ brk \in Nat
    BY <1>3, Sized DEF IInv, Shapes
  <2>2. p + f.size =< brk /\ (f.nchunk # 0 => p + f.size =< f.chunk \/ f.chunk + f.nchunk =< p)
    BY <1>2 DEF IInv, InPlace, Uncut
  <2>3. ASSUME NEW a \in Span(p, LinkSize)
        PROVE  a < brk /\ a \notin Span(f.chunk, f.nchunk)
    BY <1>2, <2>1, <2>2 DEF Span
  <2>4. \A a \in dirty : a < brk /\ a \notin Span(f.chunk, f.nchunk)
    BY DEF IInv, Clean
  <2> QED BY <1>1, <1>4, <2>3, <2>4 DEF Clean, HandedOutZero
<1> QED BY <1>8, <1>9, <1>10, <1>11, <1>12 DEF IInv

LEMMA WriteStep ==
  ASSUME IInv, NEW p \in live, Write(p)
  PROVE  IInv'
<1>1. /\ dirty' = dirty \cup Object(p) /\ next' = Restrict(next, DOMAIN next \ {p}) /\ ret' = Nil
      /\ UNCHANGED <<f, chunks, brk, live, ended>>
  BY DEF Write
<1>2. /\ f \in Struct /\ p \in Nat \ {0} /\ next \in [Freed -> Nat] /\ p \in Objects
      /\ p \notin Freed /\ dirty \subseteq Nat
  BY DEF IInv, Shapes, Objects, Links
<1>3. next' = next
  BY <1>1, <1>2 DEF Freed, Restrict
<1>4. /\ f.size \in Nat \ {0} /\ f.chunk \in Nat /\ f.nchunk \in Nat /\ brk \in Nat
  <2>1. f.size # 0
    BY <1>2 DEF IInv, Start
  <2> QED BY <2>1, Sized DEF IInv, Shapes
<1>5. Freed' = Freed /\ Objects' = Objects /\ Owned' = Owned
  BY <1>1, <1>3 DEF Freed, Objects, Owned
<1>6. p + f.size =< brk /\ (f.nchunk # 0 => p + f.size =< f.chunk \/ f.chunk + f.nchunk =< p)
  BY <1>2 DEF IInv, InPlace, Uncut
<1>7. ASSUME NEW a \in Object(p)
      PROVE  a \in Nat /\ a < brk /\ a \notin Span(f.chunk, f.nchunk)
  BY <1>2, <1>4, <1>6 DEF Span, Object
<1>8. Shapes'
  BY <1>1, <1>2, <1>3, <1>5, <1>7 DEF IInv, Shapes, Nil
<1>9. Start' /\ Links' /\ InPlace' /\ Apart' /\ Uncut'
  <2>1. Start'
    BY <1>1, <1>2, <1>4 DEF IInv, Start
  <2>2. Links'
    BY <1>1, <1>3, <1>5 DEF IInv, Links
  <2>3. InPlace' /\ Apart' /\ Uncut'
    BY <1>1, <1>5 DEF IInv, InPlace, Apart, Uncut, Object
  <2> QED BY <2>1, <2>2, <2>3
<1>10. Clean'
  BY <1>1, <1>7 DEF IInv, Clean, HandedOutZero
<1> QED BY <1>8, <1>9, <1>10 DEF IInv

-----------------------------------------------------------------------------
(* What a step does to the client's objects, the owned memory and inuse.     *)

Granted(p) ==
  /\ f.size # 0 /\ p \in Nat \ {0} /\ p \notin live /\ live' = live \cup {p}
  /\ f'.size = f.size /\ f'.inuse = f.inuse + f.size /\ Owned \subseteq Owned'

Released(p) ==
  /\ p \in live /\ live' = live \ {p}
  /\ f'.size = f.size /\ f'.inuse = f.inuse - f.size /\ Owned' = Owned

Begun ==
  /\ f.size = 0 /\ f'.size \in Nat \ {0} /\ live = {} /\ live' = {}
  /\ f.inuse = 0 /\ f'.inuse = 0 /\ Owned' = Owned

Idle == f' = f /\ live' = live /\ Owned' = Owned

\* Taking an object from the list, or cutting one, hands out a place nobody holds.
LEMMA GrantEffect ==
  ASSUME Lang = "go", IInv,
         AllocFromList \/ AllocFromChunk \/ \E gap \in Gaps : AllocNewChunk(gap)
  PROVE  \E p : Granted(p)
<1>0. f.size # 0 /\ f \in Struct /\ live \subseteq Nat \ {0} /\ brk \in Nat \ {0}
  BY DEF AllocFromList, AllocFromChunk, AllocNewChunk, IInv, Shapes
<1>1. /\ f.size \in Nat \ {0} /\ f.chunk \in Nat /\ f.nchunk \in Nat /\ f.nalloc \in Nat
  BY <1>0, Sized
<1>2. CASE AllocFromList
  <2>1. /\ f.list # Nil /\ f' = PopList /\ live' = live \cup {f.list} /\ chunks' = chunks
        /\ f.list \in Freed /\ f.list \notin live /\ f.list \in Nat \ {0} /\ next[f.list] \in Nat
    BY <1>2 DEF AllocFromList, IInv, Links, Shapes
  <2>2. f'.size = f.size /\ f'.inuse = f.inuse + f.size /\ f'.nalloc = f.nalloc
    BY <1>0, <2>1, PopFields
  <2>3. Owned' = Owned
    BY <2>1, <2>2 DEF Owned
  <2>4. Granted(f.list)
    BY <1>0, <2>1, <2>2, <2>3 DEF Granted
  <2> QED BY <2>4
<1>3. CASE AllocFromChunk
  <2>1. /\ f.size =< f.nchunk /\ f.nchunk # 0 /\ f' = Cut(f.chunk, f.nchunk)
        /\ live' = live \cup {f.chunk} /\ chunks' = chunks
    BY <1>1, <1>3 DEF AllocFromChunk, NeedsChunk, Slot, GoSlot
  <2>2. f'.size = f.size /\ f'.inuse = f.inuse + f.size /\ f'.nalloc = f.nalloc
    BY <1>0, <1>1, <2>1, CutFields
  <2>3. f.chunk \in Nat \ {0} /\ f.chunk \notin live
    BY <1>0, <1>1, <2>1 DEF IInv, Uncut, Objects
  <2>4. Owned' = Owned
    BY <2>1, <2>2 DEF Owned
  <2>5. Granted(f.chunk)
    BY <1>0, <2>1, <2>2, <2>3, <2>4 DEF Granted
  <2> QED BY <2>5
<1>4. ASSUME NEW gap \in Gaps, AllocNewChunk(gap)
      PROVE  \E p : Granted(p)
  <2> DEFINE start == brk + gap
  <2>1. /\ f' = Cut(start, f.nalloc) /\ live' = live \cup {start} /\ chunks' = chunks \cup {start}
    BY <1>4 DEF AllocNewChunk, Slot, GoSlot
  <2>2. start \in Nat \ {0} /\ start >= brk
    BY <1>0, FixAllocAssumption
  <2>3. start \notin live
    <3>1. \A q \in live : q \in Nat /\ q + f.size =< brk
      BY <1>0 DEF IInv, InPlace, Objects
    <3> QED BY <1>0, <1>1, <2>2, <3>1
  <2> HIDE DEF start
  <2>4. f'.size = f.size /\ f'.inuse = f.inuse + f.size /\ f'.nalloc = f.nalloc
    BY <1>0, <1>1, <2>1, <2>2, CutFields DEF IInv, Start
  <2>5. Owned \subseteq Owned'
    BY <2>1, <2>4 DEF Owned
  <2>6. Granted(start)
    BY <1>0, <2>1, <2>2, <2>3, <2>4, <2>5 DEF Granted
  <2> QED BY <2>6
<1> QED BY <1>2, <1>3, <1>4

LEMMA FreeEffect ==
  ASSUME IInv, NEW p \in live, Free(p)
  PROVE  Released(p)
<1>1. f' = PushList(p) /\ live' = live \ {p} /\ chunks' = chunks /\ f \in Struct /\ p \in Nat
  BY DEF Free, IInv, Shapes
<1>2. f'.size = f.size /\ f'.inuse = f.inuse - f.size /\ f'.nalloc = f.nalloc
  BY <1>1, PushFields
<1> QED BY <1>1, <1>2 DEF Released, Owned

LEMMA SetUpEffect ==
  ASSUME IInv, NEW s \in Sizes, SetUp(s)
  PROVE  Begun \/ Idle
<1>1. CASE Throw
  BY <1>1 DEF Throw, Idle, Owned
<1>2. CASE s =< FixAllocChunk /\ f' = InitStruct(ObjectSize(s)) /\ UNCHANGED <<chunks, live>>
  <2>1. f.size = 0 /\ f = ZeroStruct /\ live = {} /\ chunks = {}
    BY DEF SetUp, IInv, Start, Objects
  <2>2. ObjectSize(s) \in Nat \ {0} /\ ObjectSize(s) =< FixAllocChunk
    BY <1>2, FixAllocAssumption DEF ObjectSize
  <2>3. f'.size \in Nat \ {0} /\ f'.inuse = 0
    BY <1>2, <2>2, InitFields
  <2>4. f.inuse = 0
    BY <2>1, ZeroFields
  <2>5. Owned = {} /\ Owned' = {}
    BY <1>2, <2>1 DEF Owned
  <2> QED BY <1>2, <2>1, <2>3, <2>4, <2>5 DEF Begun
<1> QED BY <1>1, <1>2 DEF SetUp

LEMMA Effects ==
  ASSUME Lang = "go", IInv, [Next]_vars
  PROVE  (\E p : Granted(p)) \/ (\E p \in live : Released(p)) \/ Begun \/ Idle
<1>1. CASE UNCHANGED vars
  BY <1>1 DEF vars, Idle, Owned
<1>2. ASSUME NEW p \in live, Write(p)
      PROVE  Idle
  BY <1>2 DEF Write, Idle, Owned
<1>3. AllocTooEarly => Idle
  BY DEF AllocTooEarly, Throw, Idle, Owned
<1> QED BY <1>1, <1>2, <1>3, GrantEffect, FreeEffect, SetUpEffect DEF Next

-----------------------------------------------------------------------------
(* The theorems.  They are about the Go version; the C version breaks         *)
(* ObjectsInChunks, as the run fixalloc_c_overrun shows.                      *)

\* Every call of init, alloc and free, and every write of the client, keeps the links,
\* the places of the objects, what is left of the chunk and the clean memory in order.
THEOREM Inductive == ASSUME Lang = "go" PROVE IInv /\ [Next]_vars => IInv'
<1> SUFFICES ASSUME IInv, [Next]_vars PROVE IInv'
  OBVIOUS
<1>1. CASE UNCHANGED vars
  <2>1. UNCHANGED <<f, next, dirty, chunks, brk, live, ret, ended>>
    BY <1>1 DEF vars
  <2>2. Freed' = Freed /\ Objects' = Objects /\ Owned' = Owned
    BY <2>1 DEF Freed, Objects, Owned
  <2>3. Shapes'
    BY <2>1, <2>2 DEF IInv, Shapes
  <2> QED BY <2>1, <2>2, <2>3
          DEF IInv, Start, Links, InPlace, Apart, Uncut, Clean, HandedOutZero, Object
<1>2. CASE Next
  BY <1>2, SetUpStep, ThrowStep, AllocFromListStep, AllocFromChunkStep, AllocNewChunkStep,
     FreeStep, WriteStep DEF Next, AllocTooEarly
<1> QED BY <1>1, <1>2

\* The invariant holds in every reachable state of the Go version.
THEOREM Safety == ASSUME Lang = "go" PROVE Spec => []IInv
BY InitInv, Inductive, PTL DEF Spec

\* No object alloc hands out overlaps another one, in use or freed, for every size.
THEOREM ApartAlways == ASSUME Lang = "go" PROVE Spec => []ObjectsApart
<1>1. IInv => ObjectsApart
  <2> SUFFICES ASSUME IInv, NEW p \in Objects, NEW q \in Objects, p # q
               PROVE  Object(p) \cap Object(q) = {}
    BY DEF ObjectsApart
  <2>1. p \in Nat /\ q \in Nat /\ f.size \in Nat
    BY DEF IInv, Shapes, Objects, Struct
  <2>2. p + f.size =< q \/ q + f.size =< p
    BY DEF IInv, Apart
  <2> QED BY <2>1, <2>2 DEF Object, Span
<1> QED BY <1>1, Safety, PTL

\* Every object lies within the memory persistentalloc gave to the allocator: the last one
\* of a chunk too, which the C version gets wrong.
THEOREM InChunksAlways == ASSUME Lang = "go" PROVE Spec => []ObjectsInChunks
<1>1. IInv => ObjectsInChunks
  BY DEF IInv, InPlace, ObjectsInChunks
<1> QED BY <1>1, Safety, PTL

\* What alloc returns holds only zeros, whether it was used before or not.
THEOREM ZeroAlways == ASSUME Lang = "go" PROVE Spec => []HandedOutZero
<1>1. IInv => HandedOutZero
  BY DEF IInv, Clean
<1> QED BY <1>1, Safety, PTL

\* The Go allocator is a slab: every step of it is one of Slab, or none.
THEOREM Refines == ASSUME Lang = "go" PROVE Spec => ImplementsSlab
<1>1. Init => SlabView!Init
  BY ZeroFields DEF Init, SlabView!Init, Owned
<1>2. IInv /\ IInv' /\ [Next]_vars => [SlabView!Next]_(SlabView!vars)
  <2> SUFFICES ASSUME IInv, IInv', [Next]_vars PROVE SlabView!Next \/ UNCHANGED SlabView!vars
    OBVIOUS
  <2>1. ASSUME NEW p, Granted(p)
        PROVE  SlabView!Next
    <3>1. /\ p \in live' /\ p \in Objects' /\ live \subseteq Objects' /\ f'.size = f.size
          /\ f.size \in Nat /\ live \subseteq Nat /\ p \in Nat
      BY <2>1 DEF Granted, Objects, IInv, Shapes, Struct
    <3>2. SlabView!Body(p, f.size) \subseteq Owned'
      BY <3>1 DEF SlabView!Body, IInv, InPlace, Object, Span
    <3>3. ASSUME NEW q \in live
          PROVE  SlabView!Body(p, f.size) \cap SlabView!Body(q, f.size) = {}
      <4>1. p + f.size =< q \/ q + f.size =< p
        BY <2>1, <3>1 DEF IInv, Apart, Granted
      <4> QED BY <3>1, <4>1 DEF SlabView!Body
    <3>4. SlabView!Grant(p)
      BY <2>1, <3>2, <3>3 DEF Granted, SlabView!Grant
    <3> QED BY <3>1, <3>4 DEF SlabView!Next
  <2>2. ASSUME NEW p \in live, Released(p)
        PROVE  SlabView!Next
    BY <2>2 DEF Released, SlabView!Release, SlabView!Next
  <2>3. CASE Begun
    BY <2>3 DEF Begun, SlabView!SetUp, SlabView!Next
  <2>4. CASE Idle
    BY <2>4 DEF Idle, SlabView!vars
  <2> QED BY <2>1, <2>2, <2>3, <2>4, Effects
<1> QED BY <1>1, <1>2, Safety, PTL DEF Spec, ImplementsSlab, SlabView!Spec

-----------------------------------------------------------------------------
(* inuse counts, and no byte is lost.                                        *)

Counted == IsFiniteSet(live) /\ f.inuse = f.size * Cardinality(live)

LEMMA CountedStep ==
  ASSUME Lang = "go", IInv, Counted, [Next]_vars
  PROVE  Counted'
<1>1. f.size \in Nat /\ Cardinality(live) \in Nat
  BY FS_CardinalityType DEF IInv, Shapes, Struct, Counted
<1> DEFINE n == Cardinality(live)
<1>2. ASSUME NEW p, Granted(p)
      PROVE  Counted'
  <2>1. IsFiniteSet(live') /\ Cardinality(live') = n + 1
    BY <1>2, FS_AddElement DEF Granted, Counted
  <2>2. f'.size = f.size /\ f'.inuse = f.size * n + f.size
    BY <1>2 DEF Granted, Counted
  <2> HIDE DEF n
  <2>3. f.size * (n + 1) = f.size * n + f.size
    BY <1>1, SMT DEF n
  <2> QED BY <2>1, <2>2, <2>3 DEF Counted
<1>3. ASSUME NEW p \in live, Released(p)
      PROVE  Counted'
  <2>1. IsFiniteSet(live') /\ Cardinality(live') = n - 1
    BY <1>3, FS_RemoveElement DEF Released, Counted
  <2>2. f'.size = f.size /\ f'.inuse = f.size * n - f.size
    BY <1>3 DEF Released, Counted
  <2> HIDE DEF n
  <2>3. f.size * (n - 1) = f.size * n - f.size
    BY <1>1, SMT DEF n
  <2> QED BY <2>1, <2>2, <2>3 DEF Counted
<1>4. CASE Begun
  <2>1. IsFiniteSet(live') /\ Cardinality(live') = 0
    BY <1>4, FS_EmptySet DEF Begun
  <2> QED BY <1>4, <2>1 DEF Begun, Counted
<1>5. CASE Idle
  BY <1>5 DEF Idle, Counted
<1> QED BY <1>2, <1>3, <1>4, <1>5, Effects

LEMMA CountedAlways == ASSUME Lang = "go" PROVE Spec => [](IInv /\ Counted)
<1>1. Init => Counted
  <2> SUFFICES ASSUME Init PROVE Counted
    OBVIOUS
  <2>1. live = {} /\ f.size = 0 /\ f.inuse = 0
    BY ZeroFields DEF Init
  <2>2. IsFiniteSet({}) /\ Cardinality({}) = 0
    BY FS_EmptySet
  <2> QED BY <2>1, <2>2 DEF Counted
<1> QED BY <1>1, CountedStep, InitInv, Inductive, PTL DEF Spec

\* Type correctness; that inuse never goes below zero rests on its counting the objects
\* in the client's hands.
THEOREM TypeCorrect == ASSUME Lang = "go" PROVE Spec => []TypeOK
<1>1. IInv /\ Counted => TypeOK
  <2> SUFFICES ASSUME IInv, Counted PROVE TypeOK
    OBVIOUS
  <2>1. f \in Struct /\ f.size \in Nat /\ f.nchunk \in Nat /\ f.nalloc \in Nat
    BY DEF IInv, Shapes, Struct
  <2>2. f.inuse \in Nat
    <3>1. Cardinality(live) \in Nat
      BY FS_CardinalityType DEF Counted
    <3> QED BY <2>1, <3>1, SMT DEF Counted
  <2>3. f.nchunk \in 0 .. FixAllocChunk /\ f.nalloc \in 0 .. FixAllocChunk
    <3>1. CASE f.size = 0
      BY <3>1, ZeroFields, FixAllocAssumption DEF IInv, Start
    <3>2. CASE f.size # 0
      BY <2>1, <3>2, FixAllocAssumption DEF IInv, Start
    <3> QED BY <3>1, <3>2
  <2>4. f \in [size : Nat, list : Nat, chunk : Nat, nchunk : 0 .. FixAllocChunk,
               nalloc : 0 .. FixAllocChunk, inuse : Nat, zero : BOOLEAN]
    BY <2>1, <2>2, <2>3 DEF Struct
  <2> QED BY <2>4 DEF IInv, Shapes, Freed, TypeOK
<1> QED BY <1>1, CountedAlways, PTL

LEMMA Whole ==
  ASSUME NEW start \in Nat, NEW n \in Nat, NEW s \in Nat, s =< n
  PROVE  Span(start, n) = Span(start, s) \cup Span(start + s, n - s)
BY DEF Span

\* An object cut from the part not yet cut, start .. start + n - 1: the bytes stay covered.
LEMMA CutKeepsBytes ==
  ASSUME f \in Struct, NEW start \in Nat, NEW n \in Nat, f.size =< n,
         f' = Cut(start, n), live' = live \cup {start}, next' = next,
         Owned' = (UNION {Object(p) : p \in Objects}) \cup Span(start, n)
  PROVE  NothingLost'
<1>1. f.size \in Nat /\ f'.size = f.size /\ f'.chunk = start + f.size /\ f'.nchunk = n - f.size
  BY CutFields DEF Struct
<1>2. Objects' = Objects \cup {start}
  BY DEF Objects, Freed
<1>3. UNION {Span(p, f.size) : p \in Objects \cup {start}}
        = (UNION {Span(p, f.size) : p \in Objects}) \cup Span(start, f.size)
  OBVIOUS
<1>4. Span(start, n) = Span(start, f.size) \cup Span(start + f.size, n - f.size)
  BY <1>1, Whole
<1>5. {Object(p) : p \in Objects} = {Span(p, f.size) : p \in Objects}
  BY DEF Object
<1>6. {Object(p)' : p \in Objects'} = {Span(p, f.size) : p \in Objects \cup {start}}
  BY <1>1, <1>2 DEF Object
<1>7. NothingLost' <=> Owned' = (UNION {Object(p)' : p \in Objects'}) \cup Span(f'.chunk, f'.nchunk)
  BY DEF NothingLost
<1> QED BY <1>1, <1>3, <1>4, <1>5, <1>6, <1>7

\* A step that changes neither the objects nor what is cut loses nothing.
LEMMA SameBytes ==
  ASSUME NothingLost, Objects' = Objects, Owned' = Owned, f'.size = f.size,
         f'.chunk = f.chunk, f'.nchunk = f.nchunk
  PROVE  NothingLost'
<1>1. {Object(p)' : p \in Objects'} = {Object(p) : p \in Objects}
  BY DEF Object
<1>2. NothingLost' <=> Owned' = (UNION {Object(p)' : p \in Objects'}) \cup Span(f'.chunk, f'.nchunk)
  BY DEF NothingLost
<1> QED BY <1>1, <1>2 DEF NothingLost

LEMMA NothingLostStep ==
  ASSUME Lang = "go", IInv, NothingLost, [Next]_vars
  PROVE  NothingLost'
<1>0. f \in Struct /\ live \subseteq Nat /\ brk \in Nat
  BY DEF IInv, Shapes
<1>1. ASSUME UNCHANGED <<f, chunks, live>>, Freed' = Freed
      PROVE  NothingLost'
  BY <1>1, SameBytes DEF Objects, Owned
<1>2. CASE UNCHANGED vars
  BY <1>1, <1>2 DEF vars, Freed
<1>3. ASSUME NEW s \in Sizes, SetUp(s)
      PROVE  NothingLost'
  <2>1. CASE Throw
    BY <1>1, <2>1 DEF Throw, Freed
  <2>2. CASE s =< FixAllocChunk /\ f' = InitStruct(ObjectSize(s)) /\ UNCHANGED <<next, chunks, live>>
    <3>1. f.size = 0 /\ Objects = {} /\ chunks = {}
      BY <1>3 DEF SetUp, IInv, Start
    <3>2. ObjectSize(s) \in Nat \ {0} /\ ObjectSize(s) =< FixAllocChunk
      BY <2>2, FixAllocAssumption DEF ObjectSize
    <3>3. f'.chunk = 0 /\ f'.nchunk = 0
      BY <2>2, <3>2, InitFields
    <3>4. Objects' = {} /\ Owned' = {} /\ Span(f'.chunk, f'.nchunk) = {}
      BY <2>2, <3>1, <3>3 DEF Objects, Freed, Owned, Span
    <3> QED BY <3>4 DEF NothingLost
  <2> QED BY <1>3, <2>1, <2>2 DEF SetUp
<1>4. AllocTooEarly => NothingLost'
  BY <1>1 DEF AllocTooEarly, Throw, Freed
<1>5. CASE AllocFromList
  <2>1. /\ f.list \in Freed /\ next[f.list] \in Nat /\ f.size # 0 /\ f' = PopList
        /\ live' = live \cup {f.list} /\ chunks' = chunks
    BY <1>5 DEF AllocFromList, IInv, Links, Shapes
  <2>2. next' = Restrict(next, DOMAIN next \ {f.list})
    BY <1>5, <2>1, Sized DEF AllocFromList
  <2>3. Objects' = Objects
    BY <2>1, <2>2 DEF Objects, Freed, Restrict
  <2>4. /\ f'.size = f.size /\ f'.chunk = f.chunk /\ f'.nchunk = f.nchunk
        /\ f'.nalloc = f.nalloc
    BY <1>0, <2>1, PopFields
  <2>5. Owned' = Owned
    BY <2>1, <2>4 DEF Owned
  <2> QED BY <2>3, <2>4, <2>5, SameBytes
<1>6. CASE AllocFromChunk
  <2> DEFINE start == f.chunk
             n == f.nchunk
  <2>1. /\ f.size # 0 /\ f.size =< n /\ f' = Cut(start, n) /\ live' = live \cup {start}
        /\ chunks' = chunks /\ next' = next /\ start \in Nat /\ n \in Nat
    BY <1>0, <1>6 DEF AllocFromChunk, NeedsChunk, Slot, GoSlot, Struct
  <2>2. f'.nalloc = f.nalloc
    BY <1>0, <2>1, CutFields
  <2>3. Owned' = (UNION {Object(p) : p \in Objects}) \cup Span(start, n)
    BY <2>1, <2>2 DEF NothingLost, Owned
  <2> HIDE DEF start, n
  <2> QED BY <1>0, <2>1, <2>3, CutKeepsBytes
<1>7. ASSUME NEW gap \in Gaps, AllocNewChunk(gap)
      PROVE  NothingLost'
  <2> DEFINE start == brk + gap
             n == f.nalloc
  <2>1. /\ f.size # 0 /\ f.nchunk < f.size /\ f' = Cut(start, n) /\ live' = live \cup {start}
        /\ chunks' = chunks \cup {start} /\ next' = next
    BY <1>7 DEF AllocNewChunk, NeedsChunk, Slot, GoSlot
  <2>2. start \in Nat /\ n \in Nat /\ f.size \in Nat \ {0} /\ f.size =< n /\ f.chunk \in Nat
    <3>1. gap \in Nat
      BY FixAllocAssumption
    <3>2. f.nalloc \in Nat /\ f.size \in Nat \ {0} /\ f.chunk \in Nat
      BY <2>1, Sized
    <3>3. f.size =< f.nalloc
      BY <2>1 DEF IInv, Start
    <3> QED BY <1>0, <3>1, <3>2, <3>3
  <2>3. f.nchunk = 0
    <3>1. PICK k \in Nat : f.nchunk = k * f.size
      BY <2>1 DEF IInv, Start
    <3> QED BY <2>1, <2>2, <3>1, NoRemainder
  <2>4. Span(f.chunk, f.nchunk) = {}
    BY <2>2, <2>3 DEF Span
  <2>5. f'.nalloc = f.nalloc
    BY <1>0, <2>1, <2>2, CutFields
  <2>6. Owned' = Owned \cup Span(start, n)
    BY <2>1, <2>5 DEF Owned, n
  <2>7. Owned' = (UNION {Object(p) : p \in Objects}) \cup Span(start, n)
    BY <2>4, <2>6 DEF NothingLost
  <2> HIDE DEF start, n
  <2> QED BY <1>0, <2>1, <2>2, <2>7, CutKeepsBytes
<1>8. ASSUME NEW p \in live, Free(p)
      PROVE  NothingLost'
  <2>1. /\ f' = PushList(p) /\ live' = live \ {p} /\ chunks' = chunks /\ p \in Nat
        /\ next' = [a \in DOMAIN next \cup {p} |-> IF a = p THEN f.list ELSE next[a]]
    BY <1>0, <1>8 DEF Free
  <2>2. Objects' = Objects
    BY <1>8, <2>1 DEF Objects, Freed
  <2>3. /\ f'.size = f.size /\ f'.chunk = f.chunk /\ f'.nchunk = f.nchunk
        /\ f'.nalloc = f.nalloc
    BY <1>0, <2>1, PushFields
  <2>4. Owned' = Owned
    BY <2>1, <2>3 DEF Owned
  <2> QED BY <2>2, <2>3, <2>4, SameBytes
<1>9. ASSUME NEW p \in live, Write(p)
      PROVE  NothingLost'
  <2>1. UNCHANGED <<f, chunks, live>> /\ next' = Restrict(next, DOMAIN next \ {p}) /\ p \notin Freed
    BY <1>9 DEF Write, IInv, Links
  <2>2. Freed' = Freed
    BY <2>1 DEF Freed, Restrict
  <2> QED BY <1>1, <2>1, <2>2
<1> QED BY <1>2, <1>3, <1>4, <1>5, <1>6, <1>7, <1>8, <1>9 DEF Next

\* Every byte of every chunk is in an object or still to be cut: alloc leaves no remainder
\* behind when it fetches the next chunk, because a chunk is a multiple of the size.
THEOREM NoneLost == ASSUME Lang = "go" PROVE Spec => []NothingLost
<1>1. Init => NothingLost
  <2> SUFFICES ASSUME Init PROVE NothingLost
    OBVIOUS
  <2>1. Objects = {} /\ Owned = {} /\ f.chunk = 0 /\ f.nchunk = 0
    BY ZeroFields DEF Init, Objects, Freed, Owned
  <2>2. Span(f.chunk, f.nchunk) = {}
    BY <2>1 DEF Span
  <2> QED BY <2>1, <2>2 DEF NothingLost
<1> QED BY <1>1, NothingLostStep, Safety, PTL DEF Spec
-----------------------------------------------------------------------------
(* The free list.                                                            *)

\* The list runs through every freed object once and ends.
FreeListWhole == RunsThrough(f.list, next, Freed, Nil)

LEMMA FreeListStep ==
  ASSUME IInv, FreeListWhole, [Next]_vars
  PROVE  FreeListWhole'
<1>1. ASSUME f'.list = f.list, next' = next
      PROVE  FreeListWhole'
  BY <1>1 DEF FreeListWhole, Freed
<1>2. f \in Struct /\ next \in [Freed -> Nat] /\ live \subseteq Nat \ {0} /\ live \cap Freed = {}
  BY DEF IInv, Shapes, Links
<1>3. ASSUME NEW s \in Sizes, SetUp(s)
      PROVE  FreeListWhole'
  <2>1. CASE Throw
    BY <1>1, <2>1 DEF Throw
  <2>2. CASE s =< FixAllocChunk /\ f' = InitStruct(ObjectSize(s)) /\ next' = next
    <3>1. f.list = Nil
      BY <1>3, ZeroFields DEF SetUp, IInv, Start
    <3>2. ObjectSize(s) \in Nat \ {0} /\ ObjectSize(s) =< FixAllocChunk
      BY <2>2, FixAllocAssumption DEF ObjectSize
    <3>3. f'.list = Nil
      BY <2>2, <3>2, InitFields
    <3> QED BY <1>1, <2>2, <3>1, <3>3
  <2> QED BY <1>3, <2>1, <2>2 DEF SetUp
<1>4. ASSUME AllocFromList
      PROVE  FreeListWhole'
  <2> DEFINE h == f.list
  <2>1. /\ f.size # 0 /\ h # Nil /\ f' = PopList /\ h \in Freed
        /\ next' = Restrict(next, DOMAIN next \ {h})
    BY <1>4, Sized DEF AllocFromList, IInv, Links
  <2>2. f'.list = next[h]
    BY <1>2, <2>1, PopFields
  <2>3. Freed' = Freed \ {h} /\ \A a \in Freed \ {h} : next'[a] = next[a]
    BY <1>2, <2>1 DEF Freed, Restrict
  <2>4. RunsThrough(h, next, Freed, Nil)
    BY DEF FreeListWhole
  <2> HIDE DEF h
  <2>5. RunsThrough(next[h], next', Freed \ {h}, Nil)
    BY <2>1, <2>3, <2>4, RunsPop
  <2> QED BY <2>2, <2>3, <2>5 DEF FreeListWhole
<1>5. ASSUME NEW p \in live, Free(p)
      PROVE  FreeListWhole'
  <2>1. /\ f' = PushList(p)
        /\ next' = [a \in DOMAIN next \cup {p} |-> IF a = p THEN f.list ELSE next[a]]
    BY <1>5 DEF Free
  <2>2. p # Nil /\ p \notin Freed /\ p \in Nat
    BY <1>2 DEF Nil
  <2>3. f'.list = p
    BY <1>2, <2>1, <2>2, PushFields
  <2>4. /\ Freed' = Freed \cup {p} /\ next'[p] = f.list
        /\ \A a \in Freed : next'[a] = next[a]
    BY <1>2, <2>1, <2>2 DEF Freed
  <2>5. RunsThrough(f.list, next, Freed, Nil)
    BY DEF FreeListWhole
  <2>6. RunsThrough(p, next', Freed \cup {p}, Nil)
    BY <2>2, <2>4, <2>5, RunsPush
  <2> QED BY <2>3, <2>4, <2>6 DEF FreeListWhole
<1>6. ASSUME NEW start \in Nat, NEW n \in Nat, f.size \in Nat, f' = Cut(start, n), f.size =< n, next' = next
      PROVE  FreeListWhole'
  BY <1>1, <1>2, <1>6, CutFields
<1>7. ASSUME AllocFromChunk
      PROVE  FreeListWhole'
  <2>1. f.size # 0 /\ f' = Cut(f.chunk, f.nchunk) /\ next' = next /\ ~(f.nchunk < f.size)
    BY <1>7 DEF AllocFromChunk, NeedsChunk
  <2> QED BY <1>6, <2>1, Sized
<1>8. ASSUME NEW gap \in Gaps, AllocNewChunk(gap)
      PROVE  FreeListWhole'
  <2> DEFINE start == brk + gap
  <2>1. f.size # 0 /\ f' = Cut(start, f.nalloc) /\ next' = next
    BY <1>8 DEF AllocNewChunk
  <2>2. start \in Nat
    BY FixAllocAssumption DEF IInv, Shapes
  <2>3. f.size =< f.nalloc
    BY <2>1 DEF IInv, Start
  <2> HIDE DEF start
  <2> QED BY <1>6, <2>1, <2>2, <2>3, Sized
<1>9. ASSUME NEW p \in live, Write(p)
      PROVE  FreeListWhole'
  <2>1. f' = f /\ next' = Restrict(next, DOMAIN next \ {p})
    BY <1>9 DEF Write
  <2>2. next' = next
    BY <1>2, <2>1 DEF Freed, Restrict
  <2> QED BY <1>1, <2>1, <2>2
<1>10. ASSUME UNCHANGED vars
       PROVE  FreeListWhole'
  BY <1>1, <1>10 DEF vars
<1>11. ASSUME AllocTooEarly
       PROVE  FreeListWhole'
  BY <1>1, <1>11 DEF AllocTooEarly, Throw
<1> QED BY <1>3, <1>4, <1>5, <1>7, <1>8, <1>9, <1>10, <1>11 DEF Next

\* Following the links of a whole list meets each freed object once, then Nil.
LEMMA WalkFacts ==
  ASSUME FreeListWhole
  PROVE  LET N == Cardinality(Freed)
         IN  /\ N \in Nat /\ DOMAIN Walk = 0 .. N /\ N \in 0 .. N
             /\ {Walk[i] : i \in 0 .. N - 1} = Freed /\ Walk[N] = Nil /\ Nil \notin Freed
<1> DEFINE N == Cardinality(Freed)
           After(w) == [i \in 0 .. N |-> IF i = 0 THEN f.list
                                        ELSE IF w[i - 1] = Nil THEN Nil ELSE next[w[i - 1]]]
<1>1. PICK n, s : ListedBy(f.list, next, Freed, Nil, n, s)
  BY DEF FreeListWhole, RunsThrough
<1>2. /\ n \in Nat /\ s \in [0 .. n -> Freed \cup {Nil}] /\ Nil \notin Freed
      /\ s[0] = f.list /\ s[n] = Nil
      /\ \A i \in 0 .. n - 1 : s[i] \in Freed /\ next[s[i]] = s[i + 1]
      /\ \A x \in Freed : \E i \in 0 .. n - 1 : s[i] = x
      /\ \A i, j \in 0 .. n - 1 : s[i] = s[j] => i = j
  BY <1>1 DEF ListedBy
<1>3. N = n
  <2>1. /\ n \in Nat /\ \A i \in 0 .. n - 1 : s[i] \in Freed
        /\ \A x \in Freed : \E i \in 0 .. n - 1 : s[i] = x
        /\ \A i, j \in 0 .. n - 1 : s[i] = s[j] => i = j
    BY <1>2
  <2>2. IsFiniteSet(Freed) /\ Cardinality(Freed) = n
    BY <2>1, CountedOnce
  <2> QED BY <2>2
<1>4. s = After(s)
  <2>1. ASSUME NEW i \in 0 .. N
        PROVE  s[i] = After(s)[i]
    <3>1. CASE i = 0
      BY <1>2, <3>1
    <3>2. CASE i # 0
      <4>1. i - 1 \in 0 .. n - 1 /\ (i - 1) + 1 = i
        BY <1>2, <1>3, <3>2, SMT
      <4> QED BY <1>2, <3>2, <4>1
    <3> QED BY <3>1, <3>2
  <2>2. s \in [0 .. N -> Freed \cup {Nil}]
    BY <1>2, <1>3
  <2> HIDE DEF N
  <2> QED BY <2>1, <2>2
<1>5. Walk = CHOOSE w : w = After(w)
  BY DEF Walk, Freed
<1> HIDE DEF After
<1>6. Walk = After(Walk)
  BY <1>4, <1>5
<1> DEFINE w == Walk
<1> HIDE DEF w
<1>7. DOMAIN w = 0 .. N
  BY <1>6 DEF After, w
<1>8. w[0] = f.list
  <2>1. 0 \in 0 .. N
    BY <1>2, <1>3, SMT
  <2> QED BY <1>6, <2>1 DEF After, w
<1>9. ASSUME NEW j \in 0 .. Cardinality(Freed) - 1, w[j] \in Freed
      PROVE  w[j + 1] = next[w[j]]
  <2>1. j + 1 \in 0 .. N /\ j + 1 # 0 /\ (j + 1) - 1 = j
    BY <1>2, <1>3, SMT
  <2>2. w[j + 1] = IF w[(j + 1) - 1] = Nil THEN Nil ELSE next[w[(j + 1) - 1]]
    BY <1>6, <2>1 DEF After, w
  <2> QED BY <1>2, <1>9, <2>1, <2>2
<1>10. /\ {w[j] : j \in 0 .. Cardinality(Freed) - 1} = Freed
       /\ w[Cardinality(Freed)] = Nil
  BY <1>8, <1>9, RunsWalk DEF FreeListWhole
<1>11. N \in Nat /\ N \in 0 .. N
  BY <1>2, <1>3, SMT
<1> QED BY <1>2, <1>7, <1>10, <1>11 DEF w

\* The list alloc pops holds every freed object exactly once and ends, none of its objects
\* is in the client's hands, and inuse counts those that are.
THEOREM ListAlwaysExact == ASSUME Lang = "go" PROVE Spec => []ListExact
<1>1. Init => FreeListWhole
  <2> SUFFICES ASSUME Init PROVE FreeListWhole
    OBVIOUS
  <2>1. f.list = Nil /\ Freed = {}
    BY ZeroFields DEF Init, Freed
  <2> QED BY <2>1, RunsEmpty DEF FreeListWhole
<1>2. IInv /\ Counted /\ FreeListWhole => ListExact
  <2> SUFFICES ASSUME IInv, Counted, FreeListWhole PROVE ListExact
    OBVIOUS
  <2> DEFINE N == Cardinality(Freed)
  <2>1. /\ N \in Nat /\ DOMAIN Walk = 0 .. N /\ N \in 0 .. N
        /\ {Walk[i] : i \in 0 .. N - 1} = Freed /\ Walk[N] = Nil /\ Nil \notin Freed
    BY WalkFacts
  <2>2. Listed = Freed
    <3> HIDE DEF N
    <3>1. \A i \in 0 .. N : i = N \/ i \in 0 .. N - 1
      BY <2>1, SMT
    <3>2. \A i \in 0 .. N - 1 : i \in 0 .. N
      BY <2>1, SMT
    <3> QED BY <2>1, <3>1, <3>2 DEF Listed
  <2>3. live \cap Freed = {}
    BY DEF IInv, Links
  <2>4. \E i \in DOMAIN Walk : Walk[i] = Nil /\ Cardinality(Listed) = i
    BY <2>1, <2>2
  <2> QED BY <2>2, <2>3, <2>4 DEF ListExact, Counted
<1>3. IInv /\ FreeListWhole /\ [Next]_vars => FreeListWhole'
  BY FreeListStep
<1> QED BY <1>1, <1>2, <1>3, CountedAlways, PTL DEF Spec
=============================================================================
