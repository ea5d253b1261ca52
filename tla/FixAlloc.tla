------------------------------ MODULE FixAlloc ------------------------------
(***************************************************************************)
(* The fixed-size allocator of rgoffi, which exists twice: in Go           *)
(* (rgoffi/go/fixalloc.go) and as its translation to C                     *)
(* (rgoffi/go/gocruntime/fixalloc.c).  The two differ in one place, the    *)
(* slot a fresh object gets; Lang chooses.                                 *)
(*                                                                         *)
(* Memory is a range of addresses.  The allocator gets chunks from the Go  *)
(* runtime's persistentalloc, which serves others too, and keeps its free  *)
(* objects on a list threaded through their first LinkSize bytes.  Only    *)
(* whether a byte is zero is kept of its contents.  The client sets one    *)
(* allocator up once and frees only what it holds, as test() and           *)
(* fixallocSample() do.                                                    *)
(***************************************************************************)
EXTENDS Integers, FiniteSets, Functions

CONSTANTS Lang,           \* "go" or "c"
          FixAllocChunk,  \* _FixAllocChunk, the bytes asked for at a time
          LinkSize,       \* sizeof(struct mlink)
          Sizes,          \* the object sizes clients ask for
          Gaps,           \* what others may take between two chunks
          Memory          \* the last address persistentalloc can hand out

ASSUME FixAllocAssumption ==
    /\ Lang \in {"go", "c"}
    /\ LinkSize \in Nat \ {0} /\ FixAllocChunk \in Nat
    /\ LinkSize =< FixAllocChunk
    /\ Sizes \subseteq Nat \ {0} /\ Gaps \subseteq Nat /\ Memory \in Nat

VARIABLES f,        \* the struct fixalloc
          next,     \* the link in each freed object's first bytes
          dirty,    \* the addresses that hold something else than zero
          chunks,   \* the first addresses of the chunks the allocator got
          brk,      \* persistentalloc has handed out all memory below this
          live,     \* the objects in the client's hands
          ret,      \* what the last step returned, Nil if nothing
          ended     \* throw, or a panic, has ended the program

vars == <<f, next, dirty, chunks, brk, live, ret, ended>>

Nil == 0

Span(p, n) == p .. p + n - 1
Object(p) == Span(p, f.size)
-----------------------------------------------------------------------------
(* The operations on the struct.                                           *)

ZeroStruct == [size |-> 0, list |-> Nil, chunk |-> 0, nchunk |-> 0,
               nalloc |-> 0, inuse |-> 0, zero |-> FALSE]

ObjectSize(s) == IF s < LinkSize THEN LinkSize ELSE s

InitStruct_BugNoZero(s) ==
    [ZeroStruct EXCEPT !.size = s, !.nalloc = (FixAllocChunk \div s) * s]

InitStruct(s) ==
    [ZeroStruct EXCEPT !.size = s, !.nalloc = (FixAllocChunk \div s) * s,
                       !.zero = TRUE]

PopList_BugStays == [f EXCEPT !.inuse = @ + f.size]
PopList == [f EXCEPT !.list = next[f.list], !.inuse = @ + f.size]

PushList_BugStaysInUse(p) == [f EXCEPT !.list = p]

PushList(p) == [f EXCEPT !.list = p, !.inuse = @ - f.size]

NeedsChunk_BugOnce == f.chunk = 0
NeedsChunk_BugEarly == f.nchunk =< f.size

NeedsChunk == f.nchunk < f.size

GoSlot_BugAdvanced(start) == start + f.size

(* Go returns the chunk's place before it advances it ...                  *)
GoSlot(start) == start

(* ... and C the place after it.                                           *)
CSlot(start) == start + f.size

Slot(start) == IF Lang = "go" THEN GoSlot(start) ELSE CSlot(start)

Cut_BugByLink(start, n) == [f EXCEPT !.chunk = start + LinkSize, !.nchunk = n - f.size,
                                     !.inuse = @ + f.size]

(* The struct after an object is cut from n bytes that start at `start'.   *)
Cut(start, n) == [f EXCEPT !.chunk = start + f.size, !.nchunk = n - f.size,
                           !.inuse = @ + f.size]
-----------------------------------------------------------------------------
Init == /\ f = ZeroStruct
        /\ next = [a \in {} |-> Nil]
        /\ dirty = {} /\ chunks = {} /\ live = {}
        /\ brk = 1
        /\ ret = Nil
        /\ ended = FALSE

Throw == ended' = TRUE /\ UNCHANGED <<f, next, dirty, chunks, brk, live, ret>>

SetUp(s) ==
    /\ ~ended /\ f.size = 0
    /\ \/ /\ s > FixAllocChunk
          /\ Throw
       \/ /\ s =< FixAllocChunk
          /\ f' = InitStruct(ObjectSize(s))
          /\ UNCHANGED <<next, dirty, chunks, brk, live, ret, ended>>

AllocTooEarly == ~ended /\ f.size = 0 /\ Throw

(* A freed object is reused; its bytes, the link among them, are cleared   *)
(* when zero is set.                                                       *)
AllocFromList ==
    /\ ~ended /\ f.size # 0 /\ f.list # Nil
    /\ f' = PopList
    /\ IF f.zero THEN /\ dirty' = dirty \ Object(f.list)
                      /\ next' = Restrict(next, DOMAIN next \ {f.list})
                 ELSE UNCHANGED <<dirty, next>>
    /\ live' = live \cup {f.list}
    /\ ret' = f.list
    /\ UNCHANGED <<chunks, brk, ended>>

AllocFromChunk ==
    /\ ~ended /\ f.size # 0 /\ f.list = Nil /\ ~NeedsChunk
    /\ f' = Cut(f.chunk, f.nchunk)
    /\ live' = live \cup {Slot(f.chunk)}
    /\ ret' = Slot(f.chunk)
    /\ UNCHANGED <<next, dirty, chunks, brk, ended>>

(* persistentalloc places the new chunk behind all memory it has given     *)
(* out, part of which others have taken and use.                           *)
AllocNewChunk(gap) ==
    LET base == brk + gap
    IN  /\ ~ended /\ f.size # 0 /\ f.list = Nil /\ NeedsChunk
        /\ base + f.nalloc - 1 =< Memory
        /\ f' = Cut(base, f.nalloc)
        /\ chunks' = chunks \cup {base}
        /\ brk' = base + f.nalloc
        /\ dirty' = dirty \cup Span(brk, gap)
        /\ live' = live \cup {Slot(base)}
        /\ ret' = Slot(base)
        /\ UNCHANGED <<next, ended>>

Free(p) ==
    /\ ~ended /\ p \in live
    /\ f' = PushList(p)
    /\ next' = [a \in DOMAIN next \cup {p} |-> IF a = p THEN f.list ELSE next[a]]
    /\ dirty' = IF f.list = Nil THEN dirty \ Span(p, LinkSize)
                ELSE dirty \cup Span(p, LinkSize)
    /\ live' = live \ {p}
    /\ ret' = Nil
    /\ UNCHANGED <<chunks, brk, ended>>

(* The client fills an object it holds.                                    *)
Write(p) ==
    /\ ~ended /\ p \in live
    /\ dirty' = dirty \cup Object(p)
    /\ next' = Restrict(next, DOMAIN next \ {p})
    /\ ret' = Nil
    /\ UNCHANGED <<f, chunks, brk, live, ended>>

Next == \/ \E s \in Sizes : SetUp(s)
        \/ AllocTooEarly \/ AllocFromList \/ AllocFromChunk
        \/ \E gap \in Gaps : AllocNewChunk(gap)
        \/ \E p \in live : Free(p) \/ Write(p)

Spec == Init /\ [][Next]_vars
-----------------------------------------------------------------------------
(* Properties.                                                             *)

Owned == UNION {Span(b, f.nalloc) : b \in chunks}

(* The objects freed and not handed out again: those with a link.          *)
Freed == DOMAIN next
Objects == live \cup Freed

(* The objects on the list, followed link by link from f.list: every freed *)
(* object has a link of its own, so the walk is that long at most.         *)
Walk == LET w[i \in 0 .. Cardinality(DOMAIN next)] ==
              IF i = 0 THEN f.list
              ELSE IF w[i - 1] = Nil THEN Nil ELSE next[w[i - 1]]
        IN  w

Listed == {Walk[i] : i \in DOMAIN Walk} \ {Nil}

(* The fields of struct fixalloc and the client's bookkeeping have their   *)
(* types.                                                                  *)
TypeOK ==
    /\ f \in [size : Nat, list : Nat, chunk : Nat, nchunk : 0 .. FixAllocChunk,
              nalloc : 0 .. FixAllocChunk, inuse : Nat, zero : BOOLEAN]
    /\ next \in [DOMAIN next -> Nat] /\ DOMAIN next \subseteq Nat
    /\ dirty \subseteq Nat /\ chunks \subseteq Nat /\ live \subseteq Nat
    /\ brk \in Nat /\ ret \in Nat /\ ended \in BOOLEAN

(* An object alloc returns overlaps no other the client holds and none     *)
(* that was freed, whose link a write to it would destroy.                 *)
ObjectsApart ==
    \A p, q \in Objects : p # q => Object(p) \cap Object(q) = {}

(* init refuses objects larger than a chunk: every object alloc hands out, *)
(* and so every freed one, lies within the memory persistentalloc gave to  *)
(* this allocator.                                                         *)
ObjectsInChunks == \A p \in Objects : Object(p) \subseteq Owned

(* The list alloc pops ends, and no object is in the client's hands and on *)
(* the list at once: every freed object waits there exactly once.  inuse   *)
(* counts the others.                                                      *)
ListExact ==
    /\ Listed \cap live = {}
    /\ \E i \in DOMAIN Walk : Walk[i] = Nil /\ Cardinality(Listed) = i
    /\ Freed = Listed
    /\ f.inuse = f.size * Cardinality(live)

(* Every byte of every chunk belongs to an object in use, to a freed one   *)
(* or to the part not yet cut: alloc and free lose no memory.              *)
NothingLost ==
    Owned = (UNION {Object(p) : p \in Objects}) \cup Span(f.chunk, f.nchunk)

(* f.zero is set, so alloc returns zeroed objects: a reused one is cleared *)
(* and a fresh one was never written.                                      *)
HandedOutZero == ret # Nil => Object(ret) \cap dirty = {}

(* The allocator is a slab.                                                *)
SlabView == INSTANCE Slab
              WITH size <- f.size, arena <- Owned, held <- live, inuse <- f.inuse
ImplementsSlab == SlabView!Spec
=============================================================================
