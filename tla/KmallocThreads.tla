--------------------------- MODULE KmallocThreads ---------------------------
(***************************************************************************)
(* Kmalloc as a #[global_allocator] (kmalloc/src/lib.rs): threads call     *)
(* alloc and dealloc at the same time, and kmalloc, morecore and kfree of  *)
(* kmalloc.rs work on the static mut NEXTF, PAGE_SZ and PAGE_BUCKET        *)
(* without a lock.  Every access of them, and of a header that another     *)
(* thread may see, is a step; sbrk is one step.  The accesses race, which  *)
(* makes the program undefined: modelled are the outcomes of a build that  *)
(* compiles each to one machine access, in program order.                  *)
(*                                                                         *)
(* The expressions that the port shares with kmalloc.c come from           *)
(* KmallocHeap.                                                            *)
(***************************************************************************)
EXTENDS KmallocHeap, Sequences

CONSTANTS Thread,       \* the threads
          SizesOf,      \* the sizes of the layouts each thread asks for
          Base,         \* where the break is before the first call
          MaxHeld       \* bound: the blocks one thread holds at a time

ASSUME ThreadsAssumption ==
    /\ SizesOf \in [Thread -> SUBSET Nat]
    /\ Base \in Nat \ {0} /\ Base % 4 = 0 /\ MaxHeld \in Nat

VARIABLES
  NEXTF, PAGE_SZ, PAGE_BUCKET,
  word,     \* block address -> its header word
  cut,      \* block address -> the bucket it was cut for (a history variable)
  brk,      \* the program break
  pc,       \* each thread's next access
  op,       \* its local variable overhead
  bucket,   \* its local variable bucket
  n,        \* the size it asks for, or the number of its local counter
  link,     \* the ov_next it has read
  held,     \* the blocks each thread owns, in the order of allocation
  stopped   \* "no", or what ended the program

shared == <<NEXTF, PAGE_SZ, PAGE_BUCKET, word, cut, brk>>
locals == <<op, bucket, n, link>>
tvars == <<shared, pc, locals, held, stopped>>

Goto(t, l) == pc' = [pc EXCEPT ![t] = l]
Let(x, t, v) == [x EXCEPT ![t] = v]
Elems(s) == {s[i] : i \in DOMAIN s}

Init == /\ NEXTF = [b \in Buckets |-> Null] /\ PAGE_SZ = 0 /\ PAGE_BUCKET = -1
        /\ word = [a \in {} |-> 0] /\ cut = [a \in {} |-> 0] /\ brk = Base
        /\ pc = [t \in Thread |-> "idle"]
        /\ op = [t \in Thread |-> Null] /\ bucket = [t \in Thread |-> 0]
        /\ n = [t \in Thread |-> 0] /\ link = [t \in Thread |-> Null]
        /\ held = [t \in Thread |-> <<>>]
        /\ stopped = "no"
-----------------------------------------------------------------------------
(* kmalloc.                                                                *)

CallAlloc(t) ==
    /\ pc[t] = "idle" /\ Len(held[t]) < MaxHeld
    /\ \E s \in SizesOf[t] : n' = Let(n, t, s)
    /\ Goto(t, "check")
    /\ UNCHANGED <<shared, op, bucket, link, held, stopped>>

(* if PAGE_SZ == 0 { PAGE_SZ = PAGE_SIZE; ...                              *)
CheckSetup(t) == /\ pc[t] = "check"
                 /\ Goto(t, IF PAGE_SZ = 0 THEN "setpage" ELSE "compute")
                 /\ UNCHANGED <<shared, locals, held, stopped>>

SetPageSize(t) == /\ pc[t] = "setpage"
                  /\ PAGE_SZ' = Page
                  /\ Goto(t, "getbrk")
                  /\ UNCHANGED <<NEXTF, PAGE_BUCKET, word, cut, brk, locals, held, stopped>>

GetBreak(t) == /\ pc[t] = "getbrk"
               /\ op' = Let(op, t, brk)
               /\ Goto(t, "align")
               /\ UNCHANGED <<shared, bucket, n, link, held, stopped>>

(* The padding is that of the break sbrk(0) returned, which may have moved; *)
(* a refused one makes kmalloc return null, and alloc give up.              *)
Align(t) ==
    /\ pc[t] = "align"
    /\ \/ brk' = brk + Padding(op[t]) /\ Goto(t, "setbucket") /\ UNCHANGED stopped
       \/ /\ SetupMayFail /\ Padding(op[t]) # 0
          /\ stopped' = "alloc_error" /\ UNCHANGED <<brk, pc>>
    /\ UNCHANGED <<NEXTF, PAGE_SZ, PAGE_BUCKET, word, cut, locals, held>>

SetPageBucket(t) == /\ pc[t] = "setbucket"
                    /\ PAGE_BUCKET' = PageBucket
                    /\ Goto(t, "compute")
                    /\ UNCHANGED <<NEXTF, PAGE_SZ, word, cut, brk, locals, held, stopped>>

(* The search for the bucket, which reads PAGE_BUCKET for large requests;  *)
(* NEXTF[-1] panics, and so does a size that no bucket has.                *)
Compute(t) ==
    LET first == IF Small(n[t]) THEN 0 ELSE PAGE_BUCKET
    IN  /\ pc[t] = "compute"
        /\ IF LoopExit(n[t]) = {}
           THEN stopped' = "alloc_error" /\ UNCHANGED <<pc, bucket>>
           ELSE \E k \in LoopExit(n[t]) :
                  IF first + k < 0
                  THEN stopped' = "panicked" /\ UNCHANGED <<pc, bucket>>
                  ELSE /\ bucket' = Let(bucket, t, first + k)
                       /\ Goto(t, "head") /\ UNCHANGED stopped
        /\ UNCHANGED <<shared, op, n, link, held>>

AfterHead_BugNoTest(t) == "next"
AfterHead(t) == IF NEXTF[bucket[t]] = Null THEN "sbrk" ELSE "next"

(* overhead = NEXTF[bucket], and whether it is null.                       *)
ReadHead(t) == /\ pc[t] = "head"
               /\ op' = Let(op, t, NEXTF[bucket[t]])
               /\ Goto(t, AfterHead(t))
               /\ UNCHANGED <<shared, bucket, n, link, held, stopped>>

(* morecore: sbrk, NEXTF[bucket] = overhead, then a link at a time.  The   *)
(* size of the largest bucket is negative as an i32, below a page.         *)
Reserved(b) == IF b = Top THEN Page ELSE SbrkAmt(b)

Sbrk(t) ==
    LET b == bucket[t]
    IN  /\ pc[t] = "sbrk"
        /\ \/ /\ brk + Reserved(b) <= HeapLimit
              /\ brk' = brk + Reserved(b)
              /\ word' = [a \in DOMAIN word \cup Carved(brk, b) |->
                            IF a \in DOMAIN word THEN word[a] ELSE Null]
              /\ cut' = [a \in DOMAIN cut \cup Carved(brk, b) |->
                            IF a \in DOMAIN cut THEN cut[a] ELSE b]
              /\ op' = Let(op, t, brk)
              /\ n' = Let(n, t, NBlocks(b) - 1)
              /\ Goto(t, "publish")
           \/ /\ Goto(t, "reread") /\ UNCHANGED <<brk, word, cut, op, n>>
        /\ UNCHANGED <<NEXTF, PAGE_SZ, PAGE_BUCKET, bucket, link, held, stopped>>

Publish(t) == /\ pc[t] = "publish"
              /\ NEXTF' = Let(NEXTF, bucket[t], op[t])
              /\ Goto(t, IF n[t] = 0 THEN "reread" ELSE "chain")
              /\ UNCHANGED <<PAGE_SZ, PAGE_BUCKET, word, cut, brk, locals, held, stopped>>

Chain(t) ==
    LET next == op[t] + Amt[bucket[t]]
    IN  /\ pc[t] = "chain"
        /\ word' = Let(word, op[t], next)
        /\ op' = Let(op, t, next)
        /\ n' = Let(n, t, n[t] - 1)
        /\ Goto(t, IF n[t] = 1 THEN "reread" ELSE "chain")
        /\ UNCHANGED <<NEXTF, PAGE_SZ, PAGE_BUCKET, cut, brk, bucket, link, held, stopped>>

(* After morecore the head is read again; null makes alloc call            *)
(* handle_alloc_error.                                                     *)
Reread(t) == /\ pc[t] = "reread"
             /\ op' = Let(op, t, NEXTF[bucket[t]])
             /\ IF NEXTF[bucket[t]] = Null
                THEN stopped' = "alloc_error" /\ UNCHANGED pc
                ELSE Goto(t, "next") /\ UNCHANGED stopped
             /\ UNCHANGED <<shared, bucket, n, link, held>>

(* NEXTF[bucket] = overhead.ov_next is a load and a store.                 *)
ReadNext(t) == /\ pc[t] = "next"
               /\ IF op[t] \in DOMAIN word
                  THEN link' = Let(link, t, word[op[t]]) /\ Goto(t, "pop") /\ UNCHANGED stopped
                  ELSE stopped' = "segfault" /\ UNCHANGED <<link, pc>>
               /\ UNCHANGED <<shared, op, bucket, n, held>>

Popped_BugStays(t) == op[t]
Popped(t) == link[t]

Pop(t) == /\ pc[t] = "pop"
          /\ NEXTF' = Let(NEXTF, bucket[t], Popped(t))
          /\ Goto(t, "stamp")
          /\ UNCHANGED <<PAGE_SZ, PAGE_BUCKET, word, cut, brk, locals, held, stopped>>

(* Magic number and index, neighbouring bytes.                             *)
StampHeader(t) == /\ pc[t] = "stamp"
                  /\ word' = Let(word, op[t], Stamp(word[op[t]], bucket[t]))
                  /\ held' = Let(held, t, Append(held[t], op[t]))
                  /\ Goto(t, "idle")
                  /\ op' = Let(op, t, Null) /\ bucket' = Let(bucket, t, 0)
                  /\ n' = Let(n, t, 0) /\ link' = Let(link, t, Null)
                  /\ UNCHANGED <<NEXTF, PAGE_SZ, PAGE_BUCKET, cut, brk, stopped>>
-----------------------------------------------------------------------------
(* kfree: the index, then ov_next = NEXTF[size], then NEXTF[size] = op.    *)

CallDealloc(t) ==
    /\ pc[t] = "idle"
    /\ \E i \in DOMAIN held[t] :
         /\ op' = Let(op, t, held[t][i])
         /\ bucket' = Let(bucket, t, OvIndex(word[held[t][i]]))
         /\ held' = Let(held, t, SubSeq(held[t], 1, i - 1) \o SubSeq(held[t], i + 1, Len(held[t])))
    /\ Goto(t, "link")
    /\ UNCHANGED <<shared, n, link, stopped>>

NewLink_BugEmpty(t) == Null
NewLink(t) == NEXTF[bucket[t]]

LinkBlock(t) == /\ pc[t] = "link"
                /\ IF bucket[t] \in Buckets
                   THEN /\ word' = Let(word, op[t], NewLink(t))
                        /\ Goto(t, "push") /\ UNCHANGED stopped
                   ELSE stopped' = "panicked" /\ UNCHANGED <<word, pc>>
                /\ UNCHANGED <<NEXTF, PAGE_SZ, PAGE_BUCKET, cut, brk, locals, held>>

Push(t) == /\ pc[t] = "push"
           /\ NEXTF' = Let(NEXTF, bucket[t], op[t])
           /\ Goto(t, "idle")
           /\ op' = Let(op, t, Null) /\ bucket' = Let(bucket, t, 0)
           /\ UNCHANGED <<PAGE_SZ, PAGE_BUCKET, word, cut, brk, n, link, held, stopped>>

Step(t) ==
    \/ CallAlloc(t) \/ CheckSetup(t) \/ SetPageSize(t) \/ GetBreak(t) \/ Align(t)
    \/ SetPageBucket(t) \/ Compute(t) \/ ReadHead(t) \/ Sbrk(t) \/ Publish(t)
    \/ Chain(t) \/ Reread(t) \/ ReadNext(t) \/ Pop(t) \/ StampHeader(t)
    \/ CallDealloc(t) \/ LinkBlock(t) \/ Push(t)

Next == stopped = "no" /\ \E t \in Thread : Step(t)

Spec == Init /\ [][Next]_tvars
-----------------------------------------------------------------------------
(* Properties.                                                             *)

(* The block a call is about to hand out or has taken back belongs to its  *)
(* thread as well.                                                         *)
Owned(t) == Elems(held[t]) \cup (IF pc[t] \in {"stamp", "link", "push"} THEN {op[t]} ELSE {})

(* The same block is never in the hands of two threads, or twice in those  *)
(* of one: alloc takes it off its list before it returns it.               *)
HandedOutOnce ==
    /\ \A t, u \in Thread : t # u => Owned(t) \cap Owned(u) = {}
    /\ \A t \in Thread : \A i, j \in DOMAIN held[t] : i # j => held[t][i] # held[t][j]

(* Blocks cut by different calls of morecore, made at any moment of each   *)
(* other's setup, do not overlap, and end below the break.                 *)
CutApart ==
    \A a \in DOMAIN cut :
        /\ a + Extent(cut[a]) <= brk
        /\ \A c \in DOMAIN cut : a < c => a + Extent(cut[a]) <= c

(* When no call is under way, list b runs through the blocks of bucket b   *)
(* that nobody holds, each once: none has been lost between a load and a   *)
(* store of NEXTF.                                                         *)
Quiet == stopped = "no" /\ \A t \in Thread : pc[t] = "idle"
NothingLost ==
    Quiet => \A b \in Buckets :
        LET free == {a \in DOMAIN cut : cut[a] = b} \ UNION {Owned(t) : t \in Thread}
            node == ListNode([nextf |-> NEXTF, word |-> word], b)
        IN  /\ {node[j] : j \in 0 .. Cardinality(free) - 1} = free
            /\ node[Cardinality(free)] = Null

(* No call runs into an address that is no block, or past NEXTF.           *)
NeverCrashes == stopped \notin {"segfault", "panicked"}
=============================================================================
