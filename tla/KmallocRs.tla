------------------------------ MODULE KmallocRs ------------------------------
(***************************************************************************)
(* The Rust port of kmalloc (kmalloc/src/kmalloc.rs) and the GlobalAlloc   *)
(* that wraps it (kmalloc/src/lib.rs), one call per step, in a release     *)
(* build: kassert! does nothing and arithmetic wraps.                      *)
(*                                                                         *)
(* The geometry, the header word, the search loop of kmalloc and the sizes *)
(* of realloc are the same expressions as in kmalloc.c and are taken from  *)
(* KmallocHeap; so are Kmalloc's client and its properties.  Defined here  *)
(* is what the port does in its own way, its operators named Rs...         *)
(***************************************************************************)
EXTENDS Kmalloc

VARIABLE stopped   \* why the program goes no further: "panicked" (an index out
                   \* of bounds), "alloc_error", "hung" in a loop, or "no"

rsvars == <<vars, stopped>>

(* PAGE_BUCKET starts at -1, where pagebucket starts at 0.                 *)
RsInit ==
    /\ \E base \in Bases :
         heap = [pagesz |-> 0, pagebucket |-> -1, nextf |-> [b \in Buckets |-> Null],
                 word |-> [a \in {} |-> 0], home |-> [a \in {} |-> 0], brk |-> base]
    /\ live = [p \in {} |-> 0] /\ stale = [p \in {} |-> 0]
    /\ copied = NoCopy /\ fault = FALSE
    /\ stopped = "no"
-----------------------------------------------------------------------------
(* morecore.  kassert!(sz > 0) lets the bucket pass whose size is negative *)
(* as an i32: it is below a page, so a page is reserved for its one block. *)

RsReserved(b) == IF b = Top THEN Page ELSE Extent(b)

RsSbrkAmt(b) == IF b = Top THEN Page ELSE SbrkAmt(b)

RsSbrkCan(h, b) == h.brk + RsSbrkAmt(b) <= HeapLimit

RsMorecore_BugOverlaps(h, b) ==
    [Morecore(h, b) EXCEPT !.brk = h.brk + RsSbrkAmt(b) - Overhead]

RsMorecore(h, b) ==
    IF b # Top THEN Morecore(h, b)
    ELSE [h EXCEPT !.brk = @ + RsSbrkAmt(b), !.nextf[b] = h.brk,
                   !.home = [a \in DOMAIN h.home \cup {h.brk} |->
                               IF a = h.brk THEN b ELSE h.home[a]],
                   !.word = [a \in DOMAIN h.word \cup {h.brk} |->
                               IF a = h.brk THEN Null ELSE h.word[a]]]

Outcome(h, p, why) == [heap |-> h, ret |-> p, stop |-> why]
RsTaken(h, b) == Outcome(Take(h, b).heap, Take(h, b).ret, "no")

(* NEXTF[bucket as usize] panics for bucket -1.                            *)
RsFromBucket(h, b) ==
    IF b = -1 THEN {Outcome(h, Null, "panicked")}
    ELSE IF h.nextf[b] # Null THEN {RsTaken(h, b)}
    ELSE {Outcome(h, Null, "no")}
         \cup (IF RsSbrkCan(h, b) THEN {RsTaken(RsMorecore(h, b), b)} ELSE {})

RsAfterSetup(h, n) ==
    IF LoopExit(n) = {} THEN {Outcome(h, Null, "no")}
    ELSE UNION {RsFromBucket(h, FirstBucket(h, n) + k) : k \in LoopExit(n)}

RsKmalloc(h, n) ==
    IF h.pagesz # 0 THEN RsAfterSetup(h, n)
    ELSE RsAfterSetup(SetupDone(h), n)
         \cup IF SetupMayFail /\ Padding(h.brk) # 0
              THEN {Outcome(SetupFailed(h), Null, "no")} ELSE {}

RsKfree_BugNoLink(h, cp) ==
    LET op == cp - Overhead IN [h EXCEPT !.nextf[OvIndex(h.word[op])] = op]

(* kfree: the magic number is looked at by a kassert! only.                *)
RsKfree(h, cp) ==
    LET op == cp - Overhead
        b  == OvIndex(h.word[op])
    IN  [h EXCEPT !.word[op] = h.nextf[b], !.nextf[b] = op]
-----------------------------------------------------------------------------
(* findbucket.  Its inner loop never follows a link, and compares srchlen  *)
(* with 0 at first and with 0 or 1 from then on: at a list with head p it  *)
(* goes on to the next list, has found op, or never ends.                  *)

Inter(p, j) == IF p = Null \/ j = 0 THEN 0 ELSE 1

AtList(p, op, srchlen) ==
    CASE Inter(p, 0) = srchlen             -> "next"
      [] Inter(p, 0) # srchlen /\ p = op   -> "found"
      [] Inter(p, 0) # srchlen /\ p # op   ->
           IF Inter(p, 1) = srchlen THEN "next" ELSE "hung"

Hung == -2

RsFindbucket(h, op, srchlen) ==
    LET ends == {b \in Buckets : AtList(h.nextf[b], op, srchlen) # "next"}
    IN  IF ends = {} THEN -1
        ELSE LET b == CHOOSE x \in ends : \A y \in ends : x <= y
             IN  IF AtList(h.nextf[b], op, srchlen) = "found" THEN b ELSE Hung

(* Both searches are made, whatever the first finds.                       *)
RsSearches(h, op) == <<RsFindbucket(h, op, 1), RsFindbucket(h, op, SrchLen)>>

RsOldBucket(h, op) ==
    IF InUse(h, op) THEN OvIndex(h.word[op])
    ELSE LET s == RsSearches(h, op)
         IN  IF Hung \in {s[1], s[2]} THEN Hung
             ELSE IF s[1] < 0 /\ s[2] < 0 THEN NBUCKETS ELSE s[1]

RsStaysInPlace_BugSmaller(h, op, n) ==
    InUse(h, op) /\ n > LowerBytes(OvIndex(h.word[op]))

RsStaysInPlace(h, op, n) ==
    InUse(h, op) /\ LET i == OvIndex(h.word[op])
                    IN  n <= OldBytes(i) /\ n > LowerBytes(i)

RsRealloc(h, cp, n) ==
    LET op == cp - Overhead
    IN  IF RsOldBucket(h, op) = Hung THEN {Outcome(h, Null, "hung")}
        ELSE IF RsStaysInPlace(h, op, n) THEN {Outcome(h, cp, "no")}
        ELSE RsKmalloc(IF InUse(h, op) THEN RsKfree(h, cp) ELSE h, n)

RsCopyLen_BugNewSize(h, cp, n) == n
RsCopyLen(h, cp, n) ==
    LET onb == OldBytes(RsOldBucket(h, cp - Overhead)) IN IF n < onb THEN n ELSE onb
-----------------------------------------------------------------------------
(* GlobalAlloc::alloc: a null pointer ends in handle_alloc_error.          *)
Alloc(n) ==
    \E r \in RsKmalloc(heap, n) :
        /\ heap' = r.heap
        /\ Obtain(r.ret, n)
        /\ stopped' = IF r.stop = "no" /\ r.ret = Null THEN "alloc_error" ELSE r.stop
        /\ copied' = NoCopy /\ UNCHANGED fault

(* GlobalAlloc::dealloc of a block the caller owns.                        *)
Dealloc(cp) ==
    /\ heap' = RsKfree(heap, cp)
    /\ live' = Drop(live, {cp})
    /\ stale' = Put(stale, cp, live[cp])
    /\ copied' = NoCopy /\ UNCHANGED <<fault, stopped>>

RsKcalloc(nelem, elsize) ==
    LET n == (nelem * elsize) % WordMod
    IN  \E r \in RsKmalloc(heap, n) :
            /\ heap' = r.heap
            /\ Obtain(r.ret, n)
            /\ fault' = (r.stop = "no" /\ r.ret = Null /\ n > 0)
            /\ stopped' = r.stop
            /\ copied' = NoCopy

(* realloc of a block the caller owns or, for "compaction", of a freed one *)
(* that has not been handed out since.                                     *)
RsResize(cp, n) ==
    LET had == IF cp \in DOMAIN live THEN live[cp] ELSE stale[cp]
        op  == cp - Overhead
    IN  \E r \in RsRealloc(heap, cp, n) :
            /\ heap' = r.heap
            /\ stopped' = r.stop
            /\ IF r.ret = Null
               THEN /\ live' = IF r.stop = "hung" THEN live ELSE Drop(live, {cp})
                    /\ stale' = IF r.stop = "hung" THEN stale ELSE Put(stale, cp, had)
               ELSE /\ live' = Put(Drop(live, {cp}), r.ret, n)
                    /\ stale' = Drop(stale, {cp, r.ret})
            /\ copied' = IF r.ret \in {Null, cp} THEN NoCopy
                         ELSE [src |-> cp, dst |-> r.ret, len |-> RsCopyLen(heap, cp, n),
                               had |-> had, known |-> RsOldBucket(heap, op) # NBUCKETS]
            /\ UNCHANGED fault

(* A realloc of no bytes frees; of null, it is kmalloc, which RsKcalloc     *)
(* calls for every size.                                                   *)
RsReallocCall(cp, n) ==
    \/ n = 0 /\ cp \in DOMAIN live /\ Dealloc(cp)
    \/ n > 0 /\ RsResize(cp, n)

RsNext ==
    /\ ~fault /\ stopped = "no"
    /\ \/ \E n \in Requests : Alloc(n)
       \/ \E cp \in DOMAIN live : Dealloc(cp)
       \/ \E nelem \in Counts, elsize \in Requests : RsKcalloc(nelem, elsize)
       \/ \E cp \in DOMAIN live \cup DOMAIN stale, n \in Requests : RsReallocCall(cp, n)
       \/ \E k \in ForeignMoves : ForeignSbrk(k) /\ UNCHANGED stopped

RsSpec == RsInit /\ [][RsNext]_rsvars
-----------------------------------------------------------------------------
(* A block holds the bytes asked for: morecore reserved that much for it   *)
(* ("kassert!(sz > 0)").                                                   *)
RsRoomForRequest ==
    \A p \in DOMAIN live : live[p] <= RsReserved(heap.home[p - Overhead]) - Overhead
=============================================================================
