------------------------------- MODULE Atomics ------------------------------
(***************************************************************************)
(* The atomic operations of rgoffi/go/gocruntime: atomic.c, which names    *)
(* them for each type, and the instructions of atomic_amd64.s and          *)
(* atomic_amd64.c that carry them out, on a processor with store buffers   *)
(* (x86-TSO): a plain store waits in its thread's buffer, an instruction   *)
(* with a lock prefix, and every xchg, acts on memory with the buffer      *)
(* empty.                                                                  *)
(*                                                                         *)
(* Threads run sequences of calls.  A call loads its registers, accesses   *)
(* memory in one instruction and finishes in registers; the 32- and 64-bit *)
(* forms and the signed and unsigned ones are the same code on a Word of   *)
(* other size.  _or and _and, which atomic.c does not name, are called by  *)
(* the names of atomic_amd64.h.                                            *)
(***************************************************************************)
EXTENDS Integers, Sequences, SequencesExt

CONSTANTS Thread,    \* the threads
          Word,      \* one more than the largest word
          Addr,      \* the addresses of the mapped words
          Residue,   \* what other code may leave in the accumulator
          Programs   \* what may run: records of start, the words, and calls

ASSUME AtomicsAssumption ==
    /\ Word \in Nat /\ Word > 1
    /\ Addr \subseteq 1 .. Word - 1 /\ Residue \subseteq 0 .. Word - 1
    /\ \A p \in Programs : p.start \in [Addr -> 0 .. Word - 1]

Bits == {i \in 0 .. Word - 1 : 2 ^ i < Word}
Bit(w, i) == (w \div 2 ^ i) % 2 = 1

(* A word has all combinations of its bits: Word is a power of 2.          *)
ASSUME WordAssumption ==
    \A ones \in SUBSET Bits : \E w \in 0 .. Word - 1 : \A i \in Bits : Bit(w, i) <=> i \in ones

VARIABLES prog,     \* the words at the start and the calls each thread makes
          mem,      \* the words of memory
          buf,      \* each thread's store buffer, oldest store first
          pc,       \* where in its current call each thread is
          rax, zf,  \* its registers
          results,  \* what its finished calls returned
          faulted   \* an access to an unmapped address has ended the program

registers == <<rax, zf>>
vars == <<prog, mem, buf, pc, rax, zf, results, faulted>>

None == 0

(* Calls.  read and write are the client's own plain accesses.             *)
Swap(a, new) == [op |-> "swap", addr |-> a, old |-> None, arg |-> new]
CompareAndSwap(a, old, new) == [op |-> "cas", addr |-> a, old |-> old, arg |-> new]
CompareAndSwapPointer(a, old, new) ==
    [op |-> "casp", addr |-> a, old |-> old, arg |-> new]
Add(a, delta) == [op |-> "add", addr |-> a, old |-> None, arg |-> delta]
Load(a) == [op |-> "load", addr |-> a, old |-> None, arg |-> None]
LoadInt32(a) == [op |-> "load32", addr |-> a, old |-> None, arg |-> None]
Or(a, val) == [op |-> "or", addr |-> a, old |-> None, arg |-> val]
And(a, val) == [op |-> "and", addr |-> a, old |-> None, arg |-> val]
Store(a, val) == [op |-> "store", addr |-> a, old |-> None, arg |-> val]
Write(a, val) == [op |-> "write", addr |-> a, old |-> None, arg |-> val]
Read(a) == [op |-> "read", addr |-> a, old |-> None, arg |-> None]

Call(t) == prog.calls[t][Len(results[t]) + 1]
Finished(t) == pc[t] = "idle" /\ Len(results[t]) = Len(prog.calls[t])
-----------------------------------------------------------------------------
(* The accesses of the current call c, one instruction each.               *)

Locked(t) == buf[t] = <<>>

SetWord(a, w) == mem' = [mem EXCEPT ![a] = w]
SetRax(t, w) == rax' = [rax EXCEPT ![t] = w]

(* The word a load sees: its own thread's last buffered store, or memory.  *)
Visible(t, a) ==
    LET own == {i \in DOMAIN buf[t] : buf[t][i].addr = a}
    IN  IF own = {} THEN mem[a] ELSE buf[t][Max(own)].val

MovStore(t, c) == /\ buf' = [buf EXCEPT ![t] = Append(@, [addr |-> c.addr, val |-> c.arg])]
                  /\ UNCHANGED <<mem, rax, zf, faulted>>

Xchg_BugPlain(t, c) == IF c.op = "store" THEN MovStore(t, c)
                       ELSE /\ SetWord(c.addr, rax[t])
                            /\ SetRax(t, mem[c.addr])
                            /\ UNCHANGED <<buf, zf, faulted>>

(* xchg, of _xchg, _xchg64 and of the stores.                              *)
Xchg(t, c) == /\ Locked(t)
              /\ SetWord(c.addr, rax[t])
              /\ SetRax(t, mem[c.addr])
              /\ UNCHANGED <<buf, zf, faulted>>

Xadd_BugNoWrap(t, c) == /\ Locked(t)
                        /\ SetWord(c.addr, mem[c.addr] + rax[t])
                        /\ SetRax(t, mem[c.addr])
                        /\ UNCHANGED <<buf, zf, faulted>>

Xadd_BugNoLock(t, c) ==
    LET w == (Visible(t, c.addr) + rax[t]) % Word
    IN  /\ buf' = [buf EXCEPT ![t] = Append(@, [addr |-> c.addr, val |-> w])]
        /\ SetRax(t, Visible(t, c.addr))
        /\ UNCHANGED <<mem, zf, faulted>>

(* lock xadd.                                                              *)
Xadd(t, c) == /\ Locked(t)
              /\ SetWord(c.addr, (mem[c.addr] + rax[t]) % Word)
              /\ SetRax(t, mem[c.addr])
              /\ UNCHANGED <<buf, zf, faulted>>

Combined(op, x, y) ==
    CHOOSE w \in {v \in 0 .. Word - 1 : \A i \in Bits :
                    Bit(v, i) <=> IF op = "or" THEN Bit(x, i) \/ Bit(y, i)
                                               ELSE Bit(x, i) /\ Bit(y, i)} : TRUE

(* lock or, lock and: no register takes the word.                          *)
LockedBits(t, c) == /\ Locked(t)
                    /\ SetWord(c.addr, Combined(c.op, mem[c.addr], c.arg))
                    /\ UNCHANGED <<buf, rax, zf, faulted>>

(* lock cmpxchg at address a: the accumulator is compared with the word.   *)
Cmpxchg(t, c, a) ==
    /\ Locked(t)
    /\ IF a \notin Addr
       THEN faulted' = TRUE /\ UNCHANGED <<mem, rax, zf>>
       ELSE /\ zf' = [zf EXCEPT ![t] = (mem[a] = rax[t])]
            /\ IF mem[a] = rax[t] THEN SetWord(a, c.arg) /\ UNCHANGED rax
                                  ELSE SetRax(t, mem[a]) /\ UNCHANGED mem
            /\ UNCHANGED faulted
    /\ UNCHANGED buf

(* _load, _load64, _loadp: a plain mov.                                    *)
MovLoad(t, c) == SetRax(t, Visible(t, c.addr)) /\ UNCHANGED <<mem, buf, zf, faulted>>

(* _cas and _cas64 address the word by rdi, their first argument; _casp1   *)
(* by rsi, its second.                                                     *)
CasOperand(c) == c.addr
Casp1Operand(c) == c.old

Instruction(t, c) ==
    \/ c.op = "swap" /\ Xchg(t, c)
    \/ c.op = "store" /\ Xchg(t, c)
    \/ c.op = "cas" /\ Cmpxchg(t, c, CasOperand(c))
    \/ c.op = "casp" /\ Cmpxchg(t, c, Casp1Operand(c))
    \/ c.op = "add" /\ Xadd(t, c)
    \/ c.op \in {"or", "and"} /\ LockedBits(t, c)
    \/ c.op \in {"load", "read"} /\ MovLoad(t, c)
    \/ c.op = "write" /\ MovStore(t, c)

(* The accumulator before the access: of _or and _and, which never set it, *)
(* whatever the code before the call has left there ...                    *)
Accumulator(c) ==
    CASE c.op \in {"or", "and"}    -> Residue
      [] c.op \in {"cas", "casp"}  -> {c.old}
      [] c.op = "load32"           -> {0}
      [] OTHER                     -> {c.arg}

Returned_BugOldValue(t, c) ==
    CASE c.op \in {"cas", "casp"}  -> IF zf[t] THEN 1 ELSE 0
      [] c.op \in {"store", "write"} -> None
      [] OTHER                     -> rax[t]

(* ... and what is returned after it: sete for a cas, and for xadd the     *)
(* addl that makes the new value of the old one.                           *)
Returned(t, c) ==
    CASE c.op \in {"cas", "casp"}  -> IF zf[t] THEN 1 ELSE 0
      [] c.op = "add"              -> (rax[t] + c.arg) % Word
      [] c.op \in {"store", "write"} -> None
      [] OTHER                     -> rax[t]
-----------------------------------------------------------------------------
Begin(p) == /\ prog = p
            /\ mem = p.start
            /\ buf = [t \in Thread |-> <<>>]
            /\ pc = [t \in Thread |-> "idle"]
            /\ rax = [t \in Thread |-> None]
            /\ zf = [t \in Thread |-> FALSE]
            /\ results = [t \in Thread |-> <<>>]
            /\ faulted = FALSE

Init == \E p \in Programs : Begin(p)

(* load_int32 is `return 0': it has no access.                             *)
Enter(t) ==
    /\ ~faulted /\ pc[t] = "idle" /\ Len(results[t]) < Len(prog.calls[t])
    /\ pc' = [pc EXCEPT ![t] = IF Call(t).op = "load32" THEN "finish" ELSE "access"]
    /\ \E w \in Accumulator(Call(t)) : SetRax(t, w)
    /\ UNCHANGED <<prog, mem, buf, zf, results, faulted>>

Access(t) == /\ ~faulted /\ pc[t] = "access"
             /\ Instruction(t, Call(t))
             /\ pc' = [pc EXCEPT ![t] = "finish"]
             /\ UNCHANGED <<prog, results>>

Finish(t) == /\ ~faulted /\ pc[t] = "finish"
             /\ results' = [results EXCEPT ![t] = Append(@, Returned(t, Call(t)))]
             /\ pc' = [pc EXCEPT ![t] = "idle"]
             /\ SetRax(t, None)
             /\ UNCHANGED <<prog, mem, buf, zf, faulted>>

(* The processor writes the oldest store of a thread's buffer to memory.   *)
Flush(t) == /\ ~faulted /\ buf[t] # <<>>
            /\ SetWord(Head(buf[t]).addr, Head(buf[t]).val)
            /\ buf' = [buf EXCEPT ![t] = Tail(@)]
            /\ UNCHANGED <<prog, pc, rax, zf, results, faulted>>

Step(t) == Enter(t) \/ Access(t) \/ Finish(t) \/ Flush(t)

Next == \E t \in Thread : Step(t)

Spec == Init /\ [][Next]_vars
-----------------------------------------------------------------------------
(* Properties.                                                             *)

(* The calls as AtomicWords sees them: one takes effect with its access.   *)
Words == INSTANCE AtomicWords
           WITH prog <- prog.calls,
                phase <- [t \in Thread |->
                            CASE pc[t] = "idle"   -> "idle"
                              [] pc[t] = "access" -> "started"
                              [] pc[t] = "finish" -> "performed"],
                result <- [t \in Thread |-> IF pc[t] = "finish"
                                            THEN Returned(t, Call(t)) ELSE None]

(* Registers, memory and buffers hold words; a thread is idle, at its      *)
(* access or past it.                                                      *)
TypeOK ==
    /\ mem \in [Addr -> 0 .. Word - 1]
    /\ buf \in [Thread -> Seq([addr : Addr, val : 0 .. Word - 1])]
    /\ pc \in [Thread -> {"idle", "access", "finish"}]
    /\ rax \in [Thread -> 0 .. Word - 1] /\ zf \in [Thread -> BOOLEAN]
    /\ results \in [Thread -> Seq(0 .. Word - 1)]
    /\ faulted \in BOOLEAN

(* A program that accesses the words by the functions of atomic.c only.    *)
Library == \A t \in Thread : \A i \in DOMAIN prog.calls[t] :
               prog.calls[t][i].op \notin {"read", "write"}

(* Each call of such a program does atomically, at its access, what        *)
(* atomic.h says it does ("atomically adds delta to *addr and returns the  *)
(* new value").                                                            *)
ImplementsWords == Words!Init /\ [][Library => Words!Next]_Words!vars

(* Calls made one after the other, each as a whole: s.mem are the words and *)
(* s.done counts the calls made by each thread.                            *)
Upcoming(s, t) == prog.calls[t][s.done[t] + 1]

(* got has a result of the next call of t that the call can have in s.     *)
Agrees(got, s, t) ==
    /\ s.done[t] < Len(got[t])
    /\ got[t][s.done[t] + 1] \in Words!Returns(Upcoming(s, t), s.mem[Upcoming(s, t).addr])

After(s, t) ==
    [mem |-> [s.mem EXCEPT ![Upcoming(s, t).addr] = Words!Leaves(Upcoming(s, t), @)],
     done |-> [s.done EXCEPT ![t] = @ + 1]]

Before == [mem |-> prog.start, done |-> [t \in Thread |-> 0]]

NumberOfCalls == Cardinality(UNION {{t} \X DOMAIN prog.calls[t] : t \in Thread})

(* The words that the calls, with the results they had, can leave when they *)
(* are made one whole call after the other in some order.                  *)
InOrder ==
    LET after[n \in 0 .. NumberOfCalls] ==
          IF n = 0 THEN {Before}
          ELSE UNION {{After(s, t) : t \in {u \in Thread : Agrees(results, s, u)}} : s \in after[n - 1]}
    IN  {s.mem : s \in after[NumberOfCalls]}

(* When all threads have finished, words and results are those of the same *)
(* calls made one at a time: an order that also plain accesses, published  *)
(* by a store and fetched after a load, and pairs of stores and loads of   *)
(* two words agree with.                                                   *)
OutcomeInOrder ==
    (\A t \in Thread : Finished(t) /\ buf[t] = <<>>) => mem \in InOrder
=============================================================================
