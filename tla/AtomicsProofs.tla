---------------------------- MODULE AtomicsProofs ----------------------------
(***************************************************************************)
(* Proofs about Atomics.tla and TestAtomicity.tla, for every number of     *)
(* threads, every width of the words and all programs that access them by  *)
(* the functions of atomic.c only.                                         *)
(*                                                                         *)
(* Such a program leaves the store buffers empty, so a load sees memory;   *)
(* what the accumulator holds at a thread's access is what the call put    *)
(* there, whatever the other threads do meanwhile.  That is enough to map  *)
(* each instruction to the moment at which its call takes effect.  Of the  *)
(* test the invariant says what the word is between any two steps: what    *)
(* one thread has added less what the other has subtracted.  At the end,   *)
(* the calls are put in one order as they take effect.                     *)
(***************************************************************************)
EXTENDS TestAtomicity, Chains, TLAPS

Values == 0 .. Word - 1

\* A call of a function of atomic.c that does what atomic.h says: load_int32
\* never does, and compare_and_swap_pointer where its operands differ.
LibraryCall ==
    {c \in [op : {"swap", "store", "cas", "casp", "add", "or", "and", "load"},
            addr : Addr, old : Values, arg : Values] : c.op = "casp" => c.old = c.addr}

LibraryProgram(p) == p.calls \in [Thread -> Seq(LibraryCall)]

Registers ==
    /\ mem \in [Addr -> Values]
    /\ buf = [t \in Thread |-> <<>>]
    /\ pc \in [Thread -> {"idle", "access", "finish"}]
    /\ rax \in [Thread -> Values] /\ zf \in [Thread -> BOOLEAN]
    /\ results \in [Thread -> Seq(Values)]
    /\ faulted = FALSE

\* A thread that is inside a call has one left to return from, and comes to
\* the access with its own operand in the accumulator.
InCall(t) ==
    /\ Len(results[t]) =< Len(prog.calls[t])
    /\ pc[t] # "idle" => Len(results[t]) < Len(prog.calls[t])
    /\ pc[t] = "access" => rax[t] \in Accumulator(Call(t))

IInv == LibraryProgram(prog) /\ Registers /\ \A t \in Thread : InCall(t)
-----------------------------------------------------------------------------
(* One step of one thread.                                                 *)

\* The call a thread is in, or is about to make, is one of its program.
LEMMA CallInProgram ==
  ASSUME IInv, NEW t \in Thread, Len(results[t]) < Len(prog.calls[t])
  PROVE  Call(t) \in LibraryCall
<1>1. prog.calls[t] \in Seq(LibraryCall) /\ results[t] \in Seq(Values)
  BY DEF IInv, LibraryProgram, Registers
<1>2. Len(results[t]) + 1 \in 1 .. Len(prog.calls[t])  BY <1>1
<1> QED  BY <1>1, <1>2 DEF Call

\* A value of the accumulator is a word.
LEMMA AccumulatorValues ==
  ASSUME AtomicsAssumption, NEW c \in LibraryCall
  PROVE  Accumulator(c) \subseteq Values
BY DEF AtomicsAssumption, LibraryCall, Accumulator, Values

LEMMA ModValues ==
  ASSUME AtomicsAssumption, NEW x \in Int
  PROVE  x % Word \in Values
BY DEF AtomicsAssumption, Values

\* Every combination of the bits of two words is a word.
LEMMA CombinedValues ==
  ASSUME NEW x \in Values, NEW y \in Values, NEW op
  PROVE  Combined(op, x, y) \in Values
<1> DEFINE Wanted(i) == IF op = "or" THEN Bit(x, i) \/ Bit(y, i) ELSE Bit(x, i) /\ Bit(y, i)
           W == {v \in Values : \A i \in Bits : Bit(v, i) <=> Wanted(i)}
<1>1. {i \in Bits : Wanted(i)} \in SUBSET Bits  OBVIOUS
<1>2. PICK w \in Values : \A i \in Bits : Bit(w, i) <=> i \in {j \in Bits : Wanted(j)}
  BY <1>1, WordAssumption DEF Values
<1>3. w \in W  BY <1>2
<1>4. (CHOOSE v \in W : TRUE) \in W  BY <1>3
<1>5. Combined(op, x, y) = CHOOSE v \in W : TRUE  BY DEF Combined, Values
<1> QED  BY <1>4, <1>5

\* With an empty buffer a load sees memory.
LEMMA VisibleInMemory ==
  ASSUME Registers, NEW t \in Thread, NEW a
  PROVE  Visible(t, a) = mem[a]
<1>1. buf[t] = <<>>  BY DEF Registers
<1>2. {i \in DOMAIN buf[t] : buf[t][i].addr = a} = {}  BY <1>1
<1> QED  BY <1>2 DEF Visible

LEMMA EnterKeeps ==
  ASSUME AtomicsAssumption, IInv, NEW t \in Thread, Enter(t)
  PROVE  IInv'
<1>1. Call(t) \in LibraryCall  BY CallInProgram DEF Enter
<1>2. PICK w \in Accumulator(Call(t)) : rax' = [rax EXCEPT ![t] = w]  BY DEF Enter, SetRax
<1>3. w \in Values  BY <1>1, <1>2, AccumulatorValues
<1>4. pc' = [pc EXCEPT ![t] = "access"]  BY <1>1 DEF Enter, LibraryCall
<1>5. Registers'  BY <1>2, <1>3, <1>4 DEF Enter, IInv, Registers
<1>6. LibraryProgram(prog)'  BY DEF Enter, IInv, LibraryProgram
<1>7. ASSUME NEW u \in Thread PROVE InCall(u)'
  <2>1. Call(u)' = Call(u)  BY DEF Enter, Call
  <2>2. rax[t]' = w /\ (u # t => rax[u]' = rax[u] /\ pc[u]' = pc[u])
    BY <1>2, <1>4 DEF IInv, Registers
  <2>3. CASE u = t  BY <1>2, <2>1, <2>2, <2>3 DEF IInv, InCall, Enter
  <2>4. CASE u # t  BY <2>1, <2>2, <2>4 DEF IInv, InCall, Enter
  <2> QED  BY <2>3, <2>4
<1> QED  BY <1>5, <1>6, <1>7 DEF IInv

\* What an instruction does to the machine, as far as IInv is concerned.
LEMMA InstructionKeeps ==
  ASSUME AtomicsAssumption, IInv, NEW t \in Thread, pc[t] = "access",
         NEW c \in LibraryCall, c = Call(t), Instruction(t, c)
  PROVE  /\ mem' \in [Addr -> Values] /\ buf' = buf /\ faulted' = FALSE
         /\ rax' \in [Thread -> Values] /\ zf' \in [Thread -> BOOLEAN]
<1> DEFINE a == c.addr
<1>0. /\ a \in Addr /\ c.arg \in Values /\ mem[a] \in Values /\ rax[t] \in Values
      /\ mem \in [Addr -> Values] /\ rax \in [Thread -> Values]
      /\ zf \in [Thread -> BOOLEAN] /\ faulted = FALSE
  BY DEF IInv, Registers, LibraryCall
<1>1. CASE Xchg(t, c)
  BY <1>0, <1>1 DEF Xchg, SetWord, SetRax
<1>2. CASE Xadd(t, c)
  <2>1. (mem[a] + rax[t]) % Word \in Values  BY <1>0, ModValues DEF Values, AtomicsAssumption
  <2> QED  BY <1>0, <1>2, <2>1 DEF Xadd, SetWord, SetRax
<1>3. CASE LockedBits(t, c)
  <2>1. Combined(c.op, mem[a], c.arg) \in Values  BY <1>0, CombinedValues
  <2> QED  BY <1>0, <1>3, <2>1 DEF LockedBits, SetWord
<1>4. CASE Cmpxchg(t, c, a)
  <2>1. mem' \in [Addr -> Values] /\ rax' \in [Thread -> Values]
    BY <1>0, <1>4 DEF Cmpxchg, SetWord, SetRax
  <2>2. zf' \in [Thread -> BOOLEAN] /\ buf' = buf /\ faulted' = FALSE
    <3>1. zf' = [zf EXCEPT ![t] = (mem[a] = rax[t])]  BY <1>0, <1>4 DEF Cmpxchg
    <3>2. (mem[a] = rax[t]) \in BOOLEAN  OBVIOUS
    <3>3. buf' = buf /\ faulted' = faulted  BY <1>0, <1>4 DEF Cmpxchg
    <3> QED  BY <1>0, <3>1, <3>2, <3>3
  <2> QED  BY <2>1, <2>2
<1>5. CASE MovLoad(t, c)
  BY <1>0, <1>5, VisibleInMemory DEF MovLoad, SetRax, IInv
<1>6. c.op \notin {"read", "write"} /\ (c.op = "casp" => c.old = a)  BY DEF LibraryCall
<1> QED  BY <1>1, <1>2, <1>3, <1>4, <1>5, <1>6 DEF Instruction, CasOperand, Casp1Operand

LEMMA AccessKeeps ==
  ASSUME AtomicsAssumption, IInv, NEW t \in Thread, Access(t)
  PROVE  IInv'
<1>1. Call(t) \in LibraryCall  BY CallInProgram DEF Access, IInv, InCall
<1>2. /\ mem' \in [Addr -> Values] /\ buf' = buf /\ faulted' = FALSE
      /\ rax' \in [Thread -> Values] /\ zf' \in [Thread -> BOOLEAN]
  BY <1>1, InstructionKeeps DEF Access
<1>3. pc' = [pc EXCEPT ![t] = "finish"] /\ UNCHANGED <<prog, results>>  BY DEF Access
<1>4. Registers'  BY <1>2, <1>3 DEF IInv, Registers
<1>5. \A u \in Thread : u # t => rax[u]' = rax[u]
  BY <1>1 DEF Access, Instruction, Xchg, Xadd, LockedBits, Cmpxchg, MovLoad, MovStore,
              SetRax, IInv, Registers, LibraryCall
<1>6. ASSUME NEW u \in Thread PROVE InCall(u)'
  <2>1. Call(u)' = Call(u)  BY <1>3 DEF Call
  <2>2. CASE u = t
    <3>1. pc[u]' = "finish"  BY <1>3, <2>2 DEF IInv, Registers
    <3> QED  BY <1>3, <2>2, <3>1 DEF IInv, InCall, Access
  <2>3. CASE u # t
    <3>1. pc[u]' = pc[u]  BY <1>3, <2>3 DEF IInv, Registers
    <3> QED  BY <1>3, <1>5, <2>1, <2>3, <3>1 DEF IInv, InCall
  <2> QED  BY <2>2, <2>3
<1>7. LibraryProgram(prog)'  BY <1>3 DEF IInv, LibraryProgram
<1> QED  BY <1>4, <1>6, <1>7 DEF IInv

\* What a call returns is a word.
LEMMA ReturnedValues ==
  ASSUME AtomicsAssumption, IInv, NEW t \in Thread, NEW c \in LibraryCall
  PROVE  Returned(t, c) \in Values
<1>1. rax[t] \in Values /\ c.arg \in Values  BY DEF IInv, Registers, LibraryCall
<1>2. (rax[t] + c.arg) % Word \in Values  BY <1>1, ModValues DEF Values, AtomicsAssumption
<1>3. 0 \in Values /\ 1 \in Values  BY DEF Values, AtomicsAssumption
<1> QED  BY <1>1, <1>2, <1>3 DEF Returned, None

LEMMA FinishKeeps ==
  ASSUME AtomicsAssumption, IInv, NEW t \in Thread, Finish(t)
  PROVE  IInv'
<1>1. Len(results[t]) < Len(prog.calls[t])  BY DEF Finish, IInv, InCall
<1>2. Call(t) \in LibraryCall  BY <1>1, CallInProgram
<1> DEFINE r == Returned(t, Call(t))
<1>3. r \in Values /\ None \in Values
  BY <1>2, ReturnedValues DEF None, Values, AtomicsAssumption
<1> HIDE DEF r
<1>4. /\ results' = [results EXCEPT ![t] = Append(@, r)] /\ pc' = [pc EXCEPT ![t] = "idle"]
      /\ rax' = [rax EXCEPT ![t] = None] /\ UNCHANGED <<prog, mem, buf, zf, faulted>>
  BY DEF Finish, SetRax, r
<1>5. results[t] \in Seq(Values) /\ prog.calls[t] \in Seq(LibraryCall)
  BY DEF IInv, Registers, LibraryProgram
<1>6. Append(results[t], r) \in Seq(Values) /\ Len(Append(results[t], r)) = Len(results[t]) + 1
  BY <1>3, <1>5
<1>7. Registers'  BY <1>3, <1>4, <1>6 DEF IInv, Registers
<1>8. ASSUME NEW u \in Thread PROVE InCall(u)'
  <2>1. CASE u = t
    <3>1. pc[u]' = "idle" /\ results[u]' = Append(results[u], r)
      BY <1>4, <2>1 DEF IInv, Registers
    <3>2. Len(prog.calls[t]) \in Nat /\ Len(results[t]) \in Nat  BY <1>5
    <3> QED  BY <1>1, <1>4, <1>6, <2>1, <3>1, <3>2 DEF InCall
  <2>2. CASE u # t
    <3>1. pc[u]' = pc[u] /\ results[u]' = results[u] /\ rax[u]' = rax[u]
      BY <1>4, <2>2 DEF IInv, Registers
    <3>2. Call(u)' = Call(u)  BY <1>4, <3>1 DEF Call
    <3> QED  BY <1>4, <3>1, <3>2 DEF IInv, InCall
  <2> QED  BY <2>1, <2>2
<1>9. LibraryProgram(prog)'  BY <1>4 DEF IInv, LibraryProgram
<1> QED  BY <1>7, <1>8, <1>9 DEF IInv

LEMMA StepKeeps ==
  ASSUME AtomicsAssumption, IInv, NEW t \in Thread, Step(t)
  PROVE  IInv'
<1>1. ~Flush(t)  BY DEF Flush, IInv, Registers
<1> QED  BY <1>1, EnterKeeps, AccessKeeps, FinishKeeps DEF Step
-----------------------------------------------------------------------------
(* Each step is one of AtomicWords.                                        *)

Phase(t) == CASE pc[t] = "idle"   -> "idle"
              [] pc[t] = "access" -> "started"
              [] pc[t] = "finish" -> "performed"
Result(t) == IF pc[t] = "finish" THEN Returned(t, Call(t)) ELSE None
Phases == [t \in Thread |-> Phase(t)]
AllResults == [t \in Thread |-> Result(t)]

\* The two ways of combining words bit by bit agree.
LEMMA SameBits ==
  ASSUME NEW x \in Values, NEW y \in Values
  PROVE  /\ Combined("or", x, y) = Words!WordOf(Words!Ones(x) \cup Words!Ones(y))
         /\ Combined("and", x, y) = Words!WordOf(Words!Ones(x) \cap Words!Ones(y))
<1>1. \A w : Words!Ones(w) = {i \in Bits : Bit(w, i)}  BY DEF Words!Ones, Bits, Bit
<1>2. {v \in 0 .. Word - 1 : \A i \in Bits : Bit(v, i) <=> Bit(x, i) \/ Bit(y, i)}
      = {v \in 0 .. Word - 1 : Words!Ones(v) = Words!Ones(x) \cup Words!Ones(y)}
  <2>1. ASSUME NEW v
        PROVE (\A i \in Bits : Bit(v, i) <=> Bit(x, i) \/ Bit(y, i))
              <=> Words!Ones(v) = Words!Ones(x) \cup Words!Ones(y)
    BY <1>1, Zenon
  <2> QED  BY <2>1, Zenon
<1>3. {v \in 0 .. Word - 1 : \A i \in Bits : Bit(v, i) <=> Bit(x, i) /\ Bit(y, i)}
      = {v \in 0 .. Word - 1 : Words!Ones(v) = Words!Ones(x) \cap Words!Ones(y)}
  <2>1. ASSUME NEW v
        PROVE (\A i \in Bits : Bit(v, i) <=> Bit(x, i) /\ Bit(y, i))
              <=> Words!Ones(v) = Words!Ones(x) \cap Words!Ones(y)
    BY <1>1, Zenon
  <2> QED  BY <2>1, Zenon
<1>4. Combined("or", x, y)
      = CHOOSE w \in {v \in 0 .. Word - 1 : \A i \in Bits : Bit(v, i) <=> Bit(x, i) \/ Bit(y, i)} : TRUE
  BY DEF Combined
<1>5. Combined("and", x, y)
      = CHOOSE w \in {v \in 0 .. Word - 1 : \A i \in Bits : Bit(v, i) <=> Bit(x, i) /\ Bit(y, i)} : TRUE
  BY DEF Combined
<1> QED  BY <1>2, <1>3, <1>4, <1>5 DEF Words!WordOf

\* An instruction leaves the word, and has for return, what its call promises.
LEMMA InstructionPerforms ==
  ASSUME AtomicsAssumption, IInv, NEW t \in Thread, pc[t] = "access",
         NEW c \in LibraryCall, c = Call(t), Instruction(t, c)
  PROVE  /\ mem' = [mem EXCEPT ![c.addr] = Words!Leaves(c, @)]
         /\ Returned(t, c)' \in Words!Returns(c, mem[c.addr])
<1> DEFINE a == c.addr
<1>1. /\ c.op \in {"swap", "store", "cas", "casp", "add", "or", "and", "load"}
      /\ a \in Addr /\ c.old \in Values /\ c.arg \in Values /\ (c.op = "casp" => c.old = a)
  BY DEF LibraryCall
<1>2. /\ rax \in [Thread -> Values] /\ zf \in [Thread -> BOOLEAN] /\ mem \in [Addr -> Values]
      /\ mem[a] \in Values
  BY <1>1 DEF IInv, Registers
<1>3. rax[t] \in Accumulator(c)  BY DEF IInv, InCall
<1>4. Returned(t, c)' = CASE c.op \in {"cas", "casp"}  -> IF zf'[t] THEN 1 ELSE 0
                          [] c.op = "add"              -> (rax'[t] + c.arg) % Word
                          [] c.op \in {"store", "write"} -> None
                          [] OTHER                     -> rax'[t]
  BY DEF Returned
<1>5. CASE c.op \in {"swap", "store"}
  <2>1. rax[t] = c.arg  BY <1>3, <1>5 DEF Accumulator
  <2>2. Xchg(t, c)  BY <1>5 DEF Instruction
  <2>3. mem' = [mem EXCEPT ![a] = c.arg] /\ rax'[t] = mem[a]
    BY <1>2, <2>1, <2>2 DEF Xchg, SetWord, SetRax
  <2>4. Words!Leaves(c, mem[a]) = c.arg  BY <1>5 DEF Words!Leaves
  <2>5. Returned(t, c)' \in Words!Returns(c, mem[a])
    BY <1>4, <1>5, <2>3 DEF Words!Returns, None, Words!None
  <2> QED  BY <2>3, <2>4, <2>5
<1>6. CASE c.op \in {"cas", "casp"}
  <2>1. rax[t] = c.old  BY <1>3, <1>6 DEF Accumulator
  <2>2. Cmpxchg(t, c, a)  BY <1>1, <1>6 DEF Instruction, CasOperand, Casp1Operand
  <2>3. zf'[t] = (mem[a] = c.old)
    <3>1. zf' = [zf EXCEPT ![t] = (mem[a] = rax[t])]  BY <1>1, <2>2 DEF Cmpxchg
    <3> QED  BY <1>2, <2>1, <3>1, Zenon
  <2>4. Words!Leaves(c, mem[a]) = IF mem[a] = c.old THEN c.arg ELSE mem[a]
    BY <1>6 DEF Words!Leaves
  <2>5. mem' = [mem EXCEPT ![a] = IF mem[a] = c.old THEN c.arg ELSE mem[a]]
    BY <1>1, <1>2, <2>1, <2>2 DEF Cmpxchg, SetWord
  <2>6. Words!Returns(c, mem[a]) = {IF mem[a] = c.old THEN 1 ELSE 0}
    BY <1>6 DEF Words!Returns
  <2>7. Returned(t, c)' = IF zf'[t] THEN 1 ELSE 0  BY <1>4, <1>6
  <2>8. Returned(t, c)' \in Words!Returns(c, mem[a])  BY <2>3, <2>6, <2>7
  <2> QED  BY <2>4, <2>5, <2>8
<1>7. CASE c.op = "add"
  <2>1. rax[t] = c.arg  BY <1>3, <1>7 DEF Accumulator
  <2>2. Xadd(t, c)  BY <1>7 DEF Instruction
  <2>3. mem' = [mem EXCEPT ![a] = (mem[a] + c.arg) % Word] /\ rax'[t] = mem[a]
    BY <1>2, <2>1, <2>2 DEF Xadd, SetWord, SetRax
  <2>4. Words!Leaves(c, mem[a]) = (mem[a] + c.arg) % Word  BY <1>7 DEF Words!Leaves
  <2>5. Returned(t, c)' \in Words!Returns(c, mem[a])
    BY <1>4, <1>7, <2>3 DEF Words!Returns
  <2> QED  BY <2>3, <2>4, <2>5
<1>8. CASE c.op \in {"or", "and"}
  <2>1. LockedBits(t, c)  BY <1>8 DEF Instruction
  <2>2. mem' = [mem EXCEPT ![a] = Combined(c.op, mem[a], c.arg)] /\ rax' = rax
    BY <2>1 DEF LockedBits, SetWord
  <2>3. Words!Leaves(c, mem[a]) = Combined(c.op, mem[a], c.arg)
    <3>1. c.arg \in Values  BY <1>1
    <3>2. CASE c.op = "or"
      <4>1. Words!Leaves(c, mem[a]) = Words!WordOf(Words!Ones(mem[a]) \cup Words!Ones(c.arg))
        BY <3>2 DEF Words!Leaves
      <4>2. Combined("or", mem[a], c.arg)
            = Words!WordOf(Words!Ones(mem[a]) \cup Words!Ones(c.arg))
        BY <1>2, <3>1, SameBits
      <4> QED  BY <3>2, <4>1, <4>2
    <3>3. CASE c.op = "and"
      <4>1. Words!Leaves(c, mem[a]) = Words!WordOf(Words!Ones(mem[a]) \cap Words!Ones(c.arg))
        BY <3>3 DEF Words!Leaves
      <4>2. Combined("and", mem[a], c.arg)
            = Words!WordOf(Words!Ones(mem[a]) \cap Words!Ones(c.arg))
        BY <1>2, <3>1, SameBits
      <4> QED  BY <3>3, <4>1, <4>2
    <3> QED  BY <1>8, <3>2, <3>3
  <2>4. Returned(t, c)' \in Words!Returns(c, mem[a])
    BY <1>2, <1>4, <1>8, <2>2 DEF Words!Returns, Values
  <2> QED  BY <2>2, <2>3, <2>4
<1>9. CASE c.op = "load"
  <2>1. MovLoad(t, c)  BY <1>9 DEF Instruction
  <2>2. mem' = mem /\ rax'[t] = mem[a]
    BY <1>2, <2>1, VisibleInMemory DEF MovLoad, SetRax, IInv
  <2>3. Words!Leaves(c, mem[a]) = mem[a]  BY <1>9 DEF Words!Leaves
  <2>4. Returned(t, c)' \in Words!Returns(c, mem[a])
    BY <1>4, <1>9, <2>2 DEF Words!Returns
  <2> QED  BY <1>2, <2>2, <2>3, <2>4
<1> QED  BY <1>1, <1>5, <1>6, <1>7, <1>8, <1>9

\* A step of one thread leaves the call and the result of every other as they are.
LEMMA OthersStay ==
  ASSUME AtomicsAssumption, IInv, NEW t \in Thread, NEW u \in Thread, u # t,
         Enter(t) \/ Access(t) \/ Finish(t)
  PROVE  Phase(u)' = Phase(u) /\ Result(u)' = Result(u)
<1>1. pc'[u] = pc[u] /\ results'[u] = results[u] /\ prog' = prog
  BY DEF Enter, Access, Finish, IInv, Registers
<1>2. rax'[u] = rax[u] /\ zf'[u] = zf[u]
  <2>1. CASE Enter(t)  BY <2>1 DEF Enter, SetRax, IInv, Registers
  <2>2. CASE Finish(t)  BY <2>2 DEF Finish, SetRax, IInv, Registers
  <2>3. CASE Access(t)
    <3>1. Call(t) \in LibraryCall  BY <2>3, CallInProgram DEF Access, IInv, InCall
    <3>2. rax'[u] = rax[u]
      BY <2>3, <3>1 DEF Access, Instruction, Xchg, Xadd, LockedBits, Cmpxchg, MovLoad,
                        MovStore, SetRax, IInv, Registers, LibraryCall
    <3>3. zf' = zf \/ zf' = [zf EXCEPT ![t] = zf'[t]]
      <4>1. zf' = zf \/ \E b : zf' = [zf EXCEPT ![t] = b]
        BY <2>3, <3>1 DEF Access, Instruction, Xchg, Xadd, LockedBits, Cmpxchg, MovLoad,
                          MovStore, LibraryCall
      <4> QED  BY <4>1 DEF IInv, Registers
    <3> QED  BY <3>2, <3>3 DEF IInv, Registers
  <2> QED  BY <2>1, <2>2, <2>3
<1>3. Call(u)' = Call(u)  BY <1>1 DEF Call
<1>4. Returned(u, Call(u))' = Returned(u, Call(u))  BY <1>2, <1>3 DEF Returned
<1> QED  BY <1>1, <1>4 DEF Phase, Result

LEMMA EnterStarts ==
  ASSUME AtomicsAssumption, IInv, NEW t \in Thread, Enter(t)
  PROVE  Words!Start(t)
<1>1. Call(t) \in LibraryCall  BY CallInProgram DEF Enter
<1>2. pc[t] = "idle" /\ pc'[t] = "access"
  BY <1>1 DEF Enter, IInv, Registers, LibraryCall
<1>3. Phases' = [Phases EXCEPT ![t] = "started"]
  <2>1. Phase(t)' = "started"  BY <1>2 DEF Phase
  <2> QED  BY <2>1, OthersStay DEF Phases
<1>4. AllResults' = AllResults  BY <1>2, OthersStay DEF AllResults, Result
<1>5. Phases[t] = "idle"  BY <1>2 DEF Phases, Phase
<1>6. Words!Remaining(t)  BY DEF Enter, Words!Remaining
<1>7. UNCHANGED <<prog, mem, results>>  BY DEF Enter
<1> QED
  BY <1>3, <1>4, <1>5, <1>6, <1>7 DEF Words!Start, Phases, Phase, AllResults, Result

LEMMA AccessPerforms ==
  ASSUME AtomicsAssumption, IInv, NEW t \in Thread, Access(t)
  PROVE  Words!Perform(t)
<1>1. Call(t) \in LibraryCall  BY CallInProgram DEF Access, IInv, InCall
<1>2. PICK c \in LibraryCall : c = Call(t)  BY <1>1
<1>3. Call(t)' = c /\ Words!Call(t) = c  BY <1>2 DEF Access, Call, Words!Call
<1>4. /\ mem' = [mem EXCEPT ![c.addr] = Words!Leaves(c, @)]
      /\ Returned(t, c)' \in Words!Returns(c, mem[c.addr])
  BY <1>2, InstructionPerforms DEF Access
<1>5. Returned(t, Call(t))' = Returned(t, c)'  BY <1>3 DEF Returned
<1>6. pc[t] = "access" /\ pc'[t] = "finish"  BY DEF Access, IInv, Registers
<1>7. Phases[t] = "started" /\ Phases' = [Phases EXCEPT ![t] = "performed"]
  <2>1. Phase(t) = "started" /\ Phase(t)' = "performed"  BY <1>6 DEF Phase
  <2> QED  BY <2>1, OthersStay DEF Phases
<1>8. AllResults' = [AllResults EXCEPT ![t] = Returned(t, c)']
  BY <1>5, <1>6, OthersStay DEF AllResults, Result
<1>9. UNCHANGED <<prog, results>>  BY DEF Access
<1> QED
  BY <1>3, <1>4, <1>7, <1>8, <1>9 DEF Words!Perform, Phases, Phase, AllResults, Result

LEMMA FinishReturns ==
  ASSUME AtomicsAssumption, IInv, NEW t \in Thread, Finish(t)
  PROVE  Words!Return(t)
<1>1. pc[t] = "finish" /\ pc'[t] = "idle"  BY DEF Finish, IInv, Registers
<1>2. Phases[t] = "performed" /\ Phases' = [Phases EXCEPT ![t] = "idle"]
  <2>1. Phase(t) = "performed" /\ Phase(t)' = "idle"  BY <1>1 DEF Phase
  <2> QED  BY <2>1, OthersStay DEF Phases
<1>3. AllResults' = [AllResults EXCEPT ![t] = Words!None]
  BY <1>1, OthersStay DEF AllResults, Result, None, Words!None
<1>4. AllResults[t] = Returned(t, Call(t))  BY <1>1 DEF AllResults, Result
<1>5. results' = [results EXCEPT ![t] = Append(@, AllResults[t])] /\ UNCHANGED <<prog, mem>>
  BY <1>4 DEF Finish
<1> QED
  BY <1>2, <1>3, <1>5 DEF Words!Return, Phases, Phase, AllResults, Result

LEMMA StepIsWords ==
  ASSUME AtomicsAssumption, IInv, NEW t \in Thread, Step(t)
  PROVE  Words!Next
<1>1. ~Flush(t)  BY DEF Flush, IInv, Registers
<1> QED  BY <1>1, EnterStarts, AccessPerforms, FinishReturns DEF Step, Words!Next
-----------------------------------------------------------------------------
(* The theorems about Atomics.                                             *)

LibraryPrograms == \A p \in Programs : LibraryProgram(p)

\* Nothing has been called when a program begins.
LEMMA BeginInv ==
  ASSUME AtomicsAssumption, NEW p, LibraryProgram(p), p.start \in [Addr -> Values], Begin(p)
  PROVE  IInv
<1>1. 0 \in Values  BY AtomicsAssumption DEF Values
<1>2. Registers  BY <1>1 DEF Begin, Registers, None
<1>3. prog = p /\ \A t \in Thread : results[t] = <<>> /\ pc[t] = "idle"  BY DEF Begin
<1>4. \A t \in Thread : Len(prog.calls[t]) \in Nat  BY <1>3 DEF LibraryProgram
<1> QED  BY <1>2, <1>3, <1>4 DEF IInv, InCall

\* With functions of atomic.c only, no step of any thread leaves the invariant:
\* the buffers stay empty and each call finds its operand in the accumulator.
THEOREM Inductive == LibraryPrograms => (Spec => []IInv)
<1>1. SUFFICES ASSUME LibraryPrograms PROVE Spec => []IInv  OBVIOUS
<1>2. Init => IInv
  BY <1>1, AtomicsAssumption, BeginInv DEF Init, LibraryPrograms, AtomicsAssumption, Values
<1>3. IInv /\ [Next]_vars => IInv'
  <2>1. ASSUME IInv, UNCHANGED vars PROVE IInv'
    BY <2>1 DEF vars, IInv, LibraryProgram, Registers, InCall, Call
  <2> QED  BY <2>1, AtomicsAssumption, StepKeeps DEF Next
<1> QED  BY <1>2, <1>3, PTL DEF Spec

\* Registers, memory and results hold words of the machine's width, so that no
\* addition of any thread exceeds it.
THEOREM TypeCorrect == LibraryPrograms => (Spec => []TypeOK)
<1>1. ASSUME IInv PROVE TypeOK
  <2>1. \A t \in Thread : buf[t] \in Seq([addr : Addr, val : 0 .. Word - 1])
    BY <1>1 DEF IInv, Registers
  <2> QED  BY <1>1, <2>1 DEF IInv, Registers, TypeOK, Values
<1> QED  BY <1>1, Inductive, PTL

\* Every call of atomic.c takes effect at one moment, with the result that
\* atomic.h documents, whatever the other threads do.
THEOREM Refines == LibraryPrograms => (Spec => ImplementsWords)
<1>1. SUFFICES ASSUME LibraryPrograms PROVE Spec => ImplementsWords  OBVIOUS
<1>2. Init => Words!Init
  <2>1. ASSUME NEW p \in Programs, Begin(p) PROVE Words!Init
    <3>1. \A a \in DOMAIN mem : mem[a] \in 0 .. Word - 1
      BY <2>1, AtomicsAssumption DEF Begin, AtomicsAssumption
    <3> QED  BY <2>1, <3>1 DEF Begin, Words!Init, None, Words!None
  <2> QED  BY <2>1 DEF Init
<1>3. IInv /\ [Next]_vars => [Library => Words!Next]_Words!vars
  <2>1. ASSUME UNCHANGED vars PROVE UNCHANGED Words!vars
    BY <2>1 DEF vars, Words!vars, Returned, Call
  <2> QED  BY <2>1, AtomicsAssumption, StepIsWords DEF Next
<1> QED  BY <1>1, <1>2, <1>3, Inductive, PTL DEF Spec, ImplementsWords
-----------------------------------------------------------------------------
(* test_atomicity.                                                         *)

\* 0 + 1 + ... + (n - 1), what n rounds add.
Total(n) == (n * (n - 1)) \div 2

\* The rounds whose addition thread t has made.
Made(t) == Len(results[t]) + (IF pc[t] = "finish" THEN 1 ELSE 0)

\* The word is, but for what has wrapped, what thread 1 has added less what
\* thread 2 has subtracted.
Balance == \E k \in Int : mem[Ptr] = Total(Made(1)) - Total(Made(2)) + k * Word

\* The main thread goes on when a thread it joins has ended.
Joins ==
    /\ main \in {"create1", "create2", "join1", "join2", "print", "deallocate", "done", "aborted"}
    /\ main \in {"join2", "print", "deallocate", "done"} => Finished(1)
    /\ main \in {"print", "deallocate", "done"} => Finished(2)

TestInv == prog = Test /\ IInv /\ Balance /\ Joins /\ PrintsZero

LEMMA TotalNext ==
  ASSUME NEW n \in Nat
  PROVE  Total(n) \in Int /\ Total(n + 1) = Total(n) + n
<1>1. (n + 1) * (n + 1 - 1) = n * (n - 1) + 2 * n  OBVIOUS
<1>2. n * (n - 1) \in Int  OBVIOUS
<1>3. \A x \in Int : (x + 2 * n) \div 2 = x \div 2 + n  OBVIOUS
<1> QED  BY <1>1, <1>2, <1>3 DEF Total

\* An integer and its remainder differ by a multiple of the word's range.
LEMMA ModMultiple ==
  ASSUME AtomicsAssumption, NEW x \in Int
  PROVE  \E k \in Int : x % Word = x + k * Word
<1>1. Word \in Nat /\ Word > 0  BY DEF AtomicsAssumption
<1>2. x \div Word \in Int /\ x % Word \in Int  BY <1>1
<1>3. x = Word * (x \div Word) + (x % Word)  BY <1>1
<1>4. PICK q \in Int : q = -(x \div Word)  BY <1>2
<1>5. x % Word = x + q * Word  BY <1>1, <1>2, <1>3, <1>4
<1> QED  BY <1>5

\* An addition of a remainder, itself taken modulo Word, keeps such an equation.
LEMMA AddMultiple ==
  ASSUME AtomicsAssumption, NEW w \in Values, NEW s \in Int, NEW d \in Int,
         \E k \in Int : w = s + k * Word
  PROVE  \E k \in Int : (w + (d % Word)) % Word = s + d + k * Word
<1>1. Word \in Nat /\ Word > 0 /\ w \in Int  BY DEF AtomicsAssumption, Values
<1>2. PICK k1 \in Int : w = s + k1 * Word  OBVIOUS
<1>3. PICK k2 \in Int : d % Word = d + k2 * Word  BY ModMultiple
<1>4. d % Word \in Int  BY <1>1
<1>5. PICK k3 \in Int : (w + (d % Word)) % Word = (w + (d % Word)) + k3 * Word
  BY <1>1, <1>4, ModMultiple
<1>6. k1 * Word + k2 * Word + k3 * Word = (k1 + k2 + k3) * Word  BY <1>1
<1>7. (w + (d % Word)) % Word = s + d + (k1 * Word + k2 * Word + k3 * Word)
  <2> DEFINE a == k1 * Word
             b == k2 * Word
             c == k3 * Word
             m == d % Word
             r == (w + m) % Word
  <2>1. a \in Int /\ b \in Int /\ c \in Int /\ m \in Int  BY <1>1, <1>4
  <2>2. w = s + a /\ m = d + b /\ r = (w + m) + c  BY <1>2, <1>3, <1>5
  <2> HIDE DEF a, b, c, m, r
  <2>3. r = s + d + (a + b + c)  BY <1>1, <2>1, <2>2
  <2> QED  BY <2>3 DEF a, b, c, m, r
<1>8. PICK k \in Int : k = k1 + k2 + k3  OBVIOUS
<1>9. (w + (d % Word)) % Word = s + d + k * Word  BY <1>6, <1>7, <1>8
<1> QED  BY <1>9

\* Both loops are programs of functions of atomic.c.
LEMMA TestProgram ==
  ASSUME AtomicsAssumption, TestAssumption
  PROVE  /\ LibraryProgram(Test) /\ Test.start \in [Addr -> Values]
         /\ Len(Test.calls[1]) = Rounds /\ Len(Test.calls[2]) = Rounds
         /\ \A t \in Thread : t \notin {1, 2} => Test.calls[t] = <<>>
         /\ \A k \in 1 .. Rounds : /\ Test.calls[1][k] = Add(Ptr, (k - 1) % Word)
                                   /\ Test.calls[2][k] = Add(Ptr, (-(k - 1)) % Word)
<1>1. 0 \in Values  BY AtomicsAssumption DEF AtomicsAssumption, Values
<1>2. \A d \in Int : Add(Ptr, d % Word) \in LibraryCall
  BY <1>1, ModValues, TestAssumption DEF Add, None, LibraryCall, TestAssumption
<1>3. \A k \in 1 .. Rounds : k - 1 \in Int /\ -(k - 1) \in Int
  BY TestAssumption DEF TestAssumption
<1>4. ModifyPtr1 \in Seq(LibraryCall) /\ Len(ModifyPtr1) = Rounds
  BY <1>2, <1>3, TestAssumption, SMTT(60) DEF ModifyPtr1, TestAssumption
<1>5. ModifyPtr2 \in Seq(LibraryCall) /\ Len(ModifyPtr2) = Rounds
  BY <1>2, <1>3, TestAssumption, SMTT(60) DEF ModifyPtr2, TestAssumption
<1>6. 1 \in Thread /\ 2 \in Thread  BY TestAssumption DEF TestAssumption
<1>7. /\ Test.calls[1] = ModifyPtr1 /\ Test.calls[2] = ModifyPtr2
      /\ \A t \in Thread : t \notin {1, 2} => Test.calls[t] = <<>>
  BY <1>6 DEF Test
<1>8. LibraryProgram(Test)
  <2>1. <<>> \in Seq(LibraryCall)  OBVIOUS
  <2>2. \A t \in Thread : Test.calls[t] \in Seq(LibraryCall)  BY <1>4, <1>5, <1>7, <2>1
  <2>3. Test.calls = [t \in Thread |-> Test.calls[t]]  BY DEF Test
  <2> QED  BY <2>2, <2>3 DEF LibraryProgram
<1>9. Test.start \in [Addr -> Values]  BY <1>1 DEF Test
<1> QED  BY <1>4, <1>5, <1>7, <1>8, <1>9 DEF ModifyPtr1, ModifyPtr2

\* A step of one thread leaves every other where it is, and none is left to a
\* thread that has finished.
LEMMA StepOfOne ==
  ASSUME IInv, NEW t \in Thread, Step(t)
  PROVE  /\ prog' = prog /\ ~Finished(t)
         /\ \A u \in Thread : u # t => pc'[u] = pc[u] /\ results'[u] = results[u]
<1>1. ~Flush(t)  BY DEF Flush, IInv, Registers
<1>2. /\ pc \in [Thread -> {"idle", "access", "finish"}] /\ results \in [Thread -> Seq(Values)]
      /\ prog.calls[t] \in Seq(LibraryCall)
  BY DEF IInv, Registers, LibraryProgram
<1>3. CASE Enter(t)  BY <1>2, <1>3 DEF Enter, Finished
<1>4. CASE Access(t)  BY <1>2, <1>4 DEF Access, Finished
<1>5. CASE Finish(t)  BY <1>2, <1>5 DEF Finish, Finished
<1> QED  BY <1>1, <1>3, <1>4, <1>5 DEF Step

\* A thread that is inside a call is one of the two, and adds the number of
\* its round, or takes it away.
LEMMA RoundOf ==
  ASSUME AtomicsAssumption, TestAssumption, TestInv,
         NEW t \in Thread, Len(results[t]) < Len(prog.calls[t])
  PROVE  /\ t \in {1, 2} /\ Len(results[t]) \in Nat
         /\ t = 1 => Call(t) = Add(Ptr, Len(results[t]) % Word)
         /\ t = 2 => Call(t) = Add(Ptr, (-Len(results[t])) % Word)
<1> DEFINE n == Len(results[t])
<1>1. n \in Nat  BY DEF TestInv, IInv, Registers
<1>2. prog = Test  BY DEF TestInv
<1>3. t \in {1, 2}  BY <1>1, <1>2, TestProgram
<1>4. n + 1 \in 1 .. Rounds /\ (n + 1) - 1 = n
  BY <1>1, <1>2, <1>3, TestProgram, TestAssumption, SMTT(60) DEF TestAssumption
<1>5. Call(t) = Test.calls[t][n + 1]  BY <1>2 DEF Call
<1>6. \A k \in 1 .. Rounds : /\ Test.calls[1][k] = Add(Ptr, (k - 1) % Word)
                             /\ Test.calls[2][k] = Add(Ptr, (-(k - 1)) % Word)
  BY TestProgram
<1> HIDE DEF n
<1>7. /\ t = 1 => Call(t) = Add(Ptr, n % Word)
      /\ t = 2 => Call(t) = Add(Ptr, (-n) % Word)
  BY <1>4, <1>5, <1>6
<1> QED  BY <1>1, <1>3, <1>7 DEF n

\* Only an access changes the word, and it adds what its round is to add.
LEMMA BalanceKept ==
  ASSUME AtomicsAssumption, TestAssumption, TestInv, NEW t \in Thread, Step(t)
  PROVE  Balance'
<1>0. 1 \in Thread /\ 2 \in Thread /\ Ptr \in Addr  BY TestAssumption DEF TestAssumption
<1>1. /\ pc \in [Thread -> {"idle", "access", "finish"}] /\ results \in [Thread -> Seq(Values)]
      /\ IInv /\ Balance /\ prog' = prog
      /\ \A u \in Thread : u # t => pc'[u] = pc[u] /\ results'[u] = results[u]
  BY StepOfOne DEF TestInv, IInv, Registers
<1>2. \A u \in Thread : u # t => Made(u)' = Made(u)  BY <1>1 DEF Made
<1>3. ~Flush(t)  BY <1>1 DEF Flush, IInv, Registers
<1>4. CASE Enter(t)
  <2>1. pc[t] = "idle" /\ pc'[t] # "finish" /\ results' = results /\ mem' = mem
    <3>1. Call(t) \in LibraryCall  BY <1>1, <1>4, CallInProgram DEF Enter
    <3> QED  BY <1>1, <1>4, <3>1 DEF Enter, LibraryCall
  <2>2. Made(t)' = Made(t)  BY <2>1 DEF Made
  <2>3. Made(1)' = Made(1) /\ Made(2)' = Made(2)  BY <1>0, <1>2, <2>2
  <2> QED  BY <1>1, <2>1, <2>3 DEF Balance
<1>5. CASE Finish(t)
  <2>1. Returned(t, Call(t)) \in Values
    BY <1>1, <1>5, CallInProgram, ReturnedValues DEF Finish, IInv, InCall
  <2>2. pc[t] = "finish" /\ pc'[t] = "idle" /\ mem' = mem
    BY <1>1, <1>5 DEF Finish
  <2>3. results'[t] = Append(results[t], Returned(t, Call(t)))  BY <1>1, <1>5 DEF Finish
  <2>4. Len(results'[t]) = Len(results[t]) + 1  BY <1>1, <2>1, <2>3
  <2>5. Made(t)' = Made(t)  BY <2>2, <2>4 DEF Made
  <2>6. Made(1)' = Made(1) /\ Made(2)' = Made(2)  BY <1>0, <1>2, <2>5
  <2> QED  BY <1>1, <2>2, <2>6 DEF Balance
<1>6. CASE Access(t)
  <2> DEFINE n == Len(results[t])
  <2>1. n < Len(prog.calls[t])  BY <1>1, <1>6 DEF Access, IInv, InCall
  <2>2. /\ t \in {1, 2} /\ n \in Nat
        /\ t = 1 => Call(t) = Add(Ptr, n % Word)
        /\ t = 2 => Call(t) = Add(Ptr, (-n) % Word)
    BY <2>1, RoundOf
  <2>3. PICK d \in Int : /\ t = 1 => d = n
                         /\ t = 2 => d = -n
                         /\ Call(t) = Add(Ptr, d % Word)
    BY <2>2
  <2>4. PICK c \in LibraryCall : c = Call(t)  BY <1>1, <2>1, CallInProgram
  <2>5. c.op = "add" /\ c.addr = Ptr /\ c.arg = d % Word  BY <2>3, <2>4 DEF Add
  <2>6. mem' = [mem EXCEPT ![c.addr] = Words!Leaves(c, @)]
    BY <1>1, <1>6, <2>4, InstructionPerforms DEF Access
  <2>7. mem'[Ptr] = (mem[Ptr] + (d % Word)) % Word /\ mem[Ptr] \in Values
    BY <1>0, <1>1, <2>5, <2>6 DEF Words!Leaves, IInv, Registers
  <2>8. Made(t) = n /\ Made(t)' = n + 1
    <3>1. pc[t] = "access" /\ pc'[t] = "finish" /\ results' = results
      BY <1>1, <1>6 DEF Access
    <3> QED  BY <3>1, <2>2 DEF Made
  <2>9. Made(1) \in Nat /\ Made(2) \in Nat  BY <1>0, <1>1 DEF Made
  <2> HIDE DEF n
  <2>10. Total(Made(1)) - Total(Made(2)) + d = Total(Made(1)') - Total(Made(2)')
    <3>1. Total(Made(1)) \in Int /\ Total(Made(2)) \in Int  BY <2>9, TotalNext
    <3>2. Total(n + 1) = Total(n) + n /\ Total(n) \in Int  BY <2>2, TotalNext
    <3>3. CASE t = 1
      <4>1. Made(1) = n /\ Made(1)' = n + 1 /\ Made(2)' = Made(2) /\ d = n
        BY <1>0, <1>2, <2>3, <2>8, <3>3
      <4> QED  BY <3>1, <3>2, <4>1, <2>2
    <3>4. CASE t = 2
      <4>1. Made(2) = n /\ Made(2)' = n + 1 /\ Made(1)' = Made(1) /\ d = -n
        BY <1>0, <1>2, <2>3, <2>8, <3>4
      <4> QED  BY <3>1, <3>2, <4>1, <2>2
    <3> QED  BY <2>2, <3>3, <3>4
  <2>11. PICK s \in Int : s = Total(Made(1)) - Total(Made(2))  BY <2>9, TotalNext
  <2>12. \E k \in Int : mem[Ptr] = s + k * Word  BY <1>1, <2>11 DEF Balance
  <2>13. \E k \in Int : mem'[Ptr] = s + d + k * Word
    <3>1. PICK w \in Values : w = mem[Ptr]  BY <2>7
    <3>2. \E k \in Int : w = s + k * Word  BY <2>12, <3>1
    <3>3. \E k \in Int : (w + (d % Word)) % Word = s + d + k * Word
      BY <3>2, AtomicsAssumption, AddMultiple
    <3> QED  BY <2>7, <3>1, <3>3
  <2>14. s + d = Total(Made(1)') - Total(Made(2)')  BY <2>10, <2>11
  <2>15. Total(Made(1))' = Total(Made(1)') /\ Total(Made(2))' = Total(Made(2)')  BY DEF Total
  <2> QED  BY <2>13, <2>14, <2>15 DEF Balance
<1> QED  BY <1>3, <1>4, <1>5, <1>6 DEF Step

\* A thread's step does not undo what the main thread has waited for.
LEMMA JoinsKept ==
  ASSUME AtomicsAssumption, TestAssumption, TestInv, NEW t \in Thread, Step(t),
         main' = main
  PROVE  Joins'
<1>1. prog' = prog /\ \A u \in Thread : Finished(u) => u # t /\ pc'[u] = pc[u] /\ results'[u] = results[u]
  BY StepOfOne DEF TestInv
<1>2. \A u \in Thread : Finished(u) => Finished(u)'  BY <1>1 DEF Finished
<1>3. 1 \in Thread /\ 2 \in Thread  BY TestAssumption DEF TestAssumption
<1> QED  BY <1>2, <1>3 DEF TestInv, Joins

\* When both threads have finished the additions have cancelled out.
LEMMA CancelledOut ==
  ASSUME AtomicsAssumption, TestAssumption, TestInv, main = "print"
  PROVE  mem[Ptr] = 0
<1>1. Finished(1) /\ Finished(2) /\ prog = Test  BY DEF TestInv, Joins
<1>2. Made(1) = Rounds /\ Made(2) = Rounds
  BY <1>1, TestProgram, TestAssumption DEF Finished, Made, TestAssumption
<1>3. Total(Rounds) \in Int  BY TotalNext, TestAssumption DEF TestAssumption
<1>4. PICK k \in Int : mem[Ptr] = k * Word  BY <1>2, <1>3, AtomicsAssumption DEF TestInv, Balance, AtomicsAssumption
<1>5. mem[Ptr] \in Int /\ 0 =< mem[Ptr] /\ mem[Ptr] < Word /\ Word \in Nat
  BY AtomicsAssumption, TestAssumption DEF TestInv, IInv, Registers, Values, AtomicsAssumption, TestAssumption
<1>6. k > 0 => k * Word >= Word  BY <1>5
<1>7. k < 0 => k * Word =< -Word  BY <1>5
<1>8. k = 0  BY <1>4, <1>5, <1>6, <1>7, AtomicsAssumption DEF AtomicsAssumption
<1> QED  BY <1>4, <1>5, <1>8
-----------------------------------------------------------------------------
(* The theorems about test_atomicity.                                      *)

\* At every moment the word holds what the rounds made so far have added, and
\* the main thread is past a join only if that thread has ended.
THEOREM TestInductive == TestSpec => []TestInv
<1> USE AtomicsAssumption, TestAssumption
<1>1. TestInit => TestInv
  <2>1. SUFFICES ASSUME TestInit PROVE TestInv  OBVIOUS
  <2>2. prog = Test /\ IInv  BY <2>1, BeginInv, TestProgram DEF TestInit, Begin
  <2>3. Balance
    <3>1. 1 \in Thread /\ 2 \in Thread /\ Ptr \in Addr  BY DEF TestAssumption
    <3>2. mem[Ptr] = 0 /\ Made(1) = 0 /\ Made(2) = 0
      BY <2>1, <3>1 DEF TestInit, Begin, Test, Made
    <3>3. Total(0) \in Int  BY TotalNext
    <3>4. 0 = 0 + 0 * Word  BY DEF AtomicsAssumption
    <3>5. 0 = Total(0) - Total(0) + 0 * Word  BY <3>3, <3>4
    <3> QED  BY <3>2, <3>5 DEF Balance
  <2>4. Joins /\ PrintsZero  BY <2>1 DEF TestInit, Joins, PrintsZero, NotYet
  <2> QED  BY <2>2, <2>3, <2>4 DEF TestInv
<1>2. TestInv /\ [TestNext]_testvars => TestInv'
  <2>1. SUFFICES ASSUME TestInv, [TestNext]_testvars PROVE TestInv'  OBVIOUS
  <2>2. ASSUME UNCHANGED vars PROVE prog' = Test /\ IInv' /\ Balance' /\ (\A t \in Thread : Finished(t)' = Finished(t))
    <3>1. prog' = Test /\ IInv'
      BY <2>1, <2>2 DEF vars, TestInv, IInv, LibraryProgram, Registers, InCall, Call
    <3>2. Balance'  BY <2>1, <2>2 DEF vars, TestInv, Balance, Made
    <3>3. \A t \in Thread : Finished(t)' = Finished(t)  BY <2>2 DEF vars, Finished
    <3> QED  BY <3>1, <3>2, <3>3
  <2>3. 1 \in Thread /\ 2 \in Thread  BY DEF TestAssumption
  <2>4. CASE Create
    BY <2>1, <2>2, <2>4 DEF Create, TestInv, Joins, PrintsZero
  <2>5. CASE Join
    BY <2>1, <2>2, <2>3, <2>5 DEF Join, Joined, TestInv, Joins, PrintsZero
  <2>6. CASE PrintWord
    <3>1. printed' = 0  BY <2>1, <2>6, CancelledOut DEF PrintWord
    <3> QED  BY <2>1, <2>2, <2>3, <2>6, <3>1 DEF PrintWord, TestInv, Joins, PrintsZero
  <2>7. CASE Deallocate
    BY <2>1, <2>2, <2>3, <2>7 DEF Deallocate, TestInv, Joins, PrintsZero
  <2>8. CASE \E t \in Started : Step(t) /\ UNCHANGED <<main, printed>>
    <3>1. PICK t \in Started : Step(t) /\ UNCHANGED <<main, printed>>  BY <2>8
    <3>2. t \in Thread  BY <2>3, <3>1 DEF Started
    <3>3. prog' = Test /\ IInv'  BY <2>1, <3>1, <3>2, StepKeeps, StepOfOne DEF TestInv
    <3>4. Balance'  BY <2>1, <3>1, <3>2, BalanceKept
    <3>5. Joins'  BY <2>1, <3>1, <3>2, JoinsKept
    <3>6. PrintsZero'  BY <2>1, <3>1 DEF TestInv, PrintsZero
    <3> QED  BY <3>3, <3>4, <3>5, <3>6 DEF TestInv
  <2>9. CASE UNCHANGED testvars
    BY <2>1, <2>2, <2>3, <2>9 DEF testvars, TestInv, Joins, PrintsZero
  <2> QED  BY <2>1, <2>4, <2>5, <2>6, <2>7, <2>8, <2>9 DEF TestNext
<1> QED  BY <1>1, <1>2, PTL DEF TestSpec

\* No addition of either thread is lost: the test prints 0 for any number of
\* rounds, also when the word wraps.
THEOREM ZeroPrinted == TestSpec => []PrintsZero
<1>1. TestInv => PrintsZero  BY DEF TestInv
<1> QED  BY <1>1, TestInductive, PTL

\* The word is freed when both threads have ended.
THEOREM FreedLast == TestSpec => []NoUseAfterFree
<1>1. ASSUME TestInv PROVE NoUseAfterFree
  <2>1. SUFFICES ASSUME main = "done", NEW t \in Thread PROVE Finished(t) /\ buf[t] = <<>>
    BY DEF NoUseAfterFree
  <2>2. buf[t] = <<>>  BY <1>1 DEF TestInv, IInv, Registers
  <2>3. CASE t \in {1, 2}  BY <1>1, <2>1, <2>2, <2>3 DEF TestInv, Joins
  <2>4. CASE t \notin {1, 2}
    <3>1. prog.calls[t] = <<>>
      BY <1>1, <2>4, TestProgram, AtomicsAssumption, TestAssumption DEF TestInv
    <3>2. /\ Len(results[t]) \in Nat /\ Len(results[t]) =< 0
          /\ pc[t] # "idle" => Len(results[t]) < 0
      BY <1>1, <3>1 DEF TestInv, IInv, Registers, InCall
    <3>3. Len(results[t]) = 0 /\ pc[t] = "idle"  BY <3>2
    <3>4. Len(prog.calls[t]) = 0  BY <3>1
    <3> QED  BY <2>2, <3>3, <3>4 DEF Finished
  <2> QED  BY <2>2, <2>3, <2>4
<1> QED  BY <1>1, TestInductive, PTL
-----------------------------------------------------------------------------
(* The order of the calls.                                                 *)

\* The results of the calls of t that have taken effect.
Got(t) == IF pc[t] = "finish" THEN Append(results[t], Returned(t, Call(t))) ELSE results[t]
AllGot == [t \in Thread |-> Got(t)]

\* path is an order of n calls with the results got: from each state to the
\* next one thread makes its next call.
Order(got, n, path) ==
    /\ n \in Nat /\ path[0] = Before
    /\ \A i \in 0 .. n : path[i].done \in [Thread -> Nat]
    /\ \A i \in 0 .. n - 1 : \E t \in Thread : Agrees(got, path[i], t) /\ path[i + 1] = After(path[i], t)

\* The calls that have taken effect did so in some order, which has left memory
\* as it is: the moments of their accesses are one.
Ordered ==
    \E n, path : /\ Order(AllGot, n, path)
                 /\ path[n].mem = mem /\ \A t \in Thread : path[n].done[t] = Len(Got(t))

\* A call after the others makes an order longer; what other threads had stays.
LEMMA OrderExtended ==
  ASSUME NEW got, NEW more, NEW n, NEW path, Order(got, n, path),
         \A u \in Thread : /\ got[u] \in Seq(Values) /\ more[u] \in Seq(Values)
                           /\ Len(got[u]) =< Len(more[u])
                           /\ \A k \in 1 .. Len(got[u]) : more[u][k] = got[u][k],
         NEW t \in Thread, Agrees(more, path[n], t)
  PROVE  \E p : /\ Order(more, n + 1, p)
                /\ p[n + 1] = After(path[n], t)
<1> DEFINE last == After(path[n], t)
           p == [i \in 0 .. n + 1 |-> IF i = n + 1 THEN last ELSE path[i]]
<1>1. /\ n \in Nat /\ path[0] = Before
      /\ \A i \in 0 .. n : path[i].done \in [Thread -> Nat]
      /\ \A i \in 0 .. n - 1 : \E u \in Thread : Agrees(got, path[i], u) /\ path[i + 1] = After(path[i], u)
  BY DEF Order
<1>2. last.done \in [Thread -> Nat]
  <2>1. path[n].done \in [Thread -> Nat]  BY <1>1
  <2>2. last.done = [path[n].done EXCEPT ![t] = @ + 1]  BY DEF After
  <2> QED  BY <2>1, <2>2
<1> HIDE DEF last
<1>3. n + 1 \in Nat /\ p[n + 1] = last /\ \A i \in 0 .. n : p[i] = path[i]  BY <1>1
<1> HIDE DEF p
<1>4. p[0] = Before  BY <1>1, <1>3
<1>5. ASSUME NEW i \in 0 .. n + 1 PROVE p[i].done \in [Thread -> Nat]
  <2>1. i \in 0 .. n \/ i = n + 1  BY <1>1
  <2> QED  BY <1>1, <1>2, <1>3, <2>1
<1>6. ASSUME NEW i \in 0 .. (n + 1) - 1
      PROVE  \E u \in Thread : Agrees(more, p[i], u) /\ p[i + 1] = After(p[i], u)
  <2>1. CASE i = n
    BY <1>1, <1>3, <2>1 DEF last
  <2>2. CASE i # n
    <3>1. i \in 0 .. n - 1 /\ i \in 0 .. n /\ i + 1 \in 0 .. n  BY <1>1, <2>2
    <3>2. PICK u \in Thread : Agrees(got, path[i], u) /\ path[i + 1] = After(path[i], u)
      BY <1>1, <3>1
    <3>3. path[i].done[u] \in Nat /\ path[i].done[u] < Len(got[u]) /\ Len(got[u]) \in Nat
          /\ Len(more[u]) \in Nat /\ Len(got[u]) =< Len(more[u])
      BY <1>1, <3>1, <3>2 DEF Agrees
    <3>4. path[i].done[u] + 1 \in 1 .. Len(got[u]) /\ path[i].done[u] < Len(more[u])  BY <3>3
    <3>5. Agrees(more, path[i], u)  BY <3>2, <3>4 DEF Agrees
    <3> QED  BY <1>3, <3>1, <3>2, <3>5
  <2> QED  BY <2>1, <2>2
<1>7. Order(more, n + 1, p)  BY <1>3, <1>4, <1>5, <1>6 DEF Order
<1> QED  BY <1>3, <1>7 DEF last

\* As long as the program is the same one an order stays an order.
LEMMA OrderSame ==
  ASSUME prog' = prog, NEW got, got = AllGot', NEW n, NEW path, Order(got, n, path)
  PROVE  Order(AllGot, n, path)'
<1>1. /\ n \in Nat /\ path[0] = Before /\ \A i \in 0 .. n : path[i].done \in [Thread -> Nat]
      /\ \A i \in 0 .. n - 1 : \E u \in Thread : Agrees(got, path[i], u) /\ path[i + 1] = After(path[i], u)
  BY DEF Order
<1>2. Before' = Before /\ \A s, u : Agrees(got, s, u)' = Agrees(got, s, u) /\ After(s, u)' = After(s, u)
  BY DEF Before, Agrees, After, Upcoming, Words!Returns, Words!Leaves
<1>3. \A s, u : Agrees(AllGot, s, u)' = Agrees(got, s, u)'  BY DEF Agrees
<1>4. \A i \in 0 .. n - 1 : \E u \in Thread : Agrees(AllGot, path[i], u)' /\ path[i + 1] = After(path[i], u)'
  BY <1>1, <1>2, <1>3
<1> QED  BY <1>1, <1>2, <1>4 DEF Order

LEMMA OrderedSame ==
  ASSUME Ordered, prog' = prog, mem' = mem, \A t \in Thread : Got(t)' = Got(t)
  PROVE  Ordered'
<1>1. PICK n, path : /\ Order(AllGot, n, path)
                     /\ path[n].mem = mem /\ \A u \in Thread : path[n].done[u] = Len(Got(u))
  BY DEF Ordered
<1>2. AllGot' = AllGot  BY DEF AllGot
<1>3. Order(AllGot, n, path)'
  <2>1. PICK got : got = AllGot  OBVIOUS
  <2> QED  BY <1>1, <1>2, <2>1, OrderSame
<1> QED  BY <1>1, <1>3 DEF Ordered

\* Only an access adds a result, which is the one of a whole call made last.
LEMMA OrderKept ==
  ASSUME AtomicsAssumption, IInv, Ordered, NEW t \in Thread, Step(t)
  PROVE  Ordered'
<1>1. /\ pc \in [Thread -> {"idle", "access", "finish"}] /\ results \in [Thread -> Seq(Values)]
      /\ prog' = prog /\ ~Flush(t)
      /\ \A u \in Thread : u # t => pc'[u] = pc[u] /\ results'[u] = results[u]
  BY StepOfOne DEF IInv, Registers, Flush
<1>2. ASSUME NEW u \in Thread, u # t PROVE Got(u)' = Got(u)
  <2>1. Result(u)' = Result(u)  BY <1>1, <1>2, OthersStay DEF Step
  <2> QED  BY <1>1, <1>2, <2>1 DEF Got, Result
<1>3. ASSUME NEW u \in Thread PROVE Got(u) \in Seq(Values)
  <2>1. CASE pc[u] = "finish"
    <3>1. Call(u) \in LibraryCall  BY <2>1, CallInProgram DEF IInv, InCall
    <3>2. Returned(u, Call(u)) \in Values  BY <3>1, ReturnedValues
    <3> QED  BY <1>1, <2>1, <3>2 DEF Got
  <2>2. CASE pc[u] # "finish"
    BY <1>1, <2>2 DEF Got
  <2> QED  BY <2>1, <2>2
<1>4. PICK n, path : /\ Order(AllGot, n, path)
                     /\ path[n].mem = mem /\ \A u \in Thread : path[n].done[u] = Len(Got(u))
  BY DEF Ordered
<1>5. CASE Enter(t)
  <2>1. pc[t] = "idle" /\ pc'[t] # "finish" /\ results' = results /\ mem' = mem
    <3>1. Call(t) \in LibraryCall  BY <1>5, CallInProgram DEF Enter
    <3> QED  BY <1>1, <1>5, <3>1 DEF Enter, LibraryCall
  <2>2. Got(t)' = Got(t)  BY <2>1 DEF Got
  <2> QED  BY <1>1, <1>2, <2>1, <2>2, OrderedSame
<1>6. CASE Finish(t)
  <2>1. pc[t] = "finish" /\ pc'[t] = "idle" /\ mem' = mem
        /\ results'[t] = Append(results[t], Returned(t, Call(t)))
    BY <1>1, <1>6 DEF Finish
  <2>2. Got(t)' = Got(t)  BY <2>1 DEF Got
  <2> QED  BY <1>1, <1>2, <2>1, <2>2, OrderedSame
<1>7. CASE Access(t)
  <2>1. pc[t] = "access" /\ pc'[t] = "finish" /\ results' = results
    BY <1>1, <1>7 DEF Access
  <2>2. PICK c \in LibraryCall : c = Call(t)
    BY <1>7, CallInProgram DEF Access, IInv, InCall
  <2>3. Call(t)' = Call(t)  BY <1>1, <2>1 DEF Call
  <2>4. PICK r : r = Returned(t, c)'  OBVIOUS
  <2>5. /\ mem' = [mem EXCEPT ![c.addr] = Words!Leaves(c, @)]
        /\ r \in Words!Returns(c, mem[c.addr])
    BY <1>7, <2>2, <2>4, InstructionPerforms DEF Access
  <2>6. Got(t) = results[t] /\ Got(t)' = Append(results[t], r)
    <3>1. Returned(t, Call(t))' = r  BY <2>2, <2>3, <2>4 DEF Returned
    <3> QED  BY <2>1, <3>1 DEF Got
  <2>7. r \in Values
    <3>1. rax'[t] \in Values  BY StepKeeps DEF IInv, Registers
    <3>2. c.arg \in Values /\ 0 \in Values /\ 1 \in Values
      BY AtomicsAssumption DEF LibraryCall, AtomicsAssumption, Values
    <3>3. (rax'[t] + c.arg) % Word \in Values
      BY <3>1, <3>2, ModValues DEF Values, AtomicsAssumption
    <3> QED  BY <2>4, <3>1, <3>2, <3>3 DEF Returned, None
  <2>8. /\ Got(t)' \in Seq(Values) /\ Len(Got(t)') = Len(results[t]) + 1
        /\ Got(t)'[Len(results[t]) + 1] = r
        /\ \A k \in 1 .. Len(results[t]) : Got(t)'[k] = results[t][k]
    BY <1>1, <2>6, <2>7
  <2>9. PICK more : more = AllGot'  OBVIOUS
  <2>10. \A u \in Thread : more[u] = Got(u)' /\ AllGot[u] = Got(u)  BY <2>9 DEF AllGot
  <2>11. ASSUME NEW u \in Thread
         PROVE  /\ AllGot[u] \in Seq(Values) /\ more[u] \in Seq(Values)
                /\ Len(AllGot[u]) =< Len(more[u])
                /\ \A k \in 1 .. Len(AllGot[u]) : more[u][k] = AllGot[u][k]
    <3>1. CASE u = t
      <4>1. AllGot[u] = results[t] /\ more[u] = Got(t)' /\ Len(results[t]) \in Nat
        BY <1>1, <2>6, <2>10, <3>1
      <4> QED  BY <1>1, <2>8, <4>1
    <3>2. CASE u # t
      <4>1. AllGot[u] = Got(u) /\ more[u] = Got(u)  BY <1>2, <2>10, <3>2
      <4>2. Len(Got(u)) =< Len(Got(u))  BY <1>3
      <4> QED  BY <1>3, <4>1, <4>2
    <3> QED  BY <3>1, <3>2
  <2>12. path[n].done[t] = Len(results[t]) /\ Len(results[t]) \in Nat
    BY <1>1, <1>4, <2>6
  <2>13. Upcoming(path[n], t) = c  BY <2>2, <2>12 DEF Upcoming, Call
  <2>14. Agrees(more, path[n], t)
    <3>1. more[t] = Got(t)'  BY <2>10
    <3>2. path[n].done[t] < Len(more[t]) /\ more[t][path[n].done[t] + 1] = r
      BY <2>8, <2>12, <3>1
    <3> QED  BY <1>4, <2>5, <2>13, <3>2 DEF Agrees
  <2>15. PICK p : Order(more, n + 1, p) /\ p[n + 1] = After(path[n], t)
    BY <1>4, <2>11, <2>14, OrderExtended
  <2>16. p[n + 1].mem = mem' /\ p[n + 1].done = [path[n].done EXCEPT ![t] = @ + 1]
    BY <1>4, <2>5, <2>13, <2>15 DEF After
  <2>17. path[n].done \in [Thread -> Nat]
    <3>1. n \in 0 .. n  BY <1>4 DEF Order
    <3> QED  BY <1>4, <3>1 DEF Order
  <2>18. ASSUME NEW u \in Thread PROVE p[n + 1].done[u] = Len(Got(u)')
    <3>1. CASE u = t  BY <2>8, <2>12, <2>16, <2>17, <3>1
    <3>2. CASE u # t  BY <1>2, <1>4, <2>16, <2>17, <3>2
    <3> QED  BY <3>1, <3>2
  <2>19. Order(AllGot, n + 1, p)'  BY <1>1, <2>9, <2>15, OrderSame
  <2> QED  BY <2>16, <2>18, <2>19 DEF Ordered
<1> QED  BY <1>1, <1>5, <1>6, <1>7 DEF Step

\* The first k calls of each thread t, k = done[t].
FirstCalls(done) == UNION {{t} \X (1 .. done[t]) : t \in Thread}

LEMMA OneMoreCall ==
  ASSUME NEW done \in [Thread -> Nat], NEW t \in Thread
  PROVE  /\ FirstCalls([done EXCEPT ![t] = @ + 1]) = FirstCalls(done) \cup {<<t, done[t] + 1>>}
         /\ <<t, done[t] + 1>> \notin FirstCalls(done)
<1> DEFINE next == [done EXCEPT ![t] = @ + 1]
           new == <<t, done[t] + 1>>
<1>1. /\ next[t] = done[t] + 1 /\ \A u \in Thread : u # t => next[u] = done[u]
      /\ \A u \in Thread : done[u] \in Nat
  OBVIOUS
<1>2. 1 .. next[t] = (1 .. done[t]) \cup {done[t] + 1} /\ done[t] + 1 \notin 1 .. done[t]  BY <1>1
<1> HIDE DEF next
<1>3. \A x : x \in FirstCalls(next) <=> \E u \in Thread : \E k \in 1 .. next[u] : x = <<u, k>>
  BY DEF FirstCalls
<1>4. \A x : x \in FirstCalls(done) <=> \E u \in Thread : \E k \in 1 .. done[u] : x = <<u, k>>
  BY DEF FirstCalls
<1>5. new \notin FirstCalls(done)  BY <1>2, <1>4
<1>6. ASSUME NEW x PROVE x \in FirstCalls(next) <=> x \in FirstCalls(done) \/ x = new
  <2>1. ASSUME x \in FirstCalls(next) PROVE x \in FirstCalls(done) \/ x = new
    <3>0. PICK u \in Thread : \E k \in 1 .. next[u] : x = <<u, k>>  BY <1>3, <2>1
    <3>1. PICK k \in 1 .. next[u] : x = <<u, k>>  BY <3>0
    <3>2. CASE u # t
      <4>1. next[u] = done[u]  BY <1>1, <3>2
      <4> QED  BY <1>4, <3>1, <4>1
    <3>3. CASE u = t
      <4>1. k \in 1 .. done[t] \/ k = done[t] + 1  BY <1>2, <3>1, <3>3
      <4> QED  BY <1>4, <3>1, <3>3, <4>1
    <3> QED  BY <3>2, <3>3
  <2>2. ASSUME x \in FirstCalls(done) PROVE x \in FirstCalls(next)
    <3>0. PICK u \in Thread : \E k \in 1 .. done[u] : x = <<u, k>>  BY <1>4, <2>2
    <3>1. PICK k \in 1 .. done[u] : x = <<u, k>>  BY <3>0
    <3>2. k \in 1 .. next[u]  BY <1>1, <1>2
    <3> QED  BY <1>3, <3>1, <3>2
  <2>3. ASSUME x = new PROVE x \in FirstCalls(next)
    BY <1>2, <1>3, <2>3
  <2> QED  BY <2>1, <2>2, <2>3
<1>7. FirstCalls(next) = FirstCalls(done) \cup {new}  BY <1>6
<1> QED  BY <1>5, <1>7 DEF next

\* After i steps of an order i calls have been made.
LEMMA OrderCounts ==
  ASSUME NEW got, NEW n, NEW path, Order(got, n, path)
  PROVE  Cardinality(FirstCalls(path[n].done)) = n
<1> DEFINE MadeBy(i) == FirstCalls(path[i].done)
           Counted == {i \in 0 .. n : IsFiniteSet(MadeBy(i)) /\ Cardinality(MadeBy(i)) = i}
<1>1. n \in Nat  BY DEF Order
<1>2. 0 \in Counted
  <2>1. path[0].done = [t \in Thread |-> 0] /\ 1 .. 0 = {}  BY DEF Order, Before
  <2>2. MadeBy(0) = {}  BY <2>1 DEF FirstCalls
  <2> QED  BY <1>1, <2>2, FS_EmptySet
<1>3. ASSUME NEW i \in 0 .. n - 1, i \in Counted PROVE i + 1 \in Counted
  <2>1. i \in 0 .. n /\ i + 1 \in 0 .. n /\ i \in Nat  BY <1>1
  <2>2. PICK t \in Thread : path[i + 1] = After(path[i], t)  BY DEF Order
  <2>3. path[i].done \in [Thread -> Nat]  BY <2>1 DEF Order
  <2>4. path[i + 1].done = [path[i].done EXCEPT ![t] = @ + 1]  BY <2>2 DEF After
  <2>5. PICK x : MadeBy(i + 1) = MadeBy(i) \cup {x} /\ x \notin MadeBy(i)
    BY <2>3, <2>4, OneMoreCall
  <2> HIDE DEF MadeBy
  <2>6. IsFiniteSet(MadeBy(i + 1)) /\ Cardinality(MadeBy(i + 1)) = Cardinality(MadeBy(i)) + 1
    BY <1>3, <2>5, FS_AddElement
  <2> QED  BY <1>3, <2>1, <2>6
<1> HIDE DEF Counted
<1>4. 0 .. n \subseteq Counted  BY <1>1, <1>2, <1>3, InductionTo, Zenon
<1>5. n \in Counted  BY <1>1, <1>4
<1> QED  BY <1>5 DEF Counted

\* A call leaves a word.
LEMMA LeavesValues ==
  ASSUME AtomicsAssumption, NEW c \in LibraryCall, NEW w \in Values
  PROVE  Words!Leaves(c, w) \in Values
<1>1. c.op \in {"swap", "store", "cas", "casp", "add", "or", "and", "load"} /\ c.arg \in Values
  BY DEF LibraryCall
<1>2. (w + c.arg) % Word \in Values  BY <1>1, ModValues DEF Values, AtomicsAssumption
<1>3. /\ Words!WordOf(Words!Ones(w) \cup Words!Ones(c.arg)) \in Values
      /\ Words!WordOf(Words!Ones(w) \cap Words!Ones(c.arg)) \in Values
  <2>1. PICK d \in Values : d = c.arg  BY <1>1
  <2>2. Combined("or", w, d) \in Values /\ Combined("and", w, d) \in Values  BY CombinedValues
  <2>3. /\ Combined("or", w, d) = Words!WordOf(Words!Ones(w) \cup Words!Ones(d))
        /\ Combined("and", w, d) = Words!WordOf(Words!Ones(w) \cap Words!Ones(d))
    BY SameBits
  <2> QED  BY <2>1, <2>2, <2>3
<1> QED  BY <1>1, <1>2, <1>3 DEF Words!Leaves

\* The states of programs whose calls are made one after the other.
States == [mem : [Addr -> Values], done : [Thread -> Nat]]

LEMMA AfterState ==
  ASSUME AtomicsAssumption, LibraryProgram(prog), NEW s \in States, NEW t \in Thread,
         s.done[t] < Len(prog.calls[t])
  PROVE  After(s, t) \in States
<1> DEFINE c == Upcoming(s, t)
<1>1. s.mem \in [Addr -> Values] /\ s.done \in [Thread -> Nat]  BY DEF States
<1>2. c \in LibraryCall
  <2>1. s.done[t] + 1 \in 1 .. Len(prog.calls[t]) /\ prog.calls[t] \in Seq(LibraryCall)
    BY <1>1 DEF LibraryProgram
  <2> QED  BY <2>1 DEF Upcoming
<1> HIDE DEF c
<1>3. c.addr \in Addr  BY <1>2 DEF LibraryCall
<1>4. Words!Leaves(c, s.mem[c.addr]) \in Values  BY <1>1, <1>2, <1>3, LeavesValues
<1>5. /\ [s.mem EXCEPT ![c.addr] = Words!Leaves(c, @)] \in [Addr -> Values]
      /\ [s.done EXCEPT ![t] = @ + 1] \in [Thread -> Nat]
  BY <1>1, <1>3, <1>4
<1> QED  BY <1>5 DEF After, States, c

\* An order of all calls, with their results, ends in words of InOrder.
LEMMA OrderIsInOrder ==
  ASSUME AtomicsAssumption, LibraryProgram(prog), prog.start \in [Addr -> Values],
         \A t \in Thread : Len(results[t]) = Len(prog.calls[t]),
         NEW path, Order(results, NumberOfCalls, path)
  PROVE  path[NumberOfCalls].mem \in InOrder
<1> DEFINE n == NumberOfCalls
           Successors(X) == UNION {{After(s, t) : t \in {u \in Thread : Agrees(results, s, u)}} : s \in X}
           S == SUBSET States
           step == [X \in S |-> Successors(X)]
           Unfolded(f) == [i \in 0 .. n |-> IF i = 0 THEN {Before} ELSE Successors(f[i - 1])]
<1>1. n \in Nat  BY DEF Order
<1>2. step \in [S -> S]
  <2>1. ASSUME NEW X \in S, NEW s \in X, NEW t \in Thread, Agrees(results, s, t)
        PROVE  After(s, t) \in States
    BY <2>1, AfterState DEF Agrees
  <2>2. \A X \in S : Successors(X) \in S  BY <2>1
  <2> QED  BY <2>2
<1>3. {Before} \in S  BY DEF Before, States
<1> HIDE DEF n, S, Successors, step
<1>4. PICK g : Segment(S, {Before}, step, n, g)  BY <1>1, <1>2, <1>3, SegmentExists
<1>5. g = Unfolded(g)
  <2>1. g \in [0 .. n -> S] /\ g[0] = {Before} /\ \A i \in 0 .. n - 1 : g[i + 1] = step[g[i]]
    BY <1>4 DEF Segment
  <2>2. ASSUME NEW i \in 0 .. n, i # 0 PROVE g[i] = Successors(g[i - 1])
    <3>1. i - 1 \in 0 .. n - 1 /\ i - 1 \in 0 .. n /\ (i - 1) + 1 = i  BY <1>1, <2>2
    <3>2. g[i] = step[g[i - 1]] /\ g[i - 1] \in S  BY <2>1, <3>1
    <3> QED  BY <3>2 DEF step
  <2>3. \A i \in 0 .. n : g[i] = Unfolded(g)[i]  BY <2>1, <2>2
  <2> QED  BY <2>1, <2>3
<1> HIDE DEF Unfolded
<1> DEFINE after == CHOOSE f : f = Unfolded(f)
<1>6. after = Unfolded(after)  BY <1>5
<1>7. InOrder = {s.mem : s \in after[n]}  BY DEF InOrder, Unfolded, Successors, n
<1> HIDE DEF after
<1>8. /\ after[0] = {Before}
      /\ \A i \in 0 .. n - 1 : after[i + 1] = Successors(after[i])
  <2>1. 0 \in 0 .. n /\ \A i \in 0 .. n - 1 : i + 1 \in 0 .. n /\ i + 1 # 0 /\ (i + 1) - 1 = i
    BY <1>1
  <2>2. \A i \in 0 .. n : after[i] = IF i = 0 THEN {Before} ELSE Successors(after[i - 1])
    BY <1>6 DEF Unfolded
  <2> QED  BY <2>1, <2>2
<1> DEFINE Reached == {i \in 0 .. n : path[i] \in after[i]}
<1>9. 0 \in Reached  BY <1>1, <1>8 DEF Order
<1>10. ASSUME NEW i \in 0 .. n - 1, i \in Reached PROVE i + 1 \in Reached
  <2>1. PICK t \in Thread : Agrees(results, path[i], t) /\ path[i + 1] = After(path[i], t)
    BY DEF Order, n
  <2>2. After(path[i], t) \in Successors(after[i])  BY <1>10, <2>1 DEF Successors
  <2>3. i + 1 \in 0 .. n  BY <1>1
  <2> QED  BY <1>8, <2>1, <2>2, <2>3
<1> HIDE DEF Reached
<1>11. 0 .. n \subseteq Reached  BY <1>1, <1>9, <1>10, InductionTo, Zenon
<1>12. path[n] \in after[n]  BY <1>1, <1>11 DEF Reached
<1> QED  BY <1>7, <1>12 DEF n

\* The invariant of the order, with the words that a program starts with.
OrderInv == IInv /\ Ordered /\ prog.start \in [Addr -> Values]

\* A program that begins has made no call.
LEMMA OrderBegins ==
  ASSUME AtomicsAssumption, NEW p, LibraryProgram(p), p.start \in [Addr -> Values], Begin(p)
  PROVE  OrderInv
<1>1. prog = p /\ mem = p.start /\ \A t \in Thread : Got(t) = <<>>  BY DEF Begin, Got
<1> DEFINE path == [i \in 0 .. 0 |-> Before]
<1>2. path[0] = Before /\ \A i \in 0 .. 0 : path[i] = Before  OBVIOUS
<1> HIDE DEF path
<1>3. Before.done \in [Thread -> Nat] /\ Before.mem = mem /\ \A t \in Thread : Before.done[t] = 0
  BY <1>1 DEF Before
<1>4. Order(AllGot, 0, path)  BY <1>2, <1>3 DEF Order
<1>5. path[0].mem = mem /\ \A t \in Thread : path[0].done[t] = Len(Got(t))
  BY <1>1, <1>2, <1>3
<1>6. Ordered  BY <1>4, <1>5 DEF Ordered
<1> QED  BY <1>1, <1>6, BeginInv DEF OrderInv

LEMMA OrderInvKept ==
  ASSUME AtomicsAssumption, OrderInv, (\E t \in Thread : Step(t)) \/ UNCHANGED vars
  PROVE  OrderInv'
<1>1. ASSUME UNCHANGED vars PROVE OrderInv'
  <2>1. IInv'  BY <1>1 DEF vars, OrderInv, IInv, LibraryProgram, Registers, InCall, Call
  <2>2. prog' = prog /\ mem' = mem /\ \A t \in Thread : Got(t)' = Got(t)
    BY <1>1 DEF vars, Got, Returned, Call
  <2>3. Ordered'  BY <2>2, OrderedSame DEF OrderInv
  <2> QED  BY <2>1, <2>2, <2>3 DEF OrderInv
<1>2. ASSUME NEW t \in Thread, Step(t) PROVE OrderInv'
  <2>1. prog' = prog  BY <1>2, StepOfOne DEF OrderInv
  <2> QED  BY <1>2, <2>1, StepKeeps, OrderKept DEF OrderInv
<1> QED  BY <1>1, <1>2

\* When all calls are finished the order is one of all of them.
LEMMA OrderEnds ==
  ASSUME AtomicsAssumption, OrderInv
  PROVE  OutcomeInOrder
<1>1. SUFFICES ASSUME \A t \in Thread : Finished(t) /\ buf[t] = <<>> PROVE mem \in InOrder
  BY DEF OutcomeInOrder
<1>2. PICK n, path : /\ Order(AllGot, n, path)
                     /\ path[n].mem = mem /\ \A t \in Thread : path[n].done[t] = Len(Got(t))
  BY DEF OrderInv, Ordered
<1>3. \A t \in Thread : Got(t) = results[t] /\ Len(results[t]) = Len(prog.calls[t])
  BY <1>1 DEF Finished, Got
<1>4. AllGot = results  BY <1>3 DEF AllGot, OrderInv, IInv, Registers
<1>5. n = NumberOfCalls
  <2>1. \A t \in Thread : DOMAIN prog.calls[t] = 1 .. path[n].done[t]
    BY <1>2, <1>3 DEF OrderInv, IInv, LibraryProgram
  <2>2. UNION {{t} \X DOMAIN prog.calls[t] : t \in Thread} = FirstCalls(path[n].done)
    BY <2>1 DEF FirstCalls
  <2> QED  BY <1>2, <2>2, OrderCounts DEF NumberOfCalls
<1> QED  BY <1>2, <1>3, <1>4, <1>5, OrderIsInOrder DEF OrderInv, IInv

\* Memory is at all times what the calls that have taken effect leave when they
\* are made one whole call after the other, each with the result it has had.
THEOREM OrderInductive == LibraryPrograms => (Spec => []OrderInv)
<1>1. SUFFICES ASSUME LibraryPrograms PROVE Spec => []OrderInv  OBVIOUS
<1>2. Init => OrderInv
  BY <1>1, AtomicsAssumption, OrderBegins DEF Init, LibraryPrograms, AtomicsAssumption, Values
<1>3. OrderInv /\ [Next]_vars => OrderInv'  BY AtomicsAssumption, OrderInvKept DEF Next
<1> QED  BY <1>2, <1>3, PTL DEF Spec

\* When all threads have finished, words and results are those of the same
\* calls made one at a time, in one order for all threads and words.
THEOREM OutcomesInOrder == LibraryPrograms => (Spec => []OutcomeInOrder)
<1>1. OrderInv => OutcomeInOrder  BY AtomicsAssumption, OrderEnds
<1> QED  BY <1>1, OrderInductive, PTL

\* So are those of test_atomicity.
THEOREM TestInOrder == TestSpec => []OutcomeInOrder
<1> USE AtomicsAssumption, TestAssumption
<1>1. TestInit => OrderInv  BY OrderBegins, TestProgram DEF TestInit
<1>2. OrderInv /\ [TestNext]_testvars => OrderInv'
  <2>1. Started \subseteq Thread  BY DEF Started, TestAssumption
  <2>2. [TestNext]_testvars => (\E t \in Thread : Step(t)) \/ UNCHANGED vars
    BY <2>1 DEF TestNext, testvars, Create, Join, PrintWord, Deallocate
  <2> QED  BY <2>2, OrderInvKept
<1>3. OrderInv => OutcomeInOrder  BY OrderEnds
<1> QED  BY <1>1, <1>2, <1>3, PTL DEF TestSpec
=============================================================================
