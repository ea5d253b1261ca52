----------------------------- MODULE AtomicWords ----------------------------
(***************************************************************************)
(* What gocruntime/atomic.h promises: each call of a thread takes effect   *)
(* at one moment between its start and its return, with the result that    *)
(* the comment on its declaration states.                                  *)
(***************************************************************************)
EXTENDS Integers, Sequences

CONSTANTS Thread, Word

VARIABLES prog,     \* the calls each thread makes
          mem,      \* the words of memory
          phase,    \* of each thread's current call
          result,   \* the result of a call that has taken effect
          results   \* what each thread's finished calls returned

vars == <<prog, mem, phase, result, results>>

None == 0

Remaining(t) == Len(results[t]) < Len(prog[t])
Call(t) == prog[t][Len(results[t]) + 1]

(* The bits that are 1 in a word.                                          *)
Ones(w) == {i \in 0 .. Word - 1 : 2 ^ i < Word /\ (w \div 2 ^ i) % 2 = 1}
WordOf(ones) == CHOOSE w \in {v \in 0 .. Word - 1 : Ones(v) = ones} : TRUE

(* The word a call leaves and what it may return, where the word is w.     *)
(* Nothing is said of what _or and _and return.                            *)
Leaves(c, w) ==
    CASE c.op \in {"swap", "store", "write"} -> c.arg
      [] c.op \in {"cas", "casp"}   -> IF w = c.old THEN c.arg ELSE w
      [] c.op = "add"               -> (w + c.arg) % Word
      [] c.op = "or"                -> WordOf(Ones(w) \cup Ones(c.arg))
      [] c.op = "and"               -> WordOf(Ones(w) \cap Ones(c.arg))
      [] c.op \in {"load", "load32", "read"} -> w

Returns(c, w) ==
    CASE c.op \in {"swap", "load", "load32", "read"} -> {w}
      [] c.op \in {"store", "write"} -> {None}
      [] c.op \in {"cas", "casp"}   -> {IF w = c.old THEN 1 ELSE 0}
      [] c.op = "add"               -> {(w + c.arg) % Word}
      [] c.op \in {"or", "and"}     -> 0 .. Word - 1

Start(t) == /\ phase[t] = "idle" /\ Remaining(t)
            /\ phase' = [phase EXCEPT ![t] = "started"]
            /\ UNCHANGED <<prog, mem, result, results>>

Perform(t) ==
    LET c == Call(t)
    IN  /\ phase[t] = "started"
        /\ phase' = [phase EXCEPT ![t] = "performed"]
        /\ mem' = [mem EXCEPT ![c.addr] = Leaves(c, @)]
        /\ \E r \in Returns(c, mem[c.addr]) : result' = [result EXCEPT ![t] = r]
        /\ UNCHANGED <<prog, results>>

Return(t) == /\ phase[t] = "performed"
             /\ phase' = [phase EXCEPT ![t] = "idle"]
             /\ result' = [result EXCEPT ![t] = None]
             /\ results' = [results EXCEPT ![t] = Append(@, result[t])]
             /\ UNCHANGED <<prog, mem>>

Init == /\ phase = [t \in Thread |-> "idle"]
        /\ result = [t \in Thread |-> None]
        /\ results = [t \in Thread |-> <<>>]
        /\ \A a \in DOMAIN mem : mem[a] \in 0 .. Word - 1

Next == \E t \in Thread : Start(t) \/ Perform(t) \/ Return(t)

Spec == Init /\ [][Next]_vars
=============================================================================
