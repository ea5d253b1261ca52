---------------------------- MODULE TestAtomicity ----------------------------
(***************************************************************************)
(* test_atomicity() of gocruntime/goruntime.c: the main thread starts two  *)
(* threads that add 0, 1, ... and 0, -1, ... to one word with _xadd, joins *)
(* them, prints the word and frees it.                                     *)
(***************************************************************************)
EXTENDS Atomics

CONSTANTS Ptr,      \* the word allocate_go_memory returns, which is zeroed
          Rounds    \* the rounds of each thread's loop

ASSUME TestAssumption ==
    {1, 2} \subseteq Thread /\ Ptr \in Addr /\ Rounds \in Nat

VARIABLES main,     \* where the main thread is
          printed   \* what it has printed, NotYet before

testvars == <<main, printed, vars>>

NotYet == -1

ModifyPtr1 == [k \in 1 .. Rounds |-> Add(Ptr, (k - 1) % Word)]
ModifyPtr2 == [k \in 1 .. Rounds |-> Add(Ptr, (-(k - 1)) % Word)]

Test == [start |-> [a \in Addr |-> 0],
         calls |-> [t \in Thread |-> CASE t = 1 -> ModifyPtr1 [] t = 2 -> ModifyPtr2
                                       [] OTHER -> <<>>]]

TestInit == Begin(Test) /\ main = "create1" /\ printed = NotYet

Started == CASE main \in {"create1", "aborted"} -> {}
             [] main = "create2" -> {1}
             [] OTHER -> Thread

(* A failed pthread_create fails the assertion after it, which ends the    *)
(* process with its other thread.                                          *)
Create == /\ main \in {"create1", "create2"}
          /\ main' \in {IF main = "create1" THEN "create2" ELSE "join1", "aborted"}
          /\ UNCHANGED <<printed, vars>>

Joined_BugRunning(t) == TRUE

(* pthread_join returns when the thread has ended, its stores in memory.   *)
Joined(t) == Finished(t) /\ buf[t] = <<>>

Join == /\ \/ main = "join1" /\ Joined(1) /\ main' = "join2"
           \/ main = "join2" /\ Joined(2) /\ main' = "print"
        /\ UNCHANGED <<printed, vars>>

PrintWord == /\ main = "print"
             /\ printed' = mem[Ptr]
             /\ main' = "deallocate"
             /\ UNCHANGED vars

Deallocate == main = "deallocate" /\ main' = "done" /\ UNCHANGED <<printed, vars>>

TestNext == \/ Create \/ Join \/ PrintWord \/ Deallocate
            \/ \E t \in Started : Step(t) /\ UNCHANGED <<main, printed>>

TestSpec == TestInit /\ [][TestNext]_testvars
-----------------------------------------------------------------------------
(* No addition of either thread is lost, whatever the interleaving: what   *)
(* one adds the other subtracts, and the test prints 0.                    *)
PrintsZero == printed \in {NotYet, 0}

(* deallocate_go_memory runs when no thread will touch the word again.     *)
NoUseAfterFree == main = "done" => \A t \in Thread : Finished(t) /\ buf[t] = <<>>
=============================================================================
