------------------------------- MODULE Search -------------------------------
(***************************************************************************)
(* What a search through files promises, whoever looks at them: the files  *)
(* are searched one after the other, each from its beginning on in pieces  *)
(* of any length, and every occurrence of the string that lies in a piece  *)
(* is reported exactly once, before the next file is begun or the search   *)
(* ends.  The last character of a piece may be hidden; what reaches over   *)
(* the edge of a piece is not promised.                                    *)
(***************************************************************************)
EXTENDS Integers, Sequences

CONSTANTS Length,       \* file -> how many characters of it can be looked at
          Occurring,    \* file -> the places where the string occurs in it
          Span,         \* the length of the string
          Whole,        \* the files that are looked at to their end
          NoFile        \* stands for no file

VARIABLES waiting,      \* the files not searched yet
          current,      \* the file being searched, or searched last
          upto,         \* how much of it has been looked at
          due,          \* the places found in that and not reported yet
          lines,        \* the places reported so far, in order: <<file, place>>
          status        \* "searching", "done" or, when it gave up, "crashed"

vars == <<waiting, current, upto, due, lines, status>>

\* What is found in n characters of file f from p on, the last one hidden or not.
Within(f, a, b) == {o \in Occurring[f] : a <= o /\ o + Span <= b}
InPiece(f, p, n) == {Within(f, p, p + n), Within(f, p, p + n - 1)}

Complete == due = {} /\ (current \in Whole => upto = Length[current])

Init == /\ waiting \subseteq DOMAIN Length /\ current = NoFile /\ upto = 0
        /\ due = {} /\ lines = <<>> /\ status = "searching"

Begin(f) == /\ status = "searching" /\ f \in waiting /\ Complete
            /\ waiting' = waiting \ {f} /\ current' = f
            /\ upto' \in 0 .. Length[f] /\ due' \in InPiece(f, 0, upto')
            /\ UNCHANGED <<lines, status>>

Look == /\ status = "searching" /\ current # NoFile
        /\ upto' \in upto .. Length[current]
        /\ \E found \in InPiece(current, upto, upto' - upto) : due' = due \cup found
        /\ UNCHANGED <<waiting, current, lines, status>>

Tell(o) == /\ status = "searching" /\ o \in due
           /\ due' = due \ {o} /\ lines' = Append(lines, <<current, o>>)
           /\ UNCHANGED <<waiting, current, upto, status>>

End == /\ status = "searching" /\ waiting = {} /\ Complete
       /\ status' = "done"
       /\ UNCHANGED <<waiting, current, upto, due, lines>>

GiveUp == /\ status = "searching"
          /\ status' = "crashed"
          /\ UNCHANGED <<waiting, current, upto, due, lines>>

Next == \/ \E f \in waiting : Begin(f)
        \/ Look
        \/ \E o \in due : Tell(o)
        \/ End \/ GiveUp

Spec == Init /\ [][Next]_vars
=============================================================================
