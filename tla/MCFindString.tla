---------------------------- MODULE MCFindString ----------------------------
(***************************************************************************)
(* Instances of FindString for TLC: chunks of four characters, two or      *)
(* three threads at most at a time, a context of one or two characters.    *)
(***************************************************************************)
EXTENDS FindString

\* "big" has four chunks, so that the pool is joined once in the loop: the
\* first has two overlapping matches and a third that its last byte hides, the
\* second has none of its own.  "odd" is not a multiple of the chunk.
\* "three" has occurrences in its first chunk, at the edge of it, at the beginning of
\* the second chunk and at the end of the file.
MCContent == [f \in Files |->
  CASE f = "big"   -> <<"a", "a", "a", "a", "a", "b", "b", "b", "a", "a", "newline", "x",
                       "a", "a", "b", "a">>
    [] f = "large" -> <<"tab", "a", "a", "b", "a", "a", "b", "x">>
    [] f = "small" -> <<"backspace", "a", "a", "a", " ", "return">>
    [] f = "sealed" -> <<"a", "a">>
    [] f = "odd"   -> <<"b", "b", "b", "b", "a", "a", "b", "x", "x">>
    [] f = "three" -> <<"b", "a", "a", "a", "a", "a", "x", "y", "z", "z", "a", "a">>]

MCTarget == <<"a", "a">>
=============================================================================
