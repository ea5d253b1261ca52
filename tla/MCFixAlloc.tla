------------------------------ MODULE MCFixAlloc -----------------------------
(***************************************************************************)
(* Instances of FixAlloc.  An address stands for four bytes: a link has    *)
(* two, a chunk six.  Of the sizes 1 is below a link, 4 does not divide a  *)
(* chunk, 6 fills one and 7 is refused.                                    *)
(***************************************************************************)
EXTENDS FixAlloc
=============================================================================
