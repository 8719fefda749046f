---------------------------- MODULE MCMultiProc ----------------------------
(* Small instances of MultiProc. *)
EXTENDS MultiProc, TLC

\* Connections that stay are interchangeable where no temporal property is
\* checked.
Symmetry == Permutations(Proc \ MayDrop)
=============================================================================
