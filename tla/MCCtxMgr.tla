------------------------------ MODULE MCCtxMgr -------------------------------
(* Instances of CtxMgr for TLC. *)
EXTENDS CtxMgr

\* The threads of one kind are interchangeable.
Symmetry == Permutations(Makers) \cup Permutations(Stoppers)

=============================================================================
