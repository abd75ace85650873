----------------------------- MODULE MCGameLogin -----------------------------
(* Instances of GameLogin for TLC: see GameLogin.cfg and GameLoginKick.cfg. *)
EXTENDS GameLogin, TLC

\* Names are interchangeable in every safety property.
Symmetry == Permutations(Names)

=============================================================================
