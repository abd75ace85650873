----------------------------- MODULE MCGameScene -----------------------------
(* Instances of GameScene for TLC. *)
EXTENDS GameScene, TLC

\* Connections and names are interchangeable in every property.
Symmetry == Permutations(Conns) \cup Permutations(Names)

=============================================================================
