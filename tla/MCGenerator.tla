---------------------------- MODULE MCGenerator ----------------------------
EXTENDS Generator, TLC
Symm == Permutations(Frames) \cup Permutations(Gens)
          \cup Permutations(Its) \cup Permutations(Values)
============================================================================
