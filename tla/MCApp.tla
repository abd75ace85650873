-------------------------------- MODULE MCApp --------------------------------
(* An instance of App for TLC: node 1 is this one, 2 another. *)
EXTENDS App

MCConfigs == {<<1>>, <<2, 1>>, <<2>>}
=============================================================================
