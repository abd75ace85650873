-------------------------------- MODULE MCRpc --------------------------------
(* Instances of Rpc for TLC: two nodes, of which the second does not have the *)
(* first in its configuration, and contexts on the second.                    *)
EXTENDS Rpc, TLC

CONSTANTS n1, n2

KnowsOneWay == (n1 :> {n1, n2}) @@ (n2 :> {n2})
HomeSecond == [c \in Ctxs |-> n2]

=============================================================================
