----------------------------- MODULE MCNodeLink ------------------------------
(* Instances of NodeLink for TLC: see NodeLink.cfg and NodeLinkDrop.cfg. *)
EXTENDS NodeLink
=============================================================================
