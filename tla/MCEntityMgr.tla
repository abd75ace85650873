----------------------------- MODULE MCEntityMgr -----------------------------
(* Instances of EntityMgr for TLC: see EntityMgr.cfg. *)
EXTENDS EntityMgr

=============================================================================
