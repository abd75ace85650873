------------------------------ MODULE MCCtxExec ------------------------------
(* Instances of CtxExec for TLC: see CtxExec.cfg. *)
EXTENDS CtxExec
=============================================================================
