------------------------------ MODULE MCCvQueue ------------------------------
(* Instances of CvQueue for TLC: see CvQueue.cfg. *)
EXTENDS CvQueue
=============================================================================
