----------------------------- MODULE MCFixityJobs -----------------------------
(* Instances of FixityJobs. *)
EXTENDS FixityJobs, TLC
===============================================================================
