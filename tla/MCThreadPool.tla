---------------------------- MODULE MCThreadPool ----------------------------
(***************************************************************************)
(* Instances of ThreadPool; the .cfg files give the sizes.  Callers are    *)
(* alike and so are jobs, which the safety run uses.                       *)
(***************************************************************************)
EXTENDS ThreadPool, TLC

Symmetry == Permutations(Caller) \cup Permutations(Job)
=============================================================================
