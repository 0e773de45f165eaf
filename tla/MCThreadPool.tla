---------------------------- MODULE MCThreadPool ----------------------------
(***************************************************************************)
(* Instances of ThreadPool for TLC.  Workers are interchangeable, and so   *)
(* are requests and producers.                                             *)
(***************************************************************************)
EXTENDS ThreadPoolProperties, TLC

Symmetry == Permutations(Workers) \cup Permutations(Requests)
=============================================================================
