---------------------------- MODULE MCTaskStream ----------------------------
(***************************************************************************)
(* Model checking of TaskStream.                                           *)
(***************************************************************************)
EXTENDS TaskStreamProperties, TLC

StreamSymmetry ==
  Permutations(Task) \cup Permutations(Handler) \cup Permutations(Fetch)
=============================================================================
