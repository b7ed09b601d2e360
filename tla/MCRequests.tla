----------------------------- MODULE MCRequests -----------------------------
(***************************************************************************)
(* Model checking of Requests.                                             *)
(***************************************************************************)
EXTENDS RequestsProperties, TLC

RequestSymmetry ==
  Permutations(Upload) \cup Permutations(Uploader) \cup Permutations(Creator)
    \cup Permutations(Task)
=============================================================================
