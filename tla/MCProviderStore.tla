-------------------------- MODULE MCProviderStore --------------------------
(***************************************************************************)
(* TLC instances of ProviderStore.                                         *)
(***************************************************************************)
EXTENDS ProviderStoreProperties, TLC

CONSTANTS m1, m2, m3

\* Two answers without a common model, one that lists its model twice.
MCAnswer == {<<m1, m2>>, <<m3, m3>>}

\* Base URLs are not interchangeable: one is the default.
StoreSymmetry == Permutations(Key) \cup Permutations(Request)
=============================================================================
