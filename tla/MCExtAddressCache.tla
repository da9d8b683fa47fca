-------------------------- MODULE MCExtAddressCache --------------------------
(***************************************************************************)
(* A small instance of ExtAddressCache for TLC: more routers than entries. *)
(***************************************************************************)
EXTENDS ExtAddressCache, TLC

CacheSymmetry == Permutations(Router) \cup Permutations(Ext)
=============================================================================
