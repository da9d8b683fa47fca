------------------------------ MODULE LruCache ------------------------------
(***************************************************************************)
(* What CandidateManager's extended-address cache promises: of the routers *)
(* whose extended address was learned it remembers the CacheSize most      *)
(* recently confirmed ones, each with the address learned last.            *)
(***************************************************************************)
EXTENDS RecencyList

VARIABLE recent

LruInit == recent = <<>>

Learn == \E rloc \in Router, ext \in Ext : recent' = Touch(recent, rloc, ext)

LruSpec == LruInit /\ [][Learn]_recent
=============================================================================
