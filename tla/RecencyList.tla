----------------------------- MODULE RecencyList -----------------------------
(***************************************************************************)
(* The extended-address cache as a list of at most CacheSize entries, from *)
(* the most to the least recently confirmed router.                        *)
(***************************************************************************)
EXTENDS Sequences, SequencesExt, Integers

CONSTANTS
  Router,     \* RLOC16s
  Ext,        \* extended addresses
  NoExt,      \* no address known
  CacheSize   \* number of entries of ext_address_cache_

ASSUME CacheAssumption == CacheSize \in Nat \ {0} /\ NoExt \notin Ext

Entry == [rloc: Router, ext: Ext]

Truncate(s) == IF Len(s) > CacheSize THEN SubSeq(s, 1, CacheSize) ELSE s

Cached(s, rloc) == \E i \in DOMAIN s : s[i].rloc = rloc

Position(s, rloc) == CHOOSE i \in DOMAIN s : s[i].rloc = rloc

\* s after rloc was heard of with address ext
Touch(s, rloc, ext) ==
  LET others == IF Cached(s, rloc) THEN RemoveAt(s, Position(s, rloc)) ELSE s
  IN Truncate(<<[rloc |-> rloc, ext |-> ext]>> \o others)

\* The address s holds for rloc
Lookup(s, rloc) ==
  IF Cached(s, rloc) THEN s[Position(s, rloc)].ext ELSE NoExt
=============================================================================
