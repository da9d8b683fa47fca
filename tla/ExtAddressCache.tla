--------------------------- MODULE ExtAddressCache ---------------------------
(***************************************************************************)
(* The extended-address cache of src/components/biparental_ed/             *)
(* candidate_manager.{h,cpp}: an array of entries stamped from a running   *)
(* sequence number, searched and evicted by remember_ext_address().        *)
(***************************************************************************)
EXTENDS Integers, Sequences, FiniteSets, SequencesExt

CONSTANTS
  Router, NoRloc,  \* RLOC16s; NoRloc stands for 0xffff and 0xfffe
  Ext, NoExt,      \* extended addresses; NoExt stands for nullptr
  CacheSize,       \* number of entries
  MaxUpdates       \* bound: the model stops after this many updates, far
                   \* below the 2^32 at which the sequence number wraps

ASSUME ArrayAssumption ==
  /\ NoRloc \notin Router /\ NoExt \notin Ext
  /\ CacheSize \in Nat \ {0} /\ MaxUpdates \in Nat

VARIABLES
  cache,     \* ext_address_cache_
  sequence,  \* ext_address_cache_sequence_
  learned    \* history: the address last learned for each router

cacheVars == <<cache, sequence, learned>>

Slot == 1 .. CacheSize

EmptyEntry == [valid |-> FALSE, rloc |-> NoRloc, ext |-> NoExt, stamp |-> 0]

CacheEntry == {EmptyEntry} \cup
  [valid: {TRUE}, rloc: Router, ext: Ext, stamp: 1 .. MaxUpdates]

\* Slip: looks for a free entry only.
StopsWhenFree(rloc) == { i \in Slot : ~cache[i].valid }

\* The search loop stops at the first entry that holds rloc or holds nothing.
Stops(rloc) == { i \in Slot : ~cache[i].valid \/ cache[i].rloc = rloc }

\* Slip: evicts the newest.
Newest ==
  CHOOSE i \in Slot : \A j \in Slot \ {i} : cache[i].stamp > cache[j].stamp

\* The last of the entries with the least stamp, which a loop that runs to
\* its end leaves in "oldest".
Oldest ==
  CHOOSE i \in Slot : \A j \in Slot \ {i} :
    \/ cache[i].stamp < cache[j].stamp
    \/ cache[i].stamp = cache[j].stamp /\ i > j

\* Slip: searches on to the last one.
FinalOf(S) == CHOOSE i \in S : \A j \in S : i >= j

First(S) == CHOOSE i \in S : \A j \in S : i <= j

EntryFor(rloc) == IF Stops(rloc) # {} THEN First(Stops(rloc)) ELSE Oldest

\* Slip: learns an address of no router.
RememberUnguarded(rloc, ext) ==
  /\ sequence < MaxUpdates
  /\ sequence' = sequence + 1
  /\ cache' = [cache EXCEPT ![EntryFor(rloc)] =
                 [valid |-> TRUE, rloc |-> rloc, ext |-> ext,
                  stamp |-> sequence + 1]]
  /\ learned' = [r \in Router |-> IF r = rloc THEN ext ELSE learned[r]]

\* remember_ext_address(rloc, ext)
RememberExtAddress(rloc, ext) ==
  IF rloc = NoRloc \/ ext = NoExt
  THEN UNCHANGED cacheVars
  ELSE /\ sequence < MaxUpdates
       /\ sequence' = sequence + 1
       /\ cache' = [cache EXCEPT ![EntryFor(rloc)] =
                      [valid |-> TRUE, rloc |-> rloc, ext |-> ext,
                       stamp |-> sequence + 1]]
       /\ learned' = [learned EXCEPT ![rloc] = ext]

CacheInit ==
  /\ cache = [i \in Slot |-> EmptyEntry]
  /\ sequence = 0
  /\ learned = [r \in Router |-> NoExt]

CacheNext ==
  \E rloc \in Router \cup {NoRloc}, ext \in Ext \cup {NoExt} :
    RememberExtAddress(rloc, ext)

CacheSpec == CacheInit /\ [][CacheNext]_cacheVars

\* apply_cached_ext_address_() for a candidate without an address: the first
\* valid entry of its RLOC16.
Applied(rloc) ==
  LET hits == { i \in Slot : cache[i].valid /\ cache[i].rloc = rloc } IN
  IF hits = {} THEN NoExt ELSE cache[First(hits)].ext

-----------------------------------------------------------------------------
CacheTypeOK ==
  /\ cache \in [Slot -> CacheEntry]
  /\ sequence \in 0 .. MaxUpdates
  /\ learned \in [Router -> Ext \cup {NoExt}]

\* The cache never hands out an outdated address: what it finds for a router
\* is what was last learned of it, also after evictions and re-insertions.
NeverOutdated ==
  \A r \in Router : Applied(r) \in {learned[r], NoExt}

\* Entries fill the array from the front and no router has two of them, which
\* is what lets the search stop at the first free entry.
NoGapsNoDuplicates ==
  \A i, j \in Slot : i < j =>
    /\ cache[j].valid => cache[i].valid
    /\ cache[j].valid => cache[i].rloc # cache[j].rloc

Used == { i \in Slot : cache[i].valid }

Newer(i) == { j \in Used : cache[j].stamp > cache[i].stamp }

\* The array as a recency list: its n-th is the entry that n - 1 others have a
\* larger stamp than.
SlotOfRank(n) == CHOOSE i \in Used : Cardinality(Newer(i)) = n - 1

Pair(i) == [rloc |-> cache[i].rloc, ext |-> cache[i].ext]

Recency == [n \in 1 .. Cardinality(Used) |-> Pair(SlotOfRank(n))]

Lru == INSTANCE LruCache WITH recent <- Recency

\* The array implements the recency list: it evicts the router confirmed
\* longest ago, and only when all entries are taken.
ImplementsLru == Lru!LruSpec

\* A candidate without an address is given exactly the one the list holds for
\* its router, so CandidateManager may keep the list in place of the array.
FindsWhatTheListHolds ==
  \A r \in Router : Applied(r) = Lru!Lookup(Recency, r)
=============================================================================
