----------------------- MODULE ExtAddressCache_proofs -----------------------
(***************************************************************************)
(* The address cache for every number of routers, addresses and entries.   *)
(***************************************************************************)
EXTENDS ExtAddressCache, FiniteSetTheorems, SequenceTheorems,
        TLAPS

-----------------------------------------------------------------------------
(***************************************************************************)
(* What the searches find: the loops over the array are choices of a least *)
(* element, which exists.                                                  *)
(***************************************************************************)
LEMMA Least ==
  ASSUME NEW S \in SUBSET Nat, S # {}
  PROVE  \E i \in S : \A j \in S : i <= j
<1>1. PICK i \in S : \A j \in S : <<j, i>> \notin OpToRel(<, Nat)
  BY NatLessThanWellFounded, WFMin
<1>2. \A j \in S : ~(j < i)
  BY <1>1 DEF OpToRel
<1>. QED
  BY <1>2

LEMMA FirstInSlots ==
  ASSUME NEW S \in SUBSET Slot, S # {}
  PROVE  First(S) \in S /\ \A j \in S : First(S) <= j
<1>1. S \in SUBSET Nat
  BY DEF Slot
<1>. QED
  BY <1>1, Least DEF First

LEMMA EntryType ==
  ASSUME CacheTypeOK, NEW i \in Slot
  PROVE  /\ cache[i].stamp \in Nat
         /\ cache[i].valid => cache[i].rloc \in Router
<1>1. cache[i] \in CacheEntry
  BY DEF CacheTypeOK
<1>2. CASE cache[i] = EmptyEntry
  BY <1>2 DEF EmptyEntry
<1>3. CASE cache[i] \in [valid: {TRUE}, rloc: Router, ext: Ext,
                         stamp: 1 .. MaxUpdates]
  <2>1. cache[i].stamp \in 1 .. MaxUpdates /\ cache[i].rloc \in Router
    BY <1>3
  <2>. QED
    BY <2>1, ArrayAssumption
<1>. QED
  BY <1>1, <1>2, <1>3 DEF CacheEntry

LEMMA OldestIsASlot ==
  ASSUME CacheTypeOK
  PROVE  /\ Oldest \in Slot
         /\ \A j \in Slot : cache[Oldest].stamp <= cache[j].stamp
<1>0. CacheSize \in Nat /\ 1 \in Slot
  BY ArrayAssumption DEF Slot
<1>1. \A i \in Slot : cache[i].stamp \in Nat
  BY EntryType
<1> DEFINE Stamps == { cache[i].stamp : i \in Slot }
<1>2. PICK s \in Stamps : \A u \in Stamps : s <= u
  <2>1. Stamps \in SUBSET Nat /\ Stamps # {}
    BY <1>0, <1>1
  <2>. QED
    BY <2>1, Least
<1> DEFINE Olds == { i \in Slot : cache[i].stamp = s }
           Back == { CacheSize - i : i \in Olds }
<1>3. Olds # {} /\ Olds \subseteq Slot
  BY <1>2
<1>4. Back \in SUBSET Nat /\ Back # {}
  BY <1>0, <1>3 DEF Slot
<1>5. PICK b \in Back : \A c \in Back : b <= c
  BY <1>4, Least
<1>6. PICK i \in Olds : b = CacheSize - i
  BY <1>5
<1>7. \A j \in Olds : CacheSize - i <= CacheSize - j
  BY <1>5, <1>6
<1>8. \A j \in Olds : j <= i
  BY <1>0, <1>3, <1>6, <1>7 DEF Slot
<1>9. \A j \in Slot \ {i} : \/ cache[i].stamp < cache[j].stamp
                            \/ cache[i].stamp = cache[j].stamp /\ i > j
  <2> SUFFICES ASSUME NEW j \in Slot \ {i}, ~(cache[i].stamp < cache[j].stamp)
               PROVE  cache[i].stamp = cache[j].stamp /\ i > j
    OBVIOUS
  <2>1. cache[i].stamp <= cache[j].stamp
    BY <1>2, <1>6
  <2>2. cache[i].stamp = cache[j].stamp
    BY <1>1, <1>6, <2>1
  <2>3. j \in Olds
    BY <1>6, <2>2
  <2>. QED
    BY <1>3, <1>6, <1>8, <2>2, <2>3 DEF Slot
<1>10. /\ Oldest \in Slot
       /\ \A j \in Slot \ {Oldest} :
            \/ cache[Oldest].stamp < cache[j].stamp
            \/ cache[Oldest].stamp = cache[j].stamp /\ Oldest > j
  BY <1>6, <1>9 DEF Oldest
<1>. QED
  BY <1>1, <1>10

-----------------------------------------------------------------------------
\* NeverOutdated speaks of what the search finds; of the array, each entry
\* holds what was last learned of its router.
EntriesCurrent ==
  \A i \in Slot : cache[i].valid => cache[i].ext = learned[cache[i].rloc]

CacheInv == CacheTypeOK /\ NoGapsNoDuplicates /\ EntriesCurrent

LEMMA CacheInvInit == CacheInit => CacheInv
BY ArrayAssumption
   DEF CacheInit, CacheInv, CacheTypeOK, CacheEntry, EmptyEntry,
       NoGapsNoDuplicates, EntriesCurrent

\* Where remember_ext_address() writes: to the router's entry, to the first
\* free one when it has none, or, when all are taken by others, to some entry.
LEMMA EntryFound ==
  ASSUME CacheInv, NEW rloc \in Router
  PROVE  /\ EntryFor(rloc) \in Slot
         /\ \A j \in Slot \ {EntryFor(rloc)} :
              cache[j].valid => cache[j].rloc # rloc
         /\ \A j \in Slot : j < EntryFor(rloc) => cache[j].valid
         /\ cache[EntryFor(rloc)].valid \/ \A j \in Slot :
              j > EntryFor(rloc) => ~cache[j].valid
<1>0. CacheTypeOK /\ NoGapsNoDuplicates
  BY DEF CacheInv
<1>1. CASE Stops(rloc) # {}
  <2>1. Stops(rloc) \in SUBSET Slot
    BY DEF Stops
  <2>2. /\ EntryFor(rloc) \in Stops(rloc)
        /\ \A j \in Stops(rloc) : EntryFor(rloc) <= j
    BY <1>1, <2>1, FirstInSlots DEF EntryFor
  <2> DEFINE e == EntryFor(rloc)
  <2>3. e \in Slot /\ (~cache[e].valid \/ cache[e].rloc = rloc)
    BY <2>2 DEF Stops
  <2> HIDE DEF e
  <2>4. \A j \in Slot : j < e => cache[j].valid /\ cache[j].rloc # rloc
    BY <2>2, <2>3 DEF Stops, Slot, e
  <2>5. \A j \in Slot : e < j /\ cache[j].valid
                          => cache[e].valid /\ cache[e].rloc # cache[j].rloc
    BY <1>0, <2>3 DEF NoGapsNoDuplicates
  <2>6. \A j \in Slot \ {e} : cache[j].valid => cache[j].rloc # rloc
    <3> TAKE j \in Slot \ {e}
    <3>1. j < e \/ e < j
      BY <2>3 DEF Slot
    <3>. QED
      BY <3>1, <2>3, <2>4, <2>5
  <2>7. cache[e].valid \/ \A j \in Slot : j > e => ~cache[j].valid
    BY <2>3, <2>5 DEF Slot
  <2>. QED
    BY <2>3, <2>4, <2>6, <2>7 DEF e
<1>2. CASE Stops(rloc) = {}
  <2>1. EntryFor(rloc) \in Slot
    BY <1>0, <1>2, OldestIsASlot DEF EntryFor
  <2>2. \A j \in Slot : cache[j].valid /\ cache[j].rloc # rloc
    BY <1>2 DEF Stops
  <2>. QED
    BY <2>1, <2>2
<1>. QED
  BY <1>1, <1>2

LEMMA RememberKeepsInv ==
  ASSUME CacheInv, NEW rloc \in Router \cup {NoRloc},
         NEW ext \in Ext \cup {NoExt}, RememberExtAddress(rloc, ext)
  PROVE  CacheInv'
<1>1. CASE rloc = NoRloc \/ ext = NoExt
  BY <1>1 DEF RememberExtAddress, cacheVars, CacheInv, CacheTypeOK,
     NoGapsNoDuplicates, EntriesCurrent
<1>2. CASE rloc # NoRloc /\ ext # NoExt
  <2> DEFINE e == EntryFor(rloc)
             entry == [valid |-> TRUE, rloc |-> rloc, ext |-> ext,
                       stamp |-> sequence + 1]
  <2>1. /\ rloc \in Router /\ ext \in Ext /\ sequence < MaxUpdates
        /\ sequence' = sequence + 1 /\ cache' = [cache EXCEPT ![e] = entry]
        /\ learned' = [learned EXCEPT ![rloc] = ext]
    BY <1>2 DEF RememberExtAddress
  <2>2. /\ e \in Slot
        /\ \A j \in Slot \ {e} : cache[j].valid => cache[j].rloc # rloc
        /\ \A j \in Slot : j < e => cache[j].valid
        /\ cache[e].valid \/ \A j \in Slot : j > e => ~cache[j].valid
    BY <2>1, EntryFound
  <2> HIDE DEF e
  <2>3. entry.valid = TRUE /\ entry.rloc = rloc /\ entry.ext = ext
    OBVIOUS
  <2>4. sequence + 1 \in 1 .. MaxUpdates /\ sequence' \in 0 .. MaxUpdates
    BY <2>1, ArrayAssumption DEF CacheInv, CacheTypeOK
  <2>5. entry \in CacheEntry
    BY <2>1, <2>4 DEF CacheEntry
  <2> HIDE DEF entry
  <2>6. CacheTypeOK'
    BY <2>1, <2>2, <2>4, <2>5 DEF CacheInv, CacheTypeOK
  <2>7. cache'[e] = entry /\ \A j \in Slot \ {e} : cache'[j] = cache[j]
    BY <2>1, <2>2 DEF CacheInv, CacheTypeOK
  <2>8. NoGapsNoDuplicates'
    <3> SUFFICES ASSUME NEW i \in Slot, NEW j \in Slot, i < j,
                        cache'[j].valid
                 PROVE  cache'[i].valid /\ cache'[i].rloc # cache'[j].rloc
      BY DEF NoGapsNoDuplicates
    <3>0. i # j
      BY DEF Slot
    <3>1. CASE j = e
      BY <3>0, <3>1, <2>2, <2>3, <2>7
    <3>2. CASE i = e
      BY <3>0, <3>2, <2>2, <2>3, <2>7
    <3>3. CASE i # e /\ j # e
      BY <3>3, <2>7 DEF CacheInv, NoGapsNoDuplicates
    <3>. QED
      BY <3>1, <3>2, <3>3
  <2>9. EntriesCurrent'
    <3> SUFFICES ASSUME NEW i \in Slot, cache'[i].valid
                 PROVE  cache'[i].ext = learned'[cache'[i].rloc]
      BY DEF EntriesCurrent
    <3>0. learned \in [Router -> Ext \cup {NoExt}]
      BY DEF CacheInv, CacheTypeOK
    <3>1. CASE i = e
      BY <3>0, <3>1, <2>1, <2>3, <2>7
    <3>2. CASE i # e
      <4>1. cache[i].rloc \in Router \ {rloc}
        BY <3>2, <2>2, <2>7, EntryType DEF CacheInv
      <4>. QED
        BY <3>0, <3>2, <4>1, <2>1, <2>7 DEF CacheInv, EntriesCurrent
    <3>. QED
      BY <3>1, <3>2
  <2>. QED
    BY <2>6, <2>8, <2>9 DEF CacheInv
<1>. QED
  BY <1>1, <1>2

LEMMA CacheInvStep == CacheInv /\ [CacheNext]_cacheVars => CacheInv'
<1>1. ASSUME CacheInv, UNCHANGED cacheVars PROVE CacheInv'
  BY <1>1 DEF cacheVars, CacheInv, CacheTypeOK, NoGapsNoDuplicates,
     EntriesCurrent
<1>. QED
  BY <1>1, RememberKeepsInv DEF CacheNext

\* The array stays well typed: an entry in use holds a router and an address.
THEOREM CacheTypeCorrect == CacheSpec => []CacheTypeOK
<1>1. CacheInv => CacheTypeOK
  BY DEF CacheInv
<1>. QED
  BY CacheInvInit, CacheInvStep, <1>1, PTL DEF CacheSpec

\* For every number of entries: they fill the array without gaps and no router
\* has two, so the search may stop at the first free entry.
THEOREM CompactTheorem == CacheSpec => []NoGapsNoDuplicates
<1>1. CacheInv => NoGapsNoDuplicates
  BY DEF CacheInv
<1>. QED
  BY CacheInvInit, CacheInvStep, <1>1, PTL DEF CacheSpec

\* What the cache finds for a router is what was last learned of it, through
\* any evictions and re-insertions.
THEOREM CurrentTheorem == CacheSpec => []NeverOutdated
<1>1. CacheInv => NeverOutdated
  <2> SUFFICES ASSUME CacheInv, NEW r \in Router
               PROVE  Applied(r) \in {learned[r], NoExt}
    BY DEF NeverOutdated
  <2> DEFINE hits == { i \in Slot : cache[i].valid /\ cache[i].rloc = r }
  <2>1. CASE hits = {}
    BY <2>1 DEF Applied
  <2>2. CASE hits # {}
    <3>1. First(hits) \in hits
      BY <2>2, FirstInSlots
    <3>2. Applied(r) = cache[First(hits)].ext
      BY <2>2 DEF Applied
    <3>. QED
      BY <3>1, <3>2 DEF CacheInv, EntriesCurrent
  <2>. QED
    BY <2>1, <2>2
<1>. QED
  BY CacheInvInit, CacheInvStep, <1>1, PTL DEF CacheSpec

-----------------------------------------------------------------------------
(***************************************************************************)
(* The array implements the recency list.  The stamps order the entries in *)
(* use; an entry's place in the list is the number of entries newer than   *)
(* it, so that a touch moves each other entry down by one unless it was    *)
(* older than the entry overwritten.                                       *)
(***************************************************************************)
StampsOrdered ==
  \A i \in Used :
    /\ cache[i].stamp <= sequence
    /\ \A j \in Used \ {i} : cache[i].stamp # cache[j].stamp

OrderInv == CacheInv /\ StampsOrdered

Rank(i) == Cardinality(Newer(i))

LEMMA UsedFinite ==
  /\ IsFiniteSet(Slot) /\ Cardinality(Slot) = CacheSize
  /\ IsFiniteSet(Used) /\ Cardinality(Used) \in 0 .. CacheSize
<1>1. CacheSize \in Nat /\ CacheSize >= 1
  BY ArrayAssumption
<1>2. IsFiniteSet(Slot) /\ Cardinality(Slot) = CacheSize
  BY <1>1, FS_Interval DEF Slot
<1>3. Used \in SUBSET Slot
  BY DEF Used
<1>4. IsFiniteSet(Used) /\ Cardinality(Used) <= CacheSize
  BY <1>2, <1>3, FS_Subset
<1>. QED
  BY <1>1, <1>2, <1>4, FS_CardinalityType

\* The newer an entry, the lower its rank; ranks stay below the number of
\* entries in use.
LEMMA RankType ==
  ASSUME NEW i \in Used, CacheTypeOK
  PROVE  /\ IsFiniteSet(Newer(i))
         /\ Rank(i) \in 0 .. Cardinality(Used) - 1
         /\ \A j \in Newer(i) : Rank(j) < Rank(i)
<1>0. IsFiniteSet(Used) /\ Cardinality(Used) \in Nat
  BY UsedFinite
<1>1. \A j \in Used : cache[j].stamp \in Nat
  BY EntryType DEF Used
<1>2. Newer(i) \in SUBSET (Used \ {i})
  BY <1>1 DEF Newer
<1>3. IsFiniteSet(Used \ {i}) /\ Cardinality(Used \ {i}) = Cardinality(Used) - 1
  BY <1>0, FS_RemoveElement
<1>4. /\ IsFiniteSet(Newer(i)) /\ Cardinality(Newer(i)) \in Nat
      /\ Cardinality(Newer(i)) <= Cardinality(Used) - 1
  BY <1>2, <1>3, FS_Subset, FS_CardinalityType
<1>5. ASSUME NEW j \in Newer(i) PROVE Rank(j) < Rank(i)
  <2>1. j \in Used /\ cache[j].stamp > cache[i].stamp
    BY <1>5 DEF Newer
  <2>2. Newer(j) \in SUBSET (Newer(i) \ {j})
    BY <1>1, <2>1 DEF Newer
  <2>3. /\ IsFiniteSet(Newer(i) \ {j})
        /\ Cardinality(Newer(i) \ {j}) = Cardinality(Newer(i)) - 1
    BY <1>4, <1>5, FS_RemoveElement
  <2>4. /\ Cardinality(Newer(j)) \in Nat
        /\ Cardinality(Newer(j)) <= Cardinality(Newer(i)) - 1
    BY <2>2, <2>3, FS_Subset, FS_CardinalityType
  <2>. QED
    BY <1>4, <2>4 DEF Rank
<1>. QED
  BY <1>0, <1>4, <1>5 DEF Rank

\* Ranks are the positions 0 .. n - 1 of the n entries in use, one each.
LEMMA RankPlaces ==
  ASSUME CacheTypeOK, StampsOrdered
  PROVE  /\ \A n \in 1 .. Cardinality(Used) :
              SlotOfRank(n) \in Used /\ Rank(SlotOfRank(n)) = n - 1
         /\ \A i \in Used : SlotOfRank(Rank(i) + 1) = i
<1> DEFINE k == Cardinality(Used)
           place == [i \in Used |-> Rank(i) + 1]
<1>0. IsFiniteSet(Used) /\ k \in Nat
  BY UsedFinite
<1>1. \A i \in Used : Rank(i) \in 0 .. k - 1
  BY RankType
<1>2. \A i, j \in Used : Rank(i) = Rank(j) => i = j
  <2> SUFFICES ASSUME NEW i \in Used, NEW j \in Used, i # j
               PROVE  Rank(i) # Rank(j)
    OBVIOUS
  <2>1. cache[i].stamp \in Nat /\ cache[j].stamp \in Nat
    BY EntryType DEF Used
  <2>2. cache[i].stamp # cache[j].stamp
    BY DEF StampsOrdered
  <2>3. i \in Newer(j) \/ j \in Newer(i)
    BY <2>1, <2>2 DEF Newer
  <2>4. Rank(i) < Rank(j) \/ Rank(j) < Rank(i)
    BY <2>3, RankType
  <2>. QED
    BY <1>0, <1>1, <2>4
<1> HIDE DEF k
<1>3. place \in [Used -> 1 .. k]
  BY <1>0, <1>1
<1>4. \A i, j \in Used : place[i] = place[j] => i = j
  BY <1>0, <1>1, <1>2
<1>5. place \in Injection(Used, 1 .. k)
  BY <1>3, <1>4 DEF Injection, IsInjective
<1>6. IsFiniteSet(1 .. k) /\ Cardinality(1 .. k) = k
  BY <1>0, FS_Interval
<1>7. place \in Surjection(Used, 1 .. k)
  BY <1>5, <1>6, FS_Injection DEF k
<1>8. ASSUME NEW n \in 1 .. k PROVE \E i \in Used : Rank(i) = n - 1
  <2>1. \A f \in Surjection(Used, 1 .. k) : \E i \in Used : f[i] = n
    BY DEF Surjection
  <2>2. PICK i \in Used : place[i] = n
    BY <1>7, <2>1
  <2>. QED
    BY <1>0, <1>1, <2>2
<1>9. \A n \in 1 .. k : SlotOfRank(n) \in Used /\ Rank(SlotOfRank(n)) = n - 1
  BY <1>8 DEF SlotOfRank, Rank
<1>10. ASSUME NEW i \in Used PROVE SlotOfRank(Rank(i) + 1) = i
  <2> DEFINE n == Rank(i) + 1
  <2>2. n \in 1 .. k /\ n - 1 = Rank(i)
    BY <1>0, <1>1
  <2> HIDE DEF n
  <2>3. SlotOfRank(n) \in Used /\ Rank(SlotOfRank(n)) = Rank(i)
    BY <1>9, <2>2
  <2>. QED
    BY <1>2, <2>3 DEF n
<1>. QED
  BY <1>9, <1>10 DEF k

\* What the list makes of a router it does not hold: a new head, and its last
\* entry dropped when it was full.
LEMMA TouchNew ==
  ASSUME NEW s \in Seq(Lru!Entry), Len(s) <= CacheSize,
         NEW rloc \in Router, NEW ext \in Ext, ~Lru!Cached(s, rloc)
  PROVE  LET t == Lru!Touch(s, rloc, ext) IN
         /\ t \in Seq(Lru!Entry)
         /\ Len(t) = IF Len(s) < CacheSize THEN Len(s) + 1 ELSE CacheSize
         /\ t[1] = [rloc |-> rloc, ext |-> ext]
         /\ \A m \in 1 .. Len(t) - 1 : t[m + 1] = s[m]
<1> DEFINE new == [rloc |-> rloc, ext |-> ext]
           all == <<new>> \o s
<1>0. CacheSize \in Nat \ {0} /\ Len(s) \in Nat
  BY ArrayAssumption
<1>1. Lru!Touch(s, rloc, ext) = Lru!Truncate(all)
  BY DEF Lru!Touch
<1>2. new \in Lru!Entry
  BY DEF Lru!Entry
<1> HIDE DEF new
<1>3. /\ all \in Seq(Lru!Entry) /\ Len(all) = Len(s) + 1 /\ all[1] = new
      /\ \A m \in 1 .. Len(s) : all[m + 1] = s[m]
  BY <1>0, <1>2
<1> HIDE DEF all
<1>4. CASE Len(s) < CacheSize
  BY <1>0, <1>1, <1>3, <1>4 DEF Lru!Truncate, new
<1>5. CASE Len(s) = CacheSize
  <2>1. Lru!Touch(s, rloc, ext) = SubSeq(all, 1, CacheSize)
    BY <1>0, <1>1, <1>3, <1>5 DEF Lru!Truncate
  <2>2. /\ SubSeq(all, 1, CacheSize) \in Seq(Lru!Entry)
        /\ Len(SubSeq(all, 1, CacheSize)) = CacheSize
        /\ \A m \in 1 .. CacheSize : SubSeq(all, 1, CacheSize)[m] = all[m]
    BY <1>0, <1>3, <1>5
  <2>. QED
    BY <1>0, <1>3, <1>5, <2>1, <2>2 DEF new
<1>. QED
  BY <1>0, <1>4, <1>5

\* A sequence without its p-th element
LEMMA Removed ==
  ASSUME NEW S, NEW s \in Seq(S), NEW l \in Nat, Len(s) = l, NEW p \in 1 .. l
  PROVE  /\ RemoveAt(s, p) \in Seq(S) /\ Len(RemoveAt(s, p)) = l - 1
         /\ \A m \in 1 .. l - 1 :
              RemoveAt(s, p)[m] = IF m < p THEN s[m] ELSE s[m + 1]
<1> DEFINE a == SubSeq(s, 1, p - 1)
           b == SubSeq(s, p + 1, l)
<1>0. /\ p \in Int /\ 1 <= p /\ p <= l
      /\ \A m \in 1 .. p - 1 : s[m] \in S
      /\ \A m \in p + 1 .. l : s[m] \in S
  <2>1. p \in Int /\ 1 <= p /\ p <= l
    OBVIOUS
  <2>2. \A m \in 1 .. l : s[m] \in S
    BY LenProperties
  <2>3. \A m \in Int : m \in 1 .. p - 1 \/ m \in p + 1 .. l => m \in 1 .. l
    BY <2>1
  <2>. QED
    BY <2>1, <2>2, <2>3
<1>1. /\ a \in Seq(S) /\ Len(a) = p - 1
      /\ \A m \in 1 .. p - 1 : a[m] = s[m]
  <2>1. /\ a \in Seq(S)
        /\ Len(a) = IF 1 <= p - 1 THEN p - 1 - 1 + 1 ELSE 0
        /\ \A m \in 1 .. p - 1 - 1 + 1 : a[m] = s[1 + m - 1]
    BY <1>0, SubSeqProperties
  <2> HIDE DEF a
  <2>. QED
    BY <1>0, <2>1
<1>2. /\ b \in Seq(S) /\ Len(b) = l - p
      /\ \A m \in 1 .. l - p : b[m] = s[p + m]
  <2>1. /\ b \in Seq(S)
        /\ Len(b) = IF p + 1 <= l THEN l - (p + 1) + 1 ELSE 0
        /\ \A m \in 1 .. l - (p + 1) + 1 : b[m] = s[p + 1 + m - 1]
    BY <1>0, SubSeqProperties
  <2> HIDE DEF b
  <2>2. Len(b) = l - p
    BY <1>0, <2>1
  <2>3. ASSUME NEW m \in 1 .. l - p PROVE b[m] = s[p + m]
    <3>1. m \in 1 .. l - (p + 1) + 1 /\ p + 1 + m - 1 = p + m
      BY <1>0
    <3>. QED
      BY <2>1, <3>1
  <2>. QED
    BY <2>1, <2>2, <2>3
<1>3. RemoveAt(s, p) = a \o b
  BY DEF RemoveAt
<1> HIDE DEF a, b
<1>4. /\ a \o b \in Seq(S) /\ Len(a \o b) = Len(a) + Len(b)
      /\ \A m \in 1 .. Len(a) + Len(b) :
           (a \o b)[m] = IF m <= Len(a) THEN a[m] ELSE b[m - Len(a)]
  BY <1>1, <1>2, ConcatProperties
<1>5. ASSUME NEW m \in 1 .. l - 1
      PROVE  (a \o b)[m] = IF m < p THEN s[m] ELSE s[m + 1]
  <2>0. m \in 1 .. Len(a) + Len(b) /\ Len(a) = p - 1
    BY <1>0, <1>1, <1>2
  <2>1. CASE m < p
    <3>1. m \in 1 .. p - 1
      BY <2>1, <1>0
    <3>. QED
      BY <2>0, <2>1, <3>1, <1>0, <1>1, <1>4
  <2>2. CASE m >= p
    <3> DEFINE j == m - Len(a)
    <3>1. j \in 1 .. l - p /\ p + j = m + 1 /\ ~(m < p) /\ ~(m <= Len(a))
      BY <2>0, <2>2, <1>0
    <3>2. (a \o b)[m] = b[j]
      BY <2>0, <3>1, <1>4
    <3> HIDE DEF j
    <3>3. b[j] = s[p + j]
      BY <3>1, <1>2
    <3>. QED
      BY <3>1, <3>2, <3>3
  <2>3. m < p \/ m >= p
    BY <1>0
  <2>. QED
    BY <2>1, <2>2, <2>3
<1>6. Len(a) + Len(b) = l - 1
  BY <1>0, <1>1, <1>2
<1>. QED
  BY <1>3, <1>4, <1>5, <1>6

\* And of one it holds at p: that entry moves to the head.
LEMMA TouchKnown ==
  ASSUME NEW s \in Seq(Lru!Entry), Len(s) <= CacheSize,
         NEW rloc \in Router, NEW ext \in Ext, NEW p \in 1 .. Len(s),
         \A q \in 1 .. Len(s) : s[q].rloc = rloc <=> q = p
  PROVE  LET t == Lru!Touch(s, rloc, ext) IN
         /\ t \in Seq(Lru!Entry) /\ Len(t) = Len(s)
         /\ t[1] = [rloc |-> rloc, ext |-> ext]
         /\ \A m \in 1 .. Len(s) - 1 :
              t[m + 1] = IF m < p THEN s[m] ELSE s[m + 1]
<1> DEFINE new == [rloc |-> rloc, ext |-> ext]
           others == RemoveAt(s, p)
           all == <<new>> \o others
<1>0. CacheSize \in Nat \ {0} /\ Len(s) \in Nat /\ DOMAIN s = 1 .. Len(s)
  BY ArrayAssumption
<1>1. Lru!Cached(s, rloc) /\ Lru!Position(s, rloc) = p
  BY <1>0 DEF Lru!Cached, Lru!Position
<1>2. Lru!Touch(s, rloc, ext) = Lru!Truncate(all)
  BY <1>1 DEF Lru!Touch, Lru!RemoveAt, RemoveAt
<1>3. /\ others \in Seq(Lru!Entry) /\ Len(others) = Len(s) - 1
      /\ \A m \in 1 .. Len(s) - 1 :
           others[m] = IF m < p THEN s[m] ELSE s[m + 1]
  BY <1>0, Removed
<1>4. new \in Lru!Entry
  BY DEF Lru!Entry
<1> HIDE DEF new, others
<1>5. <<new>> \in Seq(Lru!Entry) /\ Len(<<new>>) = 1 /\ <<new>>[1] = new
  BY <1>4
<1>6. /\ all \in Seq(Lru!Entry) /\ Len(all) = 1 + Len(others)
      /\ \A m \in 1 .. 1 + Len(others) :
           all[m] = IF m <= 1 THEN <<new>>[m] ELSE others[m - 1]
  BY <1>3, <1>5, ConcatProperties
<1> HIDE DEF all
<1>7. /\ Len(all) = Len(s) /\ all[1] = new
      /\ \A m \in 1 .. Len(s) - 1 : all[m + 1] = others[m]
  <2>1. Len(all) = Len(s) /\ 1 + Len(others) = Len(s) /\ 1 <= Len(s)
    BY <1>0, <1>3, <1>6
  <2>2. all[1] = <<new>>[1]
    BY <1>0, <1>6, <2>1
  <2>3. ASSUME NEW m \in 1 .. Len(s) - 1 PROVE all[m + 1] = others[m]
    <3> DEFINE j == m + 1
    <3>1. j \in 1 .. 1 + Len(others) /\ ~(j <= 1) /\ j - 1 = m
      BY <1>0, <2>1
    <3> HIDE DEF j
    <3>2. all[j] = others[j - 1]
      BY <1>6, <3>1
    <3>. QED
      BY <3>1, <3>2 DEF j
  <2>. QED
    BY <1>5, <2>1, <2>2, <2>3
<1>8. Lru!Touch(s, rloc, ext) = all
  BY <1>0, <1>2, <1>7 DEF Lru!Truncate
<1>. QED
  BY <1>3, <1>6, <1>7, <1>8 DEF new

-----------------------------------------------------------------------------
\* What a touch does to the slots: they are in use as before and the one
\* overwritten too, which becomes the newest; the others keep their stamps.
LEMMA Overwritten ==
  ASSUME OrderInv, NEW rloc \in Router, NEW ext \in Ext,
         RememberExtAddress(rloc, ext), NEW e, e = EntryFor(rloc)
  PROVE  /\ e \in Slot /\ Used' = Used \cup {e}
         /\ cache'[e] = [valid |-> TRUE, rloc |-> rloc, ext |-> ext,
                         stamp |-> sequence + 1]
         /\ \A i \in Slot \ {e} : cache'[i] = cache[i]
         /\ Newer(e)' = {}
         /\ \A i \in Used \ {e} : Newer(i)' = Newer(i) \cup {e}
         /\ StampsOrdered'
<1> DEFINE entry == [valid |-> TRUE, rloc |-> rloc, ext |-> ext,
                     stamp |-> sequence + 1]
<1>0. rloc # NoRloc /\ ext # NoExt
  BY ArrayAssumption
<1>1. cache' = [cache EXCEPT ![e] = entry] /\ sequence' = sequence + 1
  BY <1>0 DEF RememberExtAddress
<1>2. e \in Slot
  BY EntryFound DEF OrderInv
<1>3. entry.valid = TRUE /\ entry.stamp = sequence + 1
  OBVIOUS
<1> HIDE DEF entry
<1>4. cache'[e] = entry /\ \A i \in Slot \ {e} : cache'[i] = cache[i]
  BY <1>1, <1>2 DEF OrderInv, CacheInv, CacheTypeOK
<1>5. Used' = Used \cup {e}
  BY <1>2, <1>3, <1>4 DEF Used
<1>6. /\ sequence \in Nat
      /\ \A i \in Slot : cache[i].stamp \in Nat
      /\ \A i \in Used : cache[i].stamp <= sequence
  <2>1. sequence \in 0 .. MaxUpdates
    BY DEF OrderInv, CacheInv, CacheTypeOK
  <2>2. \A i \in Used : cache[i].stamp <= sequence
    BY DEF OrderInv, StampsOrdered
  <2>. QED
    BY <2>1, <2>2, EntryType, ArrayAssumption DEF OrderInv, CacheInv
<1>7. \A i \in Used' \ {e} : i \in Used /\ i \in Slot /\ cache'[i] = cache[i]
  BY <1>4, <1>5 DEF Used
<1>8. \A i \in Used' \ {e} : cache'[e].stamp > cache'[i].stamp
  BY <1>3, <1>4, <1>6, <1>7
<1>9. Newer(e)' = {}
  <2>1. \A i \in Used' : ~(cache'[i].stamp > cache'[e].stamp)
    BY <1>3, <1>4, <1>6, <1>7, <1>8
  <2>. QED
    BY <2>1 DEF Newer
<1>10. ASSUME NEW i \in Used \ {e} PROVE Newer(i)' = Newer(i) \cup {e}
  <2>1. i \in Used' \ {e} /\ e \in Used'
    BY <1>5
  <2>2. \A j \in Used' \ {e} :
          cache'[j].stamp > cache'[i].stamp <=> cache[j].stamp > cache[i].stamp
    BY <1>7, <2>1
  <2>. QED
    BY <1>5, <1>8, <2>1, <2>2 DEF Newer
<1>11. StampsOrdered'
  <2> SUFFICES ASSUME NEW i \in Used'
               PROVE  /\ cache'[i].stamp <= sequence'
                      /\ \A j \in Used' \ {i} : cache'[i].stamp # cache'[j].stamp
    BY DEF StampsOrdered
  <2>1. cache'[i].stamp <= sequence'
    BY <1>1, <1>3, <1>4, <1>6, <1>7
  <2>2. ASSUME NEW j \in Used' \ {i}
        PROVE  cache'[i].stamp # cache'[j].stamp
    <3>1. CASE i = e \/ j = e
      BY <3>1, <1>3, <1>4, <1>6, <1>7, <1>8
    <3>2. CASE i # e /\ j # e
      <4>1. cache[i].stamp # cache[j].stamp
        BY <3>2, <1>7 DEF OrderInv, StampsOrdered
      <4>. QED
        BY <3>2, <4>1, <1>7
    <3>. QED
      BY <3>1, <3>2
  <2>. QED
    BY <2>1, <2>2
<1>. QED
  BY <1>2, <1>4, <1>5, <1>9, <1>10, <1>11 DEF entry

\* The list of the array: every entry in use at its rank, nothing else.
Placed ==
  /\ Cardinality(Used) \in 0 .. CacheSize
  /\ Recency \in Seq(Lru!Entry) /\ Len(Recency) = Cardinality(Used)
  /\ \A i \in Used : /\ Rank(i) \in 0 .. Cardinality(Used) - 1
                     /\ Recency[Rank(i) + 1] = Pair(i)
  /\ \A n \in 1 .. Cardinality(Used) : \E i \in Used : n = Rank(i) + 1

LEMMA ListOfTheArray == OrderInv => Placed
<1> SUFFICES ASSUME OrderInv PROVE Placed
  OBVIOUS
<1> DEFINE k == Cardinality(Used)
<1>0. CacheTypeOK /\ StampsOrdered /\ k \in 0 .. CacheSize /\ k \in Nat
  BY UsedFinite, ArrayAssumption DEF OrderInv, CacheInv
<1>1. \A n \in 1 .. k : SlotOfRank(n) \in Used /\ Rank(SlotOfRank(n)) = n - 1
  BY <1>0, RankPlaces
<1>2. ASSUME NEW i \in Used PROVE Pair(i) \in Lru!Entry
  <2>1. cache[i] \in CacheEntry /\ cache[i].valid
    BY <1>0 DEF CacheTypeOK, Used
  <2>2. cache[i] # EmptyEntry
    BY <2>1 DEF EmptyEntry
  <2>3. cache[i].rloc \in Router /\ cache[i].ext \in Ext
    BY <2>1, <2>2 DEF CacheEntry
  <2>. QED
    BY <2>3 DEF Pair, Lru!Entry
<1> HIDE DEF k
<1>3. Recency = [n \in 1 .. k |-> Pair(SlotOfRank(n))]
  BY DEF Recency, k
<1>4. Recency \in Seq(Lru!Entry) /\ Len(Recency) = k
  BY <1>0, <1>1, <1>2, <1>3
<1>5. ASSUME NEW i \in Used
      PROVE  Rank(i) \in 0 .. k - 1 /\ Recency[Rank(i) + 1] = Pair(i)
  <2>1. Rank(i) \in 0 .. k - 1
    BY <1>0, RankType DEF k
  <2> DEFINE n == Rank(i) + 1
  <2>2. n \in 1 .. k /\ SlotOfRank(n) = i
    BY <1>0, <2>1, RankPlaces
  <2> HIDE DEF n
  <2>3. Recency[n] = Pair(i)
    BY <1>3, <2>2
  <2>. QED
    BY <2>1, <2>3 DEF n
<1>6. ASSUME NEW n \in 1 .. k PROVE \E i \in Used : n = Rank(i) + 1
  <2>1. SlotOfRank(n) \in Used /\ Rank(SlotOfRank(n)) + 1 = n
    BY <1>0, <1>1
  <2>. QED
    BY <2>1
<1>. QED
  BY <1>0, <1>4, <1>5, <1>6 DEF Placed, k

LEMMA ListNext == OrderInv' => Placed'
BY ListOfTheArray, PTL

\* Where the others go: one place down, unless they were older than the entry
\* overwritten.
LEMMA Shifted ==
  ASSUME OrderInv, NEW rloc \in Router, NEW ext \in Ext,
         RememberExtAddress(rloc, ext), NEW e, e = EntryFor(rloc)
  PROVE  /\ Rank(e)' = 0
         /\ \A i \in Used \ {e} :
              Rank(i)' = IF e \in Newer(i) THEN Rank(i) ELSE Rank(i) + 1
         /\ Cardinality(Used)' = IF e \in Used THEN Cardinality(Used)
                                 ELSE Cardinality(Used) + 1
<1>1. /\ Used' = Used \cup {e} /\ Newer(e)' = {}
      /\ \A i \in Used \ {e} : Newer(i)' = Newer(i) \cup {e}
  BY Overwritten
<1>2. Rank(e)' = 0
  BY <1>1, FS_EmptySet DEF Rank
<1>3. ASSUME NEW i \in Used \ {e}
      PROVE  Rank(i)' = IF e \in Newer(i) THEN Rank(i) ELSE Rank(i) + 1
  <2>1. IsFiniteSet(Newer(i))
    BY RankType DEF OrderInv, CacheInv
  <2>2. Rank(i)' = Cardinality(Newer(i) \cup {e})
    BY <1>1 DEF Rank
  <2>. QED
    BY <2>1, <2>2, FS_AddElement DEF Rank
<1>4. Cardinality(Used)' = IF e \in Used THEN Cardinality(Used)
                           ELSE Cardinality(Used) + 1
  BY <1>1, UsedFinite, FS_AddElement
<1>. QED
  BY <1>2, <1>3, <1>4

\* Which entry is overwritten: the router's own, a free one when it has none,
\* or, with all taken by others, the oldest.
LEMMA Chosen ==
  ASSUME OrderInv, NEW rloc \in Router, NEW e, e = EntryFor(rloc)
  PROVE  /\ \A i \in Used \ {e} : cache[i].rloc # rloc
         /\ \/ e \notin Used
            \/ e \in Used /\ cache[e].rloc = rloc
            \/ /\ e \in Used /\ cache[e].rloc # rloc
               /\ Cardinality(Used) = CacheSize
               /\ \A i \in Used \ {e} : e \notin Newer(i)
<1>1. e \in Slot /\ \A j \in Slot \ {e} : cache[j].valid => cache[j].rloc # rloc
  BY EntryFound DEF OrderInv
<1>2. \A i \in Used \ {e} : cache[i].rloc # rloc
  BY <1>1 DEF Used
<1>3. ASSUME e \in Used, cache[e].rloc # rloc
      PROVE  /\ Cardinality(Used) = CacheSize
             /\ \A i \in Used \ {e} : e \notin Newer(i)
  <2>1. Stops(rloc) = {}
    <3> SUFFICES ASSUME Stops(rloc) # {} PROVE FALSE
      OBVIOUS
    <3>1. Stops(rloc) \in SUBSET Slot
      BY DEF Stops
    <3>2. e \in Stops(rloc)
      BY <3>1, FirstInSlots DEF EntryFor
    <3>. QED
      BY <3>2, <1>3 DEF Stops, Used
  <2>2. Used = Slot
    BY <2>1 DEF Stops, Used
  <2>3. e = Oldest
    BY <2>1 DEF EntryFor
  <2>4. /\ \A j \in Slot : cache[j].stamp \in Nat
        /\ \A j \in Slot : cache[e].stamp <= cache[j].stamp
    BY <2>3, OldestIsASlot, EntryType DEF OrderInv, CacheInv
  <2>5. \A i \in Used \ {e} : e \notin Newer(i)
    BY <1>1, <2>2, <2>4 DEF Newer
  <2>. QED
    BY <2>2, <2>5, UsedFinite
<1>. QED
  BY <1>2, <1>3

LEMMA LearnStep ==
  ASSUME OrderInv, OrderInv', NEW rloc \in Router, NEW ext \in Ext,
         RememberExtAddress(rloc, ext)
  PROVE  Recency' = Lru!Touch(Recency, rloc, ext)
<1> DEFINE t == Lru!Touch(Recency, rloc, ext)
           k == Cardinality(Used)
<1>0. PICK e : e = EntryFor(rloc)
  OBVIOUS
<1>1. /\ e \in Slot /\ Used' = Used \cup {e}
      /\ cache'[e] = [valid |-> TRUE, rloc |-> rloc, ext |-> ext,
                      stamp |-> sequence + 1]
      /\ \A i \in Slot \ {e} : cache'[i] = cache[i]
  BY <1>0, Overwritten
<1>2. /\ Rank(e)' = 0
      /\ \A i \in Used \ {e} :
           Rank(i)' = IF e \in Newer(i) THEN Rank(i) ELSE Rank(i) + 1
      /\ k' = IF e \in Used THEN k ELSE k + 1
  BY <1>0, Shifted
<1>3. Placed /\ Placed' /\ CacheSize \in Nat \ {0}
  BY ListOfTheArray, ListNext, ArrayAssumption
<1>4. Pair(e)' = [rloc |-> rloc, ext |-> ext]
  BY <1>1 DEF Pair
<1>5. \A i \in Used \ {e} : Pair(i)' = Pair(i)
  BY <1>1 DEF Pair, Used
<1>6. \A i \in Used \ {e} : cache[i].rloc # rloc
  BY <1>0, Chosen
<1>7. /\ CacheSize \in Nat /\ k \in Nat /\ k <= CacheSize /\ k' \in Nat /\ k' <= CacheSize
      /\ Recency \in Seq(Lru!Entry) /\ Len(Recency) = k
      /\ Recency' \in Seq(Lru!Entry) /\ Len(Recency') = k'
  BY <1>3 DEF Placed
<1>8. /\ \A i \in Used : Rank(i) \in 0 .. k - 1 /\ Recency[Rank(i) + 1] = Pair(i)
      /\ \A n \in 1 .. k : \E i \in Used : n = Rank(i) + 1
  BY <1>3 DEF Placed
\* The list touched has every entry where the array's new list has it.
<1> SUFFICES /\ t \in Seq(Lru!Entry) /\ Len(t) = k'
             /\ \A i \in Used' : t[Rank(i)' + 1] = Pair(i)'
  <2>1. /\ \A i \in Used' : Recency'[Rank(i)' + 1] = Pair(i)'
        /\ \A n \in 1 .. k' : \E i \in Used' : n = Rank(i)' + 1
    BY <1>3 DEF Placed
  <2>2. \A n \in 1 .. k' : t[n] = Recency'[n]
    BY <2>1
  <2> HIDE DEF t, k
  <2>3. Recency' = t
    BY <1>7, <2>2, SeqEqual
  <2>. QED
    BY <2>3 DEF t
<1> HIDE DEF t, k
<1>9. ASSUME e \notin Used \/ cache[e].rloc # rloc
       PROVE  ~Lru!Cached(Recency, rloc)
  <2> SUFFICES ASSUME NEW q \in 1 .. k, Recency[q].rloc = rloc PROVE FALSE
    BY <1>7 DEF Lru!Cached
  <2>1. PICK i \in Used : q = Rank(i) + 1
    BY <1>8
  <2>2. Recency[q] = Pair(i)
    BY <1>8, <2>1
  <2>3. cache[i].rloc = rloc
    BY <2>2 DEF Pair
  <2>. QED
    BY <1>6, <1>9, <2>1, <2>3
<1>10. CASE e \notin Used
  <2>1. k < CacheSize /\ k' = k + 1
    BY <1>2, <1>7, <1>10
  <2>2. ~Lru!Cached(Recency, rloc)
    BY <1>10, <1>9
  <2>3. /\ t \in Seq(Lru!Entry) /\ Len(t) = k + 1
        /\ t[1] = [rloc |-> rloc, ext |-> ext]
        /\ \A m \in 1 .. Len(t) - 1 : t[m + 1] = Recency[m]
    BY <1>7, <2>1, <2>2, TouchNew DEF t
  <2>4. ASSUME NEW i \in Used PROVE t[Rank(i)' + 1] = Pair(i)'
    <3>1. Rank(i)' = Rank(i) + 1
      BY <1>2, <1>10 DEF Newer
    <3>2. Rank(i) + 1 \in 1 .. Len(t) - 1
      BY <1>7, <1>8, <2>3
    <3>. QED
      BY <1>5, <1>8, <1>10, <2>3, <3>1, <3>2
  <2>. QED
    BY <1>1, <1>2, <1>4, <2>1, <2>3, <2>4
<1>11. CASE e \in Used /\ cache[e].rloc = rloc
  <2>0. PICK p : p = Rank(e) + 1
    OBVIOUS
  <2>1. p \in 1 .. k /\ k' = k
    BY <1>2, <1>7, <1>8, <1>11, <2>0
  <2>2. \A q \in 1 .. k : Recency[q].rloc = rloc <=> q = p
    <3>0. \A i \in Used : Recency[Rank(i) + 1].rloc = cache[i].rloc
      <4> TAKE i \in Used
      <4>1. Recency[Rank(i) + 1] = Pair(i)
        BY <1>8
      <4>. QED
        BY <4>1 DEF Pair
    <3>1. Recency[p].rloc = rloc
      BY <3>0, <1>11, <2>0
    <3>2. ASSUME NEW i \in Used, i # e PROVE Recency[Rank(i) + 1].rloc # rloc
      BY <1>6, <3>0, <3>2
    <3>. QED
      BY <1>8, <2>0, <3>1, <3>2
  <2>3. /\ t \in Seq(Lru!Entry) /\ Len(t) = k
        /\ t[1] = [rloc |-> rloc, ext |-> ext]
        /\ \A m \in 1 .. k - 1 :
             t[m + 1] = IF m < p THEN Recency[m] ELSE Recency[m + 1]
    <3>1. /\ Recency \in Seq(Lru!Entry) /\ Len(Recency) = k
          /\ Len(Recency) <= CacheSize
      BY <1>7
    <3>. QED
      BY <2>1, <2>2, <3>1, TouchKnown DEF t
  <2>4. ASSUME NEW i \in Used \ {e} PROVE t[Rank(i)' + 1] = Pair(i)'
    <3>0. Rank(i) \in Nat /\ Rank(i) < k /\ Rank(e) \in Nat /\ Rank(e) < k
      BY <1>7, <1>8, <1>11
    <3>1. CASE e \in Newer(i)
      <4>0. Rank(e) < Rank(i)
        BY <3>1, RankType DEF OrderInv, CacheInv
      <4>1. Rank(i)' = Rank(i) /\ Rank(e) < Rank(i)
        BY <1>2, <3>1, <4>0
      <4> DEFINE m == Rank(i)
      <4>2. m \in 1 .. k - 1 /\ ~(m < p)
        BY <1>7, <2>0, <3>0, <4>1
      <4>3. Recency[m + 1] = Pair(i) /\ Rank(i)' = m
        BY <1>8, <4>1
      <4> HIDE DEF m
      <4>4. t[m + 1] = Recency[m + 1]
        BY <2>3, <4>2
      <4>. QED
        BY <1>5, <4>3, <4>4
    <3>2. CASE e \notin Newer(i)
      <4>1. i \in Newer(e)
        <5>1. cache[e].stamp \in Nat /\ cache[i].stamp \in Nat
          BY <1>11, EntryType DEF Used, OrderInv, CacheInv
        <5>2. cache[e].stamp # cache[i].stamp
          BY <1>11 DEF OrderInv, StampsOrdered
        <5>. QED
          BY <1>11, <3>2, <5>1, <5>2 DEF Newer
      <4>2. Rank(i)' = Rank(i) + 1 /\ Rank(i) < Rank(e)
        BY <1>2, <1>11, <3>2, <4>1, RankType DEF OrderInv, CacheInv
      <4> DEFINE m == Rank(i) + 1
      <4>3. m \in 1 .. k - 1 /\ m < p
        BY <1>7, <2>0, <3>0, <4>2
      <4>4. Recency[m] = Pair(i) /\ Rank(i)' = m
        BY <1>8, <4>2
      <4> HIDE DEF m
      <4>. QED
        BY <1>5, <2>3, <4>3, <4>4
    <3>. QED
      BY <3>1, <3>2
  <2>. QED
    BY <1>1, <1>2, <1>4, <2>1, <2>3, <2>4
<1>12. CASE /\ e \in Used /\ cache[e].rloc # rloc /\ k = CacheSize
            /\ \A i \in Used \ {e} : e \notin Newer(i)
  <2>1. k' = k
    BY <1>2, <1>12
  <2>2. ~Lru!Cached(Recency, rloc)
    BY <1>12, <1>9
  <2>3. /\ t \in Seq(Lru!Entry) /\ Len(t) = k
        /\ t[1] = [rloc |-> rloc, ext |-> ext]
        /\ \A m \in 1 .. Len(t) - 1 : t[m + 1] = Recency[m]
    BY <1>7, <1>12, <2>2, TouchNew DEF t
  <2>4. ASSUME NEW i \in Used \ {e} PROVE t[Rank(i)' + 1] = Pair(i)'
    <3>1. Rank(i)' = Rank(i) + 1
      BY <1>2, <1>12
    <3>2. Rank(i) + 1 \in 1 .. Len(t) - 1
      <4>1. Rank(i) < Rank(e)
        <5>1. cache[e].stamp \in Nat /\ cache[i].stamp \in Nat
          BY <1>12, EntryType DEF Used, OrderInv, CacheInv
        <5>2. cache[e].stamp # cache[i].stamp
          BY <1>12 DEF OrderInv, StampsOrdered
        <5>3. i \in Newer(e)
          BY <1>12, <5>1, <5>2 DEF Newer
        <5>. QED
          BY <1>12, <5>3, RankType DEF OrderInv, CacheInv
      <4>2. Rank(i) \in 0 .. k - 1 /\ Rank(e) \in 0 .. k - 1
        BY <1>8, <1>12
      <4>. QED
        BY <1>7, <2>3, <4>1, <4>2
    <3>. QED
      BY <1>5, <1>8, <2>3, <3>1, <3>2
  <2>. QED
    BY <1>1, <1>2, <1>4, <2>1, <2>3, <2>4
<1>. QED
  BY <1>0, <1>10, <1>11, <1>12, Chosen DEF k

LEMMA OrderInvInit == CacheInit => OrderInv
BY CacheInvInit
   DEF CacheInit, OrderInv, StampsOrdered, Used, EmptyEntry

LEMMA OrderInvStep == OrderInv /\ [CacheNext]_cacheVars => OrderInv'
<1>1. ASSUME OrderInv, UNCHANGED cacheVars PROVE OrderInv'
  <2>1. CacheInv'
    BY <1>1, CacheInvStep DEF OrderInv
  <2>. QED
    BY <1>1, <2>1 DEF OrderInv, StampsOrdered, Used, cacheVars
<1>2. ASSUME OrderInv, NEW rloc \in Router \cup {NoRloc},
             NEW ext \in Ext \cup {NoExt}, RememberExtAddress(rloc, ext)
      PROVE  OrderInv'
  <2>1. CacheInv'
    BY <1>2, RememberKeepsInv DEF OrderInv
  <2>2. CASE rloc = NoRloc \/ ext = NoExt
    BY <1>1, <1>2, <2>2 DEF RememberExtAddress
  <2>3. CASE rloc \in Router /\ ext \in Ext
    BY <1>2, <2>1, <2>3, Overwritten DEF OrderInv
  <2>. QED
    BY <2>2, <2>3
<1>. QED
  BY <1>1, <1>2 DEF CacheNext

\* For every number of entries the array implements the recency list: it holds
\* the CacheSize routers confirmed last and evicts the one confirmed longest
\* ago, although it keeps no order but the stamps.
THEOREM LruTheorem == CacheSpec => ImplementsLru
<1>1. CacheInit => Lru!LruInit
  <2> SUFFICES ASSUME CacheInit PROVE Recency = <<>>
    BY DEF Lru!LruInit
  <2>1. Used = {}
    BY DEF CacheInit, Used, EmptyEntry
  <2>2. Cardinality(Used) = 0
    BY <2>1, FS_EmptySet
  <2>. QED
    BY <2>2 DEF Recency
<1>2. ASSUME OrderInv, OrderInv', [CacheNext]_cacheVars
      PROVE  [Lru!Learn]_Recency
  <2>1. CASE UNCHANGED cacheVars
    BY <2>1 DEF cacheVars, Recency, Used, Pair, SlotOfRank, Newer
  <2>2. ASSUME NEW rloc \in Router \cup {NoRloc}, NEW ext \in Ext \cup {NoExt},
               RememberExtAddress(rloc, ext)
        PROVE  [Lru!Learn]_Recency
    <3>1. CASE rloc = NoRloc \/ ext = NoExt
      BY <2>1, <2>2, <3>1 DEF RememberExtAddress
    <3>2. CASE rloc \in Router /\ ext \in Ext
      <4>1. Recency' = Lru!Touch(Recency, rloc, ext)
        BY <1>2, <2>2, <3>2, LearnStep
      <4>. QED
        BY <3>2, <4>1 DEF Lru!Learn
    <3>. QED
      BY <3>1, <3>2
  <2>. QED
    BY <1>2, <2>1, <2>2 DEF CacheNext
<1>. QED
  BY <1>1, <1>2, OrderInvInit, OrderInvStep, PTL
     DEF CacheSpec, ImplementsLru, Lru!LruSpec

\* What the search of the array finds for a router is what the recency list
\* holds for it, for every number of entries: the list may stand for the array.
THEOREM LookupTheorem == CacheSpec => []FindsWhatTheListHolds
<1>1. OrderInv => FindsWhatTheListHolds
  <2> SUFFICES ASSUME OrderInv, NEW r \in Router
               PROVE  Applied(r) = Lru!Lookup(Recency, r)
    BY DEF FindsWhatTheListHolds
  <2> DEFINE hits == { i \in Slot : cache[i].valid /\ cache[i].rloc = r }
             p == Lru!Position(Recency, r)
  <2>0. /\ DOMAIN Recency = 1 .. Cardinality(Used)
        /\ \A i \in Used : Rank(i) + 1 \in DOMAIN Recency
        /\ \A i \in Used : Recency[Rank(i) + 1] = Pair(i)
        /\ \A n \in DOMAIN Recency : \E i \in Used : n = Rank(i) + 1
    <3>1. Placed
      BY ListOfTheArray
    <3>2. \A i \in Used : Rank(i) \in 0 .. Cardinality(Used) - 1
      BY <3>1 DEF Placed
    <3>3. Cardinality(Used) \in Nat
      BY UsedFinite
    <3>4. DOMAIN Recency = 1 .. Cardinality(Used)
      BY DEF Recency
    <3>. QED
      BY <3>1, <3>2, <3>3, <3>4 DEF Placed
  <2>1. \A i \in Used : i \in hits <=> cache[i].rloc = r
    BY DEF Used
  <2>2. CASE hits = {}
    <3>1. ~Lru!Cached(Recency, r)
      <4> SUFFICES ASSUME NEW n \in DOMAIN Recency, Recency[n].rloc = r
                   PROVE  FALSE
        BY DEF Lru!Cached
      <4>1. PICK i \in Used : n = Rank(i) + 1
        BY <2>0
      <4>2. Recency[n] = Pair(i)
        BY <2>0, <4>1
      <4>3. cache[i].rloc = r
        BY <4>2 DEF Pair
      <4>. QED
        BY <2>1, <2>2, <4>3
    <3>. QED
      BY <2>2, <3>1 DEF Applied, Lru!Lookup
  <2>3. CASE hits # {}
    <3> DEFINE h == First(hits)
    <3>1. h \in Used /\ cache[h].rloc = r /\ h \in Slot
      BY <2>3, FirstInSlots DEF Used
    <3>2. Applied(r) = cache[h].ext
      BY <2>3 DEF Applied
    <3> HIDE DEF h
    <3>3. Rank(h) + 1 \in DOMAIN Recency /\ Recency[Rank(h) + 1].rloc = r
      <4>1. Rank(h) + 1 \in DOMAIN Recency /\ Recency[Rank(h) + 1] = Pair(h)
        BY <2>0, <3>1
      <4>2. Pair(h).rloc = r
        BY <3>1 DEF Pair
      <4>. QED
        BY <4>1, <4>2
    <3>4. Lru!Cached(Recency, r)
      BY <3>3 DEF Lru!Cached
    <3>5. p \in DOMAIN Recency /\ Recency[p].rloc = r
      BY <3>3 DEF Lru!Position
    <3>6. Lru!Lookup(Recency, r) = Recency[p].ext
      BY <3>4 DEF Lru!Lookup
    <3> HIDE DEF p
    <3>7. PICK j \in Used : p = Rank(j) + 1
      BY <2>0, <3>5
    <3>8. Recency[p] = Pair(j)
      BY <2>0, <3>7
    <3>9. cache[j].rloc = r /\ j \in Slot
      BY <3>5, <3>8 DEF Pair, Used
    <3>10. j = h
      <4>1. \A a, b \in Slot : a < b /\ cache[b].valid
                                 => cache[a].rloc # cache[b].rloc
        BY DEF OrderInv, CacheInv, NoGapsNoDuplicates
      <4>2. cache[j].valid /\ cache[h].valid
        BY <3>1, <3>7 DEF Used
      <4>3. ~(j < h) /\ ~(h < j)
        BY <4>1, <4>2, <3>1, <3>9
      <4>. QED
        BY <4>3, <3>1, <3>9 DEF Slot
    <3>. QED
      BY <3>2, <3>6, <3>8, <3>10 DEF Pair
  <2>. QED
    BY <2>2, <2>3
<1>. QED
  BY <1>1, OrderInvInit, OrderInvStep, PTL DEF CacheSpec
=============================================================================
