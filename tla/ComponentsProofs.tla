-------------------------- MODULE ComponentsProofs --------------------------
(***************************************************************************)
(* What the tables of the VM that the hook works with promise, and what the*)
(* hook makes of a call.  AtomicCache: a lookup answers right, for any     *)
(* number of threads, classes and updates.  IndirectRefs: a reference      *)
(* resolves to its object while it is held, for any number of entries,     *)
(* serial numbers and segments.  ArgBoxing: the callback sees the call made*)
(* and the invoker what it returned, for any parameters.  DexImage: every  *)
(* item is found where it was written, in images of any size.  At the end, *)
(* with InjectionProofs, the types of all that MCComponents has side by    *)
(* side.                                                                   *)
(***************************************************************************)
EXTENDS MCComponents, InjectionProofs, FiniteSetTheorems, SequenceTheorems,
        WellFoundedInduction, TLAPS

-----------------------------------------------------------------------------
(* AtomicCache.                                                             *)

\* Who is where in an update: an odd version means that the entry is being written, by
\* one thread, which has written what its place says.
Writer(t) ==
    /\ cachePc[t] \in Writing => entry.version % 2 = 1 /\ entry.version < MaxVersion
    /\ cachePc[t] \in {"write2", "write3", "release"} => entry.key1 = instance[t]
    /\ cachePc[t] \in {"write3", "release"} => entry.key2 = clazz[t]
    /\ cachePc[t] = "release" => entry.value = value[t]

\* What a reader has seen is still so if the version is what it was, and even.
Reader(t) ==
    firstVersion[t] = entry.version /\ firstVersion[t] % 2 = 0 =>
        /\ cachePc[t] \in {"key2", "value", "second"} => entry.key1 = instance[t]
        /\ cachePc[t] \in {"value", "second"} => entry.key2 = clazz[t]
        /\ cachePc[t] = "second" => entry.value = value[t]

Computed(t) == cachePc[t] \in Writing \cup {"acquire", "done"} => value[t] = Calc(t)

OneWriter == \A t, u \in Threads : cachePc[t] \in Writing /\ cachePc[u] \in Writing => t = u

ValueOfKeys ==
    entry.version % 2 = 0 /\ entry.key1 # 0 => entry.value = dvmIsSubClass[entry.key1][entry.key2]

\* The invariant that the steps preserve.
CacheInv ==
    /\ CacheTypeOK
    /\ OneWriter
    /\ ValueOfKeys
    /\ \A t \in Threads : firstVersion[t] <= entry.version
    /\ \A t \in Threads : Writer(t) /\ Reader(t) /\ Computed(t)

\* The walk up the supers answers 0 or 1, and 1 for the class it begins with.
LEMMA SubClassValues ==
    /\ \A i, c \in Classes : dvmIsSubClass[i][c] \in {0, 1}
    /\ \A c \in Classes : dvmIsSubClass[c][c] = 1
BY DEF dvmIsSubClass, Above

\* The entry is empty and nobody is at it.
LEMMA CacheInitInv == CacheInit => CacheInv
<1> SUFFICES ASSUME CacheInit PROVE CacheInv
  OBVIOUS
<1>1. (CHOOSE c \in Classes : TRUE) \in Classes
  BY CacheAssumption
<1>2. instance \in [Threads -> Classes] /\ clazz \in [Threads -> Classes]
  BY <1>1 DEF CacheInit
<1>3. CacheTypeOK
  BY <1>2, CacheAssumption DEF CacheInit, CacheTypeOK, Reading, Writing
<1> QED
  BY <1>3 DEF CacheInit, CacheInv, OneWriter, ValueOfKeys, Writer, Reader, Computed, Writing

-----------------------------------------------------------------------------
(* One lemma per kind of step.                                             *)

\* A step that leaves the entry alone: what t does then concerns t only.
LEMMA ReadOnlyStep ==
    ASSUME CacheInv, NEW t \in Threads, UNCHANGED entry, CacheTypeOK',
           \A u \in Threads \ {t} :
              /\ cachePc'[u] = cachePc[u] /\ value'[u] = value[u] /\ firstVersion'[u] = firstVersion[u]
              /\ instance'[u] = instance[u] /\ clazz'[u] = clazz[u],
           cachePc'[t] \notin Writing,
           firstVersion'[t] <= entry.version, Reader(t)', Computed(t)'
    PROVE  CacheInv'
<1>1. \A u \in Threads \ {t} : Writer(u)' /\ Reader(u)' /\ Computed(u)'
  BY DEF CacheInv, Writer, Reader, Computed, Calc
<1>2. Writer(t)'
  BY DEF Writer, Writing
<1>3. OneWriter'
  BY DEF CacheInv, OneWriter
<1>4. ValueOfKeys' /\ \A u \in Threads : firstVersion'[u] <= entry'.version
  BY DEF CacheInv, ValueOfKeys
<1> QED
  BY <1>1, <1>2, <1>3, <1>4 DEF CacheInv

\* A thread begins, or reads.
LEMMA LookupStep ==
    ASSUME CacheInv, NEW t \in Threads,
           \/ \E i \in Classes, c \in Classes : dvmInstanceof(t, i, c)
           \/ ReadVersion(t) \/ ReadKey1(t) \/ ReadKey2(t) \/ ReadValue(t)
           \/ CheckVersion(t) \/ Compute(t)
    PROVE  CacheInv'
<1> USE DEF CacheInv
<1>t. CacheTypeOK /\ entry.version \in Nat
  BY CacheAssumption DEF CacheTypeOK
<1>1. ASSUME NEW i \in Classes, NEW c \in Classes, dvmInstanceof(t, i, c) PROVE CacheInv'
  <2>1. CacheTypeOK'
    BY <1>1 DEF dvmInstanceof, CacheTypeOK, Goto, Reading, Writing
  <2>2. Computed(t)'
    BY <1>1, SubClassValues DEF dvmInstanceof, CacheTypeOK, Goto, Computed, Calc, Writing
  <2> QED
    BY <1>1, <2>1, <2>2, ReadOnlyStep DEF dvmInstanceof, CacheTypeOK, Goto, Reader, Writing
<1>2. CASE ReadVersion(t)
  BY <1>2, <1>t, ReadOnlyStep DEF ReadVersion, CacheTypeOK, Goto, Reader, Computed, Reading, Writing
<1>3. CASE ReadKey1(t)
  BY <1>3, <1>t, ReadOnlyStep DEF ReadKey1, CacheTypeOK, Goto, Reader, Computed, Reading, Writing
<1>4. CASE ReadKey2(t)
  BY <1>4, <1>t, ReadOnlyStep DEF ReadKey2, CacheTypeOK, Goto, Reader, Computed, Reading, Writing
<1>5. CASE ReadValue(t)
  BY <1>5, <1>t, ReadOnlyStep DEF ReadValue, CacheTypeOK, Goto, Reader, Computed, Reading, Writing
<1>6. CASE CheckVersion(t)
  <2>1. CacheTypeOK'
    BY <1>6, SubClassValues DEF CheckVersion, CacheTypeOK, Goto, Calc, Reading, Writing
  <2>2. CASE NoClash(t)
    <3>1. entry.version % 2 = 0 /\ entry.key1 = instance[t] /\ entry.key2 = clazz[t]
            /\ entry.value = value[t]
      BY <1>6, <2>2 DEF CheckVersion, NoClash, Reader
    <3>2. entry.key1 # 0
      BY <3>1, CacheAssumption DEF CacheTypeOK
    <3>3. value[t] = Calc(t)
      BY <3>1, <3>2 DEF ValueOfKeys, Calc
    <3> QED
      BY <1>6, <2>1, <2>2, <3>3, ReadOnlyStep
      DEF CheckVersion, CacheTypeOK, Goto, Reader, Computed, Calc, Writing
  <2>3. CASE ~NoClash(t)
    BY <1>6, <2>1, <2>3, ReadOnlyStep
    DEF CheckVersion, CacheTypeOK, Goto, Reader, Computed, Calc, Writing
  <2> QED
    BY <2>2, <2>3
<1>7. CASE Compute(t)
  <2>1. CacheTypeOK'
    BY <1>7, SubClassValues DEF Compute, CacheTypeOK, Goto, Calc, Reading, Writing
  <2> QED
    BY <1>7, <2>1, ReadOnlyStep DEF Compute, CacheTypeOK, Goto, Reader, Computed, Calc, Writing
<1> QED
  BY <1>1, <1>2, <1>3, <1>4, <1>5, <1>6, <1>7

\* A thread goes on towards the end of an update, or gives it up.
LEMMA UpdateStep ==
    ASSUME CacheInv, NEW t \in Threads,
           Acquire(t) \/ WriteKey1(t) \/ WriteKey2(t) \/ WriteValue(t) \/ Release(t)
    PROVE  CacheInv'
<1> USE DEF CacheInv
<1>t. /\ CacheTypeOK /\ entry.version \in Nat
      /\ \A u \in Threads : firstVersion[u] \in Nat
  BY CacheAssumption DEF CacheTypeOK
<1>1. CASE Acquire(t) /\ CanAcquire(t)
  <2>1. CacheTypeOK' /\ entry' = [entry EXCEPT !.version = @ + 1] /\ entry'.version = entry.version + 1
    BY <1>1, <1>t, CacheAssumption DEF Acquire, CacheTypeOK, Goto, Reading, Writing
  <2>2. /\ entry.version % 2 = 0 /\ entry'.version % 2 = 1
        /\ entry'.version < MaxVersion
        /\ entry'.key1 = entry.key1 /\ entry'.key2 = entry.key2 /\ entry'.value = entry.value
    BY <1>1, <2>1, <1>t, CacheAssumption DEF Acquire, CanAcquire, CacheTypeOK
  <2>3. \A u \in Threads : cachePc[u] \notin Writing
    BY <2>2 DEF Writer
  <2>4. \A u \in Threads \ {t} : cachePc'[u] = cachePc[u]
    BY <1>1 DEF Acquire, Goto, CacheTypeOK
  <2>5. cachePc'[t] = "write1" /\ cachePc[t] = "acquire"
    BY <1>1 DEF Acquire, Goto, CacheTypeOK
  <2>6. OneWriter'
    BY <2>3, <2>4 DEF OneWriter
  <2>7. \A u \in Threads : firstVersion'[u] < entry'.version
    BY <1>1, <2>1, <1>t DEF Acquire
  <2>8. \A u \in Threads : Writer(u)'
    BY <2>2, <2>3, <2>4, <2>5 DEF Writer, Writing
  <2>9. \A u \in Threads : Reader(u)'
    BY <2>7, <2>1, <1>t DEF Reader, CacheTypeOK
  <2>10. \A u \in Threads : Computed(u)'
    BY <1>1, <2>4, <2>5 DEF Acquire, Computed, Calc
  <2> QED
    BY <2>1, <2>2, <2>6, <2>7, <2>8, <2>9, <2>10, <1>t DEF ValueOfKeys, CacheTypeOK
<1>2. CASE Acquire(t) /\ ~CanAcquire(t)
  <2>1. CacheTypeOK'
    BY <1>2 DEF Acquire, CacheTypeOK, Goto, Reading, Writing
  <2> QED
    BY <1>2, <2>1, ReadOnlyStep DEF Acquire, CacheTypeOK, Goto, Reader, Computed, Calc, Writing
<1>3. ASSUME WriteKey1(t) \/ WriteKey2(t) \/ WriteValue(t) PROVE CacheInv'
  <2>1. CacheTypeOK'
    BY <1>3, <1>t DEF WriteKey1, WriteKey2, WriteValue, CacheTypeOK, Goto, Reading, Writing
  <2>2. /\ cachePc[t] \in Writing /\ cachePc'[t] \in Writing
        /\ entry'.version = entry.version
        /\ \A u \in Threads \ {t} : cachePc'[u] = cachePc[u]
        /\ UNCHANGED <<instance, clazz, firstVersion, value>>
    BY <1>3 DEF WriteKey1, WriteKey2, WriteValue, CacheTypeOK, Goto, Writing
  <2>3. entry.version % 2 = 1 /\ entry.version < MaxVersion
    BY <2>2 DEF Writer
  <2>4. \A u \in Threads \ {t} : cachePc[u] \notin Writing
    BY <2>2 DEF OneWriter
  <2>5. OneWriter'
    BY <2>2, <2>4 DEF OneWriter
  <2>6. \A u \in Threads \ {t} : Writer(u)'
    BY <2>2, <2>4 DEF Writer, Writing
  <2>7. Writer(t)'
    BY <1>3, <2>2, <2>3 DEF Writer, WriteKey1, WriteKey2, WriteValue, CacheTypeOK, Goto
  <2>8. \A u \in Threads : Reader(u)'
    BY <2>2, <2>3 DEF Reader
  <2>9. \A u \in Threads : Computed(u)'
    BY <2>2 DEF Computed, Calc, Writing
  <2> QED
    BY <2>1, <2>2, <2>3, <2>5, <2>6, <2>7, <2>8, <2>9 DEF ValueOfKeys
<1>4. CASE Release(t)
  <2>1. /\ entry.version % 2 = 1 /\ entry.version < MaxVersion
        /\ cachePc[t] = "release"
        /\ entry.key1 = instance[t] /\ entry.key2 = clazz[t]
        /\ entry.value = value[t] /\ value[t] = Calc(t)
    BY <1>4 DEF Release, Writer, Computed, Writing
  <2>2. CacheTypeOK' /\ entry'.version = entry.version + 1
    BY <1>4, <2>1, <1>t, CacheAssumption DEF Release, CacheTypeOK, Goto, Reading, Writing
  <2>3. /\ entry'.key1 = entry.key1 /\ entry'.key2 = entry.key2 /\ entry'.value = entry.value
        /\ \A u \in Threads \ {t} : cachePc'[u] = cachePc[u]
        /\ cachePc'[t] = "done"
        /\ UNCHANGED <<instance, clazz, firstVersion, value>>
    BY <1>4 DEF Release, CacheTypeOK, Goto
  <2>4. \A u \in Threads \ {t} : cachePc[u] \notin Writing
    BY <2>1 DEF OneWriter, Writing
  <2>5. OneWriter' /\ \A u \in Threads : Writer(u)'
    BY <2>3, <2>4 DEF OneWriter, Writer, Writing
  <2>6. \A u \in Threads : firstVersion'[u] < entry'.version
    BY <2>2, <2>3, <1>t
  <2>7. \A u \in Threads : Reader(u)'
    BY <2>6, <2>2, <1>t DEF Reader, CacheTypeOK
  <2>8. \A u \in Threads : Computed(u)'
    BY <2>1, <2>3 DEF Computed, Calc, Writing
  <2>9. ValueOfKeys'
    BY <2>1, <2>3 DEF ValueOfKeys, Calc
  <2> QED
    BY <2>2, <2>5, <2>6, <2>7, <2>8, <2>9, <1>t DEF CacheTypeOK
<1> QED
  BY <1>1, <1>2, <1>3, <1>4

\* Every step preserves the invariant.
LEMMA CacheStepInv == CacheInv /\ [CacheNext]_cacheVars => CacheInv'
<1> SUFFICES ASSUME CacheInv, [CacheNext]_cacheVars PROVE CacheInv'
  OBVIOUS
<1>1. CASE CacheNext
  <2> PICK t \in Threads :
         \/ \E i \in Classes, c \in Classes : dvmInstanceof(t, i, c)
         \/ ReadVersion(t) \/ ReadKey1(t) \/ ReadKey2(t) \/ ReadValue(t) \/ CheckVersion(t)
         \/ Compute(t) \/ Acquire(t) \/ WriteKey1(t) \/ WriteKey2(t) \/ WriteValue(t) \/ Release(t)
    BY <1>1 DEF CacheNext
  <2> QED
    BY LookupStep, UpdateStep
<1>2. CASE UNCHANGED cacheVars
  BY <1>2 DEF cacheVars, CacheInv, CacheTypeOK, OneWriter, ValueOfKeys, Writer, Reader, Computed, Calc
<1> QED
  BY <1>1, <1>2

-----------------------------------------------------------------------------

LEMMA CacheInvariance == CacheSpec => []CacheInv
<1> QED
  BY CacheInitInv, CacheStepInv, PTL DEF CacheSpec

\* No thread reads or writes anything it should not, and the version never runs past the
\* bound.
THEOREM CacheTypeCorrect == CacheSpec => []CacheTypeOK
<1>1. CacheInv => CacheTypeOK
  BY DEF CacheInv
<1> QED
  BY <1>1, CacheInvariance, PTL

\* A lookup answers what instanceof is for its own two classes, whatever other threads do
\* to the entry between its reads.
THEOREM LookupsAreRight == CacheSpec => []LookupIsRight
<1>1. CacheInv => LookupIsRight
  BY DEF CacheInv, Computed, LookupIsRight
<1> QED
  BY <1>1, CacheInvariance, PTL

\* An entry has one writer at most, and none of its stable states mixes two updates.
THEOREM EntriesAreConsistent == CacheSpec => []EntryConsistent
<1>1. CacheInv => EntryConsistent
  BY DEF CacheInv, OneWriter, ValueOfKeys, EntryConsistent
<1> QED
  BY <1>1, CacheInvariance, PTL

-----------------------------------------------------------------------------
(* IndirectRefs.                                                            *)

TableSlot == [obj : RefObjects \cup {0}, serial : 0 .. (SERIALS - 1)]

\* The references the table can give out.
TableReferences == {toIndirectRef(i, s, kIndirectKindLocal) : i \in Indices, s \in 0 .. (SERIALS - 1)}

HeldReference == [iref : TableReferences, obj : RefObjects, depth : Nat]

\* The bottom of a segment, which is the top of the one before.
BottomOf(d) == IF d <= Len(cookies) THEN cookies[d].topIndex ELSE topIndex

\* The unused entries below b.
HolesBelow(b) == {i \in 0 .. (b - 1) : table[i].obj = 0}

RefsTypesInv ==
    /\ table \in [Indices -> TableSlot]
    /\ segmentState \in SegmentState
    /\ cookies \in Seq(SegmentState) /\ Len(cookies) \in 1 .. (MaxSegments + 1)
    /\ held \subseteq HeldReference /\ stale \subseteq TableReferences

\* The segments lie above one another, and the holes below each bottom are counted.
SegmentsInv ==
    /\ \A d \in 1 .. Len(cookies) : \A e \in d .. (Len(cookies) + 1) : BottomOf(d) <= BottomOf(e)
    /\ \A d \in 1 .. Len(cookies) :
          cookies[d].numHoles = Cardinality(HolesBelow(cookies[d].topIndex))
    /\ segmentState.numHoles = Cardinality(HolesBelow(topIndex))

\* A reference that is held is that of the current use of a slot in its segment.
HeldInv ==
    \A h \in held :
       /\ h.depth \in 1 .. Len(cookies)
       /\ extractIndex(h.iref) >= BottomOf(h.depth)
       /\ extractIndex(h.iref) < BottomOf(h.depth + 1)
       /\ table[extractIndex(h.iref)] = [obj |-> h.obj, serial |-> extractSerial(h.iref)]

UsedInv == \A i \in 0 .. (topIndex - 1) :
              table[i].obj # 0 => \E h \in held : extractIndex(h.iref) = i

StaleInv == \A iref \in stale : ~ checkEntry(iref)

RefsInv == RefsTypesInv /\ SegmentsInv /\ HeldInv /\ UsedInv /\ StaleInv

-----------------------------------------------------------------------------
(* Numbers.                                                                 *)

LEMMA LeastElement ==
    ASSUME NEW T \in SUBSET Nat, T # {}
    PROVE  \E x \in T : \A y \in T : x <= y
<1> DEFINE R == OpToRel(<, Nat)
<1>1. IsWellFoundedOn(R, Nat)  BY NatLessThanWellFounded
<1>2. \A x, y \in Nat : <<y, x>> \in R <=> y < x  BY DEF OpToRel
<1> HIDE DEF R
<1>3. PICK x \in T : \A y \in T : ~ (<<y, x>> \in R)  BY <1>1, WFMin
<1>4. \A y \in T : ~ (y < x)  BY <1>2, <1>3
<1> QED  BY <1>3, <1>4

LEMMA GreatestElement ==
    ASSUME NEW n \in Nat, NEW T \in SUBSET (0 .. n), T # {}
    PROVE  \E x \in T : \A y \in T : y <= x
<1> DEFINE Mirror == {n - x : x \in T}
<1>1. Mirror \in SUBSET Nat /\ Mirror # {}
  <2>1. \A x \in T : n - x \in Nat  OBVIOUS
  <2> QED  BY <2>1
<1> HIDE DEF Mirror
<1>2. PICK m \in Mirror : \A k \in Mirror : m <= k  BY <1>1, LeastElement
<1>3. PICK x \in T : m = n - x  BY DEF Mirror
<1>4. \A y \in T : m <= n - y  BY <1>2 DEF Mirror
<1> QED  BY <1>3, <1>4

\* A reference tells the slot and the serial number it was made of.
LEMMA PartsOfReference ==
    ASSUME NEW i \in Indices, NEW s \in 0 .. (SERIALS - 1)
    PROVE  LET iref == toIndirectRef(i, s, kIndirectKindLocal)
           IN  /\ iref \in TableReferences
               /\ extractIndex(iref) = i /\ extractSerial(iref) = s
               /\ indirectRefKind(iref) = kIndirectKindLocal
<1>1. i \in Nat /\ i <= 65534 /\ s \in Nat  BY IndirectRefsAssumption DEF Indices
<1>2. (s * 1048576 + i * 4 + 1) % 4 = 1  BY <1>1
<1>3. (s * 1048576 + i * 4 + 1) \div 4 = s * 262144 + i  BY <1>1
<1>4. (s * 262144 + i) % 65536 = i
  <2>1. s * 262144 + i = 65536 * (4 * s) + i  BY <1>1
  <2>2. \A n, k \in Nat : k <= 65534 => (65536 * n + k) % 65536 = k  OBVIOUS
  <2> QED  BY <1>1, <2>1, <2>2
<1>5. (s * 1048576 + i * 4 + 1) \div 1048576 = s  BY <1>1
<1> QED  BY <1>2, <1>3, <1>4, <1>5
     DEF TableReferences, toIndirectRef, extractIndex, extractSerial, indirectRefKind, kIndirectKindLocal

LEMMA ReferenceIsItsParts ==
    ASSUME NEW iref \in TableReferences
    PROVE  /\ extractIndex(iref) \in Indices /\ extractSerial(iref) \in 0 .. (SERIALS - 1)
           /\ iref = toIndirectRef(extractIndex(iref), extractSerial(iref), kIndirectKindLocal)
           /\ indirectRefKind(iref) = kIndirectKindLocal
<1> PICK i \in Indices, s \in 0 .. (SERIALS - 1) : iref = toIndirectRef(i, s, kIndirectKindLocal)
    BY DEF TableReferences
<1> QED  BY PartsOfReference

LEMMA Serials == ASSUME NEW s \in 0 .. (SERIALS - 1) PROVE nextSerial(s) \in 0 .. (SERIALS - 1)
BY IndirectRefsAssumption DEF nextSerial

LEMMA StateFields ==
    /\ \A s \in SegmentState : s.topIndex \in 0 .. max_entries /\ s.numHoles \in 0 .. max_entries
    /\ \A e \in TableSlot : e.obj \in RefObjects \cup {0} /\ e.serial \in 0 .. (SERIALS - 1)
    /\ max_entries \in Nat
BY IndirectRefsAssumption DEF SegmentState, TableSlot

LEMMA CountFromTo ==
    ASSUME NEW a \in Nat, NEW b \in Nat, a <= b
    PROVE  IsFiniteSet(a .. (b - 1)) /\ Cardinality(a .. (b - 1)) = b - a
<1>1. b - 1 \in Int /\ (a > b - 1 <=> a = b)  OBVIOUS
<1>2. /\ IsFiniteSet(a .. (b - 1))
      /\ Cardinality(a .. (b - 1)) = IF a > b - 1 THEN 0 ELSE (b - 1) - a + 1
  BY <1>1, FS_Interval
<1> QED  BY <1>1, <1>2

LEMMA BelowIsFinite ==
    ASSUME NEW b \in Nat, NEW H \in SUBSET (0 .. (b - 1))
    PROVE  IsFiniteSet(H) /\ Cardinality(H) \in 0 .. b
<1>1. IsFiniteSet(0 .. (b - 1)) /\ Cardinality(0 .. (b - 1)) = b  BY CountFromTo
<1>2. IsFiniteSet(H) /\ Cardinality(H) <= Cardinality(0 .. (b - 1))  BY <1>1, FS_Subset
<1>3. Cardinality(H) \in Nat  BY <1>2, FS_CardinalityType
<1> QED  BY <1>1, <1>2, <1>3

LEMMA HolesAreFinite ==
    ASSUME NEW b \in Nat
    PROVE  IsFiniteSet(HolesBelow(b)) /\ Cardinality(HolesBelow(b)) \in 0 .. b
BY BelowIsFinite DEF HolesBelow

-----------------------------------------------------------------------------
(* The segments.                                                            *)

LEMMA SegmentBounds ==
    ASSUME RefsInv
    PROVE  /\ Len(cookies) \in Nat /\ Len(cookies) >= 1
           /\ cookie \in SegmentState /\ cookie = cookies[Len(cookies)]
           /\ topIndex \in 0 .. max_entries
           /\ BottomOf(Len(cookies)) = cookie.topIndex
           /\ BottomOf(Len(cookies) + 1) = topIndex
           /\ \A d \in 1 .. (Len(cookies) + 1) : BottomOf(d) \in 0 .. max_entries
           /\ \A d \in 1 .. Len(cookies) : BottomOf(d) <= cookie.topIndex
           /\ cookie.topIndex <= topIndex
<1> USE DEF RefsInv, RefsTypesInv
<1>1. Len(cookies) \in Nat /\ Len(cookies) >= 1  OBVIOUS
<1>2. \A d \in 1 .. Len(cookies) : cookies[d] \in SegmentState  BY ElementOfSeq
<1>3. cookie \in SegmentState  BY <1>1, <1>2 DEF cookie
<1>4. topIndex \in 0 .. max_entries  BY StateFields DEF topIndex
<1>5. BottomOf(Len(cookies)) = cookie.topIndex  BY <1>1 DEF BottomOf, cookie
<1>6. BottomOf(Len(cookies) + 1) = topIndex  BY <1>1 DEF BottomOf
<1>7. \A d \in 1 .. (Len(cookies) + 1) : BottomOf(d) \in 0 .. max_entries
  BY <1>1, <1>2, <1>4, StateFields DEF BottomOf
<1>8. \A d \in 1 .. Len(cookies) : BottomOf(d) <= BottomOf(Len(cookies))
  BY <1>1 DEF SegmentsInv
<1>9. BottomOf(Len(cookies)) <= BottomOf(Len(cookies) + 1)
  BY <1>1 DEF SegmentsInv
<1> QED  BY <1>1, <1>3, <1>4, <1>5, <1>6, <1>7, <1>8, <1>9 DEF cookie

\* If there is a hole in the current segment, the last one is there.
LEMMA LastHoleIsInSegment ==
    ASSUME RefsInv, numHoles > 0
    PROVE  /\ LastHole \in Indices /\ LastHole >= cookie.topIndex /\ LastHole < topIndex
           /\ table[LastHole].obj = 0
<1> DEFINE Low == HolesBelow(cookie.topIndex)
           High == HolesBelow(topIndex)
<1>1. cookie.topIndex \in Nat /\ topIndex \in Nat /\ cookie.topIndex <= topIndex
  BY SegmentBounds, StateFields
<1>2. cookie.numHoles = Cardinality(Low) /\ segmentState.numHoles = Cardinality(High)
  BY SegmentBounds DEF RefsInv, SegmentsInv
<1>3. High # Low
  BY <1>1, <1>2, HolesAreFinite DEF numHoles
<1>4. Low \subseteq High  BY <1>1 DEF HolesBelow
<1>5. PICK i \in High : i >= cookie.topIndex
  BY <1>1, <1>3, <1>4 DEF HolesBelow
<1>6. PICK j \in High : \A k \in High : k <= j
  <2>1. High \in SUBSET (0 .. topIndex) /\ High # {}  BY <1>1, <1>5 DEF HolesBelow
  <2> HIDE DEF High
  <2> QED  BY <1>1, <2>1, GreatestElement
<1>7. j \in 0 .. (topIndex - 1) /\ table[j].obj = 0 /\ j >= i  BY <1>5, <1>6 DEF HolesBelow
<1>8. \A k \in (j + 1) .. (topIndex - 1) : table[k].obj # 0
  BY <1>1, <1>6, <1>7 DEF HolesBelow
<1>9. /\ LastHole \in 0 .. (topIndex - 1)
      /\ table[LastHole].obj = 0
      /\ \A k \in (LastHole + 1) .. (topIndex - 1) : table[k].obj # 0
  BY <1>7, <1>8 DEF LastHole
<1>10. LastHole >= i
  BY <1>1, <1>5, <1>7, <1>9 DEF HolesBelow
<1> QED
  BY <1>1, <1>5, <1>9, <1>10, SegmentBounds, StateFields DEF Indices, HolesBelow

\* The new top after the removal of the top-most entry.
LEMMA TopWithoutEndsHoles ==
    ASSUME RefsInv, NEW i \in Indices, i >= cookie.topIndex
    PROVE  /\ TopWithout(i) \in cookie.topIndex .. i
           /\ \A j \in TopWithout(i) .. (i - 1) : table[j].obj = 0
<1> DEFINE T == {t \in cookie.topIndex .. i : \A j \in t .. (i - 1) : table[j].obj = 0}
<1>1. cookie.topIndex \in Nat /\ i \in Nat  BY SegmentBounds, StateFields DEF Indices
<1>2. i \in T /\ T \in SUBSET Nat  BY <1>1
<1>3. PICK t \in T : \A u \in T : t <= u
  <2> HIDE DEF T
  <2> QED  BY <1>2, LeastElement
<1>4. ASSUME t # cookie.topIndex PROVE table[t - 1].obj # 0
  <2> SUFFICES ASSUME table[t - 1].obj = 0 PROVE FALSE  OBVIOUS
  <2>1. t - 1 \in cookie.topIndex .. i  BY <1>1, <1>4
  <2>2. \A j \in (t - 1) .. (i - 1) : table[j].obj = 0  BY <1>1
  <2>3. t - 1 \in T  BY <2>1, <2>2
  <2> QED  BY <1>1, <1>3, <2>3
<1> QED  BY <1>4 DEF TopWithout

-----------------------------------------------------------------------------
(* The operations.                                                          *)

LEMMA RefsInitInv == RefsInit => RefsInv
<1> SUFFICES ASSUME RefsInit PROVE RefsInv  OBVIOUS
<1> USE DEF RefsInit
<1>1. 0 \in 0 .. (SERIALS - 1) /\ MaxSegments \in Nat  BY IndirectRefsAssumption
<1>2. IRT_FIRST_SEGMENT \in SegmentState /\ topIndex = 0
  BY StateFields DEF IRT_FIRST_SEGMENT, SegmentState, topIndex
<1>3. Len(cookies) = 1 /\ cookies \in Seq(SegmentState) /\ cookies[1] = IRT_FIRST_SEGMENT
  BY <1>2
<1>4. RefsTypesInv  BY <1>1, <1>2, <1>3 DEF RefsTypesInv, TableSlot
<1>5. HolesBelow(0) = {} /\ Cardinality({}) = 0  BY FS_EmptySet DEF HolesBelow
<1>6. SegmentsInv
  BY <1>2, <1>3, <1>5 DEF SegmentsInv, BottomOf, IRT_FIRST_SEGMENT, topIndex
<1>7. HeldInv /\ UsedInv /\ StaleInv  BY <1>2 DEF HeldInv, UsedInv, StaleInv
<1> QED  BY <1>4, <1>6, <1>7 DEF RefsInv

\* What add does: an unused entry of the current segment, or the first above it, is used.
LEMMA AddUses ==
    ASSUME RefsInv, NEW obj \in RefObjects, add(obj)
    PROVE  \E i \in Indices :
              /\ i >= cookie.topIndex /\ i < topIndex'
              /\ \/ /\ i < topIndex /\ table[i].obj = 0 /\ topIndex' = topIndex
                    /\ segmentState'.numHoles = segmentState.numHoles - 1
                 \/ /\ i = topIndex /\ topIndex' = topIndex + 1
                    /\ segmentState'.numHoles = segmentState.numHoles
              /\ LET serial == nextSerial(table[i].serial)
                     iref == toIndirectRef(i, serial, kIndirectKindLocal)
                 IN /\ iref \notin stale
                    /\ table' = [table EXCEPT ![i] = [obj |-> obj, serial |-> serial]]
                    /\ held' = held \cup {[iref |-> iref, obj |-> obj, depth |-> Len(cookies)]}
              /\ segmentState' = [topIndex |-> segmentState'.topIndex,
                                  numHoles |-> segmentState'.numHoles]
              /\ cookies' = cookies /\ stale' = stale
<1>1. segmentState = [topIndex |-> topIndex, numHoles |-> segmentState.numHoles]
  BY DEF RefsInv, RefsTypesInv, SegmentState, topIndex
<1>2. topIndex \in Nat /\ cookie.topIndex \in Nat /\ cookie.topIndex <= topIndex
  BY SegmentBounds, StateFields
<1>3. CASE numHoles > 0
  <2>1. segmentState' = [segmentState EXCEPT !.numHoles = @ - 1]  BY <1>3 DEF add
  <2>2. topIndex' = topIndex /\ segmentState'.numHoles = segmentState.numHoles - 1
    BY <1>1, <2>1 DEF topIndex
  <2>3. segmentState' = [topIndex |-> segmentState'.topIndex, numHoles |-> segmentState'.numHoles]
    BY <1>1, <2>1
  <2>4. PICK i \in Indices :
           /\ i = LastHole
           /\ LET serial == nextSerial(table[i].serial)
                  iref == toIndirectRef(i, serial, kIndirectKindLocal)
              IN /\ iref \notin stale
                 /\ table' = [table EXCEPT ![i] = [obj |-> obj, serial |-> serial]]
                 /\ held' = held \cup {[iref |-> iref, obj |-> obj, depth |-> Len(cookies)]}
           /\ cookies' = cookies /\ stale' = stale
    BY <1>3 DEF add
  <2> QED  BY <1>2, <1>3, <2>2, <2>3, <2>4, LastHoleIsInSegment
<1>4. CASE ~ (numHoles > 0)
  <2>1. segmentState' = [segmentState EXCEPT !.topIndex = @ + 1]  BY <1>4 DEF add
  <2>2. topIndex' = topIndex + 1 /\ segmentState'.numHoles = segmentState.numHoles
    BY <1>1, <2>1 DEF topIndex
  <2>3. segmentState' = [topIndex |-> segmentState'.topIndex, numHoles |-> segmentState'.numHoles]
    BY <1>1, <2>1
  <2>4. PICK i \in Indices :
           /\ i = topIndex
           /\ LET serial == nextSerial(table[i].serial)
                  iref == toIndirectRef(i, serial, kIndirectKindLocal)
              IN /\ iref \notin stale
                 /\ table' = [table EXCEPT ![i] = [obj |-> obj, serial |-> serial]]
                 /\ held' = held \cup {[iref |-> iref, obj |-> obj, depth |-> Len(cookies)]}
           /\ cookies' = cookies /\ stale' = stale
    BY <1>4 DEF add
  <2>5. i >= cookie.topIndex /\ i < topIndex'  BY <1>2, <2>2, <2>4
  <2> QED  BY <2>2, <2>3, <2>4, <2>5
<1> QED  BY <1>3, <1>4

LEMMA AddKeeps == ASSUME RefsInv, NEW obj \in RefObjects, add(obj) PROVE RefsInv'
<1>1. PICK i \in Indices :
              /\ i >= cookie.topIndex /\ i < topIndex'
              /\ \/ /\ i < topIndex /\ table[i].obj = 0 /\ topIndex' = topIndex
                    /\ segmentState'.numHoles = segmentState.numHoles - 1
                 \/ /\ i = topIndex /\ topIndex' = topIndex + 1
                    /\ segmentState'.numHoles = segmentState.numHoles
              /\ LET serial == nextSerial(table[i].serial)
                     iref == toIndirectRef(i, serial, kIndirectKindLocal)
                 IN /\ iref \notin stale
                    /\ table' = [table EXCEPT ![i] = [obj |-> obj, serial |-> serial]]
                    /\ held' = held \cup {[iref |-> iref, obj |-> obj, depth |-> Len(cookies)]}
              /\ segmentState' = [topIndex |-> segmentState'.topIndex,
                                  numHoles |-> segmentState'.numHoles]
              /\ cookies' = cookies /\ stale' = stale
  BY AddUses
<1> DEFINE serial == nextSerial(table[i].serial)
           iref == toIndirectRef(i, serial, kIndirectKindLocal)
           new == [iref |-> iref, obj |-> obj, depth |-> Len(cookies)]
<1>2. /\ topIndex \in 0 .. max_entries /\ cookie.topIndex \in Nat /\ cookie.topIndex <= topIndex
      /\ Len(cookies) \in Nat /\ Len(cookies) >= 1 /\ max_entries \in Nat
  BY SegmentBounds, StateFields
<1>3. /\ i \in Nat /\ i < max_entries
      /\ topIndex' \in 0 .. max_entries /\ topIndex <= topIndex' /\ i < topIndex'
      /\ topIndex \in Nat /\ topIndex' \in Nat /\ topIndex' <= max_entries
      /\ topIndex' = topIndex \/ (i = topIndex /\ topIndex' = topIndex + 1)
  BY <1>1, <1>2 DEF Indices
<1>4. table \in [Indices -> TableSlot] /\ serial \in 0 .. (SERIALS - 1)
  BY Serials, StateFields DEF RefsInv, RefsTypesInv
<1>5. /\ iref \in TableReferences /\ extractIndex(iref) = i /\ extractSerial(iref) = serial
      /\ new \in HeldReference /\ new.iref = iref /\ new.obj = obj /\ new.depth = Len(cookies)
  BY <1>2, <1>4, PartsOfReference DEF HeldReference
<1>6. /\ table' \in [Indices -> TableSlot]
      /\ table'[i] = [obj |-> obj, serial |-> serial] /\ table'[i].obj = obj
      /\ table'[i].serial = serial /\ obj # 0
      /\ \A k \in Indices : k # i => table'[k] = table[k]
  BY <1>1, <1>4, IndirectRefsAssumption DEF TableSlot
<1>7. held' = held \cup {new} /\ cookies' = cookies /\ stale' = stale /\ iref \notin stale
  BY <1>1
<1>8. ASSUME NEW b \in 0 .. i PROVE HolesBelow(b)' = HolesBelow(b)
  <2>1. \A k \in 0 .. (b - 1) : k \in Indices /\ k # i  BY <1>2, <1>3 DEF Indices
  <2> QED  BY <1>6, <2>1 DEF HolesBelow
<1>9. segmentState'.numHoles = Cardinality(HolesBelow(topIndex)')
  <2>1. segmentState.numHoles = Cardinality(HolesBelow(topIndex))
    BY DEF RefsInv, SegmentsInv
  <2>2. CASE /\ i < topIndex /\ table[i].obj = 0 /\ topIndex' = topIndex
             /\ segmentState'.numHoles = segmentState.numHoles - 1
    <3>1. HolesBelow(topIndex)' = HolesBelow(topIndex) \ {i} /\ i \in HolesBelow(topIndex)
      BY <1>2, <1>3, <1>6, <2>2 DEF HolesBelow, Indices
    <3>2. IsFiniteSet(HolesBelow(topIndex)) /\ Cardinality(HolesBelow(topIndex)) \in Nat
      BY <1>3, HolesAreFinite
    <3>3. Cardinality(HolesBelow(topIndex) \ {i}) = Cardinality(HolesBelow(topIndex)) - 1
      BY <3>1, <3>2, FS_RemoveElement
    <3> QED  BY <2>1, <2>2, <3>1, <3>3
  <2>3. CASE /\ i = topIndex /\ topIndex' = topIndex + 1
             /\ segmentState'.numHoles = segmentState.numHoles
    <3>1. HolesBelow(topIndex)' = HolesBelow(topIndex)
      BY <1>2, <1>3, <1>6, <2>3 DEF HolesBelow, Indices
    <3> QED  BY <2>1, <2>3, <3>1
  <2> QED  BY <1>1, <2>2, <2>3
<1> HIDE DEF serial, iref, new
<1>10. RefsTypesInv'
  <2>1. IsFiniteSet(HolesBelow(topIndex)') /\ Cardinality(HolesBelow(topIndex)') \in 0 .. topIndex'
    <3>1. HolesBelow(topIndex)' \in SUBSET (0 .. (topIndex' - 1))  BY DEF HolesBelow
    <3> QED  BY <1>3, <3>1, BelowIsFinite
  <2>2. segmentState' \in SegmentState
    BY <1>1, <1>2, <1>3, <1>9, <2>1 DEF SegmentState, topIndex
  <2> QED  BY <1>5, <1>6, <1>7, <2>2 DEF RefsInv, RefsTypesInv
<1>11. /\ \A d \in 1 .. Len(cookies) : BottomOf(d)' = BottomOf(d)
       /\ BottomOf(Len(cookies) + 1)' = topIndex'
       /\ BottomOf(Len(cookies) + 1) = topIndex
  BY <1>2, <1>7 DEF BottomOf
<1>12. ASSUME NEW d \in 1 .. (Len(cookies) + 1)
       PROVE  BottomOf(d) \in Nat /\ BottomOf(d)' \in Nat /\ BottomOf(d) <= BottomOf(d)'
  <2>1. BottomOf(d) \in Nat  BY <1>2, SegmentBounds
  <2>2. CASE d \in 1 .. Len(cookies)  BY <1>11, <2>1, <2>2
  <2>3. CASE d = Len(cookies) + 1
    <3>1. BottomOf(d) = topIndex  BY <1>11, <2>3
    <3>2. BottomOf(d)' = topIndex'  BY <1>2, <1>7, <2>3 DEF BottomOf
    <3> QED  BY <1>3, <3>1, <3>2
  <2> QED  BY <1>2, <2>2, <2>3
<1>13. SegmentsInv'
  <2>1. \A d \in 1 .. Len(cookies) : BottomOf(d) = cookies[d].topIndex /\ cookies[d].topIndex \in 0 .. i
    BY <1>1, <1>2, <1>3, SegmentBounds DEF BottomOf
  <2>2. \A d \in 1 .. Len(cookies) :
           cookies'[d].numHoles = Cardinality(HolesBelow(cookies[d].topIndex)')
    BY <1>7, <1>8, <2>1 DEF RefsInv, SegmentsInv
  <2>3. \A d \in 1 .. Len(cookies) : \A e \in d .. (Len(cookies) + 1) : BottomOf(d)' <= BottomOf(e)'
    <3> SUFFICES ASSUME NEW d \in 1 .. Len(cookies), NEW e \in d .. (Len(cookies) + 1)
                 PROVE  BottomOf(d)' <= BottomOf(e)'
      OBVIOUS
    <3>1. d \in 1 .. (Len(cookies) + 1) /\ e \in 1 .. (Len(cookies) + 1)  BY <1>2
    <3>2. BottomOf(d) <= BottomOf(e) /\ BottomOf(d)' = BottomOf(d)
      BY <1>11 DEF RefsInv, SegmentsInv
    <3> QED  BY <1>12, <3>1, <3>2
  <2> QED  BY <1>7, <1>9, <2>2, <2>3 DEF SegmentsInv
<1>14. \A h \in held : extractIndex(h.iref) # i /\ extractIndex(h.iref) \in Indices
  <2> TAKE h \in held
  <2>1. h \in HeldReference /\ h.iref \in TableReferences /\ h.obj \in RefObjects /\ h.obj # 0
    BY IndirectRefsAssumption DEF RefsInv, RefsTypesInv, HeldReference
  <2>2. table[extractIndex(h.iref)].obj = h.obj
    <3>1. table[extractIndex(h.iref)] = [obj |-> h.obj, serial |-> extractSerial(h.iref)]
      BY DEF RefsInv, HeldInv
    <3> QED  BY <3>1
  <2>3. extractIndex(h.iref) < topIndex
    <3>1. h.depth \in 1 .. Len(cookies) /\ extractIndex(h.iref) < BottomOf(h.depth + 1)
      BY DEF RefsInv, HeldInv
    <3>2. BottomOf(h.depth + 1) <= topIndex
      <4>1. PICK d \in Nat, n \in Nat : d = h.depth /\ n = Len(cookies) /\ d >= 1 /\ d <= n
        BY <3>1, SegmentBounds
      <4>2. BottomOf(d + 1) <= topIndex
        <5>1. CASE d + 1 = n + 1  BY <1>2, <4>1, <5>1, SegmentBounds
        <5>2. CASE d + 1 # n + 1
          <6>1. d + 1 \in 1 .. n  BY <4>1, <5>2
          <6> QED  BY <4>1, <6>1, SegmentBounds
        <5> QED  BY <5>1, <5>2
      <4> QED  BY <4>1, <4>2
    <3> QED  BY <1>2, <2>1, <3>1, <3>2, ReferenceIsItsParts, SegmentBounds DEF Indices
  <2> QED  BY <1>1, <1>2, <2>1, <2>2, <2>3, ReferenceIsItsParts
<1>15. HeldInv'
  <2> SUFFICES ASSUME NEW h \in held'
               PROVE  /\ h.depth \in 1 .. Len(cookies)
                      /\ extractIndex(h.iref) >= BottomOf(h.depth)'
                      /\ extractIndex(h.iref) < BottomOf(h.depth + 1)'
                      /\ table'[extractIndex(h.iref)] = [obj |-> h.obj, serial |-> extractSerial(h.iref)]
    BY <1>7 DEF HeldInv
  <2>1. CASE h = new
    BY <1>1, <1>2, <1>3, <1>5, <1>6, <1>11, <2>1, SegmentBounds
  <2>2. CASE h \in held
    <3>1. /\ h.depth \in 1 .. Len(cookies)
          /\ extractIndex(h.iref) >= BottomOf(h.depth)
          /\ extractIndex(h.iref) < BottomOf(h.depth + 1)
          /\ table[extractIndex(h.iref)] = [obj |-> h.obj, serial |-> extractSerial(h.iref)]
      BY <2>2 DEF RefsInv, HeldInv
    <3>2. extractIndex(h.iref) \in Nat  BY <1>14, <2>2 DEF Indices
    <3>3. BottomOf(h.depth)' = BottomOf(h.depth)  BY <1>11, <3>1
    <3>4. /\ BottomOf(h.depth + 1) \in Nat /\ BottomOf(h.depth + 1)' \in Nat
          /\ BottomOf(h.depth + 1) <= BottomOf(h.depth + 1)'
      <4>1. h.depth + 1 \in 1 .. (Len(cookies) + 1)  BY <1>2, <3>1
      <4> QED  BY <1>12, <4>1
    <3> QED  BY <1>6, <1>14, <2>2, <3>1, <3>2, <3>3, <3>4
  <2> QED  BY <1>7, <2>1, <2>2
<1>16. UsedInv'
  <2> SUFFICES ASSUME NEW k \in 0 .. (topIndex' - 1), table'[k].obj # 0
               PROVE  \E h \in held' : extractIndex(h.iref) = k
    BY DEF UsedInv, extractIndex
  <2>1. CASE k = i  BY <1>5, <1>7, <2>1
  <2>2. CASE k # i
    <3>4. topIndex' \in Nat  BY <1>2, <1>3
    <3>1. k \in 0 .. (topIndex - 1)
      <4>1. CASE topIndex' = topIndex  BY <4>1
      <4>2. CASE topIndex' # topIndex
        <5>1. topIndex' = topIndex + 1 /\ i = topIndex  BY <1>3, <4>2
        <5>2. PICK t \in Nat : t = topIndex  BY <1>2
        <5>3. k \in 0 .. t  BY <5>1, <5>2
        <5>4. k # t  BY <2>2, <5>1, <5>2
        <5>5. k \in 0 .. (t - 1)  BY <5>3, <5>4
        <5> QED  BY <5>2, <5>5
      <4> QED  BY <4>1, <4>2
    <3>3. k \in Indices  BY <1>2, <3>1 DEF Indices
    <3>2. table[k].obj # 0  BY <1>6, <2>2, <3>3
    <3> QED  BY <1>7, <3>1, <3>2 DEF RefsInv, UsedInv
  <2> QED  BY <2>1, <2>2
<1>17. StaleInv'
  <2> SUFFICES ASSUME NEW r \in stale, checkEntry(r)' PROVE FALSE
    BY <1>7 DEF StaleInv
  <2>1. r \in TableReferences  BY DEF RefsInv, RefsTypesInv
  <2>2. /\ extractIndex(r) < topIndex' /\ table'[extractIndex(r)].obj # 0
        /\ table'[extractIndex(r)].serial = extractSerial(r)
    BY DEF checkEntry, extractIndex, extractSerial
  <2>3. CASE extractIndex(r) = i
    <3>1. r = iref  BY <1>6, <2>1, <2>2, <2>3, ReferenceIsItsParts DEF iref
    <3> QED  BY <1>7, <3>1
  <2>4. CASE extractIndex(r) # i
    <3>1. extractIndex(r) \in Indices /\ extractIndex(r) < topIndex
      BY <1>2, <1>3, <2>1, <2>2, <2>4, ReferenceIsItsParts DEF Indices
    <3>2. checkEntry(r)  BY <1>6, <2>2, <2>4, <3>1 DEF checkEntry
    <3> QED  BY <3>2 DEF RefsInv, StaleInv
  <2> QED  BY <2>3, <2>4
<1> QED  BY <1>10, <1>13, <1>15, <1>16, <1>17 DEF RefsInv

\* What remove does to the top, and to the holes below it.
LEMMA RemoveShrinks ==
    ASSUME RefsInv, NEW iref \in TableReferences, remove(iref)
    PROVE  LET i == extractIndex(iref)
           IN  /\ i \in Indices /\ i >= cookie.topIndex /\ i < topIndex /\ table[i].obj # 0
               /\ table' = [table EXCEPT ![i].obj = 0]
               /\ segmentState' \in SegmentState /\ cookies' = cookies
               /\ topIndex' >= cookie.topIndex /\ topIndex' <= topIndex
               /\ \A j \in topIndex' .. (topIndex - 1) : j # i => table[j].obj = 0
               /\ topIndex' < topIndex => topIndex' <= i
               /\ segmentState'.numHoles = Cardinality(HolesBelow(topIndex)')
<1> DEFINE i == extractIndex(iref)
<1>1. /\ i \in Indices /\ i >= cookie.topIndex /\ i < topIndex /\ table[i].obj # 0
      /\ table' = [table EXCEPT ![i].obj = 0] /\ cookies' = cookies
  BY ReferenceIsItsParts DEF remove, checkEntry
<1>2. /\ topIndex \in 0 .. max_entries /\ topIndex \in Nat /\ max_entries \in Nat
      /\ cookie.topIndex \in Nat /\ cookie.topIndex <= topIndex
      /\ i \in Nat /\ i < max_entries
  BY <1>1, SegmentBounds, StateFields DEF Indices
<1>3. segmentState = [topIndex |-> topIndex, numHoles |-> segmentState.numHoles]
      /\ segmentState.numHoles = Cardinality(HolesBelow(topIndex))
  BY DEF RefsInv, RefsTypesInv, SegmentState, topIndex, SegmentsInv
<1>4. /\ \A k \in Indices : k # i => table'[k] = table[k]
      /\ table'[i].obj = 0
  BY <1>1, <1>2 DEF RefsInv, RefsTypesInv, TableSlot
<1>5. \A k \in 0 .. (topIndex - 1) : k \in Indices  BY <1>2 DEF Indices
<1>6. IsFiniteSet(HolesBelow(topIndex)) /\ Cardinality(HolesBelow(topIndex)) \in Nat
  BY <1>2, HolesAreFinite
<1> DEFINE top == TopWithout(i)
<1>7. CASE i = topIndex - 1
  <2>1. segmentState' = [topIndex |-> top, numHoles |-> segmentState.numHoles - (i - top)]
    BY <1>7 DEF remove
  <2>2. topIndex' = top /\ segmentState'.numHoles = segmentState.numHoles - (i - top)
    BY <2>1 DEF topIndex
  <2>3. top \in cookie.topIndex .. i /\ \A j \in top .. (i - 1) : table[j].obj = 0
    BY <1>1, TopWithoutEndsHoles
  <2> HIDE DEF top
  <2>4. top \in Nat /\ top <= i /\ cookie.topIndex <= top /\ top < topIndex
    BY <1>2, <1>7, <2>3
  <2>5. HolesBelow(topIndex)' = HolesBelow(top)
    <3>1. HolesBelow(topIndex)' = {k \in 0 .. (top - 1) : table'[k].obj = 0}
      BY <2>2 DEF HolesBelow
    <3>2. \A k \in 0 .. (top - 1) : k \in Indices /\ k # i  BY <1>2, <2>4 DEF Indices
    <3> QED  BY <1>4, <3>1, <3>2 DEF HolesBelow
  <2>6. /\ HolesBelow(topIndex) = HolesBelow(top) \cup (top .. (i - 1))
        /\ HolesBelow(top) \cap (top .. (i - 1)) = {}
    <3>1. ASSUME NEW k
          PROVE  k \in HolesBelow(topIndex) <=> k \in HolesBelow(top) \cup (top .. (i - 1))
      <4>1. CASE k \in 0 .. (top - 1)  BY <1>2, <2>4, <4>1 DEF HolesBelow
      <4>2. CASE k \in top .. (i - 1)
        <5>1. table[k].obj = 0  BY <2>3, <4>2
        <5>2. k \in 0 .. (topIndex - 1)  BY <1>1, <1>2, <2>4, <4>2
        <5> QED  BY <4>2, <5>1, <5>2 DEF HolesBelow
      <4>3. CASE k = i  BY <1>1, <1>2, <2>4, <4>3 DEF HolesBelow
      <4>4. CASE k \notin 0 .. (topIndex - 1)  BY <1>2, <1>7, <2>4, <4>4 DEF HolesBelow
      <4> QED  BY <1>2, <1>7, <2>4, <4>1, <4>2, <4>3, <4>4
    <3>2. HolesBelow(top) \cap (top .. (i - 1)) = {}  BY <1>2, <2>4 DEF HolesBelow
    <3> QED  BY <3>1, <3>2
  <2>7. Cardinality(HolesBelow(topIndex)) = Cardinality(HolesBelow(top)) + (i - top)
    <3>1. IsFiniteSet(top .. (i - 1)) /\ Cardinality(top .. (i - 1)) = i - top
      BY <1>2, <2>4, CountFromTo
    <3>2. IsFiniteSet(HolesBelow(top)) /\ Cardinality(HolesBelow(top)) \in 0 .. top
      BY <2>4, HolesAreFinite
    <3>3. Cardinality({}) = 0  BY FS_EmptySet
    <3>4. Cardinality(HolesBelow(top) \cup (top .. (i - 1)))
            = Cardinality(HolesBelow(top)) + Cardinality(top .. (i - 1)) - Cardinality({})
      BY <2>6, <3>1, <3>2, FS_Union
    <3> QED  BY <1>2, <2>4, <2>6, <3>1, <3>2, <3>3, <3>4
  <2>8. Cardinality(HolesBelow(top)) \in 0 .. top  BY <2>4, HolesAreFinite
  <2>9. segmentState'.numHoles = Cardinality(HolesBelow(topIndex)')
    BY <1>2, <1>3, <2>2, <2>4, <2>5, <2>7, <2>8
  <2>10. segmentState' \in SegmentState
    BY <1>2, <2>1, <2>2, <2>4, <2>5, <2>8, <2>9 DEF SegmentState
  <2>11. \A j \in topIndex' .. (topIndex - 1) : j # i => table[j].obj = 0
    BY <1>2, <1>7, <2>2, <2>3, <2>4
  <2>12. topIndex' >= cookie.topIndex /\ topIndex' <= topIndex /\ topIndex' <= i
    BY <1>2, <2>2, <2>4
  <2> QED  BY <1>1, <2>9, <2>10, <2>11, <2>12
<1>8. CASE i # topIndex - 1
  <2>1. segmentState' = [segmentState EXCEPT !.numHoles = @ + 1]  BY <1>8 DEF remove
  <2>2. topIndex' = topIndex /\ segmentState'.numHoles = segmentState.numHoles + 1
        /\ segmentState' = [topIndex |-> topIndex, numHoles |-> segmentState'.numHoles]
    BY <1>3, <2>1 DEF topIndex
  <2>3. HolesBelow(topIndex)' = HolesBelow(topIndex) \cup {i} /\ i \notin HolesBelow(topIndex)
    <3>1. HolesBelow(topIndex)' = {k \in 0 .. (topIndex - 1) : table'[k].obj = 0}
      BY <2>2 DEF HolesBelow
    <3>2. i \in 0 .. (topIndex - 1)  BY <1>1, <1>2
    <3> QED  BY <1>1, <1>4, <1>5, <3>1, <3>2 DEF HolesBelow
  <2>4. Cardinality(HolesBelow(topIndex) \cup {i}) = Cardinality(HolesBelow(topIndex)) + 1
    BY <1>6, <2>3, FS_AddElement
  <2>5. segmentState'.numHoles = Cardinality(HolesBelow(topIndex)')  BY <1>3, <2>2, <2>3, <2>4
  <2>6. Cardinality(HolesBelow(topIndex)') \in 0 .. topIndex
    <3>1. HolesBelow(topIndex)' \in SUBSET (0 .. (topIndex - 1))  BY <2>2 DEF HolesBelow
    <3> QED  BY <1>2, <3>1, BelowIsFinite
  <2>7. segmentState' \in SegmentState  BY <1>2, <2>2, <2>5, <2>6 DEF SegmentState
  <2>8. \A j \in topIndex' .. (topIndex - 1) : FALSE  BY <1>2, <2>2
  <2>9. topIndex' >= cookie.topIndex /\ topIndex' <= topIndex /\ ~ (topIndex' < topIndex)
    BY <1>2, <2>2
  <2> QED  BY <1>1, <2>5, <2>7, <2>8, <2>9
<1> QED  BY <1>7, <1>8

LEMMA RemoveKeeps ==
    ASSUME RefsInv, NEW iref \in TableReferences, remove(iref)
    PROVE  RefsInv'
<1> DEFINE i == extractIndex(iref)
<1>1. /\ i \in Indices /\ i >= cookie.topIndex /\ i < topIndex /\ table[i].obj # 0
      /\ table' = [table EXCEPT ![i].obj = 0]
      /\ segmentState' \in SegmentState /\ cookies' = cookies
      /\ topIndex' >= cookie.topIndex /\ topIndex' <= topIndex
      /\ \A j \in topIndex' .. (topIndex - 1) : j # i => table[j].obj = 0
      /\ topIndex' < topIndex => topIndex' <= i
      /\ segmentState'.numHoles = Cardinality(HolesBelow(topIndex)')
  BY RemoveShrinks
<1>2. /\ held' = {h \in held : h.iref # iref} /\ stale' = stale \cup {iref}
      /\ checkEntry(iref)
  BY DEF remove
<1> HIDE DEF i
<1>3. /\ topIndex \in Nat /\ topIndex <= max_entries /\ max_entries \in Nat
      /\ cookie.topIndex \in Nat /\ cookie.topIndex <= topIndex
      /\ i \in Nat /\ i < max_entries
      /\ Len(cookies) \in Nat /\ Len(cookies) >= 1
  BY <1>1, SegmentBounds, StateFields DEF Indices
<1>4. topIndex' \in Nat /\ topIndex' = segmentState'.topIndex
  BY <1>1, <1>3, StateFields DEF topIndex
<1>5. /\ table' \in [Indices -> TableSlot]
      /\ \A k \in Indices : k # i => table'[k] = table[k]
      /\ table'[i].obj = 0
  BY <1>1 DEF RefsInv, RefsTypesInv, TableSlot
<1>6. RefsTypesInv'  BY <1>1, <1>2, <1>5 DEF RefsInv, RefsTypesInv
<1>7. /\ \A d \in 1 .. Len(cookies) : BottomOf(d)' = BottomOf(d)
      /\ BottomOf(Len(cookies) + 1)' = topIndex'
      /\ BottomOf(Len(cookies) + 1) = topIndex
      /\ \A d \in 1 .. Len(cookies) : BottomOf(d) \in Nat /\ BottomOf(d) <= cookie.topIndex
  BY <1>1, <1>3, SegmentBounds DEF BottomOf
<1>8. SegmentsInv'
  <2>1. ASSUME NEW b \in 0 .. cookie.topIndex PROVE HolesBelow(b)' = HolesBelow(b)
    <3>1. \A k \in 0 .. (b - 1) : k \in Indices /\ k # i  BY <1>1, <1>3 DEF Indices
    <3> QED  BY <1>5, <3>1 DEF HolesBelow
  <2>2. \A d \in 1 .. Len(cookies) : BottomOf(d) = cookies[d].topIndex /\ cookies[d].topIndex \in 0 .. cookie.topIndex
    BY <1>7 DEF BottomOf
  <2>3. \A d \in 1 .. Len(cookies) :
           cookies'[d].numHoles = Cardinality(HolesBelow(cookies[d].topIndex)')
    BY <1>1, <2>1, <2>2 DEF RefsInv, SegmentsInv
  <2>4. ASSUME NEW d \in 1 .. Len(cookies), NEW e \in d .. (Len(cookies) + 1)
        PROVE  BottomOf(d)' <= BottomOf(e)'
    <3>1. CASE e \in 1 .. Len(cookies)
      BY <1>7, <3>1 DEF RefsInv, SegmentsInv
    <3>2. CASE e = Len(cookies) + 1
      <4>1. BottomOf(e)' = topIndex'  BY <1>1, <1>3, <3>2 DEF BottomOf
      <4> QED  BY <1>1, <1>3, <1>4, <1>7, <4>1
    <3> QED  BY <1>3, <3>1, <3>2
  <2> QED  BY <1>1, <2>3, <2>4 DEF SegmentsInv
<1>9. ASSUME NEW h \in held, h.iref # iref
      PROVE  /\ h.depth \in 1 .. Len(cookies)
             /\ extractIndex(h.iref) \in Indices
             /\ extractIndex(h.iref) # i
             /\ extractIndex(h.iref) >= BottomOf(h.depth)'
             /\ extractIndex(h.iref) < BottomOf(h.depth + 1)'
             /\ table'[extractIndex(h.iref)] = [obj |-> h.obj, serial |-> extractSerial(h.iref)]
  <2>1. /\ h.iref \in TableReferences /\ h.obj # 0
        /\ extractIndex(h.iref) \in Indices /\ extractIndex(h.iref) \in Nat
    BY IndirectRefsAssumption, ReferenceIsItsParts DEF RefsInv, RefsTypesInv, HeldReference, Indices
  <2>2. /\ h.depth \in 1 .. Len(cookies)
        /\ extractIndex(h.iref) >= BottomOf(h.depth)
        /\ extractIndex(h.iref) < BottomOf(h.depth + 1)
        /\ table[extractIndex(h.iref)] = [obj |-> h.obj, serial |-> extractSerial(h.iref)]
    BY DEF RefsInv, HeldInv
  <2>3. table[extractIndex(h.iref)].obj = h.obj /\ table[extractIndex(h.iref)].serial = extractSerial(h.iref)
    BY <2>2
  <2>4. extractIndex(h.iref) # i
    <3> SUFFICES ASSUME extractIndex(h.iref) = i PROVE FALSE  OBVIOUS
    <3>1. extractSerial(h.iref) = extractSerial(iref)  BY <1>2, <2>3 DEF checkEntry, i
    <3> QED  BY <1>9, <2>1, <3>1, ReferenceIsItsParts DEF i
  <2>5. extractIndex(h.iref) < BottomOf(h.depth + 1)'
    <3>1. CASE h.depth + 1 \in 1 .. Len(cookies)  BY <1>7, <2>2, <3>1
    <3>2. CASE h.depth = Len(cookies)
      <4>1. BottomOf(h.depth + 1)' = topIndex' /\ BottomOf(h.depth + 1) = topIndex
        BY <1>1, <1>3, <3>2 DEF BottomOf
      <4>2. extractIndex(h.iref) \notin topIndex' .. (topIndex - 1)
        BY <1>1, <2>1, <2>3, <2>4
      <4> QED  BY <1>3, <1>4, <2>1, <2>2, <4>1, <4>2
    <3> QED  BY <1>3, <2>2, <3>1, <3>2
  <2> QED  BY <1>5, <1>7, <2>1, <2>2, <2>4, <2>5
<1>10. HeldInv'
  BY <1>1, <1>2, <1>9 DEF HeldInv
<1>11. UsedInv'
  <2> SUFFICES ASSUME NEW k \in 0 .. (topIndex' - 1), table'[k].obj # 0
               PROVE  \E h \in held' : extractIndex(h.iref) = k
    BY DEF UsedInv
  <2>1. k \in 0 .. (topIndex - 1) /\ k \in Indices  BY <1>1, <1>3, <1>4 DEF Indices
  <2>2. k # i /\ table[k].obj # 0  BY <1>5, <2>1
  <2>3. PICK h \in held : extractIndex(h.iref) = k  BY <2>1, <2>2 DEF RefsInv, UsedInv
  <2>4. h.iref # iref  BY <2>2, <2>3 DEF i
  <2> QED  BY <1>2, <2>3, <2>4
<1>12. StaleInv'
  <2> SUFFICES ASSUME NEW r \in stale', checkEntry(r)' PROVE FALSE
    BY DEF StaleInv
  <2>1. r \in TableReferences  BY <1>2 DEF RefsInv, RefsTypesInv
  <2>2. /\ extractIndex(r) < topIndex' /\ table'[extractIndex(r)].obj # 0
        /\ table'[extractIndex(r)].serial = extractSerial(r)
    BY DEF checkEntry
  <2>3. extractIndex(r) \in Indices /\ extractIndex(r) \in Nat /\ extractIndex(r) # i
    BY <1>5, <2>1, <2>2, ReferenceIsItsParts DEF Indices
  <2>4. r \in stale  BY <1>2, <2>3 DEF i
  <2>5. checkEntry(r)  BY <1>1, <1>3, <1>4, <1>5, <2>2, <2>3 DEF checkEntry
  <2> QED  BY <2>4, <2>5 DEF RefsInv, StaleInv
<1> QED  BY <1>6, <1>8, <1>10, <1>11, <1>12 DEF RefsInv

LEMMA DeleteLocalRefKeeps == ASSUME RefsInv, DeleteLocalRef PROVE RefsInv'
<1>1. \A h \in held : h.iref \in TableReferences  BY DEF RefsInv, RefsTypesInv, HeldReference
<1>2. PICK iref \in TableReferences : remove(iref)
  BY <1>1 DEF DeleteLocalRef, RefsInv, RefsTypesInv
<1> QED  BY <1>2, RemoveKeeps

\* The segment that is pushed begins at the top, and holds nothing yet.
LEMMA PushSegmentKeeps == ASSUME RefsInv, PushSegment PROVE RefsInv'
<1>1. /\ cookies' = Append(cookies, segmentState) /\ Len(cookies) <= MaxSegments
      /\ table' = table /\ segmentState' = segmentState /\ held' = held /\ stale' = stale
      /\ topIndex' = topIndex /\ topIndex = segmentState.topIndex
  BY DEF PushSegment, topIndex
<1>2. /\ cookies \in Seq(SegmentState) /\ segmentState \in SegmentState
      /\ Len(cookies) \in Nat /\ Len(cookies) >= 1 /\ topIndex \in Nat
  BY SegmentBounds, StateFields DEF RefsInv, RefsTypesInv
<1>3. PICK n \in Nat : n = Len(cookies) /\ n >= 1 /\ n <= MaxSegments  BY <1>1, <1>2
<1>4. /\ cookies' \in Seq(SegmentState) /\ Len(cookies') = n + 1
      /\ \A d \in 1 .. n : cookies'[d] = cookies[d]
      /\ cookies'[n + 1] = segmentState
  BY <1>1, <1>2, <1>3, AppendProperties
<1>5. RefsTypesInv'
  <2>1. n + 1 \in 1 .. (MaxSegments + 1)  BY <1>3, IndirectRefsAssumption
  <2> QED  BY <1>1, <1>4, <2>1 DEF RefsInv, RefsTypesInv
<1>6. /\ \A d \in 1 .. (n + 1) : BottomOf(d)' = BottomOf(d) /\ BottomOf(d) \in Nat
      /\ BottomOf(n + 2)' = topIndex /\ BottomOf(n + 1) = topIndex
  <2>1. BottomOf(n + 1) = topIndex  BY <1>3 DEF BottomOf
  <2>2. BottomOf(n + 1)' = topIndex  BY <1>1, <1>3, <1>4 DEF BottomOf
  <2>3. BottomOf(n + 2)' = topIndex  BY <1>1, <1>3, <1>4 DEF BottomOf
  <2>4. \A d \in 1 .. n : BottomOf(d)' = BottomOf(d)  BY <1>3, <1>4 DEF BottomOf
  <2>5. \A d \in 1 .. (n + 1) : BottomOf(d) \in Nat  BY <1>3, SegmentBounds
  <2> QED  BY <1>3, <2>1, <2>2, <2>3, <2>4, <2>5
<1>7. \A d \in 1 .. n : \A e \in d .. (n + 1) : BottomOf(d) <= BottomOf(e)
  BY <1>3 DEF RefsInv, SegmentsInv
<1>8. SegmentsInv'
  <2>1. ASSUME NEW d \in 1 .. (n + 1)
        PROVE  cookies'[d].numHoles = Cardinality(HolesBelow(cookies[d].topIndex)')
    <3>1. HolesBelow(cookies[d].topIndex)' = HolesBelow(cookies'[d].topIndex)
      BY <1>1 DEF HolesBelow
    <3>2. CASE d \in 1 .. n  BY <1>3, <1>4, <3>1, <3>2 DEF RefsInv, SegmentsInv
    <3>3. CASE d = n + 1  BY <1>1, <1>4, <3>1, <3>3 DEF RefsInv, SegmentsInv
    <3> QED  BY <3>2, <3>3
  <2>2. ASSUME NEW d \in 1 .. (n + 1), NEW e \in d .. (n + 2)
        PROVE  BottomOf(d)' <= BottomOf(e)'
    <3>1. BottomOf(d)' = BottomOf(d) /\ BottomOf(d) \in Nat /\ BottomOf(d) <= topIndex
      <4>1. CASE d \in 1 .. n
        <5>1. n + 1 \in d .. (n + 1)  BY <4>1
        <5> QED  BY <1>6, <1>7, <4>1, <5>1
      <4>2. CASE d = n + 1  BY <1>2, <1>6, <4>2
      <4> QED  BY <4>1, <4>2
    <3>2. CASE e \in 1 .. (n + 1) /\ d \in 1 .. n  BY <1>6, <1>7, <3>1, <3>2
    <3>3. CASE e = n + 2  BY <1>6, <3>1, <3>3
    <3>4. CASE e = n + 1 /\ d = n + 1  BY <1>6, <3>1, <3>4
    <3> QED  BY <3>2, <3>3, <3>4
  <2>3. segmentState'.numHoles = Cardinality(HolesBelow(topIndex)')
    BY <1>1 DEF RefsInv, SegmentsInv, HolesBelow
  <2> QED  BY <1>4, <2>1, <2>2, <2>3 DEF SegmentsInv
<1>9. HeldInv'
  <2> SUFFICES ASSUME NEW h \in held
               PROVE  /\ h.depth \in 1 .. (n + 1)
                      /\ extractIndex(h.iref) >= BottomOf(h.depth)'
                      /\ extractIndex(h.iref) < BottomOf(h.depth + 1)'
                      /\ table[extractIndex(h.iref)] = [obj |-> h.obj, serial |-> extractSerial(h.iref)]
    BY <1>1, <1>4 DEF HeldInv
  <2>1. h.depth \in 1 .. n  BY <1>3 DEF RefsInv, HeldInv
  <2>2. BottomOf(h.depth)' = BottomOf(h.depth) /\ BottomOf(h.depth + 1)' = BottomOf(h.depth + 1)
    BY <1>6, <2>1
  <2> QED  BY <2>1, <2>2 DEF RefsInv, HeldInv
<1>10. UsedInv' /\ StaleInv'
  BY <1>1 DEF RefsInv, UsedInv, StaleInv, checkEntry
<1> QED  BY <1>5, <1>8, <1>9, <1>10 DEF RefsInv

\* The segment that is popped takes its references with it, and leaves the ones below as
\* they were at the call.
LEMMA PopSegmentKeeps == ASSUME RefsInv, PopSegment PROVE RefsInv'
<1>0. PICK n \in Nat : n = Len(cookies)  BY SegmentBounds
<1> DEFINE gone == {h \in held : h.depth = n}
<1>1. /\ n > 1 /\ segmentState' = cookie /\ cookies' = SubSeq(cookies, 1, n - 1)
      /\ held' = held \ gone /\ stale' = stale \cup {h.iref : h \in gone} /\ table' = table
      /\ topIndex' = cookie.topIndex
  BY <1>0 DEF PopSegment, topIndex
<1>2. /\ cookies \in Seq(SegmentState) /\ cookie \in SegmentState /\ n \in Nat
      /\ topIndex \in Nat /\ cookie.topIndex \in Nat /\ cookie.topIndex <= topIndex
      /\ cookie = cookies[n]
  BY <1>0, SegmentBounds, StateFields DEF RefsInv, RefsTypesInv
<1> HIDE DEF gone
<1>3. /\ cookies' \in Seq(SegmentState) /\ Len(cookies') = n - 1
      /\ \A d \in 1 .. (n - 1) : cookies'[d] = cookies[d]
  <2>1. \A d \in 1 .. (n - 1) : cookies[d] \in SegmentState  BY <1>0, <1>2, ElementOfSeq
  <2> QED  BY <1>1, <1>2, <2>1, SubSeqProperties
<1>4. RefsTypesInv'
  <2>1. n - 1 \in 1 .. (MaxSegments + 1)  BY <1>0, <1>1, <1>2, IndirectRefsAssumption DEF RefsInv, RefsTypesInv
  <2>2. \A h \in held : h.iref \in TableReferences  BY DEF RefsInv, RefsTypesInv, HeldReference
  <2>3. held' \subseteq held /\ stale' \subseteq stale \cup {h.iref : h \in held}
    BY <1>1 DEF gone
  <2> QED  BY <1>1, <1>2, <1>3, <2>1, <2>2, <2>3 DEF RefsInv, RefsTypesInv
<1>5. \A d \in 1 .. n : BottomOf(d)' = BottomOf(d) /\ BottomOf(d) \in Nat
  <2>1. \A d \in 1 .. (n - 1) : BottomOf(d)' = BottomOf(d)  BY <1>0, <1>2, <1>3 DEF BottomOf
  <2>2. BottomOf(n)' = BottomOf(n)  BY <1>0, <1>1, <1>2, <1>3 DEF BottomOf
  <2>3. \A d \in 1 .. n : BottomOf(d) \in Nat  BY <1>0, SegmentBounds, StateFields
  <2> QED  BY <1>0, <2>1, <2>2, <2>3
<1>6. SegmentsInv'
  <2>1. ASSUME NEW d \in 1 .. (n - 1)
        PROVE  cookies'[d].numHoles = Cardinality(HolesBelow(cookies[d].topIndex)')
    <3>1. HolesBelow(cookies[d].topIndex)' = HolesBelow(cookies'[d].topIndex)
      BY <1>1 DEF HolesBelow
    <3>2. cookies'[d] = cookies[d] /\ d \in 1 .. n  BY <1>0, <1>3
    <3> QED  BY <1>0, <3>1, <3>2 DEF RefsInv, SegmentsInv
  <2>2. ASSUME NEW d \in 1 .. (n - 1), NEW e \in d .. n
        PROVE  BottomOf(d)' <= BottomOf(e)'
    <3>1. d \in 1 .. n /\ e \in 1 .. n /\ e \in d .. (n + 1)  BY <1>0
    <3>2. BottomOf(d) <= BottomOf(e)  BY <1>0, <3>1 DEF RefsInv, SegmentsInv
    <3> QED  BY <1>5, <3>1, <3>2
  <2>3. segmentState'.numHoles = Cardinality(HolesBelow(topIndex)')
    <3>1. n \in 1 .. n  BY <1>0, <1>1
    <3>2. HolesBelow(topIndex)' = HolesBelow(cookie.topIndex)  BY <1>1 DEF HolesBelow
    <3>3. cookies[n].numHoles = Cardinality(HolesBelow(cookies[n].topIndex))
      BY <1>0, <3>1 DEF RefsInv, SegmentsInv
    <3> QED  BY <1>1, <1>2, <3>2, <3>3
  <2>4. (n - 1) + 1 = n  BY <1>0
  <2> QED  BY <1>3, <2>1, <2>2, <2>3, <2>4 DEF SegmentsInv
<1>7. HeldInv'
  <2> SUFFICES ASSUME NEW h \in held, h.depth # n
               PROVE  /\ h.depth \in 1 .. (n - 1)
                      /\ extractIndex(h.iref) >= BottomOf(h.depth)'
                      /\ extractIndex(h.iref) < BottomOf(h.depth + 1)'
                      /\ table[extractIndex(h.iref)] = [obj |-> h.obj, serial |-> extractSerial(h.iref)]
    BY <1>1, <1>3 DEF HeldInv, gone
  <2>0. h.depth \in 1 .. n  BY <1>0 DEF RefsInv, HeldInv
  <2>1. h.depth \in 1 .. (n - 1)  BY <1>0, <2>0
  <2>2. BottomOf(h.depth)' = BottomOf(h.depth) /\ BottomOf(h.depth + 1)' = BottomOf(h.depth + 1)
    BY <1>2, <1>5, <2>1
  <2> QED  BY <2>1, <2>2 DEF RefsInv, HeldInv
<1>8. ASSUME NEW h \in held
      PROVE  /\ extractIndex(h.iref) \in Nat
             /\ h.depth = n => extractIndex(h.iref) >= cookie.topIndex
             /\ h.depth # n => extractIndex(h.iref) < cookie.topIndex
  <2>1. h.iref \in TableReferences /\ extractIndex(h.iref) \in Nat
    BY ReferenceIsItsParts DEF RefsInv, RefsTypesInv, HeldReference, Indices
  <2>2. /\ h.depth \in 1 .. n /\ extractIndex(h.iref) >= BottomOf(h.depth)
        /\ extractIndex(h.iref) < BottomOf(h.depth + 1)
    BY <1>0 DEF RefsInv, HeldInv
  <2>3. BottomOf(n) = cookie.topIndex  BY <1>0, SegmentBounds
  <2>4. ASSUME h.depth # n PROVE extractIndex(h.iref) < cookie.topIndex
    <3>1. h.depth + 1 \in 1 .. n  BY <1>2, <2>2, <2>4
    <3>2. BottomOf(h.depth + 1) <= cookie.topIndex /\ BottomOf(h.depth + 1) \in Nat
      BY <1>0, <1>5, <3>1, SegmentBounds
    <3> QED  BY <1>2, <2>1, <2>2, <3>2
  <2> QED  BY <2>1, <2>2, <2>3, <2>4
<1>9. UsedInv'
  <2> SUFFICES ASSUME NEW k \in 0 .. (cookie.topIndex - 1), table[k].obj # 0
               PROVE  \E h \in held' : extractIndex(h.iref) = k
    BY <1>1 DEF UsedInv
  <2>1. k \in 0 .. (topIndex - 1)  BY <1>2
  <2>2. PICK h \in held : extractIndex(h.iref) = k  BY <2>1 DEF RefsInv, UsedInv
  <2>3. h.depth # n  BY <1>2, <1>8, <2>2
  <2> QED  BY <1>1, <2>2, <2>3 DEF gone
<1>10. StaleInv'
  <2> SUFFICES ASSUME NEW r \in stale', checkEntry(r)' PROVE FALSE
    BY DEF StaleInv
  <2>1. /\ extractIndex(r) < cookie.topIndex /\ table[extractIndex(r)].obj # 0
        /\ table[extractIndex(r)].serial = extractSerial(r)
    BY <1>1 DEF checkEntry
  <2>2. CASE r \in stale
    <3>1. extractIndex(r) \in Nat
      BY <2>2, ReferenceIsItsParts DEF RefsInv, RefsTypesInv, Indices
    <3>2. checkEntry(r)  BY <1>2, <2>1, <3>1 DEF checkEntry
    <3> QED  BY <2>2, <3>2 DEF RefsInv, StaleInv
  <2>3. CASE r \notin stale
    <3>1. PICK h \in held : h.depth = n /\ r = h.iref  BY <1>1, <2>3 DEF gone
    <3> QED  BY <1>2, <1>8, <2>1, <3>1
  <2> QED  BY <2>2, <2>3
<1> QED  BY <1>4, <1>6, <1>7, <1>9, <1>10 DEF RefsInv

LEMMA RefsStepInv == RefsInv /\ [RefsNext]_refVars => RefsInv'
<1> SUFFICES ASSUME RefsInv, [RefsNext]_refVars PROVE RefsInv'  OBVIOUS
<1>1. CASE UNCHANGED refVars
  BY <1>1 DEF refVars, RefsInv, RefsTypesInv, SegmentsInv, HeldInv, UsedInv, StaleInv, BottomOf,
              HolesBelow, topIndex, checkEntry
<1>2. CASE RefsNext
  BY <1>2, AddKeeps, DeleteLocalRefKeeps, PushSegmentKeeps, PopSegmentKeeps DEF RefsNext
<1> QED  BY <1>1, <1>2

LEMMA RefsInvariance == RefsSpec => []RefsInv
BY RefsInitInv, RefsStepInv, PTL DEF RefsSpec

LEMMA RefsTyped == RefsInv => RefsTypeOK
BY ReferenceIsItsParts DEF RefsInv, RefsTypesInv, RefsTypeOK, TableSlot, HeldReference

\* The table, its segments and the references given out are what their types say, at
\* whatever number of entries, serial numbers and segments (RefsTypeOK).
THEOREM ReferencesTypeCorrect == RefsSpec => []RefsTypeOK
BY RefsTyped, RefsInvariance, PTL

LEMMA CheckedReferences ==
    ASSUME RefsInv
    PROVE  HeldResolves /\ StaleIsInvalid
<1>1. ASSUME NEW h \in held PROVE get(h.iref) = h.obj
  <2>1. /\ h.depth \in 1 .. Len(cookies)
        /\ extractIndex(h.iref) < BottomOf(h.depth + 1)
        /\ table[extractIndex(h.iref)] = [obj |-> h.obj, serial |-> extractSerial(h.iref)]
    BY DEF RefsInv, HeldInv
  <2>2. BottomOf(h.depth + 1) <= topIndex /\ BottomOf(h.depth + 1) \in Nat /\ topIndex \in Nat
    <3>1. h.depth + 1 \in 1 .. (Len(cookies) + 1) /\ Len(cookies) \in Nat  BY <2>1, SegmentBounds
    <3>2. CASE h.depth + 1 = Len(cookies) + 1  BY <3>2, SegmentBounds
    <3>3. CASE h.depth + 1 \in 1 .. Len(cookies)
      BY <3>3, SegmentBounds, StateFields
    <3> QED  BY <3>1, <3>2, <3>3
  <2>3. extractIndex(h.iref) \in Nat /\ h.obj # 0
    BY ReferenceIsItsParts, IndirectRefsAssumption DEF RefsInv, RefsTypesInv, HeldReference, Indices
  <2>4. checkEntry(h.iref)  BY <2>1, <2>2, <2>3 DEF checkEntry
  <2> QED  BY <2>1, <2>4 DEF get
<1>2. StaleIsInvalid  BY DEF RefsInv, StaleInv, StaleIsInvalid, get
<1> QED  BY <1>1, <1>2 DEF HeldResolves

LEMMA RootsAreThoseHeld == ASSUME RefsInv PROVE RootsAreHeld
<1>1. topIndex \in Nat  BY SegmentBounds
<1>2. ASSUME NEW h \in held
      PROVE  extractIndex(h.iref) \in skipNullsAndTombstones /\ table[extractIndex(h.iref)].obj = h.obj
  <2>1. h.obj # 0 /\ extractIndex(h.iref) \in Nat /\ get(h.iref) = h.obj
    BY CheckedReferences, ReferenceIsItsParts, IndirectRefsAssumption
    DEF RefsInv, RefsTypesInv, HeldReference, Indices, HeldResolves
  <2>2. h.obj # kInvalidIndirectRefObject
    BY IndirectRefsAssumption DEF RefsInv, RefsTypesInv, HeldReference, kInvalidIndirectRefObject
  <2>3. checkEntry(h.iref)  BY <2>1, <2>2 DEF get
  <2> QED  BY <1>1, <2>1, <2>3 DEF get, checkEntry, skipNullsAndTombstones
<1>3. \A i \in skipNullsAndTombstones : \E h \in held : extractIndex(h.iref) = i
  BY DEF RefsInv, UsedInv, skipNullsAndTombstones
<1>4. Roots = {h.obj : h \in held}
  BY <1>2, <1>3 DEF Roots
<1>5. segmentState.numHoles = topIndex - Cardinality(skipNullsAndTombstones)
  <2>1. /\ IsFiniteSet(0 .. (topIndex - 1)) /\ Cardinality(0 .. (topIndex - 1)) = topIndex
    BY <1>1, CountFromTo
  <2>2. /\ skipNullsAndTombstones = (0 .. (topIndex - 1)) \ HolesBelow(topIndex)
        /\ (0 .. (topIndex - 1)) \cap HolesBelow(topIndex) = HolesBelow(topIndex)
    BY DEF skipNullsAndTombstones, HolesBelow
  <2>3. Cardinality(skipNullsAndTombstones) = topIndex - Cardinality(HolesBelow(topIndex))
    <3>1. Cardinality((0 .. (topIndex - 1)) \ HolesBelow(topIndex))
            = Cardinality(0 .. (topIndex - 1)) - Cardinality((0 .. (topIndex - 1)) \cap HolesBelow(topIndex))
      BY <2>1, FS_Difference
    <3> QED  BY <2>1, <2>2, <3>1
  <2>4. Cardinality(HolesBelow(topIndex)) \in Nat  BY <1>1, HolesAreFinite
  <2> QED  BY <1>1, <2>3, <2>4 DEF RefsInv, SegmentsInv
<1> QED  BY <1>4, <1>5 DEF RootsAreHeld

\* A reference (IndirectRefTable.h) that is held resolves to its object, however slots are
\* used again and segments popped; one that has been deleted is found invalid until its
\* slot's serial numbers have gone round; and the roots are what is held, with the holes
\* counted (ReferencesResolve).
THEOREM ReferencesAreResolved == RefsSpec => []ReferencesResolve
<1>1. RefsInv => ReferencesResolve
  BY CheckedReferences, RootsAreThoseHeld DEF ReferencesResolve
<1> QED  BY <1>1, RefsInvariance, PTL

-----------------------------------------------------------------------------
(* ArgBoxing.                                                              *)

\* Adding whole multiples of b changes no remainder.
LEMMA RemainderOfSum ==
    ASSUME NEW b \in Nat \ {0}, NEW n \in 0 .. (b - 1), NEW m \in Nat, m % b = 0
    PROVE  (n + m) % b = n
<1>1. PICK q \in Int : m = b * q
  <2>1. m = b * (m \div b) + (m % b)  BY Z3
  <2> QED  BY <2>1
<1>2. (n + m) = b * ((n + m) \div b) + ((n + m) % b) /\ (n + m) % b \in 0 .. (b - 1)
      /\ (n + m) \div b \in Int
  BY Z3
<1>3. PICK p \in Int, r \in 0 .. (b - 1) : p = (n + m) \div b /\ r = (n + m) % b
  BY <1>2
<1>4. b * (q - p) = r - n  BY <1>1, <1>2, <1>3, Z3
<1>5. q - p \in Int /\ r - n < b /\ r - n > 0 - b  BY <1>3
<1>6. ~ (q - p >= 1)
  <2> SUFFICES ASSUME q - p >= 1 PROVE FALSE  OBVIOUS
  <2>1. b * (q - p) >= b  BY <1>5, Z3
  <2> QED  BY <1>4, <1>5, <2>1
<1>7. ~ (q - p <= -1)
  <2> SUFFICES ASSUME q - p <= -1 PROVE FALSE  OBVIOUS
  <2>1. b * (q - p) <= 0 - b  BY <1>5, Z3
  <2> QED  BY <1>4, <1>5, <2>1
<1>8. q - p = 0  BY <1>5, <1>6, <1>7
<1>9. b * (q - p) = 0  BY <1>8
<1> QED  BY <1>3, <1>4, <1>9

\* The widths of registers and bytes.
LEMMA Widths ==
    /\ BYTES \in Nat /\ WORDS \in Nat /\ BYTES >= 2 /\ WORDS >= BYTES
    /\ (WORDS - BYTES) % BYTES = 0 /\ WORDS - BYTES \in Nat
    /\ BYTES \div 2 \in Nat /\ 0 < BYTES \div 2 /\ BYTES \div 2 < BYTES
    /\ 0 \in Word /\ WORDS - 1 \in Word
<1>1. BYTES \in Nat /\ WORDS \in Nat /\ BYTES >= 2 /\ WORDS >= 1
  BY BoxingAssumption
<1>2. PICK b \in Nat, w \in Nat : b = BYTES /\ w = WORDS /\ b >= 2 /\ w >= 1 /\ w % b = 0
  BY <1>1, BoxingAssumption
<1>3. w = b * (w \div b) /\ w \div b \in Int
  <2>1. w = b * (w \div b) + (w % b) /\ w \div b \in Int  BY <1>2, Z3
  <2> QED  BY <1>2, <2>1
<1>4. PICK q \in Int : q = w \div b /\ w = b * q  BY <1>3
<1>5. q >= 1
  <2> SUFFICES ASSUME q <= 0 PROVE FALSE  BY <1>4
  <2>1. b * q <= 0  BY <1>2, Z3
  <2> QED  BY <1>2, <1>4, <2>1
<1>6. w - b = b * (q - 1) /\ q - 1 \in Nat  BY <1>2, <1>4, <1>5, Z3
<1>7. w - b \in Nat
  <2>1. b * (q - 1) >= 0  BY <1>2, <1>6, Z3
  <2> QED  BY <1>2, <1>6, <2>1
<1>8. (w - b) % b = 0
  <2>1. PICK d \in Nat, e \in Nat : d = w - b /\ e = q - 1 /\ d = b * e  BY <1>6, <1>7
  <2>2. (b * e) % b = 0  BY <1>2, Z3
  <2> QED  BY <2>1, <2>2
<1>9. BYTES \div 2 \in Nat /\ 0 < BYTES \div 2 /\ BYTES \div 2 < BYTES
  BY <1>1
<1> QED  BY <1>1, <1>2, <1>7, <1>8, <1>9 DEF Word

\* A value is one word or two.
LEMMA ValuesAreWords ==
    ASSUME NEW c \in Letters, NEW v \in Values(c)
    PROVE  /\ v \in Seq(Word) /\ Len(v) = (IF c = "J" THEN 2 ELSE 1)
           /\ \A i \in 1 .. Len(v) : v[i] \in Word
           /\ c # "J" => v = <<v[1]>>
           /\ c = "J" => v = <<v[1], v[2]>>
<1>1. c \in {"Z", "B", "I", "J", "L"}  BY BoxingAssumption
<1>2. ASSUME c # "J" PROVE \E n \in Word : v = <<n>>
  <2>1. CASE c = "Z"
    <3>1. {0, 1} \subseteq Word  BY Widths DEF Word
    <3> QED  BY <2>1, <3>1 DEF Values
  <2>2. CASE c = "B"
    <3>1. PICK n \in Unsigned : v = <<SignExtend(n)>>  BY <2>2 DEF Values
    <3>2. SignExtend(n) \in Word
      BY Widths DEF SignExtend, Unsigned, Word
    <3> QED  BY <3>1, <3>2
  <2>3. CASE c = "I"  BY <2>3 DEF Values
  <2>4. CASE c = "L"
    <3>1. References \cup {Null} \subseteq Word  BY Widths, BoxingAssumption DEF Word, Null
    <3> QED  BY <2>4, <3>1 DEF Values
  <2> QED  BY <1>1, <1>2, <2>1, <2>2, <2>3, <2>4
<1>3. ASSUME c = "J" PROVE \E n \in Word, m \in Word : v = <<n, m>>
  BY <1>3 DEF Values
<1>4. CASE c = "J"
  <2>1. PICK n \in Word, m \in Word : v = <<n, m>>  BY <1>3, <1>4
  <2> QED  BY <1>4, <2>1
<1>5. CASE c # "J"
  <2>1. PICK n \in Word : v = <<n>>  BY <1>2, <1>5
  <2> QED  BY <1>5, <2>1
<1> QED  BY <1>4, <1>5

\* What is boxed is found in the box.
LEMMA BoxHoldsValue ==
    ASSUME NEW c \in Letters, NEW v \in Values(c)
    PROVE  LET o == dvmBoxPrimitive(c, v)
           IN  o \in Objects /\ o.class = c /\ Content(o) = v /\ o.value \in Seq(Word)
<1> DEFINE o == dvmBoxPrimitive(c, v)
<1>1. c \in {"Z", "B", "I", "J", "L"}  BY BoxingAssumption
<1>2. o \in Objects  BY DEF Objects, Boxes
<1>3. CASE c \in {"I", "J", "L"}
  <2>1. v = (IF c = "J" THEN v ELSE <<v[1]>>) /\ v \in Seq(Word)  BY ValuesAreWords
  <2>2. o = [class |-> c, value |-> v]
    BY <1>3, <2>1 DEF dvmBoxPrimitive, Box
  <2> QED  BY <1>2, <1>3, <2>1, <2>2 DEF Content
<1>4. CASE c = "Z"
  <2>1. PICK n \in {0, 1} : v = <<n>>  BY <1>4 DEF Values
  <2>2. n % BYTES = n /\ n \in Word
    <3>1. PICK b \in Nat : b = BYTES /\ b >= 2  BY Widths
    <3>2. 0 % b = 0 /\ 1 % b = 1  BY <3>1, Z3
    <3> QED  BY <3>1, <3>2, Widths DEF Word
  <2>3. o = [class |-> c, value |-> <<n>>]
    BY <1>4, <2>1, <2>2 DEF dvmBoxPrimitive, Box
  <2>4. o.value = <<n>> /\ o.class = "Z"  BY <1>4, <2>3
  <2>5. Content(o) = <<n>>  BY <2>4 DEF Content
  <2>6. <<n>> \in Seq(Word)  BY <2>2
  <2> QED  BY <1>2, <1>4, <2>1, <2>4, <2>5, <2>6
<1>5. CASE c = "B"
  <2>1. PICK n \in Unsigned : v = <<SignExtend(n)>>  BY <1>5 DEF Values
  <2>2. SignExtend(n) % BYTES = n
    <3>1. CASE n < BYTES \div 2
      <4>1. 0 % BYTES = 0  BY Widths, Z3
      <4>2. (n + 0) % BYTES = n  BY <4>1, Widths, RemainderOfSum DEF Unsigned
      <4> QED  BY <3>1, <4>2 DEF SignExtend, Unsigned
    <3>2. CASE ~ (n < BYTES \div 2)
      <4>1. (n + (WORDS - BYTES)) % BYTES = n  BY Widths, RemainderOfSum DEF Unsigned
      <4>2. SignExtend(n) = n + (WORDS - BYTES)  BY <3>2, Widths DEF SignExtend, Unsigned
      <4> QED  BY <4>1, <4>2
    <3> QED  BY <3>1, <3>2
  <2>3. o = [class |-> c, value |-> <<n>>]
    BY <1>5, <2>1, <2>2 DEF dvmBoxPrimitive, Box
  <2>4. n \in Word  BY Widths DEF Unsigned, Word
  <2>5. o.value = <<n>> /\ o.class = "B"  BY <1>5, <2>3
  <2>6. Content(o) = <<SignExtend(n)>>  BY <2>5 DEF Content
  <2>7. <<n>> \in Seq(Word)  BY <2>4
  <2> QED  BY <1>2, <1>5, <2>1, <2>5, <2>6, <2>7
<1> QED  BY <1>1, <1>3, <1>4, <1>5

LEMMA ReferencesAreBoxed ==
    ASSUME NEW v \in Values("L"), "L" \in Letters PROVE dvmBoxPrimitive("L", v) = Box("L", v)
<1>1. v = <<v[1]>>  BY ValuesAreWords
<1> QED  BY <1>1 DEF dvmBoxPrimitive

\* What a value is found to be when it is unboxed to its type, or to a wider one.
LEMMA UnboxedResult ==
    ASSUME NEW o \in Objects \cup {None}, NEW c \in Letters,
           ResultOf(o, c)[2] = "none"
    PROVE  LET r == ResultOf(o, c)[1]
           IN  /\ r \in Seq(Word)
               /\ r \in Values(c) \/ c = "L"
               /\ o.class = c => r = Content(o)
               /\ o = None => c = "L" /\ r = <<Null>>
<1> DEFINE r == ResultOf(o, c)[1]
<1>1. c \in {"Z", "B", "I", "J", "L"}  BY BoxingAssumption
<1>2. CASE o = None
  <2>1. o.class = "none"  BY <1>2 DEF None
  <2>2. ResultOf(o, c) = <<<<Null>>, IF c # "L" THEN "NullPointerException" ELSE "none">>
    BY <1>1, <1>2 DEF ResultOf
  <2>3. c = "L" /\ r = <<Null>>  BY <2>2
  <2>4. r \in Seq(Word)
    <3>1. Null \in Word  BY Widths DEF Null
    <3>2. <<Null>> \in Seq(Word)  BY <3>1
    <3> HIDE DEF r
    <3> QED  BY <2>3, <3>2
  <2> QED  BY <1>2, <2>1, <2>3, <2>4
<1>3. CASE o # None
  <2>0. PICK k \in Letters : o \in Boxes(k)
    BY <1>3 DEF Objects
  <2>1. PICK v \in Values(k) : o = dvmBoxPrimitive(k, v)
    BY <2>0 DEF Boxes
  <2>2. o.class = k /\ Content(o) = v /\ o.value \in Seq(Word)  BY <2>1, BoxHoldsValue
  <2>3. k \in {"Z", "B", "I", "J", "L"}  BY BoxingAssumption
  <2>4. CASE dvmUnboxPrimitive(o, c)
    <3>1. r = IF c = "L" THEN o.value ELSE Widen(o, c)
      BY <1>1, <1>3, <2>4 DEF ResultOf
    <3>2. CASE c = "L"
      <4>1. k = "L" => Content(o) = o.value  BY <2>2 DEF Content
      <4> QED  BY <1>3, <2>2, <3>1, <3>2, <4>1
    <3>3. CASE c # "L" /\ k = c
      <4>1. r = v  BY <2>2, <3>1, <3>3 DEF Widen
      <4>2. v \in Seq(Word)  BY <2>1, ValuesAreWords
      <4> QED  BY <1>3, <2>1, <2>2, <3>3, <4>1, <4>2
    <3>4. CASE c # "L" /\ k # c
      <4>1. <<k, c>> \in {<<"B", "I">>, <<"B", "J">>, <<"I", "J">>}
        BY <2>2, <2>4, <3>4 DEF dvmUnboxPrimitive, Widens
      <4>2. v = <<v[1]>> /\ v[1] \in Word  BY <2>1, <4>1, ValuesAreWords
      <4>3. CASE c = "I"
        <5>1. r = <<v[1]>>  BY <2>2, <3>1, <4>2, <4>3 DEF Widen
        <5>0. PICK n \in Word : n = v[1]  BY <4>2
        <5>2. <<n>> \in Seq(Word) /\ <<n>> \in Values(c)  BY <4>3 DEF Values
        <5> QED  BY <1>3, <2>2, <3>4, <5>0, <5>1, <5>2
      <4>4. CASE c = "J"
        <5>1. r = <<v[1], IF v[1] < WORDS \div 2 THEN 0 ELSE WORDS - 1>>
          BY <2>2, <3>1, <3>4, <4>2, <4>4 DEF Widen
        <5>2. (IF v[1] < WORDS \div 2 THEN 0 ELSE WORDS - 1) \in Word  BY Widths
        <5>3. PICK m \in Word : r = <<v[1], m>>  BY <5>1, <5>2
        <5>4. r \in Values(c)  BY <4>2, <4>4, <5>3 DEF Values
        <5>5. r \in Seq(Word)  BY <4>2, <5>3
        <5> QED  BY <1>3, <2>2, <3>4, <5>4, <5>5
      <4> QED  BY <4>1, <4>3, <4>4
    <3> QED  BY <3>2, <3>3, <3>4
  <2>5. CASE ~ dvmUnboxPrimitive(o, c)
    <3>1. ResultOf(o, c) = <<pResult, "ClassCastException">>
      BY <1>1, <1>3, <2>5 DEF ResultOf
    <3> QED  BY <3>1
  <2> QED  BY <2>4, <2>5
<1> QED  BY <1>2, <1>3

-----------------------------------------------------------------------------
\* Where the arguments are in the registers: the k-th starts after at[k] others.
Laid(at) ==
    /\ at \in [1 .. (Len(shorty) + 1) -> Nat]
    /\ at[1] = argsindex /\ at[Len(shorty) + 1] = Len(ins)
    /\ \A k \in 1 .. (Len(shorty) + 1) : at[k] <= Len(ins)
    /\ \A k \in 1 .. Len(shorty) :
        /\ at[k + 1] = at[k] + Len(passed[k])
        /\ \A j \in 1 .. Len(passed[k]) : ins[at[k] + j] = passed[k][j]

Passing == boxPc \in {"pass", "box", "call"}
InHandler == boxPc \in {"box", "call"}

RegistersInv ==
    /\ passed \in Seq(Seq(Word))
    /\ Passing /\ ~ isStatic => ins # <<>> /\ ins[1] \in References
    /\ Passing => \E at : Laid(at) /\ (InHandler => srcIndex = at[Len(argObjects) + 1])
    /\ ~ Passing => shorty = <<>> /\ passed = <<>> /\ ins = <<>>

BoxedInv ==
    /\ Len(argObjects) <= Len(shorty)
    /\ \A k \in 1 .. Len(argObjects) :
        argObjects[k].class = shorty[k] /\ Content(argObjects[k]) = passed[k]
    /\ ~ InHandler => argObjects = <<>>
    /\ InHandler => thisObject = IF isStatic THEN Null ELSE ins[1]
    /\ boxPc = "call" => Len(argObjects) = Len(shorty)

BoxingInv == BoxingTypeOK /\ RegistersInv /\ BoxedInv /\ ResultIsReturned

LEMMA BoxingInvImplies == BoxingInv => BoxingTypeOK /\ CallSeen
<1> SUFFICES ASSUME BoxingInv PROVE CallSeen  BY DEF BoxingInv
<1> USE DEF BoxingInv
<1>1. ResultIsReturned  OBVIOUS
<1>2. ASSUME boxPc = "call" PROVE srcIndex = Len(ins)
  <2>1. PICK at : Laid(at) /\ srcIndex = at[Len(argObjects) + 1]
    BY <1>2 DEF RegistersInv, Passing, InHandler
  <2> QED  BY <1>2, <2>1 DEF BoxedInv, Laid
<1>3. BoxesAreTheArguments
  <2> SUFFICES ASSUME boxPc = "call" PROVE BoxesAreTheArguments  BY DEF BoxesAreTheArguments
  <2>1. Len(argObjects) = Len(shorty) /\ Len(passed) = Len(shorty)
    BY DEF BoxedInv, BoxingTypeOK
  <2>2. DOMAIN passed = 1 .. Len(argObjects)
    BY <2>1, LenProperties DEF RegistersInv
  <2>3. thisObject = IF isStatic THEN Null ELSE ins[1]  BY DEF BoxedInv, InHandler
  <2> QED  BY <2>1, <2>2, <2>3 DEF BoxesAreTheArguments, BoxedInv
<1> QED  BY <1>1, <1>2, <1>3 DEF CallSeen, ReadsAllOfIns

LEMMA BoxingInitInv == BoxingInit => BoxingInv
<1> SUFFICES ASSUME BoxingInit PROVE BoxingInv  OBVIOUS
<1> USE DEF BoxingInit
<1>1. ins \in Seq(Word) /\ (~ isStatic => ins # <<>> /\ ins[1] \in References) /\ Len(ins) = argsindex
  <2>1. CASE isStatic  BY <2>1 DEF argsindex
  <2>2. CASE ~ isStatic
    <3>1. PICK r \in References : ins = <<r>>  BY <2>2
    <3>2. r \in Word  BY <3>1, BoxingAssumption, Widths DEF Word
    <3> QED  BY <2>2, <3>1, <3>2 DEF argsindex
  <2> QED  BY <2>1, <2>2
<1>2. BoxingTypeOK
  <2>1. pResult \in Seq(Word) /\ shorty \in Seq(Letters) /\ argObjects \in Seq(Objects)
    OBVIOUS
  <2>2. MaxArgs >= 0  BY BoxingAssumption
  <2>3. srcIndex \in 0 .. Len(ins)  BY <1>1
  <2> QED  BY <1>1, <2>1, <2>2, <2>3 DEF BoxingTypeOK, Exceptions
<1>3. Laid([k \in 1 .. 1 |-> Len(ins)])
  <2>1. Len(ins) \in Nat /\ Len(shorty) = 0  BY <1>1
  <2> QED  BY <1>1, <2>1 DEF Laid
<1>4. RegistersInv
  <2>1. passed \in Seq(Seq(Word))  OBVIOUS
  <2>2. Passing /\ ~ InHandler  BY DEF Passing, InHandler
  <2> QED  BY <1>1, <1>3, <2>1, <2>2 DEF RegistersInv
<1>5. BoxedInv /\ ResultIsReturned  BY DEF BoxedInv, ResultIsReturned, InHandler
<1> QED  BY <1>2, <1>4, <1>5 DEF BoxingInv

\* The invoker puts one more argument in registers.
LEMMA PassKeeps ==
    ASSUME BoxingInv, NEW c \in Letters, NEW v \in Values(c), Pass(c, v) PROVE BoxingInv'
<1> USE DEF BoxingInv
<1>0. /\ shorty \in Seq(Letters) /\ Len(shorty) < MaxArgs /\ ins \in Seq(Word)
      /\ passed \in Seq(Seq(Word)) /\ Len(passed) = Len(shorty) /\ boxPc = "pass" /\ boxPc' = "pass"
      /\ MaxArgs \in Nat
  BY BoxingAssumption DEF Pass, BoxingTypeOK, RegistersInv
<1>1. /\ v \in Seq(Word) /\ Len(v) \in Nat
  BY ValuesAreWords
<1>2. /\ shorty' \in Seq(Letters) /\ Len(shorty') = Len(shorty) + 1
      /\ shorty'[Len(shorty) + 1] = c
      /\ \A k \in 1 .. Len(shorty) : shorty'[k] = shorty[k]
  BY <1>0, AppendProperties DEF Pass
<1>3. /\ passed' \in Seq(Seq(Word)) /\ Len(passed') = Len(shorty) + 1
      /\ passed'[Len(shorty) + 1] = v
      /\ \A k \in 1 .. Len(shorty) : passed'[k] = passed[k]
  BY <1>0, <1>1, AppendProperties DEF Pass
<1>4. /\ ins' \in Seq(Word) /\ Len(ins') = Len(ins) + Len(v)
      /\ \A i \in 1 .. Len(ins) : ins'[i] = ins[i]
      /\ \A j \in 1 .. Len(v) : ins'[Len(ins) + j] = v[j]
  BY <1>0, <1>1, ConcatProperties DEF Pass
<1>5. BoxingTypeOK'
  <2>1. \A k \in DOMAIN passed' : passed'[k] \in Values(shorty'[k])
    <3> SUFFICES ASSUME NEW k \in DOMAIN passed' PROVE passed'[k] \in Values(shorty'[k])
      OBVIOUS
    <3>1. k \in 1 .. (Len(shorty) + 1)  BY <1>3, LenProperties
    <3>2. CASE k = Len(shorty) + 1  BY <1>2, <1>3, <3>2
    <3>3. CASE k # Len(shorty) + 1
      <4>1. k \in 1 .. Len(shorty)  BY <1>0, <3>1, <3>3, LenProperties
      <4>2. k \in DOMAIN passed  BY <1>0, <4>1, LenProperties
      <4> QED  BY <1>2, <1>3, <4>1, <4>2 DEF BoxingTypeOK
    <3> QED  BY <3>2, <3>3
  <2>2. Len(shorty') <= MaxArgs
    <3>1. Len(shorty) \in Nat  BY <1>0, LenProperties
    <3> QED  BY <1>0, <1>2, <3>1
  <2>3. srcIndex' \in 0 .. Len(ins')
    <3>1. Len(ins) \in Nat /\ srcIndex \in 0 .. Len(ins) /\ srcIndex' = srcIndex
      BY <1>0, LenProperties DEF BoxingTypeOK, Pass
    <3> QED  BY <1>1, <1>4, <3>1
  <2> QED  BY <1>2, <1>3, <1>4, <2>1, <2>2, <2>3 DEF BoxingTypeOK, Pass, Exceptions
<1>6. ~ isStatic' => ins' # <<>> /\ ins'[1] \in References
  <2> SUFFICES ASSUME ~ isStatic PROVE ins' # <<>> /\ ins'[1] \in References  BY DEF Pass
  <2>1. ins # <<>> /\ ins[1] \in References  BY <1>0 DEF RegistersInv, Passing
  <2>2. Len(ins) \in Nat /\ Len(ins) >= 1  BY <1>0, <2>1, EmptySeq, LenProperties
  <2>3. Len(ins') >= 1 /\ ins'[1] = ins[1]  BY <1>1, <1>4, <2>2
  <2> QED  BY <1>4, <2>1, <2>3
<1>7. PICK at : Laid(at)  BY <1>0 DEF RegistersInv, Passing
<1> DEFINE n == Len(shorty)
<1>70. PICK next : next = [k \in 1 .. (n + 2) |-> IF k = n + 2 THEN Len(ins) + Len(v) ELSE at[k]]
  OBVIOUS
<1>8. n \in Nat /\ Len(ins) \in Nat  BY <1>0, LenProperties
<1>9. Laid(next)'
  <2>1. /\ at \in [1 .. (n + 1) -> Nat] /\ at[1] = argsindex /\ at[n + 1] = Len(ins)
        /\ \A k \in 1 .. (n + 1) : at[k] <= Len(ins)
    BY <1>7 DEF Laid
  <2>2. Len(shorty') = n + 1 /\ argsindex' = argsindex  BY <1>2 DEF argsindex, Pass
  <2>3. next \in [1 .. (n + 2) -> Nat]
    <3>1. Len(ins) + Len(v) \in Nat  BY <1>1, <1>8
    <3>2. \A k \in 1 .. (n + 2) : k # n + 2 => k \in 1 .. (n + 1)  BY <1>8
    <3> QED  BY <1>70, <2>1, <3>1, <3>2
  <2>4. next[1] = argsindex /\ next[n + 2] = Len(ins')  BY <1>4, <1>70, <1>8, <2>1
  <2>5. \A k \in 1 .. (n + 2) : next[k] <= Len(ins')
    <3> SUFFICES ASSUME NEW k \in 1 .. (n + 2) PROVE next[k] <= Len(ins')  OBVIOUS
    <3>1. CASE k = n + 2  BY <1>1, <1>4, <1>70, <1>8, <3>1
    <3>2. CASE k # n + 2
      <4>1. k \in 1 .. (n + 1) /\ next[k] = at[k]  BY <1>70, <1>8, <3>2
      <4>2. at[k] \in Nat /\ at[k] <= Len(ins)  BY <2>1, <4>1
      <4> QED  BY <1>1, <1>4, <1>8, <4>1, <4>2
    <3> QED  BY <3>1, <3>2
  <2>6. ASSUME NEW k \in 1 .. (n + 1)
        PROVE  /\ next[k + 1] = next[k] + Len(passed'[k])
               /\ \A j \in 1 .. Len(passed'[k]) : ins'[next[k] + j] = passed'[k][j]
    <3>1. CASE k = n + 1
      <4>1. next[k] = Len(ins) /\ next[k + 1] = Len(ins) + Len(v) /\ passed'[k] = v
        BY <1>3, <1>70, <1>8, <2>1, <3>1
      <4> QED  BY <1>4, <4>1
    <3>2. CASE k # n + 1
      <4>1. k \in 1 .. n /\ next[k] = at[k] /\ next[k + 1] = at[k + 1] /\ passed'[k] = passed[k]
        BY <1>3, <1>70, <1>8, <3>2
      <4>2. at[k + 1] = at[k] + Len(passed[k])
            /\ \A j \in 1 .. Len(passed[k]) : ins[at[k] + j] = passed[k][j]
        BY <1>7, <4>1 DEF Laid
      <4>3. at[k] \in Nat /\ at[k + 1] \in Nat /\ at[k + 1] <= Len(ins)
        BY <1>8, <2>1, <4>1
      <4>4. passed[k] \in Seq(Word) /\ Len(passed[k]) \in Nat
        BY <1>0, <4>1, ElementOfSeq, LenProperties
      <4>5. ASSUME NEW j \in 1 .. Len(passed[k]) PROVE ins'[at[k] + j] = passed[k][j]
        <5>1. at[k] + j \in 1 .. Len(ins)  BY <1>8, <4>2, <4>3, <4>4
        <5> QED  BY <1>4, <4>2, <5>1
      <4> QED  BY <4>1, <4>2, <4>5
    <3> QED  BY <3>1, <3>2
  <2>7. Len(shorty') + 1 = n + 2  BY <1>8, <2>2
  <2> HIDE DEF n
  <2> QED  BY <2>2, <2>3, <2>4, <2>5, <2>6, <2>7 DEF Laid
<1>10. RegistersInv'
  <2>1. Passing' /\ ~ InHandler'  BY <1>0 DEF Passing, InHandler
  <2> QED  BY <1>3, <1>6, <1>9, <2>1 DEF RegistersInv
<1>11. BoxedInv' /\ ResultIsReturned'
  <2>1. argObjects = <<>> /\ argObjects' = <<>>  BY <1>0 DEF BoxedInv, InHandler, Pass
  <2>2. Len(argObjects') = 0  BY <2>1
  <2>3. Len(shorty') >= 0  BY <1>2, <1>8
  <2> QED  BY <1>0, <2>1, <2>2, <2>3 DEF BoxedInv, InHandler, ResultIsReturned
<1> QED  BY <1>5, <1>10, <1>11

LEMMA MethodHookHandlerKeeps ==
    ASSUME BoxingInv, methodHookHandler PROVE BoxingInv'
<1> USE DEF BoxingInv
<1>0. /\ ins \in Seq(Word) /\ shorty \in Seq(Letters) /\ boxPc = "pass" /\ boxPc' = "box"
      /\ argObjects = <<>> /\ Len(argObjects) = 0
  BY DEF methodHookHandler, BoxingTypeOK, BoxedInv, InHandler
<1>1. PICK at : Laid(at)  BY <1>0 DEF RegistersInv, Passing
<1>2. Len(shorty) \in Nat /\ Len(ins) \in Nat  BY <1>0, LenProperties
<1>3. at[1] = argsindex /\ at[1] <= Len(ins) /\ argsindex \in Nat
  BY <1>1, <1>2 DEF Laid, argsindex
<1>4. ~ isStatic => ins[1] \in References /\ args(0) = ins[1]
  <2> SUFFICES ASSUME ~ isStatic PROVE ins[1] \in References /\ args(0) = ins[1]  OBVIOUS
  <2>1. ins[1] \in References /\ Len(ins) # 0
    BY <1>0, EmptySeq DEF RegistersInv, Passing
  <2> QED  BY <1>2, <2>1 DEF args
<1>5. thisObject' \in References \cup {Null} /\ (thisObject' = IF isStatic THEN Null ELSE ins[1])
  BY <1>4 DEF methodHookHandler
<1>6. srcIndex' \in 0 .. Len(ins)  BY <1>2, <1>3 DEF methodHookHandler
<1>7. BoxingTypeOK'  BY <1>0, <1>5, <1>6 DEF BoxingTypeOK, methodHookHandler, Exceptions
<1>8. Laid(at)'  BY <1>1 DEF Laid, argsindex, methodHookHandler
<1>9. RegistersInv'
  <2>1. Passing /\ Passing'  BY <1>0 DEF Passing
  <2>2. srcIndex' = at[Len(argObjects') + 1]  BY <1>0, <1>3 DEF methodHookHandler
  <2>3. \E x : Laid(x)' /\ (InHandler' => srcIndex' = x[Len(argObjects') + 1])  BY <1>8, <2>2
  <2> QED  BY <2>1, <2>3 DEF RegistersInv, methodHookHandler
<1>10. BoxedInv' /\ ResultIsReturned'
  BY <1>0, <1>2, <1>5 DEF BoxedInv, methodHookHandler, ResultIsReturned, InHandler
<1> QED  BY <1>7, <1>9, <1>10

\* boxMethodArgs is at the registers of the argument that it boxes next.
LEMMA AtTheArgument ==
    ASSUME BoxingInv, Boxing
    PROVE  LET k == Len(argObjects) + 1
           IN  /\ k \in 1 .. Len(shorty) /\ dstType = shorty[k] /\ dstType \in Letters
               /\ passed[k] \in Values(dstType)
               /\ srcIndex \in Nat /\ srcIndex + Len(passed[k]) <= Len(ins)
               /\ \A j \in 1 .. Len(passed[k]) : args(srcIndex + j - 1) = passed[k][j]
<1> DEFINE k == Len(argObjects) + 1
<1> USE DEF BoxingInv
<1>1. /\ Len(argObjects) \in Nat /\ Len(shorty) \in Nat /\ Len(ins) \in Nat
      /\ shorty \in Seq(Letters) /\ ins \in Seq(Word) /\ passed \in Seq(Seq(Word))
      /\ Len(passed) = Len(shorty) /\ srcIndex \in Nat
  <2>1. argObjects \in Seq(Objects) /\ shorty \in Seq(Letters) /\ ins \in Seq(Word)
    BY DEF BoxingTypeOK
  <2> QED  BY <2>1, LenProperties DEF BoxingTypeOK, RegistersInv
<1>2. k \in 1 .. Len(shorty)  BY <1>1 DEF Boxing
<1>3. dstType = shorty[k] /\ dstType \in Letters  BY <1>1, <1>2, ElementOfSeq DEF dstType
<1>4. passed[k] \in Values(dstType)
  <2>1. k \in DOMAIN passed  BY <1>1, <1>2, LenProperties
  <2> QED  BY <1>3, <2>1 DEF BoxingTypeOK
<1>5. PICK at : Laid(at) /\ srcIndex = at[k]
  BY DEF RegistersInv, Passing, InHandler, Boxing
<1>6. at[k + 1] = srcIndex + Len(passed[k]) /\ at[k + 1] <= Len(ins)
      /\ \A j \in 1 .. Len(passed[k]) : ins[srcIndex + j] = passed[k][j]
  <2>1. k + 1 \in 1 .. (Len(shorty) + 1)  BY <1>1, <1>2
  <2> HIDE DEF k
  <2> QED  BY <1>2, <1>5, <2>1 DEF Laid
<1>7. passed[k] \in Seq(Word) /\ Len(passed[k]) \in Nat
  BY <1>1, <1>2, ElementOfSeq, LenProperties
<1>8. ASSUME NEW j \in 1 .. Len(passed[k]) PROVE args(srcIndex + j - 1) = passed[k][j]
  <2>1. srcIndex + j - 1 \in 0 .. (Len(ins) - 1) /\ srcIndex + j - 1 + 1 = srcIndex + j
    BY <1>1, <1>6, <1>7
  <2> QED  BY <1>6, <2>1 DEF args
<1> QED  BY <1>1, <1>2, <1>3, <1>4, <1>6, <1>8

\* It goes on with the next once it has boxed what was passed.
LEMMA BoxedAsKeeps ==
    ASSUME BoxingInv, Boxing, NEW o \in Objects, NEW width \in Nat,
           o.class = dstType, Content(o) = passed[Len(argObjects) + 1],
           width = Len(passed[Len(argObjects) + 1]), BoxedAs(o, width)
    PROVE  BoxingInv'
<1> DEFINE n == Len(argObjects)
<1> USE DEF BoxingInv
<1>1. /\ n + 1 \in 1 .. Len(shorty) /\ dstType = shorty[n + 1]
      /\ srcIndex \in Nat /\ srcIndex + width <= Len(ins)
  BY AtTheArgument
<1>2. argObjects \in Seq(Objects) /\ n \in Nat /\ Len(shorty) \in Nat /\ Len(ins) \in Nat
  <2>1. argObjects \in Seq(Objects) /\ shorty \in Seq(Letters) /\ ins \in Seq(Word)
    BY DEF BoxingTypeOK
  <2> QED  BY <2>1, LenProperties
<1>3. /\ argObjects' \in Seq(Objects) /\ Len(argObjects') = n + 1 /\ argObjects'[n + 1] = o
      /\ \A k \in 1 .. n : argObjects'[k] = argObjects[k]
  BY <1>2, AppendProperties DEF BoxedAs
<1>4. BoxingTypeOK'
  <2>1. srcIndex' \in 0 .. Len(ins)  BY <1>1, <1>2 DEF BoxedAs
  <2> QED  BY <1>3, <2>1 DEF BoxingTypeOK, BoxedAs
<1>5. PICK at : Laid(at) /\ srcIndex = at[n + 1]
  BY DEF RegistersInv, Passing, InHandler, Boxing
<1>6. Laid(at)'  BY <1>5 DEF Laid, argsindex, BoxedAs
<1>7. srcIndex' = at[Len(argObjects') + 1]
  <2>1. at[n + 1 + 1] = at[n + 1] + width
    <3> HIDE DEF n
    <3> QED  BY <1>1, <1>5 DEF Laid, n
  <2> QED  BY <1>3, <1>5, <2>1 DEF BoxedAs
<1>8. RegistersInv'
  <2>1. \E x : Laid(x)' /\ (InHandler' => srcIndex' = x[Len(argObjects') + 1])  BY <1>6, <1>7
  <2>2. Passing' /\ Passing  BY DEF Passing, Boxing, BoxedAs
  <2> QED  BY <2>1, <2>2 DEF RegistersInv, BoxedAs
<1>9. BoxedInv'
  <2>1. ASSUME NEW k \in 1 .. Len(argObjects')
        PROVE  argObjects'[k].class = shorty[k] /\ Content(argObjects'[k]) = passed[k]
    <3>1. CASE k = n + 1  BY <1>1, <1>3, <3>1
    <3>2. CASE k # n + 1
      <4>1. k \in 1 .. n  BY <1>2, <1>3, <3>2
      <4> QED  BY <1>3, <4>1 DEF BoxedInv
    <3> QED  BY <3>1, <3>2
  <2>2. Len(argObjects') <= Len(shorty)  BY <1>1, <1>2, <1>3
  <2>3. boxPc = "box" /\ boxPc' = "box"  BY DEF Boxing, BoxedAs
  <2> HIDE DEF n
  <2> QED  BY <2>1, <2>2, <2>3 DEF BoxedInv, BoxedAs, InHandler, Content
<1>10. ResultIsReturned'  BY DEF ResultIsReturned, Boxing, BoxedAs
<1> QED  BY <1>4, <1>8, <1>9, <1>10

LEMMA BoxWordKeeps == ASSUME BoxingInv, BoxWord PROVE BoxingInv'
<1> DEFINE v == passed[Len(argObjects) + 1]
<1>1. Boxing /\ dstType # "J"  BY DEF BoxWord
<1>2. /\ dstType \in Letters /\ v \in Values(dstType) /\ srcIndex \in Nat
      /\ \A j \in 1 .. Len(v) : args(srcIndex + j - 1) = v[j]
  BY <1>1, AtTheArgument
<1>3. Len(v) = 1 /\ v = <<v[1]>>  BY <1>1, <1>2, ValuesAreWords
<1>4. args(srcIndex) = v[1]
  <2>1. args(srcIndex + 1 - 1) = v[1] /\ srcIndex + 1 - 1 = srcIndex  BY <1>2, <1>3
  <2> QED  BY <2>1
<1>5. BoxedAs(dvmBoxPrimitive(dstType, v), 1)  BY <1>3, <1>4 DEF BoxWord
<1> HIDE DEF v
<1>6. LET o == dvmBoxPrimitive(dstType, v)
      IN o \in Objects /\ o.class = dstType /\ Content(o) = v
  BY <1>2, BoxHoldsValue
<1> QED  BY <1>1, <1>3, <1>5, <1>6, BoxedAsKeeps DEF v

LEMMA BoxLongKeeps == ASSUME BoxingInv, BoxLong PROVE BoxingInv'
<1> DEFINE v == passed[Len(argObjects) + 1]
<1>1. Boxing /\ dstType = "J"  BY DEF BoxLong
<1>2. /\ dstType \in Letters /\ v \in Values(dstType) /\ srcIndex \in Nat
      /\ \A j \in 1 .. Len(v) : args(srcIndex + j - 1) = v[j]
  BY <1>1, AtTheArgument
<1>3. Len(v) = 2 /\ v = <<v[1], v[2]>>  BY <1>1, <1>2, ValuesAreWords
<1>4. args(srcIndex) = v[1] /\ args(srcIndex + 1) = v[2]
  <2>1. args(srcIndex + 1 - 1) = v[1] /\ srcIndex + 1 - 1 = srcIndex  BY <1>2, <1>3
  <2>2. args(srcIndex + 2 - 1) = v[2] /\ srcIndex + 2 - 1 = srcIndex + 1  BY <1>2, <1>3
  <2> QED  BY <2>1, <2>2
<1>5. BoxedAs(dvmBoxPrimitive(dstType, v), 2)
  BY <1>1, <1>3, <1>4 DEF BoxLong, dvmGetArgLong
<1> HIDE DEF v
<1>6. LET o == dvmBoxPrimitive(dstType, v)
      IN o \in Objects /\ o.class = dstType /\ Content(o) = v
  BY <1>2, BoxHoldsValue
<1> QED  BY <1>1, <1>3, <1>5, <1>6, BoxedAsKeeps DEF v

LEMMA BoxReferenceKeeps == ASSUME BoxingInv, BoxReference PROVE BoxingInv'
<1> DEFINE v == passed[Len(argObjects) + 1]
<1>1. Boxing /\ dstType = "L"  BY DEF BoxReference
<1>2. /\ dstType \in Letters /\ v \in Values(dstType) /\ srcIndex \in Nat
      /\ \A j \in 1 .. Len(v) : args(srcIndex + j - 1) = v[j]
  BY <1>1, AtTheArgument
<1>3. Len(v) = 1 /\ v = <<v[1]>>  BY <1>1, <1>2, ValuesAreWords
<1>4. args(srcIndex) = v[1]
  <2>1. args(srcIndex + 1 - 1) = v[1] /\ srcIndex + 1 - 1 = srcIndex  BY <1>2, <1>3
  <2> QED  BY <2>1
<1> HIDE DEF v
<1>5. dvmBoxPrimitive("L", v) = Box("L", v)  BY <1>1, <1>2, ReferencesAreBoxed
<1>6. LET o == dvmBoxPrimitive(dstType, v)
      IN o \in Objects /\ o.class = dstType /\ Content(o) = v
  BY <1>2, BoxHoldsValue
<1>7. BoxedAs(dvmBoxPrimitive(dstType, v), 1)  BY <1>1, <1>3, <1>4, <1>5 DEF BoxReference
<1> QED  BY <1>1, <1>3, <1>6, <1>7, BoxedAsKeeps DEF v

LEMMA CallHandlerKeeps == ASSUME BoxingInv, CallHandler PROVE BoxingInv'
<1> USE DEF BoxingInv
<1>1. boxPc = "box" /\ boxPc' = "call"  BY DEF CallHandler
<1>2. BoxingTypeOK'  BY <1>1 DEF BoxingTypeOK, CallHandler
<1>3. RegistersInv'
  <2>1. PICK at : Laid(at) /\ srcIndex = at[Len(argObjects) + 1]
    BY <1>1 DEF RegistersInv, Passing, InHandler
  <2>2. Laid(at)' /\ srcIndex' = at[Len(argObjects') + 1]
    BY <2>1 DEF Laid, argsindex, CallHandler
  <2>3. \E x : Laid(x)' /\ (InHandler' => srcIndex' = x[Len(argObjects') + 1])  BY <2>2
  <2>4. Passing' /\ Passing  BY <1>1 DEF Passing
  <2> QED  BY <2>3, <2>4 DEF RegistersInv, CallHandler
<1>4. BoxedInv'  BY <1>1 DEF BoxedInv, CallHandler, InHandler, Content
<1>5. ResultIsReturned'  BY <1>1 DEF ResultIsReturned
<1> QED  BY <1>2, <1>3, <1>4, <1>5

\* The registers are empty while the callback is at work and until the invoker goes on.
LEMMA EmptyKeeps ==
    ASSUME ~ Passing', shorty' = <<>>, passed' = <<>>, ins' = <<>>, argObjects' = <<>>
    PROVE  RegistersInv' /\ BoxedInv'
<1>1. ~ InHandler' /\ boxPc' # "call"  BY DEF InHandler, Passing
<1>2. Len(argObjects') = 0 /\ Len(shorty') = 0  OBVIOUS
<1>3. passed' \in Seq(Seq(Word))  OBVIOUS
<1> QED  BY <1>1, <1>2, <1>3 DEF RegistersInv, BoxedInv

LEMMA HandleHookedMethodKeeps == ASSUME BoxingInv, HandleHookedMethod PROVE BoxingInv'
<1> USE DEF BoxingInv
<1>1. ~ Passing' /\ boxPc' = "handling"  BY DEF Passing, HandleHookedMethod
<1>2. RegistersInv' /\ BoxedInv'  BY <1>1, EmptyKeeps DEF HandleHookedMethod
<1>3. BoxingTypeOK'
  <2>1. Len(shorty') = 0 /\ Len(passed') = 0 /\ Len(ins') = 0 /\ DOMAIN passed' = {}
    BY DEF HandleHookedMethod
  <2>2. shorty' \in Seq(Letters) /\ ins' \in Seq(Word) /\ argObjects' \in Seq(Objects)
    BY DEF HandleHookedMethod
  <2> QED  BY <1>1, <2>1, <2>2, BoxingAssumption DEF BoxingTypeOK, HandleHookedMethod
<1>4. ResultIsReturned'  BY <1>1 DEF ResultIsReturned
<1> QED  BY <1>2, <1>3, <1>4

\* What finds the registers empty leaves them so.
LEMMA FinishedKeeps ==
    ASSUME BoxingInv, Finished, returns' \in Letters \cup {"V"}, handled' \in Objects \cup {None},
           pResult' \in Seq(Word), pending' \in Exceptions
    PROVE  BoxingTypeOK' /\ RegistersInv' /\ BoxedInv'
<1> USE DEF BoxingInv
<1>1. ~ Passing /\ ~ Passing' /\ ~ InHandler  BY DEF Finished, Passing, InHandler
<1>2. shorty' = <<>> /\ passed' = <<>> /\ ins' = <<>> /\ argObjects' = <<>>
  BY <1>1 DEF RegistersInv, BoxedInv, Finished
<1>3. RegistersInv' /\ BoxedInv'  BY <1>1, <1>2, EmptyKeeps
<1>4. BoxingTypeOK'  BY DEF BoxingTypeOK, Finished
<1> QED  BY <1>3, <1>4

LEMMA CallbackThrewKeeps == ASSUME BoxingInv, CallbackThrew PROVE BoxingInv'
<1>1. handled' \in Objects \cup {None} /\ pResult' \in Seq(Word) /\ pending' \in Exceptions
  BY DEF CallbackThrew, BoxingInv, BoxingTypeOK, Exceptions
<1>2. Finished /\ returns' \in Letters \cup {"V"} /\ pending' = "callback"  BY DEF CallbackThrew
<1>3. ResultIsReturned'  BY <1>2 DEF ResultIsReturned
<1> QED  BY <1>1, <1>2, <1>3, FinishedKeeps DEF BoxingInv

LEMMA UnboxKeeps ==
    ASSUME BoxingInv, NEW c \in Letters \cup {"V"}, NEW o \in Objects \cup {None}, Unbox(o, c)
    PROVE  BoxingInv'
<1>1. Finished /\ returns' = c /\ handled' = o /\ pResult' = ResultOf(o, c)[1]
      /\ pending' = ResultOf(o, c)[2]
  BY DEF Unbox
<1>2. CASE pending' # "none" \/ c = "V"
  <2>1. pResult' \in Seq(Word) /\ pending' \in Exceptions
    <3>1. pResult \in Seq(Word)  BY DEF BoxingInv, BoxingTypeOK
    <3>2. <<Null>> \in Seq(Word)
      <4>1. Null \in Word  BY Widths DEF Null
      <4> QED  BY <4>1
    <3>3. CASE c = "V"
      <4>1. ResultOf(o, c) = <<pResult, "none">>  BY <3>3 DEF ResultOf
      <4> QED  BY <1>1, <3>1, <4>1 DEF Exceptions
    <3>4. CASE c # "V" /\ o = None
      <4>1. ResultOf(o, c) = <<<<Null>>, IF c # "L" THEN "NullPointerException" ELSE "none">>
        BY <3>4 DEF ResultOf
      <4> QED  BY <1>1, <3>2, <4>1 DEF Exceptions
    <3>5. CASE c # "V" /\ o # None
      <4>1. CASE dvmUnboxPrimitive(o, c)
        <5>1. ResultOf(o, c)[2] = "none"  BY <3>5, <4>1 DEF ResultOf
        <5> QED  BY <1>1, <1>2, <3>5, <5>1
      <4>2. CASE ~ dvmUnboxPrimitive(o, c)
        <5>1. ResultOf(o, c) = <<pResult, "ClassCastException">>
          BY <3>5, <4>2 DEF ResultOf
        <5> QED  BY <1>1, <3>1, <5>1 DEF Exceptions
      <4> QED  BY <4>1, <4>2
    <3> QED  BY <3>3, <3>4, <3>5
  <2>2. ResultIsReturned'  BY <1>1, <1>2 DEF ResultIsReturned
  <2> QED  BY <1>1, <2>1, <2>2, FinishedKeeps DEF BoxingInv
<1>3. CASE pending' = "none" /\ c # "V"
  <2>1. c \in Letters /\ ResultOf(o, c)[2] = "none"  BY <1>1, <1>3
  <2>2. /\ pResult' \in Seq(Word)
        /\ pResult' \in Values(c) \/ c = "L"
        /\ o.class = c => pResult' = Content(o)
        /\ o = None => c = "L" /\ pResult' = <<Null>>
    BY <1>1, <2>1, UnboxedResult
  <2>3. ResultIsReturned'  BY <1>1, <2>2 DEF ResultIsReturned
  <2>4. pending' \in Exceptions  BY <1>3 DEF Exceptions
  <2> QED  BY <1>1, <2>2, <2>3, <2>4, FinishedKeeps DEF BoxingInv
<1> QED  BY <1>2, <1>3

LEMMA TakeResultKeeps == ASSUME BoxingInv, TakeResult PROVE BoxingInv'
<1> USE DEF BoxingInv
<1>1. ~ Passing /\ ~ InHandler /\ boxPc' = "pass"  BY DEF TakeResult, Passing, InHandler
<1>2. shorty' = <<>> /\ passed' = <<>> /\ argObjects' = <<>> /\ ins = <<>>
  BY <1>1 DEF RegistersInv, BoxedInv, TakeResult
<1>3. ins' \in Seq(Word) /\ (~ isStatic' => ins' # <<>> /\ ins'[1] \in References)
      /\ Len(ins') = argsindex'
  <2>1. CASE isStatic'  BY <2>1 DEF argsindex, TakeResult
  <2>2. CASE ~ isStatic'
    <3>1. PICK r \in References : ins' = <<r>>  BY <2>2 DEF TakeResult
    <3>2. r \in Word  BY <3>1, BoxingAssumption, Widths DEF Word
    <3> QED  BY <2>2, <3>1, <3>2 DEF argsindex
  <2> QED  BY <2>1, <2>2
<1>4. Len(ins') \in Nat  BY <1>3, LenProperties
<1>5. BoxingTypeOK'
  <2>1. Len(shorty') = 0 /\ Len(passed') = 0 /\ DOMAIN passed' = {} /\ pResult' = <<>>
    BY <1>2 DEF TakeResult
  <2>2. shorty' \in Seq(Letters) /\ argObjects' \in Seq(Objects) /\ pResult' \in Seq(Word)
    BY <1>2, <2>1
  <2>3. srcIndex' = 0 /\ srcIndex' \in 0 .. Len(ins')
    <3>1. srcIndex \in 0 .. Len(ins) /\ Len(ins) = 0  BY <1>2 DEF BoxingTypeOK
    <3> QED  BY <1>4, <3>1 DEF TakeResult
  <2>4. /\ isStatic' \in BOOLEAN /\ returns' = "V" /\ handled' = None /\ pending' = "none"
        /\ thisObject' \in References \cup {Null}
    BY DEF TakeResult, BoxingTypeOK
  <2> QED  BY <1>1, <1>3, <2>1, <2>2, <2>3, <2>4, BoxingAssumption DEF BoxingTypeOK, Exceptions
<1>60. PICK at : at = [k \in 1 .. 1 |-> Len(ins')]  OBVIOUS
<1>6. Laid(at)'
  <2>1. Len(shorty') = 0  BY <1>2
  <2>2. at[1] = Len(ins') /\ at \in [1 .. 1 -> Nat]  BY <1>4, <1>60
  <2>3. 1 .. (Len(shorty') + 1) = 1 .. 1 /\ 1 .. Len(shorty') = {} /\ Len(shorty') + 1 = 1
    BY <2>1
  <2>4. \A k \in 1 .. 1 : at[k] <= Len(ins')
    <3> SUFFICES ASSUME NEW k \in 1 .. 1 PROVE at[k] <= Len(ins')  OBVIOUS
    <3>1. k = 1  OBVIOUS
    <3> QED  BY <1>4, <2>2, <3>1
  <2> QED  BY <1>3, <2>2, <2>3, <2>4 DEF Laid
<1>7. RegistersInv'
  <2>1. passed' \in Seq(Seq(Word))  BY <1>2
  <2>2. Passing' /\ ~ InHandler'  BY <1>1 DEF Passing, InHandler
  <2>3. \E x : Laid(x)'  BY <1>6
  <2> QED  BY <1>3, <2>1, <2>2, <2>3 DEF RegistersInv
<1>8. BoxedInv'
  <2>1. Len(argObjects') = 0 /\ Len(shorty') = 0 /\ ~ InHandler' /\ boxPc' # "call"
    BY <1>1, <1>2 DEF InHandler
  <2> QED  BY <1>2, <2>1 DEF BoxedInv
<1>9. ResultIsReturned'  BY <1>1 DEF ResultIsReturned
<1> QED  BY <1>5, <1>7, <1>8, <1>9

LEMMA BoxingStep == ASSUME BoxingInv, [BoxingNext]_boxingVars PROVE BoxingInv'
<1>1. ASSUME NEW c \in Letters, NEW v \in Values(c), Pass(c, v) PROVE BoxingInv'
  BY <1>1, PassKeeps
<1>2. ASSUME NEW c \in Letters \cup {"V"}, NEW o \in Objects \cup {None}, Unbox(o, c)
      PROVE  BoxingInv'
  BY <1>2, UnboxKeeps
<1>3. CASE UNCHANGED boxingVars
  <2> USE <1>3 DEF boxingVars
  <2>1. BoxingTypeOK'  BY DEF BoxingInv, BoxingTypeOK
  <2>2. RegistersInv'
    <3>1. ASSUME NEW at, Laid(at) PROVE Laid(at)'  BY <3>1 DEF Laid, argsindex
    <3>2. ASSUME Passing PROVE \E at : Laid(at)' /\ (InHandler' => srcIndex' = at[Len(argObjects') + 1])
      <4>1. PICK at : Laid(at) /\ (InHandler => srcIndex = at[Len(argObjects) + 1])
        BY <3>2 DEF BoxingInv, RegistersInv
      <4> QED  BY <3>1, <4>1 DEF InHandler
    <3> QED  BY <3>2 DEF BoxingInv, RegistersInv, Passing
  <2>3. BoxedInv' /\ ResultIsReturned'
    BY DEF BoxingInv, BoxedInv, ResultIsReturned, InHandler, Content
  <2> QED  BY <2>1, <2>2, <2>3 DEF BoxingInv
<1>4. CASE methodHookHandler  BY <1>4, MethodHookHandlerKeeps
<1>5. CASE BoxWord  BY <1>5, BoxWordKeeps
<1>6. CASE BoxLong  BY <1>6, BoxLongKeeps
<1>7. CASE BoxReference  BY <1>7, BoxReferenceKeeps
<1>8. CASE CallHandler  BY <1>8, CallHandlerKeeps
<1>9. CASE HandleHookedMethod  BY <1>9, HandleHookedMethodKeeps
<1>10. CASE CallbackThrew  BY <1>10, CallbackThrewKeeps
<1>11. CASE TakeResult  BY <1>11, TakeResultKeeps
<1> QED
  BY <1>1, <1>2, <1>3, <1>4, <1>5, <1>6, <1>7, <1>8, <1>9, <1>10, <1>11 DEF BoxingNext

LEMMA BoxingInvariant == BoxingSpec => []BoxingInv
<1>1. BoxingInit => BoxingInv  BY BoxingInitInv
<1>2. BoxingInv /\ [BoxingNext]_boxingVars => BoxingInv'  BY BoxingStep
<1> QED  BY <1>1, <1>2, PTL DEF BoxingSpec

\* Proxy.cpp: the handler's locals, the registers it reads and the result it leaves stay
\* of their types, with any registers, bytes and number of parameters.
THEOREM BoxingTypeCorrect == BoxingSpec => []BoxingTypeOK
<1>1. BoxingInv => BoxingTypeOK  BY DEF BoxingInv
<1> QED  BY <1>1, BoxingInvariant, PTL

\* Proxy.cpp:84-161, 163-199: the callback sees the call that was made and the invoker
\* what the callback returned, for methods of any number of parameters of any types.
THEOREM CallIsSeen == BoxingSpec => []CallSeen
<1>1. BoxingInv => CallSeen  BY BoxingInvImplies
<1> QED  BY <1>1, BoxingInvariant, PTL

-----------------------------------------------------------------------------
(* DexImage.                                                                *)

NumberAt(place, n) == place \in Nat /\ place < Len(image) /\ image[place + 1] = n

\* Where the items that have been written lie.
StringAt(off, idx) ==
    \/ NumberAt(off, 5) /\ NumberAt(off + 1, Text(idx))
    \/ NumberAt(off, 200) /\ NumberAt(off + 1, 1) /\ NumberAt(off + 2, Text(idx))

ListAt(l) ==
    /\ NumberAt(l.off, Len(l.types))
    /\ \A i \in 1 .. Len(l.types) : NumberAt(l.off + 4 + 2 * (i - 1), l.types[i])

SetAt(s) ==
    /\ NumberAt(s.off, 1)
    /\ \E item \in Nat : NumberAt(s.off + 4, item) /\ NumberAt(item + 1, s.annotation)

RefsAt(r) == NumberAt(r.off, 2) /\ NumberAt(r.off + 4, r.refs[1]) /\ NumberAt(r.off + 8, r.refs[2])

DirectoryWords(d) ==
    <<d.class, Len(d.fields), Len(d.methods), Len(d.parameters)>>
      \o Items(d.fields) \o Items(d.methods) \o Items(d.parameters)

DirectoryAt(d) ==
    \A j \in 1 .. Len(DirectoryWords(d)) : NumberAt(d.off + 4 * (j - 1), DirectoryWords(d)[j])

CodeAt(c) ==
    \E n, t \in Nat :
       /\ c.off \in Nat /\ c.off % 4 = 0
       /\ c.tries = Aligned(c.off + 16 + 2 * n)
       /\ c.handlers = c.tries + 8 * t /\ c.debug = c.handlers + 1
       /\ NumberAt(c.off + 6, t) /\ NumberAt(c.off + 8, c.debug) /\ NumberAt(c.off + 12, n)
       /\ NumberAt(c.handlers, 77) /\ NumberAt(c.debug, 88)

ListRecord == [off : Nat \ {0}, types : Seq(Int)]
SetRecord == [off : Nat \ {0}, annotation : Int]
RefsRecord == [off : Nat \ {0}, refs : Int \X Int]
DirectoryRecord == [off : Nat \ {0}, class : Int, fields : Seq(Int), methods : Seq(Int),
                    parameters : Seq(Int)]
ClassDef == [classIdx : Nat, superclassIdx : Nat, interfacesOff : Nat, sourceFileIdx : Int,
             annotationsOff : Nat]

\* Later items are appended, and the tables filled in order.
SectionsInv ==
    /\ image \in Seq(Int) /\ Len(image) > 0
    /\ refLists # <<>> => section \in {"directory", "classes", "done"}
    /\ pClassDefs # <<>> => section = "done"
    /\ classes = pClassDefs

StringsInv ==
    /\ pStringIds \in Seq([stringDataOff : Nat])
    /\ \A i \in 1 .. Len(pStringIds) : StringAt(pStringIds[i].stringDataOff, i - 1)
    /\ pTypeIds \in Seq([descriptorIdx : Nat])
    /\ \A i \in 1 .. Len(pTypeIds) : pTypeIds[i].descriptorIdx < Len(pStringIds)

ListsInv ==
    /\ lists \in Seq(ListRecord)
    /\ \A k \in 1 .. Len(lists) : ListAt(lists[k])
    /\ pProtoIds \in Seq([returnTypeIdx : Nat, parametersOff : Nat])
    /\ \A k \in 1 .. Len(pProtoIds) : pProtoIds[k].parametersOff \in ListOffs
    /\ pMethodIds \in Seq([classIdx : Nat, protoIdx : Nat, nameIdx : Nat])
    /\ \A k \in 1 .. Len(pMethodIds) : pMethodIds[k].protoIdx < Len(pProtoIds)

SetsInv ==
    /\ sets \in Seq(SetRecord)
    /\ \A k \in 1 .. Len(sets) : SetAt(sets[k])
    /\ refLists \in Seq(RefsRecord) /\ Len(refLists) <= 1
    /\ \A k \in 1 .. Len(refLists) : RefsAt(refLists[k])

DirectoryInv ==
    /\ directory \in Seq(DirectoryRecord)
    /\ \A k \in 1 .. Len(directory) :
         LET d == directory[k] IN
         /\ DirectoryAt(d)
         /\ d.class \in {0} \cup Offs(sets)
         /\ \A i \in 1 .. Len(d.fields) : d.fields[i] \in Offs(sets)
         /\ \A i \in 1 .. Len(d.methods) : d.methods[i] \in Offs(sets)
         /\ \A i \in 1 .. Len(d.parameters) : d.parameters[i] \in Offs(refLists)

CodesInv == \E n \in Nat : DOMAIN codes = 1 .. n /\ \A k \in 1 .. n : CodeAt(codes[k])

ClassesInv ==
    /\ pClassDefs \in Seq(ClassDef)
    /\ \A k \in 1 .. Len(pClassDefs) :
         LET c == pClassDefs[k] IN
         /\ c.classIdx < Len(pTypeIds) /\ c.superclassIdx < Len(pTypeIds)
         /\ c.interfacesOff \in ListOffs
         /\ c.sourceFileIdx = kDexNoIndex \/ c.sourceFileIdx \in 0 .. (Len(pStringIds) - 1)
         /\ c.annotationsOff = IF directory = <<>> THEN 0 ELSE directory[1].off

DexInv == SectionsInv /\ StringsInv /\ ListsInv /\ SetsInv /\ DirectoryInv /\ CodesInv /\ ClassesInv

-----------------------------------------------------------------------------
(* Bytes and numbers.                                                       *)

\* u2 puts each number into the first of two bytes.
LEMMA TwoBytes ==
    ASSUME NEW ns \in Seq(Int)
    PROVE  /\ u2(ns) \in Seq(Int) /\ Len(u2(ns)) = 2 * Len(ns)
           /\ \A j \in 1 .. Len(ns) : u2(ns)[2 * j - 1] = ns[j]
<1> DEFINE n == 2 * Len(ns)
<1>1. n \in Nat /\ Len(ns) \in Nat  OBVIOUS
<1>2. ASSUME NEW p \in 1 .. n PROVE (IF p % 2 = 1 THEN ns[(p + 1) \div 2] ELSE Rest) \in Int
  <2>1. p % 2 = 1 => (p + 1) \div 2 \in 1 .. Len(ns)  OBVIOUS
  <2>2. \A k \in 1 .. Len(ns) : ns[k] \in Int  OBVIOUS
  <2> QED  BY <2>1, <2>2 DEF Rest
<1>3. u2(ns) \in [1 .. n -> Int]  BY <1>2 DEF u2
<1>4. u2(ns) \in Seq(Int) /\ Len(u2(ns)) = n  BY <1>1, <1>3
<1>5. ASSUME NEW j \in 1 .. Len(ns) PROVE u2(ns)[2 * j - 1] = ns[j]
  <2>1. 2 * j - 1 \in 1 .. n /\ (2 * j - 1) % 2 = 1 /\ ((2 * j - 1) + 1) \div 2 = j  OBVIOUS
  <2> QED  BY <2>1 DEF u2
<1> QED  BY <1>4, <1>5

\* u4 puts each number into the first of four bytes.
LEMMA FourBytes ==
    ASSUME NEW ns \in Seq(Int)
    PROVE  /\ u4(ns) \in Seq(Int) /\ Len(u4(ns)) = 4 * Len(ns)
           /\ \A j \in 1 .. Len(ns) : u4(ns)[4 * j - 3] = ns[j]
<1> DEFINE n == 4 * Len(ns)
<1>1. n \in Nat /\ Len(ns) \in Nat  OBVIOUS
<1>2. ASSUME NEW p \in 1 .. n PROVE (IF p % 4 = 1 THEN ns[(p + 3) \div 4] ELSE Rest) \in Int
  <2>1. p % 4 = 1 => (p + 3) \div 4 \in 1 .. Len(ns)  OBVIOUS
  <2>2. \A k \in 1 .. Len(ns) : ns[k] \in Int  OBVIOUS
  <2> QED  BY <2>1, <2>2 DEF Rest
<1>3. u4(ns) \in [1 .. n -> Int]  BY <1>2 DEF u4
<1>4. u4(ns) \in Seq(Int) /\ Len(u4(ns)) = n  BY <1>1, <1>3
<1>5. ASSUME NEW j \in 1 .. Len(ns) PROVE u4(ns)[4 * j - 3] = ns[j]
  <2>1. 4 * j - 3 \in 1 .. n /\ (4 * j - 3) % 4 = 1 /\ ((4 * j - 3) + 3) \div 4 = j  OBVIOUS
  <2> QED  BY <2>1 DEF u4
<1> QED  BY <1>4, <1>5

\* Filler is that many bytes.
LEMMA FillerBytes ==
    ASSUME NEW n \in Nat
    PROVE  Filler(n) \in Seq(Int) /\ Len(Filler(n)) = n
<1>1. Filler(n) \in [1 .. n -> Int]  BY DEF Filler, Rest
<1> QED  BY <1>1

\* The next multiple of four: what DexFile.h and dx align to.
LEMMA AlignedAddress ==
    ASSUME NEW place \in Nat
    PROVE  Aligned(place) \in Nat /\ Aligned(place) % 4 = 0 /\ place <= Aligned(place)
           /\ Aligned(place) <= place + 3
BY DEF Aligned

\* What two sequences one behind the other have where.
LEMMA Concatenated ==
    ASSUME NEW s \in Seq(Int), NEW t \in Seq(Int)
    PROVE  /\ s \o t \in Seq(Int) /\ Len(s \o t) = Len(s) + Len(t)
           /\ \A i \in 1 .. Len(s) : (s \o t)[i] = s[i]
           /\ \A i \in 1 .. Len(t) : (s \o t)[Len(s) + i] = t[i]
<1>1. /\ s \o t \in Seq(Int) /\ Len(s \o t) = Len(s) + Len(t)
      /\ \A i \in 1 .. (Len(s) + Len(t)) : (s \o t)[i] = IF i <= Len(s) THEN s[i] ELSE t[i - Len(s)]
  BY ConcatProperties
<1>2. Len(s) \in Nat /\ Len(t) \in Nat  OBVIOUS
<1>3. ASSUME NEW i \in 1 .. Len(t) PROVE (s \o t)[Len(s) + i] = t[i]
  <2>1. PICK m : m = Len(s) + i  OBVIOUS
  <2>2. m \in 1 .. (Len(s) + Len(t)) /\ ~ (m <= Len(s)) /\ m - Len(s) = i  BY <1>2, <2>1
  <2> QED  BY <1>1, <2>1, <2>2
<1>4. ASSUME NEW i \in 1 .. Len(s) PROVE (s \o t)[i] = s[i]
  <2>1. i \in 1 .. (Len(s) + Len(t)) /\ i <= Len(s)  BY <1>2
  <2> QED  BY <1>1, <2>1
<1> QED  BY <1>1, <1>3, <1>4

-----------------------------------------------------------------------------
(* What is appended, and that what was there stays.                         *)

Grows ==
    /\ image' \in Seq(Int) /\ Len(image) <= Len(image')
    /\ \A a \in 1 .. Len(image) : image'[a] = image[a]

\* Appending changes no number that has been written.
LEMMA WordStays ==
    ASSUME image \in Seq(Int), Grows, NEW place, NEW n, NumberAt(place, n)
    PROVE  NumberAt(place, n)'
<1>1. place \in Nat /\ place < Len(image) /\ image[place + 1] = n  BY DEF NumberAt
<1>2. Len(image) \in Nat /\ Len(image') \in Nat  BY DEF Grows
<1>3. place + 1 \in 1 .. Len(image) /\ place < Len(image')  BY <1>1, <1>2 DEF Grows
<1>4. image'[place + 1] = n  BY <1>1, <1>3 DEF Grows
<1> QED  BY <1>1, <1>3, <1>4 DEF NumberAt

\* AppendAt writes its bytes at the place it is given and leaves the others.
LEMMA AppendGrows ==
    ASSUME image \in Seq(Int), NEW place \in Nat, Len(image) <= place, NEW bytes \in Seq(Int),
           AppendAt(place, bytes)
    PROVE  Grows /\ \A k \in 1 .. Len(bytes) : NumberAt(place + k - 1, bytes[k])'
<1> DEFINE n == place - Len(image)
           front == image \o Filler(n)
<1>1. n \in Nat /\ Len(image) \in Nat /\ Len(bytes) \in Nat  OBVIOUS
<1>2. Filler(n) \in Seq(Int) /\ Len(Filler(n)) = n  BY <1>1, FillerBytes
<1>3. /\ front \in Seq(Int) /\ Len(front) = place
      /\ \A i \in 1 .. Len(image) : front[i] = image[i]
  <2>1. front \in Seq(Int) /\ Len(front) = Len(image) + Len(Filler(n))
        /\ \A i \in 1 .. Len(image) : front[i] = image[i]
    BY <1>2, Concatenated
  <2>2. Len(image) + n = place  BY <1>1
  <2> QED  BY ONLY <1>2, <2>1, <2>2
<1>4. image' = front \o bytes  BY DEF AppendAt
<1> HIDE DEF front
<1>5. /\ image' \in Seq(Int) /\ Len(image') = place + Len(bytes)
      /\ \A i \in 1 .. place : image'[i] = front[i]
      /\ \A i \in 1 .. Len(bytes) : image'[place + i] = bytes[i]
  <2>1. /\ front \o bytes \in Seq(Int) /\ Len(front \o bytes) = Len(front) + Len(bytes)
        /\ \A i \in 1 .. Len(front) : (front \o bytes)[i] = front[i]
        /\ \A i \in 1 .. Len(bytes) : (front \o bytes)[Len(front) + i] = bytes[i]
    BY <1>3, Concatenated
  <2> QED  BY <1>3, <1>4, <2>1
<1>6. Grows
  <2>1. Len(image) <= Len(image')  BY <1>1, <1>5
  <2>2. ASSUME NEW a \in 1 .. Len(image) PROVE image'[a] = image[a]
    <3>1. a \in 1 .. place  BY <1>1
    <3> QED  BY <1>3, <1>5, <3>1
  <2> QED  BY <1>5, <2>1, <2>2 DEF Grows
<1>7. ASSUME NEW k \in 1 .. Len(bytes) PROVE NumberAt(place + k - 1, bytes[k])'
  <2>1. /\ place + k - 1 \in Nat /\ place + k - 1 < place + Len(bytes)
        /\ (place + k - 1) + 1 = place + k
    BY <1>1
  <2>2. image'[(place + k - 1) + 1] = bytes[k]  BY <1>5, <2>1
  <2> QED  BY <1>5, <2>1, <2>2 DEF NumberAt
<1> QED  BY <1>6, <1>7

\* An item that stands in the image stands in the longer one.
LEMMA ItemsStay ==
    ASSUME image \in Seq(Int), Grows
    PROVE  /\ \A off, idx : StringAt(off, idx) => StringAt(off, idx)'
           /\ \A l : ListAt(l) => ListAt(l)'
           /\ \A s : SetAt(s) => SetAt(s)'
           /\ \A r : RefsAt(r) => RefsAt(r)'
           /\ \A d : DirectoryAt(d) => DirectoryAt(d)'
           /\ \A c : CodeAt(c) => CodeAt(c)'
<1>1. \A place, n : NumberAt(place, n) => NumberAt(place, n)'  BY WordStays
<1>2. \A off, idx : StringAt(off, idx) => StringAt(off, idx)'  BY <1>1 DEF StringAt
<1>3. \A l : ListAt(l) => ListAt(l)'  BY <1>1 DEF ListAt
<1>4. \A s : SetAt(s) => SetAt(s)'  BY <1>1 DEF SetAt
<1>5. \A r : RefsAt(r) => RefsAt(r)'  BY <1>1 DEF RefsAt
<1>6. \A d : DirectoryAt(d) => DirectoryAt(d)'  BY <1>1 DEF DirectoryAt
<1>7. \A c : CodeAt(c) => CodeAt(c)'  BY <1>1 DEF CodeAt
<1> QED  BY <1>2, <1>3, <1>4, <1>5, <1>6, <1>7

\* A part of the invariant outlasts the steps that leave its items alone, whatever they append.
LEMMA PartsStay ==
    ASSUME DexInv, Grows
    PROVE  /\ UNCHANGED <<pStringIds, pTypeIds>> => StringsInv'
           /\ UNCHANGED <<lists, pProtoIds, pMethodIds>> => ListsInv'
           /\ UNCHANGED <<sets, refLists>> => SetsInv'
           /\ UNCHANGED <<directory, sets, refLists>> => DirectoryInv'
           /\ UNCHANGED codes => CodesInv'
           /\ UNCHANGED <<pClassDefs, pTypeIds, lists, pStringIds, directory>> => ClassesInv'
           /\ image' \in Seq(Int) /\ Len(image') > 0
<1>1. image \in Seq(Int) /\ Len(image) > 0  BY DEF DexInv, SectionsInv
<1>2. image' \in Seq(Int) /\ Len(image') > 0
  <2>1. Len(image) \in Nat /\ Len(image') \in Nat  BY <1>1 DEF Grows
  <2> QED  BY <1>1, <2>1 DEF Grows
<1>3. /\ \A off, idx : StringAt(off, idx) => StringAt(off, idx)'
      /\ \A l : ListAt(l) => ListAt(l)'
      /\ \A s : SetAt(s) => SetAt(s)'
      /\ \A r : RefsAt(r) => RefsAt(r)'
      /\ \A d : DirectoryAt(d) => DirectoryAt(d)'
      /\ \A c : CodeAt(c) => CodeAt(c)'
  BY <1>1, ItemsStay
<1>4. ASSUME UNCHANGED <<pStringIds, pTypeIds>> PROVE StringsInv'
  <2>1. ASSUME NEW i \in 1 .. Len(pStringIds) PROVE StringAt(pStringIds[i].stringDataOff, i - 1)'
    <3>1. PICK off : off = pStringIds[i].stringDataOff  OBVIOUS
    <3>2. StringAt(off, i - 1)  BY <3>1 DEF DexInv, StringsInv
    <3>3. StringAt(off, i - 1)'  BY <1>3, <3>2
    <3>4. pStringIds'[i].stringDataOff = off  BY <1>4, <3>1
    <3> QED  BY <3>3, <3>4 DEF StringAt, NumberAt
  <2> QED  BY <1>4, <2>1 DEF DexInv, StringsInv
<1>5. ASSUME UNCHANGED <<lists, pProtoIds, pMethodIds>> PROVE ListsInv'
  <2>1. ASSUME NEW k \in 1 .. Len(lists) PROVE ListAt(lists[k])'
    <3>1. PICK l : l = lists[k]  OBVIOUS
    <3>2. ListAt(l)  BY <3>1 DEF DexInv, ListsInv
    <3>3. ListAt(l)' /\ lists'[k] = l  BY <1>3, <1>5, <3>1, <3>2
    <3> QED  BY <3>3 DEF ListAt, NumberAt
  <2>2. ListOffs' = ListOffs  BY <1>5 DEF ListOffs
  <2> QED  BY <1>5, <2>1, <2>2 DEF DexInv, ListsInv
<1>6. ASSUME UNCHANGED <<sets, refLists>> PROVE SetsInv'
  <2>1. ASSUME NEW k \in 1 .. Len(sets) PROVE SetAt(sets[k])'
    <3>1. PICK s : s = sets[k]  OBVIOUS
    <3>2. SetAt(s)  BY <3>1 DEF DexInv, SetsInv
    <3>3. SetAt(s)' /\ sets'[k] = s  BY <1>3, <1>6, <3>1, <3>2
    <3> QED  BY <3>3 DEF SetAt, NumberAt
  <2>2. ASSUME NEW k \in 1 .. Len(refLists) PROVE RefsAt(refLists[k])'
    <3>1. PICK r : r = refLists[k]  OBVIOUS
    <3>2. RefsAt(r)  BY <3>1 DEF DexInv, SetsInv
    <3>3. RefsAt(r)' /\ refLists'[k] = r  BY <1>3, <1>6, <3>1, <3>2
    <3> QED  BY <3>3 DEF RefsAt, NumberAt
  <2> QED  BY <1>6, <2>1, <2>2 DEF DexInv, SetsInv
<1>7. ASSUME UNCHANGED <<directory, sets, refLists>> PROVE DirectoryInv'
  <2>1. ASSUME NEW k \in 1 .. Len(directory) PROVE DirectoryAt(directory[k])'
    <3>1. PICK d : d = directory[k]  OBVIOUS
    <3>2. DirectoryAt(d)  BY <3>1 DEF DexInv, DirectoryInv
    <3>3. DirectoryAt(d)' /\ directory'[k] = d  BY <1>3, <1>7, <3>1, <3>2
    <3> QED  BY <3>3 DEF DirectoryAt, NumberAt
  <2>2. /\ directory' = directory /\ Offs(sets)' = Offs(sets) /\ Offs(refLists)' = Offs(refLists)
        /\ DirectoryInv
    BY <1>7 DEF DexInv, Offs
  <2>3. Offs(sets') = Offs(sets) /\ Offs(refLists') = Offs(refLists)  BY <2>2
  <2> QED  BY <2>1, <2>2, <2>3 DEF DirectoryInv
<1>8. ASSUME UNCHANGED codes PROVE CodesInv'
  <2>1. PICK n \in Nat : DOMAIN codes = 1 .. n /\ \A k \in 1 .. n : CodeAt(codes[k])
    BY DEF DexInv, CodesInv
  <2>2. ASSUME NEW k \in 1 .. n PROVE CodeAt(codes[k])'
    <3>1. PICK c : c = codes[k]  OBVIOUS
    <3>2. CodeAt(c)' /\ codes'[k] = c  BY <1>3, <1>8, <2>1, <3>1
    <3> QED  BY <3>2 DEF CodeAt, NumberAt
  <2>3. DOMAIN codes' = 1 .. n  BY <1>8, <2>1
  <2> QED  BY <2>2, <2>3 DEF CodesInv
<1>9. ASSUME UNCHANGED <<pClassDefs, pTypeIds, lists, pStringIds, directory>> PROVE ClassesInv'
  <2>1. ListOffs' = ListOffs  BY <1>9 DEF ListOffs
  <2> QED  BY <1>9, <2>1 DEF DexInv, ClassesInv
<1> QED  BY <1>2, <1>4, <1>5, <1>6, <1>7, <1>8, <1>9

\* What the provers need of tuples of numbers: they are sequences.
LEMMA Tuples ==
    /\ \A a \in Int : <<a>> \in Seq(Int) /\ Len(<<a>>) = 1 /\ <<a>>[1] = a
    /\ \A a, b \in Int : /\ <<a, b>> \in Seq(Int) /\ Len(<<a, b>>) = 2
                         /\ <<a, b>>[1] = a /\ <<a, b>>[2] = b
    /\ \A a, b, c \in Int : /\ <<a, b, c>> \in Seq(Int) /\ Len(<<a, b, c>>) = 3
                            /\ <<a, b, c>>[1] = a /\ <<a, b, c>>[2] = b /\ <<a, b, c>>[3] = c
    /\ \A a, b, c, d \in Int :
         /\ <<a, b, c, d>> \in Seq(Int) /\ Len(<<a, b, c, d>>) = 4
         /\ <<a, b, c, d>>[1] = a /\ <<a, b, c, d>>[2] = b
         /\ <<a, b, c, d>>[3] = c /\ <<a, b, c, d>>[4] = d
OBVIOUS

\* A function on 1 .. n is a sequence of length n.
LEMMA FunctionIsSeq ==
    ASSUME NEW S, NEW n \in Nat, NEW f \in [1 .. n -> S]
    PROVE  f \in Seq(S) /\ Len(f) = n
OBVIOUS

\* An element more at the end of a sequence.
LEMMA OneMore ==
    ASSUME NEW S, NEW s \in Seq(S), NEW e \in S
    PROVE  /\ Append(s, e) \in Seq(S) /\ Len(Append(s, e)) = Len(s) + 1
           /\ \A k \in 1 .. Len(s) : Append(s, e)[k] = s[k]
           /\ Append(s, e)[Len(s) + 1] = e
OBVIOUS

\* The header alone: no item is in the file yet.
LEMMA DexInitInv == DexInit => DexInv
<1> SUFFICES ASSUME DexInit PROVE DexInv  OBVIOUS
<1> USE DEF DexInit
<1>1. PICK ns \in Seq(Int) : ns = <<kDexNoIndex>> /\ Len(ns) = 1
  <2>1. PICK m \in Int : m = kDexNoIndex  BY DEF kDexNoIndex
  <2>2. <<m>> \in Seq(Int) /\ Len(<<m>>) = 1  BY ONLY m \in Int
  <2>3. <<m>> = <<kDexNoIndex>>  BY <2>1
  <2> QED  BY ONLY <2>2, <2>3
<1>2. image \in Seq(Int) /\ Len(image) > 0
  <2>1. image = u4(ns)  BY <1>1
  <2>2. u4(ns) \in Seq(Int) /\ Len(u4(ns)) = 4 * Len(ns)  BY FourBytes
  <2> QED  BY ONLY <1>1, <2>1, <2>2
<1>3. SectionsInv  BY <1>2 DEF SectionsInv
<1>4. StringsInv  BY EmptySeq DEF StringsInv
<1>5. ListsInv  BY EmptySeq DEF ListsInv
<1>6. SetsInv  BY EmptySeq DEF SetsInv
<1>7. DirectoryInv  BY EmptySeq DEF DirectoryInv
<1>8. DOMAIN codes = 1 .. 0 /\ \A k \in 1 .. 0 : CodeAt(codes[k])  OBVIOUS
<1>9. CodesInv  BY <1>8, 0 \in Nat DEF CodesInv
<1>10. ClassesInv  BY EmptySeq DEF ClassesInv
<1> QED  BY <1>3, <1>4, <1>5, <1>6, <1>7, <1>9, <1>10 DEF DexInv

-----------------------------------------------------------------------------
(* The steps of dx.                                                         *)

\* A string is written behind the others, with a length of one byte or of two.
LEMMA AddStringKeeps == DexInv /\ AddString => DexInv'
<1> SUFFICES ASSUME DexInv, AddString PROVE DexInv'  OBVIOUS
<1>0. image \in Seq(Int) /\ Len(image) \in Nat
      /\ pStringIds \in Seq([stringDataOff : Nat]) /\ Len(pStringIds) \in Nat
  BY DEF DexInv, SectionsInv, StringsInv
<1>1. PICK off \in Nat, n \in Nat : off = Len(image) /\ n = Len(pStringIds)  BY <1>0
<1>2. PICK length \in {<<5>>, <<200, 1>>} : AppendAt(off, u1(length \o <<Text(n), 0>>))
  BY <1>1 DEF AddString
<1>3. PICK text \in Int : text = Text(n)  BY DEF Text
<1>4. PICK bytes \in Seq(Int) :
        /\ AppendAt(off, bytes)
        /\ \/ Len(bytes) >= 2 /\ bytes[1] = 5 /\ bytes[2] = text
           \/ Len(bytes) >= 3 /\ bytes[1] = 200 /\ bytes[2] = 1 /\ bytes[3] = text
  <2>1. PICK rest \in Seq(Int) : rest = <<text, 0>> /\ Len(rest) = 2 /\ rest[1] = text
    <3>1. <<text, 0>> \in Seq(Int) /\ Len(<<text, 0>>) = 2 /\ <<text, 0>>[1] = text
      BY ONLY text \in Int, 0 \in Int, Tuples, Zenon
    <3> QED  BY <3>1, Zenon
  <2>2. length \in Seq(Int) /\ \/ Len(length) = 1 /\ length[1] = 5
                               \/ Len(length) = 2 /\ length[1] = 200 /\ length[2] = 1
    <3>1. <<5>> \in Seq(Int) /\ Len(<<5>>) = 1 /\ <<5>>[1] = 5
      BY ONLY 5 \in Int, Tuples, Zenon
    <3>2. <<200, 1>> \in Seq(Int) /\ Len(<<200, 1>>) = 2 /\ <<200, 1>>[1] = 200 /\ <<200, 1>>[2] = 1
      <4>1. PICK a \in Int, b \in Int : a = 200 /\ b = 1  OBVIOUS
      <4>2. a \in Int /\ b \in Int  OBVIOUS
      <4>3. <<a, b>> \in Seq(Int) /\ Len(<<a, b>>) = 2 /\ <<a, b>>[1] = a /\ <<a, b>>[2] = b
        BY ONLY <4>2, Tuples, Zenon
      <4> QED  BY ONLY <4>1, <4>3, Zenon
    <3> QED  BY <3>1, <3>2, Zenon
  <2>3. PICK bytes \in Seq(Int) : bytes = length \o rest  BY <2>2, Concatenated
  <2>4. /\ Len(bytes) = Len(length) + 2
        /\ \A i \in 1 .. Len(length) : bytes[i] = length[i]
        /\ \A i \in 1 .. 2 : bytes[Len(length) + i] = rest[i]
    <3>1. /\ Len(length \o rest) = Len(length) + Len(rest)
          /\ \A i \in 1 .. Len(length) : (length \o rest)[i] = length[i]
          /\ \A i \in 1 .. Len(rest) : (length \o rest)[Len(length) + i] = rest[i]
      BY <2>2, Concatenated
    <3> QED  BY <2>1, <2>3, <3>1
  <2>5. bytes[Len(length) + 1] = text  BY <2>1, <2>4
  <2>6. AppendAt(off, bytes)  BY <1>2, <1>3, <2>1, <2>3 DEF u1
  <2>7. CASE Len(length) = 1 /\ length[1] = 5
    <3>1. Len(bytes) = 3 /\ bytes[1] = 5 /\ bytes[2] = text  BY <2>4, <2>5, <2>7
    <3> QED  BY <2>6, <3>1
  <2>8. CASE Len(length) = 2 /\ length[1] = 200 /\ length[2] = 1
    <3>1. Len(bytes) = 4 /\ bytes[1] = 200 /\ bytes[2] = 1 /\ bytes[3] = text
      BY <2>4, <2>5, <2>8
    <3>2. Len(bytes) >= 3  BY <3>1
    <3> QED  BY <2>6, <3>1, <3>2
  <2> QED  BY <2>2, <2>7, <2>8
<1>5. Grows /\ \A k \in 1 .. Len(bytes) : NumberAt(off + k - 1, bytes[k])'
  BY <1>0, <1>1, <1>4, AppendGrows
<1>6. StringAt(off, n)'
  <2>1. CASE Len(bytes) >= 2 /\ bytes[1] = 5 /\ bytes[2] = text
    <3>1. 1 \in 1 .. Len(bytes) /\ 2 \in 1 .. Len(bytes)  BY <2>1
    <3>2. NumberAt(off + 1 - 1, 5)' /\ NumberAt(off + 2 - 1, text)'  BY <1>5, <2>1, <3>1
    <3>3. off + 1 - 1 = off /\ off + 2 - 1 = off + 1  OBVIOUS
    <3> QED  BY <1>3, <3>2, <3>3 DEF StringAt, NumberAt
  <2>2. CASE Len(bytes) >= 3 /\ bytes[1] = 200 /\ bytes[2] = 1 /\ bytes[3] = text
    <3>1. 1 \in 1 .. Len(bytes) /\ 2 \in 1 .. Len(bytes) /\ 3 \in 1 .. Len(bytes)  BY <2>2
    <3>2. NumberAt(off + 1 - 1, 200)' /\ NumberAt(off + 2 - 1, 1)' /\ NumberAt(off + 3 - 1, text)'
      BY <1>5, <2>2, <3>1
    <3>3. off + 1 - 1 = off /\ off + 2 - 1 = off + 1 /\ off + 3 - 1 = off + 2  OBVIOUS
    <3> QED  BY <1>3, <3>2, <3>3 DEF StringAt, NumberAt
  <2> QED  BY <1>4, <2>1, <2>2
<1>7. StringsInv'
  <2>1. pStringIds' = Append(pStringIds, [stringDataOff |-> off]) /\ pTypeIds' = pTypeIds
    BY <1>1 DEF AddString
  <2>2. [stringDataOff |-> off] \in [stringDataOff : Nat]  OBVIOUS
  <2>3. /\ pStringIds' \in Seq([stringDataOff : Nat]) /\ Len(pStringIds') = n + 1
        /\ \A k \in 1 .. n : pStringIds'[k] = pStringIds[k]
        /\ pStringIds'[n + 1] = [stringDataOff |-> off]
    BY <1>0, <1>1, <2>1, <2>2, OneMore
  <2>4. ASSUME NEW i \in 1 .. (n + 1) PROVE StringAt(pStringIds[i].stringDataOff, i - 1)'
    <3>1. CASE i = n + 1
      <4>1. i - 1 = n  BY <3>1
      <4>2. pStringIds'[i].stringDataOff = off  BY <2>3, <3>1
      <4> QED  BY <1>6, <4>1, <4>2 DEF StringAt, NumberAt
    <3>2. CASE i # n + 1
      <4>1. i \in 1 .. n  BY <3>2
      <4>2. PICK o : o = pStringIds[i].stringDataOff  OBVIOUS
      <4>3. StringAt(o, i - 1)  BY <1>1, <4>1, <4>2 DEF DexInv, StringsInv
      <4>4. StringAt(o, i - 1)'  BY <1>0, <1>5, <4>3, ItemsStay
      <4>5. pStringIds'[i].stringDataOff = o  BY <2>3, <4>1, <4>2
      <4> QED  BY <4>4, <4>5 DEF StringAt, NumberAt
    <3> QED  BY <3>1, <3>2
  <2>5. ASSUME NEW i \in 1 .. Len(pTypeIds) PROVE pTypeIds'[i].descriptorIdx < n + 1
    <3>0. pTypeIds \in Seq([descriptorIdx : Nat])  BY DEF DexInv, StringsInv
    <3>1. pTypeIds[i].descriptorIdx \in Nat  
      <4>1. pTypeIds[i] \in [descriptorIdx : Nat]  BY <3>0, ElementOfSeq
      <4> QED  BY <4>1
    <3>2. pTypeIds[i].descriptorIdx < n  BY <1>1 DEF DexInv, StringsInv
    <3> QED  BY <2>1, <3>1, <3>2
  <2>6. pTypeIds \in Seq([descriptorIdx : Nat])  BY DEF DexInv, StringsInv
  <2> QED  BY <2>1, <2>3, <2>4, <2>5, <2>6 DEF StringsInv
<1>8. section = "strings" /\ pClassDefs' = pClassDefs /\ classes' = classes /\ refLists' = refLists
      /\ lists' = lists /\ directory' = directory /\ pTypeIds' = pTypeIds
      /\ UNCHANGED <<pProtoIds, pMethodIds, sets, codes>>
  BY DEF AddString
<1>9. pClassDefs = <<>> /\ refLists = <<>> /\ classes = <<>>  BY <1>8 DEF DexInv, SectionsInv
<1>10. /\ ListsInv' /\ SetsInv' /\ DirectoryInv' /\ CodesInv'
       /\ image' \in Seq(Int) /\ Len(image') > 0
  BY <1>5, <1>8, PartsStay
<1>11. SectionsInv' /\ ClassesInv'  BY <1>8, <1>9, <1>10, EmptySeq DEF SectionsInv, ClassesInv
<1> QED  BY <1>7, <1>10, <1>11 DEF DexInv

\* A step that writes nothing lets the image "grow" by nothing.
LEMMA Unwritten == DexInv /\ image' = image => Grows
BY DEF DexInv, SectionsInv, Grows

\* Types name strings that are there.
LEMMA AddTypesKeeps == DexInv /\ AddTypes => DexInv'
<1> SUFFICES ASSUME DexInv, AddTypes PROVE DexInv'  OBVIOUS
<1>1. PICK m \in Nat : m = Len(pStringIds)  BY DEF DexInv, StringsInv
<1>2. PICK n \in Nat : n = Min({MaxTypes, m}) /\ n <= m
  <2>1. MaxTypes \in Nat  BY DexAssumption
  <2>2. \E x \in {MaxTypes, m} : \A y \in {MaxTypes, m} : x <= y  BY <2>1
  <2>3. Min({MaxTypes, m}) \in {MaxTypes, m} /\ \A y \in {MaxTypes, m} : Min({MaxTypes, m}) <= y
    BY <2>2 DEF Min
  <2> QED  BY <2>1, <2>3
<1>3. pTypeIds' = [i \in 1 .. n |-> [descriptorIdx |-> m - n + i - 1]]
  BY <1>1, <1>2 DEF AddTypes
<1>4. ASSUME NEW i \in 1 .. n
      PROVE  m - n + i - 1 \in Nat /\ m - n + i - 1 < m
  BY <1>2
<1>5. pTypeIds' \in [1 .. n -> [descriptorIdx : Nat]]  BY <1>3, <1>4
<1>6. pTypeIds' \in Seq([descriptorIdx : Nat]) /\ Len(pTypeIds') = n  BY <1>5, FunctionIsSeq
<1>7. \A i \in 1 .. n : pTypeIds'[i].descriptorIdx < m  BY <1>3, <1>4
<1>8. UNCHANGED <<image, pStringIds, pProtoIds, pMethodIds, pClassDefs, lists, sets, refLists,
                  directory, classes, codes>> /\ section = "types"
  BY DEF AddTypes
<1>9. Grows  BY <1>8, Unwritten
<1>10. pClassDefs = <<>> /\ refLists = <<>> /\ classes = <<>>  BY <1>8 DEF DexInv, SectionsInv
<1>11. ListsInv' /\ SetsInv' /\ DirectoryInv' /\ CodesInv' /\ image' \in Seq(Int) /\ Len(image') > 0
  BY <1>8, <1>9, PartsStay
<1>12. StringsInv'
  <2>1. \A i \in 1 .. m : StringAt(pStringIds[i].stringDataOff, i - 1)'
    BY <1>1, <1>8 DEF DexInv, StringsInv, StringAt, NumberAt
  <2>2. pStringIds' \in Seq([stringDataOff : Nat]) /\ Len(pStringIds') = m
    BY <1>1, <1>8 DEF DexInv, StringsInv
  <2> QED  BY <1>6, <1>7, <2>1, <2>2 DEF StringsInv
<1>13. SectionsInv' /\ ClassesInv'  BY <1>8, <1>10, <1>11, EmptySeq DEF SectionsInv, ClassesInv
<1> QED  BY <1>11, <1>12, <1>13 DEF DexInv

\* The records of the histories, and their offsets.
LEMMA OffsGrow ==
    ASSUME NEW S, NEW s \in Seq(S), NEW e \in S
    PROVE  Offs(s) \subseteq Offs(Append(s, e)) /\ e.off \in Offs(Append(s, e))
<1> DEFINE t == Append(s, e)
<1>1. /\ Len(t) = Len(s) + 1 /\ t \in Seq(S) /\ Len(s) \in Nat
      /\ \A k \in 1 .. Len(s) : t[k] = s[k]
      /\ t[Len(s) + 1] = e
  BY OneMore
<1>2. DOMAIN s = 1 .. Len(s) /\ DOMAIN t = 1 .. (Len(s) + 1)  BY <1>1
<1> HIDE DEF t
<1>3. ASSUME NEW k \in 1 .. Len(s) PROVE s[k].off \in Offs(t)
  <2>1. k \in DOMAIN t /\ t[k] = s[k]  BY <1>1, <1>2
  <2> QED  BY <2>1 DEF Offs
<1>4. e.off \in Offs(t)
  <2>1. Len(s) + 1 \in DOMAIN t  BY <1>1, <1>2
  <2> QED  BY <1>1, <2>1 DEF Offs
<1>5. Offs(s) \subseteq Offs(t)  BY <1>2, <1>3 DEF Offs
<1> QED  BY <1>4, <1>5 DEF t

\* A type list reads back as its size and its indices.
LEMMA ListWritten ==
    ASSUME DexInv, NEW types \in Seq(Int), AppendAt(Here, u4(<<Len(types)>>) \o u2(types))
    PROVE  Grows /\ \E off \in Nat \ {0} : /\ off = Here
                                           /\ ListAt([off |-> off, types |-> types])'
<1>1. image \in Seq(Int) /\ Len(image) \in Nat \ {0}  BY DEF DexInv, SectionsInv
<1>2. PICK off \in Nat : off = Here /\ off > 0 /\ Len(image) <= off
  BY <1>1, AlignedAddress DEF Here
<1>3. PICK head \in Seq(Int), tail \in Seq(Int) : 
        /\ head = u4(<<Len(types)>>) /\ Len(head) = 4 /\ head[1] = Len(types)
        /\ tail = u2(types) /\ Len(tail) = 2 * Len(types)
        /\ \A i \in 1 .. Len(types) : tail[2 * i - 1] = types[i]
  <2>1. PICK m \in Int : m = Len(types)  OBVIOUS
  <2>2. PICK ns \in Seq(Int) : ns = <<m>> /\ Len(ns) = 1 /\ ns[1] = m
    BY ONLY m \in Int, Tuples, Zenon
  <2>3. /\ u4(ns) \in Seq(Int) /\ Len(u4(ns)) = 4 * Len(ns)
        /\ \A j \in 1 .. Len(ns) : u4(ns)[4 * j - 3] = ns[j]
    BY FourBytes
  <2>4. Len(u4(ns)) = 4 /\ u4(ns)[1] = m
    <3>1. 1 \in 1 .. Len(ns) /\ 4 * 1 - 3 = 1  BY <2>2
    <3> QED  BY <2>2, <2>3, <3>1
  <2>5. u4(ns) = u4(<<Len(types)>>)  BY <2>1, <2>2
  <2>6. /\ u2(types) \in Seq(Int) /\ Len(u2(types)) = 2 * Len(types)
        /\ \A i \in 1 .. Len(types) : u2(types)[2 * i - 1] = types[i]
    BY TwoBytes
  <2>7. u4(<<Len(types)>>) \in Seq(Int) /\ Len(u4(<<Len(types)>>)) = 4
        /\ u4(<<Len(types)>>)[1] = Len(types)
    BY <2>1, <2>3, <2>4, <2>5, Zenon
  <2> QED  BY ONLY <2>6, <2>7, Zenon
<1>4. PICK bytes \in Seq(Int) :
        /\ bytes = head \o tail /\ Len(bytes) = 4 + 2 * Len(types)
        /\ \A i \in 1 .. 4 : bytes[i] = head[i]
        /\ \A i \in 1 .. (2 * Len(types)) : bytes[4 + i] = tail[i]
  <2>1. /\ head \o tail \in Seq(Int) /\ Len(head \o tail) = Len(head) + Len(tail)
        /\ \A i \in 1 .. Len(head) : (head \o tail)[i] = head[i]
        /\ \A i \in 1 .. Len(tail) : (head \o tail)[Len(head) + i] = tail[i]
    BY Concatenated
  <2>2. Len(head) = 4 /\ Len(tail) = 2 * Len(types)  BY <1>3
  <2>3. PICK bytes \in Seq(Int) : bytes = head \o tail  BY <2>1
  <2>4. /\ Len(bytes) = 4 + 2 * Len(types)
        /\ \A i \in 1 .. 4 : bytes[i] = head[i]
        /\ \A i \in 1 .. (2 * Len(types)) : bytes[4 + i] = tail[i]
    BY ONLY <2>1, <2>2, <2>3
  <2> QED  BY <2>3, <2>4
<1>5. AppendAt(off, bytes)  BY <1>2, <1>3, <1>4
<1>6. Grows /\ \A k \in 1 .. Len(bytes) : NumberAt(off + k - 1, bytes[k])'
  BY <1>1, <1>2, <1>5, AppendGrows
<1>7. Len(types) \in Nat  OBVIOUS
<1>8. NumberAt(off, Len(types))'
  <2>1. 1 \in 1 .. Len(bytes) /\ 1 \in 1 .. 4  BY <1>4, <1>7
  <2>2. NumberAt(off + 1 - 1, bytes[1])' /\ bytes[1] = Len(types)  BY <1>3, <1>4, <1>6, <2>1
  <2>3. off + 1 - 1 = off  OBVIOUS
  <2> QED  BY <2>2, <2>3 DEF NumberAt
<1>9. ASSUME NEW i \in 1 .. Len(types) PROVE NumberAt(off + 4 + 2 * (i - 1), types[i])'
  <2>1. PICK k \in Nat : k = 2 * i - 1 /\ k \in 1 .. (2 * Len(types)) /\ 4 + k \in 1 .. Len(bytes)
    BY <1>4, <1>7
  <2>2. bytes[4 + k] = types[i]  BY <1>3, <1>4, <2>1
  <2>3. NumberAt(off + (4 + k) - 1, bytes[4 + k])'  BY <1>6, <2>1
  <2>4. off + (4 + k) - 1 = off + 4 + 2 * (i - 1)  BY <2>1
  <2> QED  BY <2>2, <2>3, <2>4 DEF NumberAt
<1>10. ListAt([off |-> off, types |-> types])'  BY <1>8, <1>9 DEF ListAt, NumberAt
<1> QED  BY <1>2, <1>6, <1>10

\* A type list is written on a multiple of four.
LEMMA AddListKeeps == DexInv /\ AddList => DexInv'
<1> SUFFICES ASSUME DexInv, AddList PROVE DexInv'  OBVIOUS
<1>1. UNCHANGED <<pStringIds, pTypeIds, pProtoIds, pMethodIds, pClassDefs, sets, refLists,
                  directory, classes, codes>> /\ section = "lists"
  BY DEF AddList
<1>2. pClassDefs = <<>> /\ refLists = <<>> /\ classes = <<>>  BY <1>1 DEF DexInv, SectionsInv
<1>3. ASSUME Grows, ListsInv' PROVE DexInv'
  <2>1. /\ StringsInv' /\ SetsInv' /\ DirectoryInv' /\ CodesInv'
        /\ image' \in Seq(Int) /\ Len(image') > 0
    BY <1>1, <1>3, PartsStay
  <2>2. SectionsInv' /\ ClassesInv'  BY <1>1, <1>2, <2>1, EmptySeq DEF SectionsInv, ClassesInv
  <2> QED  BY <1>3, <2>1, <2>2 DEF DexInv
<1>4. CASE UNCHANGED <<image, lists>>
  <2>1. Grows  BY <1>4, Unwritten
  <2>2. ListsInv'  BY <1>1, <1>4, <2>1, PartsStay
  <2> QED  BY <1>3, <2>1, <2>2
<1>5. ASSUME NEW types \in {<< 0 >>, <<Len(pTypeIds) - 1, 0>>},
             AppendAt(Here, u4(<<Len(types)>>) \o u2(types)),
             lists' = Append(lists, [off |-> Here, types |-> types])
      PROVE  DexInv'
  <2>1. types \in Seq(Int)
    <3>1. PICK m \in Int : m = Len(pTypeIds) - 1
      <4>1. pTypeIds \in Seq([descriptorIdx : Nat])  BY DEF DexInv, StringsInv
      <4>2. Len(pTypeIds) \in Nat  BY <4>1, LenProperties
      <4> QED  BY <4>2
    <3>2. m \in Int /\ 0 \in Int  OBVIOUS
    <3>3. <<0>> \in Seq(Int) /\ <<m, 0>> \in Seq(Int)  BY ONLY <3>2, Tuples, Zenon
    <3> QED  BY <1>5, <3>1, <3>3, Zenon
  <2>2. PICK off \in Nat \ {0} : off = Here /\ ListAt([off |-> off, types |-> types])'
    BY <1>5, <2>1, ListWritten
  <2>3. Grows  BY <1>5, <2>1, ListWritten
  <2>4. PICK l \in ListRecord : l = [off |-> off, types |-> types]  BY <2>1 DEF ListRecord
  <2>5. lists \in Seq(ListRecord)  BY DEF DexInv, ListsInv
  <2>6. lists' = Append(lists, l)  BY <1>5, <2>2, <2>4
  <2>7. PICK n \in Nat : n = Len(lists)  BY <2>5
  <2>8. /\ lists' \in Seq(ListRecord) /\ Len(lists') = n + 1 /\ lists'[n + 1] = l
        /\ \A k \in 1 .. n : lists'[k] = lists[k]
    BY <2>5, <2>6, <2>7, OneMore
  <2>9. ASSUME NEW k \in 1 .. (n + 1) PROVE ListAt(lists[k])'
    <3>1. CASE k = n + 1
      <4>1. ListAt(l)'  BY <2>2, <2>4 DEF ListAt, NumberAt
      <4>2. lists'[k] = l  BY <2>8, <3>1
      <4> QED  BY <4>1, <4>2 DEF ListAt, NumberAt
    <3>2. CASE k # n + 1
      <4>1. k \in 1 .. n  BY <3>2
      <4>2. PICK old : old = lists[k]  OBVIOUS
      <4>3. ListAt(old)  BY <2>7, <4>1, <4>2 DEF DexInv, ListsInv
      <4>4. image \in Seq(Int)  BY DEF DexInv, SectionsInv
      <4>5. ListAt(old)' /\ lists'[k] = old  BY <2>3, <2>8, <4>1, <4>2, <4>3, <4>4, ItemsStay
      <4> QED  BY <4>5 DEF ListAt, NumberAt
    <3> QED  BY <3>1, <3>2
  <2>10. ListOffs \subseteq ListOffs'
    <3>1. Offs(lists) \subseteq Offs(lists')  BY <2>5, <2>6, OffsGrow
    <3> QED  BY <3>1 DEF ListOffs, Offs
  <2>11. ListsInv'
    <3>1. \A k \in 1 .. Len(pProtoIds) : pProtoIds'[k].parametersOff \in ListOffs'
      BY <1>1, <2>10 DEF DexInv, ListsInv
    <3>2. /\ pProtoIds' \in Seq([returnTypeIdx : Nat, parametersOff : Nat])
          /\ pMethodIds' \in Seq([classIdx : Nat, protoIdx : Nat, nameIdx : Nat])
          /\ \A k \in 1 .. Len(pMethodIds') : pMethodIds'[k].protoIdx < Len(pProtoIds')
          /\ Len(pProtoIds') = Len(pProtoIds)
      BY <1>1 DEF DexInv, ListsInv
    <3> QED  BY <2>8, <2>9, <3>1, <3>2 DEF ListsInv
  <2> QED  BY <1>3, <2>3, <2>11
<1> QED  BY <1>4, <1>5 DEF AddList

\* Methods name prototypes whose parameters are lists that are there, or none.
LEMMA AddMethodKeeps == DexInv /\ AddMethod => DexInv'
<1> SUFFICES ASSUME DexInv, AddMethod PROVE DexInv'  OBVIOUS
<1> DEFINE Proto == [returnTypeIdx : Nat, parametersOff : Nat]
           Method == [classIdx : Nat, protoIdx : Nat, nameIdx : Nat]
<1>1. UNCHANGED <<image, pStringIds, pTypeIds, pClassDefs, lists, sets, refLists,
                  directory, classes, codes>> /\ section = "protos"
  BY DEF AddMethod
<1>2. pClassDefs = <<>> /\ refLists = <<>> /\ classes = <<>>  BY <1>1 DEF DexInv, SectionsInv
<1>3. Grows  BY <1>1, Unwritten
<1>4. /\ StringsInv' /\ SetsInv' /\ DirectoryInv' /\ CodesInv'
      /\ image' \in Seq(Int) /\ Len(image') > 0
  BY <1>1, <1>3, PartsStay
<1>5. SectionsInv' /\ ClassesInv'  BY <1>1, <1>2, <1>4, EmptySeq DEF SectionsInv, ClassesInv
<1>6. PICK off : off = (IF lists = <<>> THEN 0 ELSE lists[1].off)
  OBVIOUS
<1>7. off \in Nat /\ off \in ListOffs
  <2>1. CASE lists = <<>>  BY <1>6, <2>1 DEF ListOffs
  <2>2. CASE lists # <<>>
    <3>1. lists \in Seq(ListRecord)  BY DEF DexInv, ListsInv
    <3>2. 1 \in DOMAIN lists /\ lists[1] \in ListRecord  BY <2>2, <3>1
    <3>3. lists[1].off \in Nat  BY <3>2 DEF ListRecord
    <3> QED  BY <1>6, <2>2, <3>2, <3>3 DEF ListOffs
  <2> QED  BY <2>1, <2>2
<1>8. PICK a \in Proto, b \in Proto :
         /\ pProtoIds' = <<a, b>> /\ a.parametersOff = 0 /\ b.parametersOff = off
  <2>1. PICK a, b : /\ a = [returnTypeIdx |-> 0, parametersOff |-> 0]
                    /\ b = [returnTypeIdx |-> 0, parametersOff |-> off]
    OBVIOUS
  <2>2. a \in Proto /\ b \in Proto /\ a.parametersOff = 0 /\ b.parametersOff = off
    BY <1>7, <2>1
  <2>3. pProtoIds' = <<a, b>>  BY <1>6, <2>1 DEF AddMethod
  <2> QED  BY <2>2, <2>3
<1>9. PICK m \in Method : pMethodIds' = <<m>> /\ m.protoIdx \in 0 .. 1
  <2>1. PICK p \in 0 .. 1 : pMethodIds' = <<[classIdx |-> 0, protoIdx |-> p, nameIdx |-> 0]>>
    BY DEF AddMethod
  <2>2. PICK m : m = [classIdx |-> 0, protoIdx |-> p, nameIdx |-> 0]  OBVIOUS
  <2>3. m \in Method /\ m.protoIdx \in 0 .. 1  BY <2>2
  <2> QED  BY <2>1, <2>2, <2>3
<1> HIDE DEF Proto, Method
<1>10. pProtoIds' \in Seq(Proto) /\ Len(pProtoIds') = 2 /\ pProtoIds'[1] = a /\ pProtoIds'[2] = b
  BY <1>8
<1>11. pMethodIds' \in Seq(Method) /\ Len(pMethodIds') = 1 /\ pMethodIds'[1] = m
  BY <1>9
<1>12. ListOffs' = ListOffs  BY <1>1 DEF ListOffs
<1>13. \A k \in 1 .. Len(pProtoIds') : pProtoIds'[k].parametersOff \in ListOffs'
  <2>1. 0 \in ListOffs  BY DEF ListOffs
  <2>2. \A k \in 1 .. 2 : k = 1 \/ k = 2  OBVIOUS
  <2> QED  BY <1>7, <1>8, <1>10, <1>12, <2>1, <2>2
<1>14. \A k \in 1 .. Len(pMethodIds') : pMethodIds'[k].protoIdx < Len(pProtoIds')
  <2>1. m.protoIdx < 2  BY <1>9
  <2> QED  BY <1>10, <1>11, <2>1
<1>15. lists' \in Seq(ListRecord) /\ \A k \in 1 .. Len(lists') : ListAt(lists[k])'
  BY <1>1 DEF DexInv, ListsInv, ListAt, NumberAt
<1>16. ListsInv'  BY <1>10, <1>11, <1>13, <1>14, <1>15 DEF ListsInv, Proto, Method
<1> QED  BY <1>4, <1>5, <1>16 DEF DexInv

\* The class names types, a list and a directory that are there.
LEMMA AddClassKeeps == DexInv /\ AddClass => DexInv'
<1> SUFFICES ASSUME DexInv, AddClass PROVE DexInv'  OBVIOUS
<1>1. UNCHANGED <<image, pStringIds, pTypeIds, pProtoIds, pMethodIds, lists, sets, refLists,
                  directory, codes>> /\ section = "classes" /\ section' = "done"
      /\ classes' = pClassDefs'
  BY DEF AddClass
<1>2. Grows  BY <1>1, Unwritten
<1>3. /\ StringsInv' /\ ListsInv' /\ SetsInv' /\ DirectoryInv' /\ CodesInv'
      /\ image' \in Seq(Int) /\ Len(image') > 0
  BY <1>1, <1>2, PartsStay
<1>4. SectionsInv'  BY <1>1, <1>3 DEF SectionsInv
<1>5. PICK m \in Nat, n \in Nat, dir \in Nat :
        /\ m = Len(pTypeIds) /\ n = Len(pStringIds)
        /\ dir = (IF directory = <<>> THEN 0 ELSE directory[1].off)
  <2>1. Len(pTypeIds) \in Nat /\ Len(pStringIds) \in Nat  BY DEF DexInv, StringsInv
  <2>2. directory # <<>> => directory[1].off \in Nat
    <3> SUFFICES ASSUME directory # <<>> PROVE directory[1].off \in Nat  OBVIOUS
    <3>1. directory \in Seq(DirectoryRecord)  BY DEF DexInv, DirectoryInv
    <3>2. directory[1] \in DirectoryRecord  BY <3>1
    <3> QED  BY <3>2 DEF DirectoryRecord
  <2> QED  BY <2>1, <2>2
<1>6. PICK c \in 0 .. (m - 1), s \in 0 .. (m - 1), i \in ListOffs, f \in {kDexNoIndex, n - 1} :
        pClassDefs' = <<[classIdx |-> c, superclassIdx |-> s, interfacesOff |-> i,
                         sourceFileIdx |-> f, annotationsOff |-> dir]>>
  BY <1>5 DEF AddClass, TypeIndices
<1>7. dir \in Nat  BY <1>5
<1>8. i \in Nat
  <2>1. ASSUME NEW k \in DOMAIN lists PROVE lists[k].off \in Nat
    <3>1. lists \in Seq(ListRecord)  BY DEF DexInv, ListsInv
    <3>2. lists[k] \in ListRecord  BY <3>1
    <3> QED  BY <3>2 DEF ListRecord
  <2> QED  BY <2>1 DEF ListOffs
<1>9. /\ c \in Nat /\ s \in Nat /\ c < m /\ s < m /\ f \in Int
      /\ f = kDexNoIndex \/ f \in 0 .. (n - 1)
  BY DEF kDexNoIndex
<1>10. PICK def : def = [classIdx |-> c, superclassIdx |-> s, interfacesOff |-> i,
                         sourceFileIdx |-> f, annotationsOff |-> dir]
  OBVIOUS
<1>11. def \in ClassDef  BY <1>7, <1>8, <1>9, <1>10 DEF ClassDef
<1>12. pClassDefs' = <<def>>  BY <1>6, <1>10
<1>13. pClassDefs' \in Seq(ClassDef) /\ Len(pClassDefs') = 1 /\ pClassDefs'[1] = def
  BY <1>11, <1>12
<1>14. /\ def.classIdx = c /\ def.superclassIdx = s /\ def.interfacesOff = i
       /\ def.sourceFileIdx = f /\ def.annotationsOff = dir
  BY <1>10
<1>15. ListOffs' = ListOffs /\ Len(pTypeIds') = m /\ Len(pStringIds') = n /\ directory' = directory
  BY <1>1, <1>5 DEF ListOffs
<1>16. ASSUME NEW k \in 1 .. Len(pClassDefs')
       PROVE  LET d == pClassDefs'[k] IN
              /\ d.classIdx < Len(pTypeIds') /\ d.superclassIdx < Len(pTypeIds')
              /\ d.interfacesOff \in ListOffs'
              /\ d.sourceFileIdx = kDexNoIndex \/ d.sourceFileIdx \in 0 .. (Len(pStringIds') - 1)
              /\ d.annotationsOff = IF directory' = <<>> THEN 0 ELSE directory'[1].off
  <2>1. pClassDefs'[k] = def  BY <1>13
  <2> QED  BY <1>5, <1>9, <1>14, <1>15, <2>1
<1>17. ClassesInv'  BY <1>13, <1>16 DEF ClassesInv
<1> QED  BY <1>3, <1>4, <1>17 DEF DexInv

\* What an item of a history, put behind the others, leaves true of all of them.
LEMMA SetsGrow ==
    ASSUME DexInv, Grows, UNCHANGED refLists, NEW s \in SetRecord,
           sets' = Append(sets, s), SetAt(s)'
    PROVE  SetsInv' /\ Offs(sets) \subseteq Offs(sets')
<1>1. sets \in Seq(SetRecord) /\ image \in Seq(Int)  BY DEF DexInv, SectionsInv, SetsInv
<1>2. PICK n \in Nat : n = Len(sets)  BY <1>1
<1>3. /\ sets' \in Seq(SetRecord) /\ Len(sets') = n + 1 /\ sets'[n + 1] = s
      /\ \A k \in 1 .. n : sets'[k] = sets[k]
  BY <1>1, <1>2, OneMore
<1>4. ASSUME NEW k \in 1 .. (n + 1) PROVE SetAt(sets[k])'
  <2>1. CASE k = n + 1
    <3>1. sets'[k] = s  BY <1>3, <2>1
    <3> QED  BY <3>1 DEF SetAt, NumberAt
  <2>2. CASE k # n + 1
    <3>1. k \in 1 .. n  BY <2>2
    <3>2. PICK old : old = sets[k]  OBVIOUS
    <3>3. SetAt(old)  BY <1>2, <3>1, <3>2 DEF DexInv, SetsInv
    <3>4. SetAt(old)' /\ sets'[k] = old  BY <1>1, <1>3, <3>1, <3>2, <3>3, ItemsStay
    <3> QED  BY <3>4 DEF SetAt, NumberAt
  <2> QED  BY <2>1, <2>2
<1>5. ASSUME NEW k \in 1 .. Len(refLists) PROVE RefsAt(refLists[k])'
  <2>1. PICK r : r = refLists[k]  OBVIOUS
  <2>2. RefsAt(r)  BY <2>1 DEF DexInv, SetsInv
  <2>3. RefsAt(r)' /\ refLists'[k] = r  BY <1>1, <2>1, <2>2, ItemsStay
  <2> QED  BY <2>3 DEF RefsAt, NumberAt
<1>6. refLists' \in Seq(RefsRecord) /\ Len(refLists') <= 1 /\ Len(refLists') = Len(refLists)
  BY DEF DexInv, SetsInv
<1>7. SetsInv'  BY <1>3, <1>4, <1>5, <1>6 DEF SetsInv
<1> QED  BY <1>1, <1>7, OffsGrow

\* The same for the lists of references to sets.
LEMMA RefListsGrow ==
    ASSUME DexInv, Grows, UNCHANGED sets, NEW r \in RefsRecord, refLists = <<>>,
           refLists' = <<r>>, RefsAt(r)'
    PROVE  SetsInv'
<1>1. sets \in Seq(SetRecord) /\ image \in Seq(Int)  BY DEF DexInv, SectionsInv, SetsInv
<1>2. ASSUME NEW k \in 1 .. Len(sets) PROVE SetAt(sets[k])'
  <2>1. PICK s : s = sets[k]  OBVIOUS
  <2>2. SetAt(s)  BY <2>1 DEF DexInv, SetsInv
  <2>3. SetAt(s)' /\ sets'[k] = s  BY <1>1, <2>1, <2>2, ItemsStay
  <2> QED  BY <2>3 DEF SetAt, NumberAt
<1>3. refLists' \in Seq(RefsRecord) /\ Len(refLists') = 1 /\ refLists'[1] = r  OBVIOUS
<1>4. ASSUME NEW k \in 1 .. 1 PROVE RefsAt(refLists[k])'
  <2>1. refLists'[k] = r  BY <1>3
  <2> QED  BY <2>1 DEF RefsAt, NumberAt
<1>5. sets' \in Seq(SetRecord) /\ Len(sets') = Len(sets)  BY <1>1
<1> QED  BY <1>2, <1>3, <1>4, <1>5 DEF SetsInv

\* The directory refers to sets and lists of them, of which there may be more now.
LEMMA DirectoryStays ==
    ASSUME DexInv, Grows, UNCHANGED directory,
           Offs(sets) \subseteq Offs(sets'), Offs(refLists) \subseteq Offs(refLists')
    PROVE  DirectoryInv'
<1>1. image \in Seq(Int) /\ directory \in Seq(DirectoryRecord)
  BY DEF DexInv, SectionsInv, DirectoryInv
<1>2. ASSUME NEW k \in 1 .. Len(directory)
      PROVE  LET d == directory'[k] IN
             /\ DirectoryAt(directory[k])'
             /\ d.class \in {0} \cup Offs(sets')
             /\ \A i \in 1 .. Len(d.fields) : d.fields[i] \in Offs(sets')
             /\ \A i \in 1 .. Len(d.methods) : d.methods[i] \in Offs(sets')
             /\ \A i \in 1 .. Len(d.parameters) : d.parameters[i] \in Offs(refLists')
  <2>1. PICK d : d = directory[k]  OBVIOUS
  <2>2. /\ DirectoryAt(d)
        /\ d.class \in {0} \cup Offs(sets)
        /\ \A i \in 1 .. Len(d.fields) : d.fields[i] \in Offs(sets)
        /\ \A i \in 1 .. Len(d.methods) : d.methods[i] \in Offs(sets)
        /\ \A i \in 1 .. Len(d.parameters) : d.parameters[i] \in Offs(refLists)
    BY <2>1 DEF DexInv, DirectoryInv
  <2>3. DirectoryAt(d)' /\ directory'[k] = d  BY <1>1, <2>1, <2>2, ItemsStay
  <2>4. DirectoryAt(directory[k])'  BY <2>3 DEF DirectoryAt, NumberAt
  <2> QED  BY <2>2, <2>3, <2>4
<1>3. directory' = directory  OBVIOUS
<1> QED  BY <1>1, <1>2, <1>3 DEF DirectoryInv, Offs

\* An annotation is written, and behind it, aligned, the set that refers to it.
LEMMA AddSetKeeps == DexInv /\ AddSet => DexInv'
<1> SUFFICES ASSUME DexInv, AddSet PROVE DexInv'  OBVIOUS
<1>1. /\ UNCHANGED <<pStringIds, pTypeIds, pProtoIds, pMethodIds, pClassDefs, lists, refLists,
                     directory, classes, codes>>
      /\ section = "sets"
  BY DEF AddSet
<1>2. pClassDefs = <<>> /\ refLists = <<>> /\ classes = <<>>  BY <1>1 DEF DexInv, SectionsInv
<1>3. image \in Seq(Int) /\ sets \in Seq(SetRecord)  BY DEF DexInv, SectionsInv, SetsInv
<1>4. PICK item \in Nat : item = Len(image)  BY <1>3
<1>5. PICK set \in Nat : set = Aligned(item + 2) /\ item + 2 <= set
  <2>1. item + 2 \in Nat  OBVIOUS
  <2> QED  BY <2>1, AlignedAddress
<1>6. PICK note \in Int : note = Annotation(Len(sets))  BY <1>3 DEF Annotation
<1>7. AppendAt(item, u1(<<1, note>>) \o Filler(set - item - 2) \o u4(<<1, item>>))
      /\ sets' = Append(sets, [off |-> set, annotation |-> note])
  BY <1>4, <1>5, <1>6 DEF AddSet
<1>8. PICK head \in Seq(Int) : head = <<1, note>> /\ Len(head) = 2 /\ head[2] = note
  <2>1. PICK one \in Int : one = 1  OBVIOUS
  <2>2. <<one, note>> \in Seq(Int) /\ Len(<<one, note>>) = 2 /\ <<one, note>>[2] = note
    BY ONLY one \in Int, note \in Int, Tuples, Zenon
  <2> QED  BY ONLY <2>1, <2>2, Zenon
<1>9. PICK tail \in Seq(Int) :
        tail = u4(<<1, item>>) /\ Len(tail) = 8 /\ tail[1] = 1 /\ tail[5] = item
  <2>1. PICK one \in Int, m \in Int : one = 1 /\ m = item  OBVIOUS
  <2>2. PICK ns \in Seq(Int) : ns = <<one, m>> /\ Len(ns) = 2 /\ ns[1] = one /\ ns[2] = m
    <3>1. /\ <<one, m>> \in Seq(Int) /\ Len(<<one, m>>) = 2
          /\ <<one, m>>[1] = one /\ <<one, m>>[2] = m
      BY ONLY one \in Int, m \in Int, Tuples, Zenon
    <3> QED  BY ONLY <3>1, Zenon
  <2>3. u4(ns) \in Seq(Int) /\ Len(u4(ns)) = 4 * Len(ns)
        /\ \A j \in 1 .. Len(ns) : u4(ns)[4 * j - 3] = ns[j]
    BY FourBytes
  <2>4. 1 \in 1 .. Len(ns) /\ 2 \in 1 .. Len(ns) /\ 4 * 1 - 3 = 1 /\ 4 * 2 - 3 = 5 /\ 4 * 2 = 8
    BY <2>2
  <2>5. u4(ns)[1] = one /\ u4(ns)[5] = m /\ Len(u4(ns)) = 8  BY <2>2, <2>3, <2>4
  <2>6. u4(ns) = u4(<<1, item>>)  BY <2>1, <2>2
  <2> QED  BY <2>1, <2>3, <2>5, <2>6
<1>10. PICK n \in Nat, gap \in Seq(Int) : n = set - item - 2 /\ gap = Filler(n) /\ Len(gap) = n
  <2>1. set - item - 2 \in Nat  BY <1>5
  <2> QED  BY <2>1, FillerBytes
<1>11. PICK front \in Seq(Int) : /\ front = head \o gap /\ Len(front) = 2 + n
                                 /\ front[2] = note
  <2>1. /\ head \o gap \in Seq(Int) /\ Len(head \o gap) = Len(head) + Len(gap)
        /\ \A i \in 1 .. Len(head) : (head \o gap)[i] = head[i]
    BY Concatenated
  <2>2. 2 \in 1 .. Len(head)  BY <1>8
  <2> QED  BY <1>8, <1>10, <2>1, <2>2
<1>12. PICK bytes \in Seq(Int) : /\ bytes = front \o tail /\ Len(bytes) = 2 + n + 8
                                 /\ bytes[2] = note
                                 /\ bytes[2 + n + 1] = 1 /\ bytes[2 + n + 5] = item
  <2>1. /\ front \o tail \in Seq(Int) /\ Len(front \o tail) = Len(front) + Len(tail)
        /\ \A i \in 1 .. Len(front) : (front \o tail)[i] = front[i]
        /\ \A i \in 1 .. Len(tail) : (front \o tail)[Len(front) + i] = tail[i]
    BY Concatenated
  <2>2. 2 \in 1 .. Len(front) /\ 1 \in 1 .. Len(tail) /\ 5 \in 1 .. Len(tail)
    <3>1. Len(front) = 2 + n /\ Len(tail) = 8 /\ n \in Nat  BY <1>9, <1>10, <1>11
    <3> QED  BY ONLY <3>1
  <2>3. (front \o tail)[2] = note  BY <1>11, <2>1, <2>2
  <2>4. (front \o tail)[2 + n + 1] = 1 /\ (front \o tail)[2 + n + 5] = item
    BY <1>9, <1>11, <2>1, <2>2
  <2> QED  BY <1>9, <1>11, <2>1, <2>3, <2>4
<1>13. AppendAt(item, bytes)  BY <1>7, <1>8, <1>9, <1>10, <1>11, <1>12 DEF u1
<1>14. Grows /\ \A k \in 1 .. Len(bytes) : NumberAt(item + k - 1, bytes[k])'
  <2>1. Len(image) <= item  BY <1>4
  <2> QED  BY <1>3, <1>13, <2>1, AppendGrows
<1>15. NumberAt(item + 1, note)' /\ NumberAt(set, 1)' /\ NumberAt(set + 4, item)'
  <2>1. 2 \in 1 .. Len(bytes) /\ 2 + n + 1 \in 1 .. Len(bytes) /\ 2 + n + 5 \in 1 .. Len(bytes)
    BY <1>12
  <2>2. NumberAt(item + 2 - 1, note)' /\ NumberAt(item + (2 + n + 1) - 1, 1)'
        /\ NumberAt(item + (2 + n + 5) - 1, item)'
    BY <1>12, <1>14, <2>1
  <2>3. item + 2 - 1 = item + 1 /\ item + (2 + n + 1) - 1 = set /\ item + (2 + n + 5) - 1 = set + 4
    <3>1. n = set - item - 2 /\ n \in Nat /\ set \in Nat /\ item \in Nat  BY <1>10
    <3> QED  BY ONLY <3>1
  <2> QED  BY <2>2, <2>3 DEF NumberAt
<1>16. PICK s \in SetRecord : s = [off |-> set, annotation |-> note]
  <2>1. set \in Nat \ {0}
    <3>1. set \in Nat /\ item \in Nat /\ item + 2 <= set  BY <1>5
    <3> QED  BY ONLY <3>1
  <2>2. [off |-> set, annotation |-> note] \in SetRecord  BY <2>1 DEF SetRecord
  <2> QED  BY <2>2
<1>17. s.off = set /\ s.annotation = note  BY <1>16
<1>18. SetAt(s)'  BY <1>15, <1>17 DEF SetAt, NumberAt
<1>19. SetsInv' /\ Offs(sets) \subseteq Offs(sets')
  BY <1>1, <1>7, <1>14, <1>16, <1>18, SetsGrow
<1>20. DirectoryInv'
  <2>1. Offs(refLists) \subseteq Offs(refLists')  BY <1>1 DEF Offs
  <2> QED  BY <1>1, <1>14, <1>19, <2>1, DirectoryStays
<1>21. /\ StringsInv' /\ ListsInv' /\ CodesInv'
       /\ image' \in Seq(Int) /\ Len(image') > 0
  BY <1>1, <1>14, PartsStay
<1>22. SectionsInv' /\ ClassesInv'  BY <1>1, <1>2, <1>21, EmptySeq DEF SectionsInv, ClassesInv
<1> QED  BY <1>19, <1>20, <1>21, <1>22 DEF DexInv

\* Numbers of four bytes stand four bytes apart.
LEMMA WordsWritten ==
    ASSUME DexInv, NEW ns \in Seq(Int), AppendAt(Here, u4(ns))
    PROVE  Grows /\ \E off \in Nat \ {0} :
             off = Here /\ \A j \in 1 .. Len(ns) : NumberAt(off + 4 * (j - 1), ns[j])'
<1>1. image \in Seq(Int) /\ Len(image) \in Nat \ {0}  BY DEF DexInv, SectionsInv
<1>2. PICK off \in Nat : off = Here /\ off > 0 /\ Len(image) <= off
  BY <1>1, AlignedAddress DEF Here
<1>3. /\ u4(ns) \in Seq(Int) /\ Len(u4(ns)) = 4 * Len(ns)
      /\ \A j \in 1 .. Len(ns) : u4(ns)[4 * j - 3] = ns[j]
  BY FourBytes
<1>4. Grows /\ \A k \in 1 .. Len(u4(ns)) : NumberAt(off + k - 1, u4(ns)[k])'
  BY <1>1, <1>2, <1>3, AppendGrows
<1>5. ASSUME NEW j \in 1 .. Len(ns) PROVE NumberAt(off + 4 * (j - 1), ns[j])'
  <2>1. PICK k \in Nat : k = 4 * j - 3 /\ k \in 1 .. (4 * Len(ns))  OBVIOUS
  <2>2. NumberAt(off + k - 1, u4(ns)[k])' /\ u4(ns)[k] = ns[j]  BY <1>3, <1>4, <2>1
  <2>3. off + k - 1 = off + 4 * (j - 1)  BY <2>1
  <2> QED  BY <2>2, <2>3 DEF NumberAt
<1>6. off \in Nat \ {0}  BY <1>2
<1> QED  BY <1>2, <1>4, <1>5, <1>6

\* A list of references names a set that is there, and none.
LEMMA AddRefListKeeps == DexInv /\ AddRefList => DexInv'
<1> SUFFICES ASSUME DexInv, AddRefList PROVE DexInv'  OBVIOUS
<1>1. /\ UNCHANGED <<pStringIds, pTypeIds, pProtoIds, pMethodIds, pClassDefs, lists, sets,
                     directory, classes, codes>>
      /\ section = "sets" /\ section' = "directory" /\ sets # <<>>
  BY DEF AddRefList
<1>2. pClassDefs = <<>> /\ refLists = <<>> /\ classes = <<>>  BY <1>1 DEF DexInv, SectionsInv
<1>3. PICK set \in Int : set = sets[1].off
  <2>1. sets \in Seq(SetRecord)  BY DEF DexInv, SetsInv
  <2>2. sets[1] \in SetRecord  BY <1>1, <2>1
  <2> QED  BY <2>2 DEF SetRecord
<1>4. PICK ns \in Seq(Int) : ns = <<2, 0, set>> /\ Len(ns) = 3
                             /\ ns[1] = 2 /\ ns[2] = 0 /\ ns[3] = set
  <2>1. PICK two \in Int, zero \in Int : two = 2 /\ zero = 0  OBVIOUS
  <2>2. /\ <<two, zero, set>> \in Seq(Int) /\ Len(<<two, zero, set>>) = 3
        /\ <<two, zero, set>>[1] = two /\ <<two, zero, set>>[2] = zero
        /\ <<two, zero, set>>[3] = set
    BY ONLY two \in Int, zero \in Int, set \in Int, Tuples, Zenon
  <2> QED  BY ONLY <2>1, <2>2, Zenon
<1>5. AppendAt(Here, u4(ns)) /\ refLists' = Append(refLists, [off |-> Here, refs |-> <<0, set>>])
  BY <1>3, <1>4 DEF AddRefList
<1>6. PICK off \in Nat \ {0} :
        off = Here /\ \A j \in 1 .. Len(ns) : NumberAt(off + 4 * (j - 1), ns[j])'
  BY <1>5, WordsWritten
<1>7. Grows  BY <1>5, WordsWritten
<1>8. NumberAt(off, 2)' /\ NumberAt(off + 4, 0)' /\ NumberAt(off + 8, set)'
  <2>1. 1 \in 1 .. Len(ns) /\ 2 \in 1 .. Len(ns) /\ 3 \in 1 .. Len(ns)  BY <1>4
  <2>2. /\ NumberAt(off + 4 * (1 - 1), 2)' /\ NumberAt(off + 4 * (2 - 1), 0)'
        /\ NumberAt(off + 4 * (3 - 1), set)'
    BY <1>4, <1>6, <2>1
  <2>3. off + 4 * (1 - 1) = off /\ off + 4 * (2 - 1) = off + 4 /\ off + 4 * (3 - 1) = off + 8
    OBVIOUS
  <2> QED  BY <2>2, <2>3 DEF NumberAt
<1>9. PICK r : r = [off |-> off, refs |-> <<0, set>>]  OBVIOUS
<1>10. r \in RefsRecord /\ r.off = off /\ r.refs[1] = 0 /\ r.refs[2] = set
  BY <1>9 DEF RefsRecord
<1>11. RefsAt(r)'  BY <1>8, <1>10 DEF RefsAt, NumberAt
<1>12. refLists' = <<r>>  BY <1>2, <1>5, <1>6, <1>9
<1>13. SetsInv'  BY <1>1, <1>2, <1>7, <1>10, <1>11, <1>12, RefListsGrow
<1>14. DirectoryInv'
  <2>1. Offs(sets) \subseteq Offs(sets') /\ Offs(refLists) \subseteq Offs(refLists')
    BY <1>1, <1>2 DEF Offs
  <2> QED  BY <1>1, <1>7, <2>1, DirectoryStays
<1>15. /\ StringsInv' /\ ListsInv' /\ CodesInv'
       /\ image' \in Seq(Int) /\ Len(image') > 0
  BY <1>1, <1>7, PartsStay
<1>16. SectionsInv' /\ ClassesInv'  BY <1>1, <1>2, <1>15, EmptySeq DEF SectionsInv, ClassesInv
<1> QED  BY <1>13, <1>14, <1>15, <1>16 DEF DexInv

-----------------------------------------------------------------------------
(* The directory of annotations: where its numbers stand.                   *)

\* Each member of a class takes two numbers: its index and what belongs to it.
LEMMA ItemNumbers ==
    ASSUME NEW m \in Seq(Int)
    PROVE  /\ Items(m) \in Seq(Int) /\ Len(Items(m)) = 2 * Len(m)
           /\ \A i \in 1 .. Len(m) : Items(m)[2 * i - 1] = i - 1 /\ Items(m)[2 * i] = m[i]
<1> DEFINE n == 2 * Len(m)
<1>1. n \in Nat /\ Len(m) \in Nat  OBVIOUS
<1>2. ASSUME NEW j \in 1 .. n PROVE (IF j % 2 = 1 THEN j \div 2 ELSE m[j \div 2]) \in Int
  <2>1. j % 2 # 1 => j \div 2 \in 1 .. Len(m)  OBVIOUS
  <2>2. \A k \in 1 .. Len(m) : m[k] \in Int  OBVIOUS
  <2> QED  BY <2>1, <2>2
<1>3. Items(m) \in [1 .. n -> Int]  BY <1>2 DEF Items
<1>4. Items(m) \in Seq(Int) /\ Len(Items(m)) = n  BY <1>1, <1>3, FunctionIsSeq
<1>5. ASSUME NEW i \in 1 .. Len(m) PROVE Items(m)[2 * i - 1] = i - 1 /\ Items(m)[2 * i] = m[i]
  <2>1. /\ 2 * i - 1 \in 1 .. n /\ (2 * i - 1) % 2 = 1 /\ (2 * i - 1) \div 2 = i - 1
        /\ 2 * i \in 1 .. n /\ (2 * i) % 2 # 1 /\ (2 * i) \div 2 = i
    OBVIOUS
  <2> QED  BY <2>1 DEF Items
<1> QED  BY <1>4, <1>5

\* The head has four numbers, and each member two: its index and its annotations.
LEMMA DirectoryNumbers ==
    ASSUME NEW d \in DirectoryRecord
    PROVE  LET W == DirectoryWords(d)
               f == Len(d.fields)
               m == Len(d.methods)
               p == Len(d.parameters)
           IN /\ f \in Nat /\ m \in Nat /\ p \in Nat
              /\ W \in Seq(Int) /\ Len(W) = 4 + 2 * f + 2 * m + 2 * p
              /\ W[1] = d.class /\ W[2] = f /\ W[3] = m /\ W[4] = p
              /\ \A i \in 1 .. f : W[4 + 2 * i - 1] = i - 1 /\ W[4 + 2 * i] = d.fields[i]
              /\ \A i \in 1 .. m : /\ W[4 + 2 * f + 2 * i - 1] = i - 1
                                   /\ W[4 + 2 * f + 2 * i] = d.methods[i]
              /\ \A i \in 1 .. p : /\ W[4 + 2 * f + 2 * m + 2 * i - 1] = i - 1
                                   /\ W[4 + 2 * f + 2 * m + 2 * i] = d.parameters[i]
<1>1. /\ d.fields \in Seq(Int) /\ d.methods \in Seq(Int) /\ d.parameters \in Seq(Int)
      /\ d.class \in Int
  BY DEF DirectoryRecord
<1>2. PICK f \in Nat, m \in Nat, p \in Nat, c \in Int :
        f = Len(d.fields) /\ m = Len(d.methods) /\ p = Len(d.parameters) /\ c = d.class
  BY <1>1
<1>3. PICK head \in Seq(Int) :
        /\ head = <<c, f, m, p>> /\ Len(head) = 4
        /\ head[1] = c /\ head[2] = f /\ head[3] = m /\ head[4] = p
  <2>1. f \in Int /\ m \in Int /\ p \in Int  BY ONLY f \in Nat, m \in Nat, p \in Nat
  <2>2. /\ <<c, f, m, p>> \in Seq(Int) /\ Len(<<c, f, m, p>>) = 4
        /\ <<c, f, m, p>>[1] = c /\ <<c, f, m, p>>[2] = f
        /\ <<c, f, m, p>>[3] = m /\ <<c, f, m, p>>[4] = p
    BY ONLY c \in Int, <2>1, Tuples, Zenon
  <2> QED  BY ONLY <2>2, Zenon
<1>4. PICK A \in Seq(Int), B \in Seq(Int), C \in Seq(Int) :
        /\ A = Items(d.fields) /\ Len(A) = 2 * f
        /\ B = Items(d.methods) /\ Len(B) = 2 * m
        /\ C = Items(d.parameters) /\ Len(C) = 2 * p
        /\ \A i \in 1 .. f : A[2 * i - 1] = i - 1 /\ A[2 * i] = d.fields[i]
        /\ \A i \in 1 .. m : B[2 * i - 1] = i - 1 /\ B[2 * i] = d.methods[i]
        /\ \A i \in 1 .. p : C[2 * i - 1] = i - 1 /\ C[2 * i] = d.parameters[i]
  <2>1. /\ Items(d.fields) \in Seq(Int) /\ Len(Items(d.fields)) = 2 * f
        /\ \A i \in 1 .. f : /\ Items(d.fields)[2 * i - 1] = i - 1
                              /\ Items(d.fields)[2 * i] = d.fields[i]
    BY <1>1, <1>2, ItemNumbers
  <2>2. /\ Items(d.methods) \in Seq(Int) /\ Len(Items(d.methods)) = 2 * m
        /\ \A i \in 1 .. m : /\ Items(d.methods)[2 * i - 1] = i - 1
                              /\ Items(d.methods)[2 * i] = d.methods[i]
    BY <1>1, <1>2, ItemNumbers
  <2>3. /\ Items(d.parameters) \in Seq(Int) /\ Len(Items(d.parameters)) = 2 * p
        /\ \A i \in 1 .. p : /\ Items(d.parameters)[2 * i - 1] = i - 1
                              /\ Items(d.parameters)[2 * i] = d.parameters[i]
    BY <1>1, <1>2, ItemNumbers
  <2> QED  BY ONLY <2>1, <2>2, <2>3, Zenon
<1>5. PICK X \in Seq(Int) :
        /\ X = head \o A /\ Len(X) = 4 + 2 * f
        /\ \A i \in 1 .. 4 : X[i] = head[i]
        /\ \A i \in 1 .. (2 * f) : X[4 + i] = A[i]
  <2>1. /\ head \o A \in Seq(Int) /\ Len(head \o A) = Len(head) + Len(A)
        /\ \A i \in 1 .. Len(head) : (head \o A)[i] = head[i]
        /\ \A i \in 1 .. Len(A) : (head \o A)[Len(head) + i] = A[i]
    BY Concatenated
  <2>2. Len(head) = 4 /\ Len(A) = 2 * f  BY <1>3, <1>4
  <2>3. PICK X \in Seq(Int) : X = head \o A  BY <2>1
  <2>4. /\ Len(X) = 4 + 2 * f
        /\ \A i \in 1 .. 4 : X[i] = head[i]
        /\ \A i \in 1 .. (2 * f) : X[4 + i] = A[i]
    BY ONLY <2>1, <2>2, <2>3
  <2> QED  BY <2>3, <2>4
<1>6. PICK Y \in Seq(Int) :
        /\ Y = X \o B /\ Len(Y) = 4 + 2 * f + 2 * m
        /\ \A i \in 1 .. (4 + 2 * f) : Y[i] = X[i]
        /\ \A i \in 1 .. (2 * m) : Y[4 + 2 * f + i] = B[i]
  <2>1. /\ X \o B \in Seq(Int) /\ Len(X \o B) = Len(X) + Len(B)
        /\ \A i \in 1 .. Len(X) : (X \o B)[i] = X[i]
        /\ \A i \in 1 .. Len(B) : (X \o B)[Len(X) + i] = B[i]
    BY Concatenated
  <2>2. Len(X) = 4 + 2 * f /\ Len(B) = 2 * m  BY <1>4, <1>5
  <2> QED  BY ONLY <2>1, <2>2, Zenon
<1>7. PICK W \in Seq(Int) :
        /\ W = Y \o C /\ Len(W) = 4 + 2 * f + 2 * m + 2 * p
        /\ \A i \in 1 .. (4 + 2 * f + 2 * m) : W[i] = Y[i]
        /\ \A i \in 1 .. (2 * p) : W[4 + 2 * f + 2 * m + i] = C[i]
  <2>1. /\ Y \o C \in Seq(Int) /\ Len(Y \o C) = Len(Y) + Len(C)
        /\ \A i \in 1 .. Len(Y) : (Y \o C)[i] = Y[i]
        /\ \A i \in 1 .. Len(C) : (Y \o C)[Len(Y) + i] = C[i]
    BY Concatenated
  <2>2. Len(Y) = 4 + 2 * f + 2 * m /\ Len(C) = 2 * p  BY <1>4, <1>6
  <2> QED  BY ONLY <2>1, <2>2, Zenon
<1>8. W = DirectoryWords(d)  BY <1>2, <1>3, <1>4, <1>5, <1>6, <1>7 DEF DirectoryWords
<1>9. W[1] = c /\ W[2] = f /\ W[3] = m /\ W[4] = p
  <2>1. \A i \in 1 .. 4 : i \in 1 .. (4 + 2 * f) /\ i \in 1 .. (4 + 2 * f + 2 * m)  OBVIOUS
  <2>2. \A i \in 1 .. 4 : W[i] = head[i]  BY <1>5, <1>6, <1>7, <2>1
  <2>3. 1 \in 1 .. 4 /\ 2 \in 1 .. 4 /\ 3 \in 1 .. 4 /\ 4 \in 1 .. 4  OBVIOUS
  <2> QED  BY <1>3, <2>2, <2>3
<1>10. ASSUME NEW i \in 1 .. f PROVE W[4 + 2 * i - 1] = i - 1 /\ W[4 + 2 * i] = d.fields[i]
  <2>1. ASSUME NEW k \in 1 .. (2 * f) PROVE W[4 + k] = A[k]
    <3>1. 4 + k \in 1 .. (4 + 2 * f) /\ 4 + k \in 1 .. (4 + 2 * f + 2 * m)  OBVIOUS
    <3> QED  BY <1>5, <1>6, <1>7, <3>1
  <2>2. 2 * i - 1 \in 1 .. (2 * f) /\ 2 * i \in 1 .. (2 * f) /\ 4 + 2 * i - 1 = 4 + (2 * i - 1)
    OBVIOUS
  <2> QED  BY <1>4, <2>1, <2>2
<1>11. ASSUME NEW i \in 1 .. m
       PROVE  W[4 + 2 * f + 2 * i - 1] = i - 1 /\ W[4 + 2 * f + 2 * i] = d.methods[i]
  <2>1. ASSUME NEW k \in 1 .. (2 * m) PROVE W[4 + 2 * f + k] = B[k]
    <3>1. 4 + 2 * f + k \in 1 .. (4 + 2 * f + 2 * m)  OBVIOUS
    <3> QED  BY <1>6, <1>7, <3>1
  <2>2. 2 * i - 1 \in 1 .. (2 * m) /\ 2 * i \in 1 .. (2 * m)
        /\ 4 + 2 * f + 2 * i - 1 = 4 + 2 * f + (2 * i - 1)
    OBVIOUS
  <2> QED  BY <1>4, <2>1, <2>2
<1>12. ASSUME NEW i \in 1 .. p
       PROVE  /\ W[4 + 2 * f + 2 * m + 2 * i - 1] = i - 1
              /\ W[4 + 2 * f + 2 * m + 2 * i] = d.parameters[i]
  <2>1. 2 * i - 1 \in 1 .. (2 * p) /\ 2 * i \in 1 .. (2 * p)
        /\ 4 + 2 * f + 2 * m + 2 * i - 1 = 4 + 2 * f + 2 * m + (2 * i - 1)
    OBVIOUS
  <2> QED  BY <1>4, <1>7, <2>1
<1> QED  BY <1>2, <1>7, <1>8, <1>9, <1>10, <1>11, <1>12

\* Whatever the directory names for its members is in the set it was taken from.
LEMMA MembersAre ==
    ASSUME NEW offs, offs \subseteq Int, NEW m \in Members(offs)
    PROVE  m \in Seq(Int) /\ \A i \in 1 .. Len(m) : m[i] \in offs
<1>1. PICK n \in 0 .. 2 : m \in [1 .. n -> offs]  BY DEF Members
<1>2. m \in Seq(offs) /\ Len(m) = n  BY <1>1, FunctionIsSeq
<1> QED  BY <1>1, <1>2, SeqMonotonic

\* Offsets are numbers.
LEMMA OffsAreInt ==
    ASSUME NEW S, NEW s \in Seq(S), \A e \in S : e.off \in Nat \ {0}
    PROVE  Offs(s) \subseteq Nat \ {0}
<1>1. ASSUME NEW k \in DOMAIN s PROVE s[k].off \in Nat \ {0}
  <2>1. s[k] \in S  OBVIOUS
  <2> QED  BY <2>1
<1> QED  BY <1>1 DEF Offs

\* The offsets of sets and of lists of references are numbers other than 0.
LEMMA SetOffs ==
    DexInv => Offs(sets) \subseteq Nat \ {0} /\ Offs(refLists) \subseteq Nat \ {0}
<1> SUFFICES ASSUME DexInv
             PROVE  Offs(sets) \subseteq Nat \ {0} /\ Offs(refLists) \subseteq Nat \ {0}
  OBVIOUS
<1>1. sets \in Seq(SetRecord) /\ refLists \in Seq(RefsRecord)  BY DEF DexInv, SetsInv
<1>2. \A e \in SetRecord : e.off \in Nat \ {0}  BY DEF SetRecord
<1>3. \A e \in RefsRecord : e.off \in Nat \ {0}  BY DEF RefsRecord
<1> QED  BY <1>1, <1>2, <1>3, OffsAreInt

\* The directory is written with the numbers that DirectoryWords lists.
LEMMA AddDirectoryKeeps == DexInv /\ AddDirectory => DexInv'
<1> SUFFICES ASSUME DexInv, AddDirectory PROVE DexInv'  OBVIOUS
<1>1. /\ UNCHANGED <<pStringIds, pTypeIds, pProtoIds, pMethodIds, pClassDefs, lists, sets,
                     refLists, classes, codes>>
      /\ section = "directory" /\ section' = "classes"
  BY DEF AddDirectory
<1>2. pClassDefs = <<>> /\ classes = <<>>  BY <1>1 DEF DexInv, SectionsInv
<1>3. PICK c \in {0} \cup Offs(sets), f \in Members(Offs(sets)), m \in Members(Offs(sets)),
           p \in Members(Offs(refLists)) :
        /\ AppendAt(Here, u4(<<c, Len(f), Len(m), Len(p)>> \o Items(f) \o Items(m) \o Items(p)))
        /\ directory' = <<[off |-> Here, class |-> c, fields |-> f, methods |-> m,
                           parameters |-> p]>>
  BY DEF AddDirectory
<1>4. Offs(sets) \subseteq Nat \ {0} /\ Offs(refLists) \subseteq Nat \ {0}  BY SetOffs
<1>5. /\ c \in Int /\ f \in Seq(Int) /\ m \in Seq(Int) /\ p \in Seq(Int)
      /\ \A i \in 1 .. Len(f) : f[i] \in Offs(sets)
      /\ \A i \in 1 .. Len(m) : m[i] \in Offs(sets)
      /\ \A i \in 1 .. Len(p) : p[i] \in Offs(refLists)
  <2>1. Offs(sets) \subseteq Int /\ Offs(refLists) \subseteq Int  BY <1>4
  <2> QED  BY <2>1, MembersAre
<1>6. PICK off \in Nat \ {0} : off = Here
  <2>1. image \in Seq(Int) /\ Len(image) \in Nat \ {0}  BY DEF DexInv, SectionsInv
  <2> QED  BY <2>1, AlignedAddress DEF Here
<1>7. PICK d : d = [off |-> off, class |-> c, fields |-> f, methods |-> m, parameters |-> p]
  OBVIOUS
<1>8. /\ d \in DirectoryRecord
      /\ d.off = off /\ d.class = c /\ d.fields = f /\ d.methods = m /\ d.parameters = p
  BY <1>5, <1>7 DEF DirectoryRecord
<1>9. directory' = <<d>>  BY <1>3, <1>6, <1>7
<1>10. PICK W \in Seq(Int) : W = DirectoryWords(d)  BY <1>8, DirectoryNumbers
<1>11. AppendAt(Here, u4(W))  BY <1>3, <1>8, <1>10 DEF DirectoryWords
<1>12. Grows /\ \A j \in 1 .. Len(W) : NumberAt(off + 4 * (j - 1), W[j])'
  <2>1. PICK o \in Nat \ {0} : o = Here /\ \A j \in 1 .. Len(W) : NumberAt(o + 4 * (j - 1), W[j])'
    BY <1>11, WordsWritten
  <2>2. o = off  BY <1>6, <2>1
  <2> QED  BY <1>11, <2>1, <2>2, WordsWritten
<1>13. DirectoryAt(d)'  BY <1>8, <1>10, <1>12 DEF DirectoryAt, NumberAt
<1>14. directory' \in Seq(DirectoryRecord) /\ Len(directory') = 1 /\ directory'[1] = d
  BY <1>8, <1>9
<1>15. DirectoryInv'
  <2>1. DirectoryAt(directory[1])'  BY <1>13, <1>14 DEF DirectoryAt, NumberAt
  <2>2. ASSUME NEW k \in 1 .. Len(directory')
        PROVE  LET e == directory'[k] IN
               /\ DirectoryAt(directory[k])'
               /\ e.class \in {0} \cup Offs(sets')
               /\ \A i \in 1 .. Len(e.fields) : e.fields[i] \in Offs(sets')
               /\ \A i \in 1 .. Len(e.methods) : e.methods[i] \in Offs(sets')
               /\ \A i \in 1 .. Len(e.parameters) : e.parameters[i] \in Offs(refLists')
    <3>1. k = 1  BY <1>14
    <3>2. DirectoryAt(directory[k])'  BY <2>1, <3>1
    <3>3. directory'[k] = d /\ sets' = sets /\ refLists' = refLists  BY <1>1, <1>14, <3>1
    <3> QED  BY <1>5, <1>8, <3>2, <3>3
  <2> QED  BY <1>14, <2>2 DEF DirectoryInv, Offs
<1>16. /\ StringsInv' /\ ListsInv' /\ SetsInv' /\ CodesInv'
       /\ image' \in Seq(Int) /\ Len(image') > 0
  BY <1>1, <1>12, PartsStay
<1>17. SectionsInv' /\ ClassesInv'  BY <1>1, <1>2, <1>16, EmptySeq DEF SectionsInv, ClassesInv
<1> QED  BY <1>15, <1>16, <1>17 DEF DexInv

\* Code is written with its padding, its tries, its handlers and its debug info.
LEMMA AddCodeKeeps == DexInv /\ AddCode => DexInv'
<1> SUFFICES ASSUME DexInv, AddCode PROVE DexInv'  OBVIOUS
<1>1. /\ UNCHANGED <<pStringIds, pTypeIds, pProtoIds, pMethodIds, pClassDefs, lists, sets,
                     refLists, directory, classes>>
      /\ section = "directory" /\ section' = "classes"
  BY DEF AddCode
<1>2. pClassDefs = <<>> /\ classes = <<>>  BY <1>1 DEF DexInv, SectionsInv
<1>3. image \in Seq(Int) /\ Len(image) \in Nat  BY DEF DexInv, SectionsInv
<1>4. PICK off \in Nat : off = Here /\ off % 4 = 0 /\ Len(image) <= off
  BY <1>3, AlignedAddress DEF Here
<1>5. PICK n \in 0 .. MaxInsns, t \in 0 .. 2 :
        LET tries == Aligned(off + 16 + 2 * n)
            handlers == tries + 8 * t
        IN /\ AppendAt(off, u2(<<2, 1, 1, t>>) \o u4(<<handlers + 1, n>>)
                              \o Filler(handlers - off - 16) \o u1(<<77, 88>>))
           /\ codes' = <<[off |-> off, tries |-> tries, handlers |-> handlers,
                          debug |-> handlers + 1]>>
  BY <1>4 DEF AddCode, InsnsAt, TrySize
<1>6. n \in Nat /\ t \in Nat  BY DexAssumption
<1>7. PICK tries \in Nat, handlers \in Nat :
        /\ tries = Aligned(off + 16 + 2 * n) /\ handlers = tries + 8 * t
        /\ off + 16 <= handlers
  <2>1. PICK a \in Nat : a = off + 16 + 2 * n  BY <1>6
  <2>2. Aligned(a) \in Nat /\ a <= Aligned(a)  BY AlignedAddress
  <2>3. PICK b \in Nat : b = Aligned(off + 16 + 2 * n) /\ a <= b  BY <2>1, <2>2
  <2>4. b + 8 * t \in Nat /\ off + 16 <= b + 8 * t  BY <1>6, <2>1, <2>3
  <2> QED  BY <2>3, <2>4
<1>8. PICK gap \in Nat : gap = handlers - off - 16  BY <1>7
<1>9. PICK A \in Seq(Int) : A = u2(<<2, 1, 1, t>>) /\ Len(A) = 8 /\ A[7] = t
  <2>1. PICK two \in Int, one \in Int, u \in Int : two = 2 /\ one = 1 /\ u = t  BY <1>6
  <2>2. PICK ns \in Seq(Int) : ns = <<two, one, one, u>> /\ Len(ns) = 4 /\ ns[4] = u
    <3>1. /\ <<two, one, one, u>> \in Seq(Int) /\ Len(<<two, one, one, u>>) = 4
          /\ <<two, one, one, u>>[4] = u
      BY ONLY two \in Int, one \in Int, u \in Int, Tuples, Zenon
    <3> QED  BY ONLY <3>1, Zenon
  <2>3. u2(ns) \in Seq(Int) /\ Len(u2(ns)) = 2 * Len(ns)
        /\ \A j \in 1 .. Len(ns) : u2(ns)[2 * j - 1] = ns[j]
    BY TwoBytes
  <2>4. 4 \in 1 .. Len(ns) /\ 2 * 4 - 1 = 7 /\ 2 * 4 = 8  BY <2>2
  <2>5. Len(u2(ns)) = 8 /\ u2(ns)[7] = t  BY <2>1, <2>2, <2>3, <2>4
  <2>6. u2(ns) = u2(<<2, 1, 1, t>>)  BY <2>1, <2>2
  <2> QED  BY <2>3, <2>5, <2>6
<1>10. PICK B \in Seq(Int) :
         B = u4(<<handlers + 1, n>>) /\ Len(B) = 8 /\ B[1] = handlers + 1 /\ B[5] = n
  <2>1. PICK a \in Int, b \in Int : a = handlers + 1 /\ b = n  BY <1>6
  <2>2. PICK ns \in Seq(Int) : ns = <<a, b>> /\ Len(ns) = 2 /\ ns[1] = a /\ ns[2] = b
    <3>1. /\ <<a, b>> \in Seq(Int) /\ Len(<<a, b>>) = 2 /\ <<a, b>>[1] = a /\ <<a, b>>[2] = b
      BY ONLY a \in Int, b \in Int, Tuples, Zenon
    <3> QED  BY ONLY <3>1, Zenon
  <2>3. u4(ns) \in Seq(Int) /\ Len(u4(ns)) = 4 * Len(ns)
        /\ \A j \in 1 .. Len(ns) : u4(ns)[4 * j - 3] = ns[j]
    BY FourBytes
  <2>4. 1 \in 1 .. Len(ns) /\ 2 \in 1 .. Len(ns) /\ 4 * 1 - 3 = 1 /\ 4 * 2 - 3 = 5 /\ 4 * 2 = 8
    BY <2>2
  <2>5. u4(ns)[1] = a /\ u4(ns)[5] = b /\ Len(u4(ns)) = 8  BY <2>2, <2>3, <2>4
  <2>6. u4(ns) = u4(<<handlers + 1, n>>)  BY <2>1, <2>2
  <2> QED  BY <2>1, <2>3, <2>5, <2>6
<1>11. PICK C \in Seq(Int) : C = Filler(gap) /\ Len(C) = gap  BY FillerBytes
<1>12. PICK D \in Seq(Int) : D = <<77, 88>> /\ Len(D) = 2 /\ D[1] = 77 /\ D[2] = 88
  <2>1. PICK a \in Int, b \in Int : a = 77 /\ b = 88  OBVIOUS
  <2>2. /\ <<a, b>> \in Seq(Int) /\ Len(<<a, b>>) = 2 /\ <<a, b>>[1] = a /\ <<a, b>>[2] = b
    BY ONLY a \in Int, b \in Int, Tuples, Zenon
  <2> QED  BY ONLY <2>1, <2>2, Zenon
<1>13. PICK X \in Seq(Int) : /\ X = A \o B /\ Len(X) = 16
                             /\ X[7] = t /\ X[9] = handlers + 1 /\ X[13] = n
  <2>1. /\ A \o B \in Seq(Int) /\ Len(A \o B) = Len(A) + Len(B)
        /\ \A i \in 1 .. Len(A) : (A \o B)[i] = A[i]
        /\ \A i \in 1 .. Len(B) : (A \o B)[Len(A) + i] = B[i]
    BY Concatenated
  <2>2. 7 \in 1 .. Len(A) /\ 1 \in 1 .. Len(B) /\ 5 \in 1 .. Len(B)
        /\ Len(A) + 1 = 9 /\ Len(A) + 5 = 13 /\ Len(A) + Len(B) = 16
    <3>1. Len(A) = 8 /\ Len(B) = 8  BY <1>9, <1>10
    <3> QED  BY ONLY <3>1
  <2>3. (A \o B)[7] = t  BY <1>9, <2>1, <2>2
  <2>4. (A \o B)[Len(A) + 1] = handlers + 1 /\ (A \o B)[Len(A) + 5] = n
    BY <1>10, <2>1, <2>2
  <2>5. PICK X \in Seq(Int) : X = A \o B  BY <2>1
  <2>6. Len(X) = 16 /\ X[7] = t /\ X[9] = handlers + 1 /\ X[13] = n
    BY ONLY <2>1, <2>2, <2>3, <2>4, <2>5, Zenon
  <2> QED  BY <2>5, <2>6
<1>14. PICK Y \in Seq(Int) : /\ Y = X \o C /\ Len(Y) = 16 + gap
                             /\ Y[7] = t /\ Y[9] = handlers + 1 /\ Y[13] = n
  <2>1. /\ X \o C \in Seq(Int) /\ Len(X \o C) = Len(X) + Len(C)
        /\ \A i \in 1 .. Len(X) : (X \o C)[i] = X[i]
    BY Concatenated
  <2>2. 7 \in 1 .. Len(X) /\ 9 \in 1 .. Len(X) /\ 13 \in 1 .. Len(X)  BY <1>13
  <2> QED  BY <1>11, <1>13, <2>1, <2>2
<1>15. PICK bytes \in Seq(Int) :
         /\ bytes = Y \o D /\ Len(bytes) = 16 + gap + 2
         /\ bytes[7] = t /\ bytes[9] = handlers + 1 /\ bytes[13] = n
         /\ bytes[16 + gap + 1] = 77 /\ bytes[16 + gap + 2] = 88
  <2>1. /\ Y \o D \in Seq(Int) /\ Len(Y \o D) = Len(Y) + Len(D)
        /\ \A i \in 1 .. Len(Y) : (Y \o D)[i] = Y[i]
        /\ \A i \in 1 .. Len(D) : (Y \o D)[Len(Y) + i] = D[i]
    BY Concatenated
  <2>2. 7 \in 1 .. Len(Y) /\ 9 \in 1 .. Len(Y) /\ 13 \in 1 .. Len(Y)  BY <1>14
  <2>3. 1 \in 1 .. Len(D) /\ 2 \in 1 .. Len(D)  BY <1>12
  <2>4. (Y \o D)[7] = t /\ (Y \o D)[9] = handlers + 1 /\ (Y \o D)[13] = n
    BY <1>14, <2>1, <2>2
  <2>5. (Y \o D)[Len(Y) + 1] = 77 /\ (Y \o D)[Len(Y) + 2] = 88  BY <1>12, <2>1, <2>3
  <2>6. Len(Y) = 16 + gap /\ Len(D) = 2  BY <1>12, <1>14
  <2>7. PICK bytes \in Seq(Int) : bytes = Y \o D  BY <2>1
  <2>8. /\ Len(bytes) = 16 + gap + 2
        /\ bytes[7] = t /\ bytes[9] = handlers + 1 /\ bytes[13] = n
        /\ bytes[16 + gap + 1] = 77 /\ bytes[16 + gap + 2] = 88
    BY ONLY <2>1, <2>4, <2>5, <2>6, <2>7, Zenon
  <2> QED  BY <2>7, <2>8
<1>16. AppendAt(off, bytes)
  BY <1>5, <1>7, <1>8, <1>9, <1>10, <1>11, <1>12, <1>13, <1>14, <1>15 DEF u1
<1>17. Grows /\ \A k \in 1 .. Len(bytes) : NumberAt(off + k - 1, bytes[k])'
  BY <1>3, <1>4, <1>16, AppendGrows
<1>18. /\ NumberAt(off + 6, t)' /\ NumberAt(off + 8, handlers + 1)' /\ NumberAt(off + 12, n)'
       /\ NumberAt(handlers, 77)' /\ NumberAt(handlers + 1, 88)'
  <2>1. /\ 7 \in 1 .. Len(bytes) /\ 9 \in 1 .. Len(bytes) /\ 13 \in 1 .. Len(bytes)
        /\ 16 + gap + 1 \in 1 .. Len(bytes) /\ 16 + gap + 2 \in 1 .. Len(bytes)
    BY <1>15
  <2>2. /\ NumberAt(off + 7 - 1, t)' /\ NumberAt(off + 9 - 1, handlers + 1)'
        /\ NumberAt(off + 13 - 1, n)'
        /\ NumberAt(off + (16 + gap + 1) - 1, 77)' /\ NumberAt(off + (16 + gap + 2) - 1, 88)'
    BY <1>15, <1>17, <2>1
  <2>3. /\ off + 7 - 1 = off + 6 /\ off + 9 - 1 = off + 8 /\ off + 13 - 1 = off + 12
        /\ off + (16 + gap + 1) - 1 = handlers /\ off + (16 + gap + 2) - 1 = handlers + 1
    <3>1. gap = handlers - off - 16 /\ handlers \in Nat /\ off \in Nat  BY <1>8
    <3> QED  BY ONLY <3>1
  <2> QED  BY <2>2, <2>3 DEF NumberAt
<1>19. PICK c : c = [off |-> off, tries |-> tries, handlers |-> handlers, debug |-> handlers + 1]
  OBVIOUS
<1>20. c.off = off /\ c.tries = tries /\ c.handlers = handlers /\ c.debug = handlers + 1
  BY <1>19
<1>21. CodeAt(c)'
  <2>1. /\ c.off \in Nat /\ c.off % 4 = 0 /\ c.tries = Aligned(c.off + 16 + 2 * n)
        /\ c.handlers = c.tries + 8 * t /\ c.debug = c.handlers + 1
    BY <1>4, <1>7, <1>20
  <2>2. /\ NumberAt(c.off + 6, t)' /\ NumberAt(c.off + 8, c.debug)' /\ NumberAt(c.off + 12, n)'
        /\ NumberAt(c.handlers, 77)' /\ NumberAt(c.debug, 88)'
    BY <1>18, <1>20
  <2> QED  BY <1>6, <2>1, <2>2, Zenon DEF CodeAt
<1>22. codes' = <<c>>  BY <1>5, <1>7, <1>19
<1>23. CodesInv'
  <2>1. DOMAIN codes' = 1 .. 1 /\ codes'[1] = c  BY <1>22
  <2>2. CodeAt(codes[1])'  BY <1>21, <2>1 DEF CodeAt, NumberAt
  <2>3. \A k \in 1 .. 1 : CodeAt(codes[k])'
    <3>1. \A k \in 1 .. 1 : k = 1  OBVIOUS
    <3> QED  BY <2>2, <3>1, Zenon
  <2> QED  BY <2>1, <2>3 DEF CodesInv
<1>24. /\ StringsInv' /\ ListsInv' /\ SetsInv' /\ DirectoryInv'
       /\ image' \in Seq(Int) /\ Len(image') > 0
  BY <1>1, <1>17, PartsStay
<1>25. SectionsInv' /\ ClassesInv'  BY <1>1, <1>2, <1>24, EmptySeq DEF SectionsInv, ClassesInv
<1> QED  BY <1>23, <1>24, <1>25 DEF DexInv

\* Every step of dx keeps every item where it can be found.
LEMMA DexStepInv == DexInv /\ [DexNext]_dexVars => DexInv'
<1> SUFFICES ASSUME DexInv, [DexNext]_dexVars PROVE DexInv'  OBVIOUS
<1>1. CASE UNCHANGED dexVars
  <2>1. /\ UNCHANGED <<image, pStringIds, pTypeIds, pProtoIds, pMethodIds, pClassDefs>>
        /\ UNCHANGED <<section, lists, sets, refLists, directory, classes, codes>>
    BY <1>1 DEF dexVars
  <2>2. Grows  BY <2>1, Unwritten
  <2>3. /\ StringsInv' /\ ListsInv' /\ SetsInv' /\ DirectoryInv' /\ CodesInv' /\ ClassesInv'
        /\ image' \in Seq(Int) /\ Len(image') > 0
    BY <2>1, <2>2, PartsStay
  <2>4. SectionsInv'  BY <2>1, <2>3 DEF DexInv, SectionsInv
  <2> QED  BY <2>3, <2>4 DEF DexInv
<1>2. CASE DexNext
  BY <1>2, AddStringKeeps, AddTypesKeeps, AddListKeeps, AddMethodKeeps, AddSetKeeps,
     AddRefListKeeps, AddDirectoryKeeps, AddClassKeeps, AddCodeKeeps DEF DexNext
<1> QED  BY <1>1, <1>2

\* The invariant holds of every image that dx can write.
LEMMA DexInvariance == DexSpec => []DexInv
BY DexInitInv, DexStepInv, PTL DEF DexSpec

-----------------------------------------------------------------------------
(* What the accessors find.                                                 *)

\* What stands at a place is what the accessors read there.
LEMMA WordIsRead ==
    ASSUME NEW place, NEW n, NumberAt(place, n)
    PROVE  At(place) = n
BY DEF NumberAt, At

\* dexGetStringData skips a length of one byte and one of two.
LEMMA StringFound ==
    ASSUME DexInv, NEW id, NEW idx \in Int, id.stringDataOff \in Nat,
           StringAt(id.stringDataOff, idx)
    PROVE  At(dexGetStringData(id)) = Text(idx)
<1>1. PICK off \in Nat : off = id.stringDataOff  OBVIOUS
<1>2. PICK last \in Int : last = Len(image) - 1  BY DEF DexInv, SectionsInv
<1> DEFINE First(ptr) == /\ At(ptr - 1) <= 127
                         /\ \A p \in off .. (ptr - 2) : At(p) > 127
<1>3. dexGetStringData(id) = CHOOSE ptr \in (off + 1) .. last : First(ptr)
  BY <1>1, <1>2 DEF dexGetStringData
<1>4. CASE NumberAt(off, 5) /\ NumberAt(off + 1, Text(idx))
  <2>1. At(off) = 5 /\ At(off + 1) = Text(idx) /\ off + 1 < Len(image)
    BY <1>4, WordIsRead DEF NumberAt
  <2>2. off + 1 \in (off + 1) .. last  BY <1>2, <2>1
  <2>3. First(off + 1)
    <3>1. (off + 1) - 1 = off /\ off .. ((off + 1) - 2) = {}  OBVIOUS
    <3> QED  BY <2>1, <3>1
  <2>4. ASSUME NEW ptr \in (off + 1) .. last, First(ptr) PROVE ptr = off + 1
    <3>1. ~ (off \in off .. (ptr - 2))  BY <2>1, <2>4
    <3> QED  BY <3>1
  <2>5. dexGetStringData(id) = off + 1  BY <1>3, <2>2, <2>3, <2>4
  <2> QED  BY <2>1, <2>5
<1>5. CASE NumberAt(off, 200) /\ NumberAt(off + 1, 1) /\ NumberAt(off + 2, Text(idx))
  <2>1. At(off) = 200 /\ At(off + 1) = 1 /\ At(off + 2) = Text(idx) /\ off + 2 < Len(image)
    BY <1>5, WordIsRead DEF NumberAt
  <2>2. off + 2 \in (off + 1) .. last  BY <1>2, <2>1
  <2>3. First(off + 2)
    <3>1. (off + 2) - 1 = off + 1 /\ \A p \in off .. ((off + 2) - 2) : p = off  OBVIOUS
    <3> QED  BY <2>1, <3>1
  <2>4. ASSUME NEW ptr \in (off + 1) .. last, First(ptr) PROVE ptr = off + 2
    <3>1. ~ (off + 1 \in off .. (ptr - 2))  BY <2>1, <2>4
    <3>2. ptr # off + 1
      <4> SUFFICES ASSUME ptr = off + 1 PROVE FALSE  OBVIOUS
      <4>1. ptr - 1 = off  OBVIOUS
      <4>2. At(off) <= 127  BY <2>4, <4>1
      <4> QED  BY <2>1, <4>2
    <3> QED  BY <3>1, <3>2
  <2>5. dexGetStringData(id) = off + 2  BY <1>3, <2>2, <2>3, <2>4
  <2> QED  BY <2>1, <2>5
<1> QED  BY <1>1, <1>4, <1>5 DEF StringAt

\* A string is found by its index.
LEMMA StringOfIndex ==
    ASSUME DexInv, NEW i \in 0 .. (Len(pStringIds) - 1)
    PROVE  At(dexStringById(i)) = Text(i)
<1>1. pStringIds \in Seq([stringDataOff : Nat])  BY DEF DexInv, StringsInv
<1>2. PICK k \in 1 .. Len(pStringIds) : k = i + 1 /\ k - 1 = i  BY <1>1
<1>3. PICK id : id = pStringIds[k]  OBVIOUS
<1>4. StringAt(id.stringDataOff, i)  BY <1>2, <1>3 DEF DexInv, StringsInv
<1>5. id.stringDataOff \in Nat
  <2>1. id \in [stringDataOff : Nat]  BY <1>1, <1>3, ElementOfSeq
  <2> QED  BY <2>1
<1>6. At(dexGetStringData(id)) = Text(i)  BY <1>4, <1>5, StringFound
<1>7. dexStringById(i) = dexGetStringData(id)  BY <1>2, <1>3 DEF dexStringById, dexGetStringId
<1> QED  BY <1>6, <1>7

\* The name of a type is found by the index of the type.
LEMMA NameOfType ==
    ASSUME DexInv, NEW t \in Nat, t < Len(pTypeIds)
    PROVE  At(dexStringByTypeIdx(t)) = Text(pTypeIds[t + 1].descriptorIdx)
<1>1. pTypeIds \in Seq([descriptorIdx : Nat]) /\ pStringIds \in Seq([stringDataOff : Nat])
  BY DEF DexInv, StringsInv
<1>2. PICK k \in 1 .. Len(pTypeIds) : k = t + 1  BY <1>1
<1>3. PICK i : i = pTypeIds[k].descriptorIdx  OBVIOUS
<1>4. i \in Nat
  <2>1. pTypeIds[k] \in [descriptorIdx : Nat]  BY <1>1, ElementOfSeq
  <2> QED  BY <1>3, <2>1
<1>5. i < Len(pStringIds)  BY <1>3 DEF DexInv, StringsInv
<1>6. i \in 0 .. (Len(pStringIds) - 1)  BY <1>1, <1>4, <1>5
<1>7. At(dexStringById(i)) = Text(i)  BY <1>6, StringOfIndex
<1>8. dexStringByTypeIdx(t) = dexStringById(i)
  BY <1>2, <1>3 DEF dexStringByTypeIdx, dexGetTypeId
<1> QED  BY <1>2, <1>3, <1>7, <1>8

\* The first part of DexItemsFound: strings, and the names of the class.
LEMMA NamesAreFound == DexInv => NamesFound
<1> SUFFICES ASSUME DexInv PROVE NamesFound  OBVIOUS
<1>1. \A i \in 0 .. (Len(pStringIds) - 1) : At(dexStringById(i)) = Text(i)  BY StringOfIndex
<1>2. ASSUME NEW k \in DOMAIN classes
      PROVE  LET def == dexGetClassDef(k - 1)
                 name(t) == Text(pTypeIds[t + 1].descriptorIdx)
             IN /\ At(dexGetClassDescriptor(def)) = name(classes[k].classIdx)
                /\ classes[k].superclassIdx # 0 =>
                     At(dexGetSuperClassDescriptor(def)) = name(classes[k].superclassIdx)
                /\ IF classes[k].sourceFileIdx = kDexNoIndex THEN dexGetSourceFile(def) = NULL
                   ELSE At(dexGetSourceFile(def)) = Text(classes[k].sourceFileIdx)
  <2>1. classes = pClassDefs /\ pClassDefs \in Seq(ClassDef)
    BY DEF DexInv, SectionsInv, ClassesInv
  <2>2. k \in 1 .. Len(pClassDefs) /\ (k - 1) + 1 = k  BY <2>1
  <2>3. PICK def : def = pClassDefs[k]  OBVIOUS
  <2>4. dexGetClassDef(k - 1) = def /\ classes[k] = def  BY <2>1, <2>2, <2>3 DEF dexGetClassDef
  <2>5. def.classIdx \in Nat /\ def.superclassIdx \in Nat
    <3>1. def \in ClassDef  BY <2>1, <2>2, <2>3
    <3> QED  BY <3>1 DEF ClassDef
  <2>6. /\ def.classIdx < Len(pTypeIds) /\ def.superclassIdx < Len(pTypeIds)
        /\ def.sourceFileIdx = kDexNoIndex \/ def.sourceFileIdx \in 0 .. (Len(pStringIds) - 1)
    BY <2>2, <2>3 DEF DexInv, ClassesInv
  <2>7. At(dexGetClassDescriptor(def)) = Text(pTypeIds[def.classIdx + 1].descriptorIdx)
    BY <2>5, <2>6, NameOfType DEF dexGetClassDescriptor
  <2>8. def.superclassIdx # 0 =>
          At(dexGetSuperClassDescriptor(def)) = Text(pTypeIds[def.superclassIdx + 1].descriptorIdx)
    BY <2>5, <2>6, NameOfType DEF dexGetSuperClassDescriptor
  <2>9. IF def.sourceFileIdx = kDexNoIndex THEN dexGetSourceFile(def) = NULL
        ELSE At(dexGetSourceFile(def)) = Text(def.sourceFileIdx)
    BY <2>6, StringOfIndex DEF dexGetSourceFile
  <2> QED  BY <2>4, <2>7, <2>8, <2>9
<1> QED  BY <1>1, <1>2 DEF NamesFound

\* A list that something refers to reads as it was written.
LEMMA ListIsRead ==
    ASSUME DexInv, NEW off \in ListOffs
    PROVE  ReadsAsList(off)
<1> SUFFICES ASSUME off # NULL PROVE ReadsAsList(off)  BY DEF ReadsAsList
<1>1. PICK k \in DOMAIN lists : lists[k].off = off  BY DEF ListOffs, NULL
<1>2. lists \in Seq(ListRecord) /\ k \in 1 .. Len(lists)  BY DEF DexInv, ListsInv
<1>3. PICK l : l = lists[k]  OBVIOUS
<1>4. l \in ListRecord /\ ListAt(l)  BY <1>2, <1>3 DEF DexInv, ListsInv
<1>5. l.types \in Seq(Int) /\ DOMAIN l.types = 1 .. Len(l.types)  BY <1>4 DEF ListRecord
<1>6. At(off) = Len(l.types)  BY <1>1, <1>3, <1>4, WordIsRead DEF ListAt
<1>7. ASSUME NEW i \in DOMAIN l.types PROVE dexTypeListGetIdx(off, i - 1) = l.types[i]
  <2>1. NumberAt(off + 4 + 2 * (i - 1), l.types[i])  BY <1>1, <1>3, <1>4, <1>5 DEF ListAt
  <2> QED  BY <2>1, WordIsRead DEF dexTypeListGetIdx, dexGetTypeItem
<1> QED  BY <1>1, <1>3, <1>6, <1>7 DEF ReadsAsList

\* The second part: the parameters of methods and the interfaces of the class.
LEMMA TypeListsAreFound == DexInv => TypeListsFound
<1> SUFFICES ASSUME DexInv PROVE TypeListsFound  OBVIOUS
<1> DEFINE Method == [classIdx : Nat, protoIdx : Nat, nameIdx : Nat]
<1>1. ASSUME NEW k \in DOMAIN pMethodIds
      PROVE  ReadsAsList(dexGetProtoParameters(dexGetProtoId(
                           dexProtoSetFromMethodId(dexGetMethodId(k - 1)).protoIdx)))
  <2>1. pMethodIds \in Seq(Method) /\ k \in 1 .. Len(pMethodIds) /\ (k - 1) + 1 = k
        /\ pProtoIds \in Seq([returnTypeIdx : Nat, parametersOff : Nat])
    BY DEF DexInv, ListsInv
  <2>2. PICK p \in Nat : p = pMethodIds[k].protoIdx
    <3>1. pMethodIds[k] \in Method  BY <2>1, ElementOfSeq
    <3> QED  BY <3>1
  <2>3. p < Len(pProtoIds)  BY <2>1, <2>2 DEF DexInv, ListsInv
  <2>4. p + 1 \in 1 .. Len(pProtoIds)  BY <2>1, <2>3
  <2>5. pProtoIds[p + 1].parametersOff \in ListOffs  BY <2>4 DEF DexInv, ListsInv
  <2>6. dexProtoSetFromMethodId(dexGetMethodId(k - 1)).protoIdx = p
    BY <2>1, <2>2 DEF dexProtoSetFromMethodId, dexGetMethodId
  <2> QED  BY <2>5, <2>6, ListIsRead DEF dexGetProtoParameters, dexGetProtoId
<1>2. ASSUME NEW k \in DOMAIN classes
      PROVE  ReadsAsList(dexGetInterfacesList(dexGetClassDef(k - 1)))
  <2>1. classes = pClassDefs /\ pClassDefs \in Seq(ClassDef)
    BY DEF DexInv, SectionsInv, ClassesInv
  <2>2. k \in 1 .. Len(pClassDefs) /\ (k - 1) + 1 = k  BY <2>1
  <2>3. pClassDefs[k].interfacesOff \in ListOffs  BY <2>2 DEF DexInv, ClassesInv
  <2> QED  BY <2>2, <2>3, ListIsRead DEF dexGetInterfacesList, dexGetClassDef
<1> QED  BY <1>1, <1>2 DEF TypeListsFound

\* The numbers W stand at dir; from b of them on they are the items of members.
NumbersFrom(dir, W) == \A j \in 1 .. Len(W) : NumberAt(dir + 4 * (j - 1), W[j])

ItemsFrom(W, b, members) ==
    /\ b + 2 * Len(members) <= Len(W)
    /\ \A i \in 1 .. Len(members) : W[b + 2 * i - 1] = i - 1 /\ W[b + 2 * i] = members[i]

\* A member's item is found, and in it the member's index and what belongs to it.
LEMMA MemberItems ==
    ASSUME NEW dir \in Nat, NEW W \in Seq(Int), NEW b \in Nat, NEW members \in Seq(Int),
           NumbersFrom(dir, W), ItemsFrom(W, b, members),
           NEW i \in 1 .. Len(members)
    PROVE  LET item == (dir + 4 * b) + (i - 1) * ItemSize
           IN MemberIdx(item) = i - 1 /\ dexGetAnnotationSetItem(item) = members[i]
<1>1. PICK item \in Int : item = (dir + 4 * b) + (i - 1) * 8  OBVIOUS
<1>2. PICK j \in Nat : j = b + 2 * i - 1 /\ j \in 1 .. Len(W) /\ j + 1 \in 1 .. Len(W)
                       /\ j + 1 = b + 2 * i
  BY DEF ItemsFrom
<1>3. W[j] = i - 1 /\ W[j + 1] = members[i]  BY <1>2 DEF ItemsFrom
<1>4. NumberAt(dir + 4 * (j - 1), W[j]) /\ NumberAt(dir + 4 * ((j + 1) - 1), W[j + 1])
  BY <1>2 DEF NumbersFrom
<1>5. dir + 4 * (j - 1) = item /\ dir + 4 * ((j + 1) - 1) = item + 4  BY <1>1, <1>2
<1>6. At(item) = i - 1 /\ At(item + 4) = members[i]  BY <1>3, <1>4, <1>5, WordIsRead
<1> QED  BY <1>1, <1>6 DEF ItemSize, MemberIdx, dexGetAnnotationSetItem

\* A set has one item, and the item leads to its annotation.
LEMMA SetIsFound ==
    ASSUME DexInv, NEW off \in Offs(sets)
    PROVE  SetFound(off)
<1>1. PICK k \in DOMAIN sets : sets[k].off = off  BY DEF Offs
<1>2. sets \in Seq(SetRecord) /\ k \in 1 .. Len(sets)  BY DEF DexInv, SetsInv
<1>3. PICK s : s = sets[k]  OBVIOUS
<1>4. SetAt(s) /\ s.off = off  BY <1>1, <1>2, <1>3 DEF DexInv, SetsInv
<1>5. PICK item \in Nat : NumberAt(off + 4, item) /\ NumberAt(item + 1, s.annotation)
  BY <1>4 DEF SetAt
<1>6. off \in Nat  BY <1>4 DEF SetAt, NumberAt
<1>7. At(off) = 1 /\ At(off + 4) = item /\ At(item + 1) = s.annotation
  BY <1>4, <1>5, WordIsRead DEF SetAt
<1>8. off + 4 + 4 * 0 = off + 4  BY <1>6
<1>9. At(dexGetAnnotationItem(off, 0) + 1) = s.annotation
  BY <1>7, <1>8 DEF dexGetAnnotationItem, dexGetAnnotationOff
<1> QED  BY <1>1, <1>3, <1>7, <1>9 DEF SetFound

\* The third part: each member's index and annotations, behind the head of the directory.
LEMMA AnnotationsAreFound == DexInv => AnnotationsFound
<1> SUFFICES ASSUME DexInv, NEW k \in DOMAIN pClassDefs, directory # <<>>
             PROVE  LET dir == dexGetAnnotationsDirectoryItem(dexGetClassDef(k - 1))
                        d == directory[1]
                        SetOf(item) == SetFound(dexGetAnnotationSetItem(item))
                        RefsOf(item) ==
                          /\ dexGetParameterAnnotationSetRefSize(item) = 2
                          /\ \A i \in 0 .. 1 :
                               LET ref == dexGetParameterAnnotationSetRef(
                                             dexGetAnnotationSetItem(item), i)
                               IN dexGetSetRefItemItem(ref) = refLists[1].refs[i + 1]
                    IN /\ dexGetClassAnnotationSet(dir) = d.class
                       /\ (d.class # 0 => SetFound(d.class))
                       /\ ItemsFound(dexGetFieldAnnotations(dir), d.fields, SetOf)
                       /\ ItemsFound(dexGetMethodAnnotations(dir), d.methods, SetOf)
                       /\ ItemsFound(dexGetParameterAnnotations(dir), d.parameters, RefsOf)
  BY DEF AnnotationsFound
<1>1. directory \in Seq(DirectoryRecord) /\ 1 \in 1 .. Len(directory)  BY DEF DexInv, DirectoryInv
<1>2. PICK d \in DirectoryRecord : d = directory[1]  BY <1>1, ElementOfSeq
<1>3. /\ DirectoryAt(d) /\ d.class \in {0} \cup Offs(sets)
      /\ \A i \in 1 .. Len(d.fields) : d.fields[i] \in Offs(sets)
      /\ \A i \in 1 .. Len(d.methods) : d.methods[i] \in Offs(sets)
      /\ \A i \in 1 .. Len(d.parameters) : d.parameters[i] \in Offs(refLists)
  BY <1>1, <1>2 DEF DexInv, DirectoryInv
<1>4. PICK dir \in Nat, c \in Int, F \in Seq(Int), M \in Seq(Int), P \in Seq(Int) :
        dir = d.off /\ c = d.class /\ F = d.fields /\ M = d.methods /\ P = d.parameters
  BY <1>2 DEF DirectoryRecord
<1>5. PICK f \in Nat, m \in Nat, p \in Nat : f = Len(F) /\ m = Len(M) /\ p = Len(P)
  OBVIOUS
<1> DEFINE HeadAndItems(w, df, dm, dp) ==
             /\ w \in Seq(Int) /\ Len(w) = 4 + 2 * f + 2 * m + 2 * p
             /\ w[1] = c /\ w[2] = f /\ w[3] = m /\ w[4] = p
             /\ \A i \in 1 .. f : w[4 + 2 * i - 1] = i - 1 /\ w[4 + 2 * i] = df[i]
             /\ \A i \in 1 .. m : /\ w[4 + 2 * f + 2 * i - 1] = i - 1
                                  /\ w[4 + 2 * f + 2 * i] = dm[i]
             /\ \A i \in 1 .. p : /\ w[4 + 2 * f + 2 * m + 2 * i - 1] = i - 1
                                  /\ w[4 + 2 * f + 2 * m + 2 * i] = dp[i]
<1>6. PICK W \in Seq(Int) :
        /\ W = DirectoryWords(d) /\ Len(W) = 4 + 2 * f + 2 * m + 2 * p
        /\ W[1] = c /\ W[2] = f /\ W[3] = m /\ W[4] = p
        /\ \A i \in 1 .. f : W[4 + 2 * i - 1] = i - 1 /\ W[4 + 2 * i] = F[i]
        /\ \A i \in 1 .. m : W[4 + 2 * f + 2 * i - 1] = i - 1 /\ W[4 + 2 * f + 2 * i] = M[i]
        /\ \A i \in 1 .. p : /\ W[4 + 2 * f + 2 * m + 2 * i - 1] = i - 1
                             /\ W[4 + 2 * f + 2 * m + 2 * i] = P[i]
  <2>1. Len(d.fields) = f /\ Len(d.methods) = m /\ Len(d.parameters) = p /\ d.class = c
    BY ONLY <1>4, <1>5
  <2>2. HeadAndItems(DirectoryWords(d), d.fields, d.methods, d.parameters)
    BY ONLY d \in DirectoryRecord, <2>1, DirectoryNumbers
  <2>3. PICK W : W = DirectoryWords(d)  OBVIOUS
  <2>4. HeadAndItems(W, F, M, P)
    <3> HIDE DEF HeadAndItems
    <3> QED  BY ONLY <1>4, <2>2, <2>3
  <2> QED  BY <2>3, <2>4
<1>7. NumbersFrom(dir, W)  BY <1>3, <1>4, <1>6 DEF DirectoryAt, NumbersFrom
<1>8. At(dir) = c /\ At(dir + 4) = f /\ At(dir + 8) = m /\ At(dir + 12) = p
  <2>1. 1 \in 1 .. Len(W) /\ 2 \in 1 .. Len(W) /\ 3 \in 1 .. Len(W) /\ 4 \in 1 .. Len(W)
    <3>1. Len(W) = 4 + 2 * f + 2 * m + 2 * p  BY <1>6
    <3> QED  BY ONLY <3>1
  <2>2. /\ NumberAt(dir + 4 * (1 - 1), c) /\ NumberAt(dir + 4 * (2 - 1), f)
        /\ NumberAt(dir + 4 * (3 - 1), m) /\ NumberAt(dir + 4 * (4 - 1), p)
    BY <1>6, <1>7, <2>1 DEF NumbersFrom
  <2>3. /\ dir + 4 * (1 - 1) = dir /\ dir + 4 * (2 - 1) = dir + 4
        /\ dir + 4 * (3 - 1) = dir + 8 /\ dir + 4 * (4 - 1) = dir + 12
    OBVIOUS
  <2> QED  BY <2>2, <2>3, WordIsRead
<1>9. dexGetAnnotationsDirectoryItem(dexGetClassDef(k - 1)) = dir
  <2>1. pClassDefs \in Seq(ClassDef) /\ k \in 1 .. Len(pClassDefs) /\ (k - 1) + 1 = k
    BY DEF DexInv, ClassesInv
  <2>2. pClassDefs[k].annotationsOff = d.off  BY <1>2, <2>1 DEF DexInv, ClassesInv
  <2> QED  BY <1>4, <2>1, <2>2 DEF dexGetAnnotationsDirectoryItem, dexGetClassDef
<1>10. dexGetClassAnnotationSet(dir) = c
  BY <1>8, dir + 0 = dir DEF dexGetClassAnnotationSet, classAnnotationsOff
<1>11. c # 0 => SetFound(c)  BY <1>3, <1>4, SetIsFound
<1>12. ASSUME NEW i \in 1 .. f
       PROVE  LET item == dir + 16 + (i - 1) * ItemSize
              IN /\ MemberIdx(item) = i - 1 /\ dexGetAnnotationSetItem(item) = F[i]
                 /\ SetFound(dexGetAnnotationSetItem(item))
  <2>1. PICK b \in Nat : b = 4  OBVIOUS
  <2>2. b + 2 * Len(F) <= Len(W)  BY <1>5, <1>6, <2>1
  <2>3. ItemsFrom(W, b, F)  BY <1>5, <1>6, <2>1, <2>2 DEF ItemsFrom
  <2>4. i \in 1 .. Len(F)  BY <1>5
  <2>5. /\ MemberIdx((dir + 4 * b) + (i - 1) * ItemSize) = i - 1
        /\ dexGetAnnotationSetItem((dir + 4 * b) + (i - 1) * ItemSize) = F[i]
    BY ONLY dir \in Nat, W \in Seq(Int), b \in Nat, F \in Seq(Int), <1>7, <2>3, <2>4, MemberItems
  <2>6. dir + 4 * b = dir + 16  BY <2>1
  <2>7. SetFound(F[i])  BY <1>3, <1>4, <2>4, SetIsFound
  <2> QED  BY <2>5, <2>6, <2>7
<1>13. ASSUME NEW i \in 1 .. m
       PROVE  LET item == dir + 16 + f * ItemSize + (i - 1) * ItemSize
              IN /\ MemberIdx(item) = i - 1 /\ dexGetAnnotationSetItem(item) = M[i]
                 /\ SetFound(dexGetAnnotationSetItem(item))
  <2>1. PICK b \in Nat : b = 4 + 2 * f  OBVIOUS
  <2>2. b + 2 * Len(M) <= Len(W)  BY <1>5, <1>6, <2>1
  <2>3. ItemsFrom(W, b, M)  BY <1>5, <1>6, <2>1, <2>2 DEF ItemsFrom
  <2>4. i \in 1 .. Len(M)  BY <1>5
  <2>5. /\ MemberIdx((dir + 4 * b) + (i - 1) * ItemSize) = i - 1
        /\ dexGetAnnotationSetItem((dir + 4 * b) + (i - 1) * ItemSize) = M[i]
    BY ONLY dir \in Nat, W \in Seq(Int), b \in Nat, M \in Seq(Int), <1>7, <2>3, <2>4, MemberItems
  <2>6. dir + 4 * b = dir + 16 + f * ItemSize  BY <2>1 DEF ItemSize
  <2>7. SetFound(M[i])  BY <1>3, <1>4, <2>4, SetIsFound
  <2> QED  BY <2>5, <2>6, <2>7
<1>14. ASSUME NEW i \in 1 .. p
       PROVE  LET item == dir + 16 + f * ItemSize + m * ItemSize + (i - 1) * ItemSize
              IN MemberIdx(item) = i - 1 /\ dexGetAnnotationSetItem(item) = P[i]
  <2>1. PICK b \in Nat : b = 4 + 2 * f + 2 * m  OBVIOUS
  <2>2. b + 2 * Len(P) <= Len(W)  BY <1>5, <1>6, <2>1
  <2>3. ItemsFrom(W, b, P)  BY <1>5, <1>6, <2>1, <2>2 DEF ItemsFrom
  <2>4. i \in 1 .. Len(P)  BY <1>5
  <2>5. /\ MemberIdx((dir + 4 * b) + (i - 1) * ItemSize) = i - 1
        /\ dexGetAnnotationSetItem((dir + 4 * b) + (i - 1) * ItemSize) = P[i]
    BY ONLY dir \in Nat, W \in Seq(Int), b \in Nat, P \in Seq(Int), <1>7, <2>3, <2>4, MemberItems
  <2>6. dir + 4 * b = dir + 16 + f * ItemSize + m * ItemSize  BY <2>1 DEF ItemSize
  <2> QED  BY <2>5, <2>6
<1>15. ASSUME NEW item, dexGetAnnotationSetItem(item) \in Offs(refLists)
       PROVE  /\ dexGetParameterAnnotationSetRefSize(item) = 2
              /\ \A i \in 0 .. 1 :
                   dexGetSetRefItemItem(dexGetParameterAnnotationSetRef(
                     dexGetAnnotationSetItem(item), i)) = refLists[1].refs[i + 1]
  <2>1. PICK off : off = dexGetAnnotationSetItem(item) /\ off = At(item + 4)
    BY DEF dexGetAnnotationSetItem
  <2>2. refLists \in Seq(RefsRecord) /\ Len(refLists) <= 1  BY DEF DexInv, SetsInv
  <2>3. PICK n \in DOMAIN refLists : refLists[n].off = off  BY <1>15, <2>1 DEF Offs
  <2>4. n = 1 /\ 1 \in 1 .. Len(refLists)  BY <2>2
  <2>5. PICK r \in RefsRecord : r = refLists[1]  BY <2>2, <2>4, ElementOfSeq
  <2>6. RefsAt(r) /\ r.off = off /\ off \in Nat \ {0}
    BY <2>3, <2>4, <2>5 DEF DexInv, SetsInv, RefsRecord
  <2>7. At(off) = 2 /\ At(off + 4) = r.refs[1] /\ At(off + 8) = r.refs[2]
    BY <2>6, WordIsRead DEF RefsAt
  <2>8. dexGetParameterAnnotationSetRefSize(item) = 2
    BY <2>1, <2>6, <2>7 DEF dexGetParameterAnnotationSetRefSize
  <2>9. off + 4 + 4 * 0 = off + 4 /\ off + 4 + 4 * 1 = off + 8  BY <2>6
  <2>10. ASSUME NEW i \in 0 .. 1
         PROVE  dexGetSetRefItemItem(dexGetParameterAnnotationSetRef(off, i)) = r.refs[i + 1]
    <3>1. CASE i = 0
      BY <2>7, <2>9, <3>1, 0 + 1 = 1 DEF dexGetSetRefItemItem, dexGetParameterAnnotationSetRef
    <3>2. CASE i = 1
      BY <2>7, <2>9, <3>2, 1 + 1 = 2 DEF dexGetSetRefItemItem, dexGetParameterAnnotationSetRef
    <3> QED  BY <3>1, <3>2
  <2> QED  BY <2>1, <2>5, <2>8, <2>10
<1>16. /\ F = <<>> <=> f = 0
       /\ M = <<>> <=> m = 0
       /\ P = <<>> <=> p = 0
  BY <1>5
<1>17. /\ dexGetFieldAnnotations(dir) = IF f = 0 THEN NULL ELSE dir + 16
       /\ dexGetMethodAnnotations(dir) = IF m = 0 THEN NULL ELSE dir + 16 + f * ItemSize
       /\ dexGetParameterAnnotations(dir) =
            IF p = 0 THEN NULL ELSE dir + 16 + f * ItemSize + m * ItemSize
  BY <1>8 DEF dexGetFieldAnnotations, dexGetMethodAnnotations, dexGetParameterAnnotations,
              fieldsSize, methodsSize, parametersSize, DirectorySize
<1> DEFINE SetOf(item) == SetFound(dexGetAnnotationSetItem(item))
           RefsOf(item) ==
             /\ dexGetParameterAnnotationSetRefSize(item) = 2
             /\ \A i \in 0 .. 1 :
                  dexGetSetRefItemItem(dexGetParameterAnnotationSetRef(
                    dexGetAnnotationSetItem(item), i)) = refLists[1].refs[i + 1]
<1>18. ItemsFound(dexGetFieldAnnotations(dir), F, SetOf)
  BY <1>5, <1>12, <1>16, <1>17 DEF ItemsFound
<1>19. ItemsFound(dexGetMethodAnnotations(dir), M, SetOf)
  BY <1>5, <1>13, <1>16, <1>17 DEF ItemsFound
<1>20. ItemsFound(dexGetParameterAnnotations(dir), P, RefsOf)
  <2>1. ASSUME NEW i \in 1 .. p
        PROVE  LET item == dir + 16 + f * ItemSize + m * ItemSize + (i - 1) * ItemSize
               IN /\ MemberIdx(item) = i - 1 /\ dexGetAnnotationSetItem(item) = P[i]
                  /\ RefsOf(item)
    <3>1. P[i] \in Offs(refLists)  BY <1>3, <1>4, <1>5
    <3> QED  BY <1>14, <1>15, <3>1
  <2> HIDE DEF RefsOf
  <2> QED  BY <1>5, <1>16, <1>17, <2>1 DEF ItemsFound
<1> QED  BY <1>2, <1>4, <1>9, <1>10, <1>11, <1>18, <1>19, <1>20

\* The fourth part: the tries behind the padding, the handlers behind the tries.
LEMMA CodeIsFound == DexInv => CodeFound
<1> SUFFICES ASSUME DexInv, NEW k \in DOMAIN codes
             PROVE  /\ dexGetTries(codes[k].off) = codes[k].tries
                    /\ dexGetCatchHandlerData(codes[k].off) = codes[k].handlers
                    /\ dexGetDebugInfoStream(codes[k].off) = codes[k].debug
                    /\ At(codes[k].handlers) = 77 /\ At(codes[k].debug) = 88
  BY DEF CodeFound
<1>1. PICK c : c = codes[k]  OBVIOUS
<1>2. CodeAt(c)  BY <1>1 DEF DexInv, CodesInv
<1>3. PICK off, tries, handlers, debug :
        off = c.off /\ tries = c.tries /\ handlers = c.handlers /\ debug = c.debug
  OBVIOUS
<1> PICK n \in Nat, t \in Nat :
        /\ off \in Nat /\ off % 4 = 0
        /\ tries = Aligned(off + 16 + 2 * n) /\ handlers = tries + 8 * t
        /\ NumberAt(off + 6, t) /\ NumberAt(off + 8, debug) /\ NumberAt(off + 12, n)
        /\ NumberAt(handlers, 77) /\ NumberAt(debug, 88)
  BY <1>2, <1>3 DEF CodeAt
<1>4. At(off + 6) = t /\ At(off + 8) = debug /\ At(off + 12) = n
      /\ At(handlers) = 77 /\ At(debug) = 88
  BY <1>3, WordIsRead
<1>5. dexGetTries(off) = tries
  <2>1. PICK insnsEnd \in Nat : insnsEnd = off + 16 + 2 * n  OBVIOUS
  <2>2. insnsEnd % 4 = 0 \/ insnsEnd % 4 = 2
    BY <1>3, <2>1, Z3
  <2>3. Aligned(insnsEnd) = IF insnsEnd % 4 # 0 THEN insnsEnd + 2 ELSE insnsEnd
    BY <2>2 DEF Aligned
  <2>4. dexGetTries(off) = IF insnsEnd % 4 # 0 THEN insnsEnd + 2 ELSE insnsEnd
    BY <1>4, <2>1 DEF dexGetTries, InsnsAt, insnsSize
  <2> QED  BY <1>3, <2>1, <2>3, <2>4
<1>6. dexGetCatchHandlerData(off) = handlers
  BY <1>3, <1>4, <1>5 DEF dexGetCatchHandlerData, TrySize, triesSize
<1>7. dexGetDebugInfoStream(off) = debug  BY <1>4 DEF dexGetDebugInfoStream, debugInfoOff
<1> QED  BY <1>1, <1>3, <1>4, <1>5, <1>6, <1>7

\* dexGetStringData and the accessors beside it (DexFile.h) find what dx has put into a
\* file: the names, the lists of types, the annotations of each member and the handlers
\* and debug info of code, for a file of any number of strings and code of any length.
THEOREM DexItemsAreFound == DexSpec => []DexItemsFound
<1>1. DexInv => DexItemsFound
  BY NamesAreFound, TypeListsAreFound, AnnotationsAreFound, CodeIsFound DEF DexItemsFound
<1> QED  BY <1>1, DexInvariance, PTL

-----------------------------------------------------------------------------
(* The components side by side.                                            *)

ComponentsInv ==
    /\ BoxingInv /\ CacheInv /\ RefsInv /\ LoaderInv
    /\ InjectionInv /\ InjectionBounds /\ RemoteInv /\ RemoteBounds

\* A step of one component is a step of it, and leaves the others where they are.
LEMMA StepOfEach ==
    ASSUME [ComponentsNext]_componentsVars
    PROVE  /\ [BoxingNext]_boxingVars /\ [CacheNext]_cacheVars /\ [RefsNext]_refVars
           /\ [InjectionNext]_injectionVars /\ [Next]_vars /\ [RemoteNext]_remoteVars
BY DEF ComponentsNext, componentsVars

\* No component leaves its types, for any values of the constants of any of them: what each
\* is checked for is checked of states that it can be in.
THEOREM ComponentsTypeCorrect == ComponentsSpec => []ComponentsTypeOK
<1>1. ComponentsInit => ComponentsInv
  <2> SUFFICES ASSUME ComponentsInit PROVE ComponentsInv  OBVIOUS
  <2>1. /\ BoxingInit /\ CacheInit /\ RefsInit /\ InjectionInit /\ Init /\ RemoteInit
    BY DEF ComponentsInit
  <2> QED
    BY <2>1, BoxingInitInv, CacheInitInv, RefsInitInv, InjectionInitInv, InjectionInitBounds,
       LoaderInitInv, RemoteInitInv, RemoteInitBounds DEF ComponentsInv
<1>2. ComponentsInv /\ [ComponentsNext]_componentsVars => ComponentsInv'
  <2> SUFFICES ASSUME ComponentsInv, [ComponentsNext]_componentsVars PROVE ComponentsInv'
    OBVIOUS
  <2> USE DEF ComponentsInv
  <2>1. BoxingInv'  BY StepOfEach, BoxingStep
  <2>2. CacheInv' /\ RefsInv'  BY StepOfEach, CacheStepInv, RefsStepInv
  <2>3. InjectionInv' /\ InjectionBounds'  BY StepOfEach, InjectionStepInv, InjectionBoundsKept
  <2>4. LoaderInv'  BY StepOfEach, LoaderStepInv
  <2>5. RemoteInv' /\ RemoteBounds'  BY StepOfEach, RemoteStepInv, RemoteBoundsKept
  <2> QED  BY <2>1, <2>2, <2>3, <2>4, <2>5
<1>3. ComponentsInv => ComponentsTypeOK
  <2> SUFFICES ASSUME ComponentsInv PROVE ComponentsTypeOK  OBVIOUS
  <2> USE DEF ComponentsInv
  <2>1. BoxingTypeOK /\ CacheTypeOK /\ RefsTypeOK
    BY RefsTyped DEF BoxingInv, CacheInv
  <2>2. InjectionTypeOK /\ TypeOK /\ RemoteTypeOK
    BY InjectionTyped, RemoteTyped DEF LoaderInv
  <2> QED  BY <2>1, <2>2 DEF ComponentsTypeOK
<1> QED  BY <1>1, <1>2, <1>3, PTL DEF ComponentsSpec
=============================================================================
