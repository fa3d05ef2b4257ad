---------------------------- MODULE IndirectRefs ----------------------------
(***************************************************************************)
(* The table of local references that stands between the objects of the    *)
(* VM and native code such as libhook (IndirectRefTable.h).  The native    *)
(* code gets an IndirectRef, a number made of the index of a slot, the     *)
(* serial number of its use and a kind.  A call of a native method pushes  *)
(* a segment, its return pops it; the collector takes the objects in the   *)
(* table for roots.                                                        *)
(***************************************************************************)
EXTENDS Integers, Sequences, FiniteSets

CONSTANTS
    RefObjects,    \* the objects referred to: numbers, 0 being NULL
    max_entries,   \* 512 for local references in the VM
    SERIALS,       \* 4096 in the code
    MaxSegments    \* a bound on the native calls in one another

ASSUME IndirectRefsAssumption ==
    /\ RefObjects \subseteq Nat \ {0}
    /\ max_entries \in Nat \ {0} /\ max_entries <= 65535   \* 16 bits of a reference
    /\ SERIALS \in Nat \ {0} /\ MaxSegments \in Nat

kIndirectKindInvalid == 0
kIndirectKindLocal == 1
kInvalidIndirectRefObject == -1

VARIABLES
    table,         \* the slots: the object, or 0, and the serial number
    segmentState,  \* topIndex: the first unused entry; numHoles: unused entries below it
    cookies,       \* those of the native frames: what segmentState was at the call
    held,          \* history: the references that have not been deleted, their objects and segments
    stale          \* history: the references that have

refVars == <<table, segmentState, cookies, held, stale>>

Indices == 0 .. (max_entries - 1)
SegmentState == [topIndex : 0 .. max_entries, numHoles : 0 .. max_entries]
IRT_FIRST_SEGMENT == [topIndex |-> 0, numHoles |-> 0]

nextSerial(serial) == (serial + 1) % SERIALS
\* The serial number begins at bit 20, the index of the slot, of 16 bits, at bit 2.
toIndirectRef(index, serial, kind) == serial * 1048576 + index * 4 + kind
indirectRefKind(iref) == iref % 4
extractIndex(iref) == (iref \div 4) % 65536
extractSerial(iref) == iref \div 1048576

RefsTypeOK ==
    /\ table \in [Indices -> [obj : RefObjects \cup {0}, serial : 0 .. (SERIALS - 1)]]
    /\ segmentState \in SegmentState
    /\ cookies \in Seq(SegmentState) /\ Len(cookies) \in 1 .. (MaxSegments + 1)
    /\ \A h \in held : h.obj \in RefObjects /\ indirectRefKind(h.iref) = kIndirectKindLocal

RefsInit ==
    /\ table = [i \in Indices |-> [obj |-> 0, serial |-> 0]]
    /\ segmentState = IRT_FIRST_SEGMENT
    /\ cookies = <<IRT_FIRST_SEGMENT>>
    /\ held = {} /\ stale = {}

\* The bottom of the current segment, and the holes below it.
cookie == cookies[Len(cookies)]
topIndex == segmentState.topIndex
numHoles == segmentState.numHoles - cookie.numHoles

\* The iterator: every entry but the unused ones.  It also skips kClearedJniWeakGlobal,
\* which stands only in tables of weak globals, never in this table of local references.
skipNullsAndTombstones == {i \in 0 .. (topIndex - 1) : table[i].obj # 0}
Roots == {table[i].obj : i \in skipNullsAndTombstones}

-----------------------------------------------------------------------------
(* The operations, of libdvm.so, as far as the comments in the header tell.              *)

\* "Additions to the table must be made in the current segment even if space is available
\* in an earlier area": the hole that is nearest to the top.
LastHole == CHOOSE i \in 0 .. (topIndex - 1) :
               table[i].obj = 0 /\ \A j \in (i + 1) .. (topIndex - 1) : table[j].obj # 0

\* add: into a hole of the segment, or at the top; nothing if the table is full.
add(obj) ==
    \E i \in Indices :
       LET serial == nextSerial(table[i].serial)
           iref == toIndirectRef(i, serial, kIndirectKindLocal)
       IN /\ IF numHoles > 0
             THEN /\ i = LastHole
                  /\ segmentState' = [segmentState EXCEPT !.numHoles = @ - 1]
             ELSE /\ i = topIndex
                  /\ segmentState' = [segmentState EXCEPT !.topIndex = @ + 1]
          /\ iref \notin stale   \* nobody keeps a reference for SERIALS uses of its slot
          /\ table' = [table EXCEPT ![i] = [obj |-> obj, serial |-> serial]]
          /\ held' = held \cup {[iref |-> iref, obj |-> obj, depth |-> Len(cookies)]}
          /\ UNCHANGED <<cookies, stale>>

\* Mutant: the serial number is not compared.
ValidIndex(iref) == extractIndex(iref) < topIndex /\ table[extractIndex(iref)].obj # 0

checkEntry(iref) ==
    LET i == extractIndex(iref)
    IN /\ i < topIndex /\ table[i].obj # 0
       /\ table[i].serial = extractSerial(iref)

get(iref) == IF checkEntry(iref) THEN table[extractIndex(iref)].obj
             ELSE kInvalidIndirectRefObject

\* "When the top-most entry is removed, any holes immediately below it are also removed":
\* the new top, not below the bottom of the segment.
TopWithout(i) ==
    CHOOSE top \in cookie.topIndex .. i :
       /\ \A j \in top .. (i - 1) : table[j].obj = 0
       /\ top = cookie.topIndex \/ table[top - 1].obj # 0

remove(iref) ==
    LET i == extractIndex(iref)
    IN /\ i >= cookie.topIndex /\ checkEntry(iref)
       /\ table' = [table EXCEPT ![i].obj = 0]
       /\ segmentState' =
            IF i = topIndex - 1
            THEN [topIndex |-> TopWithout(i), numHoles |-> segmentState.numHoles - (i - TopWithout(i))]
            ELSE [segmentState EXCEPT !.numHoles = @ + 1]
       /\ held' = {h \in held : h.iref # iref} /\ stale' = stale \cup {iref}
       /\ UNCHANGED cookies

\* DeleteLocalRef of any reference the native code has, stale ones included.
DeleteLocalRef ==
    \E iref \in {h.iref : h \in held} \cup stale : remove(iref)

\* A native method is called: the segment state is pushed, and serves as the bottom.
PushSegment ==
    /\ Len(cookies) <= MaxSegments
    /\ cookies' = Append(cookies, segmentState)
    /\ UNCHANGED <<table, segmentState, held, stale>>

\* It returns: the value from the stack becomes the new segment state.
PopSegment ==
    /\ Len(cookies) > 1
    /\ segmentState' = cookie
    /\ cookies' = SubSeq(cookies, 1, Len(cookies) - 1)
    /\ LET gone == {h \in held : h.depth = Len(cookies)}
       IN held' = held \ gone /\ stale' = stale \cup {h.iref : h \in gone}
    /\ UNCHANGED table

RefsNext == (\E obj \in RefObjects : add(obj)) \/ DeleteLocalRef \/ PushSegment \/ PopSegment

RefsSpec == RefsInit /\ [][RefsNext]_refVars

-----------------------------------------------------------------------------
(* Properties.                                                                           *)

\* A reference that has not been deleted leads to its object: neither the reuse of holes
\* nor the return of other native methods touches it.
HeldResolves == \A h \in held : get(h.iref) = h.obj

\* A reference that has been deleted, by itself or with its segment, leads nowhere, even
\* when its slot has been used again ("create iref1 for obj, delete iref1, create iref2
\* for same obj, lookup iref1").
StaleIsInvalid == \A iref \in stale : get(iref) = kInvalidIndirectRefObject

\* The collector finds as roots the objects of the references that are held, no others;
\* and the holes are counted right, which is what decides where add looks.
RootsAreHeld ==
    /\ Roots = {h.obj : h \in held}
    /\ segmentState.numHoles = topIndex - Cardinality(skipNullsAndTombstones)

\* What native code, and the collector, get by the references that are in use and by those
\* that are not.
ReferencesResolve == HeldResolves /\ StaleIsInvalid /\ RootsAreHeld
=============================================================================
