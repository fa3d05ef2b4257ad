---------------------------- MODULE ConcurrentGC ----------------------------
(***************************************************************************)
(* Threads that store references into the heap by the functions of         *)
(* oo/ObjectInlines.h, or by boxMethodArgs of Proxy.cpp, while the         *)
(* collector of the VM marks, and then sweeps, concurrently with them      *)
(* (alloc/Heap.h: "If true, the trace is run concurrently with the         *)
(* mutator").  The collector itself is in libdvm.so: its steps are those   *)
(* that alloc/MarkSweep.h and alloc/HeapSource.h declare, in their order.  *)
(*                                                                         *)
(* A pause waits until the thread is at a safe point; a store and its      *)
(* write barrier are two steps without a safe point between them.          *)
(***************************************************************************)
EXTENDS ObjectHeap

CONSTANTS
    Young,        \* the addresses that objects are allocated at and freed from (a bound)
    MutableLocs,  \* the locations that the thread stores into (a bound)
    Linking,      \* the classes that are linked meanwhile
    GC_CARD_SIZE, \* 128 in the code
    BoxingPhases  \* phases of the collector in which the thread executes boxMethodArgs

ASSUME GCAssumption ==
    /\ Young \subseteq Addrs /\ Linking \subseteq Addrs \ Young
    /\ GC_CARD_SIZE \in Nat \ {0} /\ BoxingPhases \subseteq {"idle", "mark", "sweep"}

VARIABLES
    mem,       \* the contents of the heap
    status,    \* of each class that is linked
    live,      \* the bitmap of the objects there are ...
    marks,     \* ... and that of the mark step
    cards,     \* the dirty cards
    scanned,   \* objects whose references have been visited in this mark step
    phase,     \* of the collector: "idle", "mark", "sweep"
    swept,     \* the sweep has passed the addresses up to this one
    locals,    \* references in the registers of the thread
    tracked,   \* its table of tracked allocations
    barrier,   \* the object whose card the thread is about to mark, or Null
    allocated  \* history: the objects that there are

gcVars == <<mem, status, live, marks, cards, scanned, phase, swept, locals, tracked,
            barrier, allocated>>

LocationsIn ==
    [a \in Addrs |->
       {<<a, "clazz", 0>>}
       \cup (IF dvmIsClassObject(a)
             THEN {<<a, "super", 0>>, <<a, "classLoader", 0>>, <<a, "elementClass", 0>>}
                    \cup {<<a, "static", i>> : i \in DOMAIN Layout[a].sfields}
                    \cup {<<a, "interface", i>> : i \in 1 .. Layout[a].interfaceCount}
             ELSE {<<a, "contents", i>> : i \in 0 .. (Layout[a].length - 1)}
                    \cup {<<a, "referent", 0>>})
       \cup {<<a, "field", off>> : off \in UNION {Layout[c].ifields : c \in Addrs}}]

Locations == UNION {LocationsIn[a] : a \in Addrs}

\* Classes are not allocated or freed here; one that is still to be linked has no objects
\* and no class below it; arrays have no fields; a reference is stored where one belongs.
ASSUME HeapAssumption ==
    /\ \A a \in Addrs : /\ {Layout[a].clazz, Layout[a].super, Layout[a].element} \cap Young = {}
                        /\ Layout[a].super \notin Linking
                        /\ a \notin Young => Layout[a].clazz \notin Linking
                        /\ IS_CLASS_FLAG_SET(a, "CLASS_ISARRAY") => InheritedFields(Linked, a) = {}
    /\ \A c \in Linking : dvmIsClassObject(c)
    /\ \A l \in MutableLocs :
         /\ l[1] \in Addrs /\ l \in LocationsIn[l[1]]
         /\ \/ l[2] = "static" /\ Layout[l[1]].sfields[l[3]] # "I"
            \/ l[2] = "field" /\ l[3] \in InheritedFields(Linked, Layout[l[1]].clazz)
            \/ l[2] = "contents" /\ IS_CLASS_FLAG_SET(Layout[l[1]].clazz, "CLASS_ISOBJECTARRAY")

InitialMem(l) ==
    CASE l[2] = "clazz" -> Layout[l[1]].clazz
      [] l[2] = "elementClass" -> Layout[l[1]].element
      [] l[2] \in {"super", "interface"} /\ l[1] \in Linking -> Idx
      [] l[2] = "super" /\ l[1] \notin Linking -> Layout[l[1]].super
      [] OTHER -> Null

Old == Addrs \ Young
\* Mutant: one card too far.
NextCardOf(a) == a \div GC_CARD_SIZE + 1

CardOf(a) == a \div GC_CARD_SIZE

Card == {a \div GC_CARD_SIZE : a \in Addrs}

GCTypeOK ==
    /\ mem \in [Locations -> Addrs \cup {Null, Idx}]
    /\ status \in [Addrs -> ClassStatus]
    /\ live \in HeapBitmap /\ marks \in HeapBitmap
    /\ cards \subseteq Card
    /\ scanned \subseteq Addrs
    /\ phase \in {"idle", "mark", "sweep"}
    /\ swept \in Addrs \cup {-1}
    /\ locals \subseteq Young /\ tracked \subseteq Young
    /\ barrier \in Addrs \cup {Null}
    /\ allocated \subseteq Addrs

GCInit ==
    /\ mem = [l \in Locations |-> InitialMem(l)]
    /\ status = [a \in Addrs |-> IF a \in Linking THEN CLASS_IDX ELSE CLASS_RESOLVED]
    /\ live = Marked(EmptyBitmap, Old) /\ marks = EmptyBitmap
    /\ cards = {} /\ scanned = {} /\ phase = "idle" /\ swept = -1
    /\ locals = {} /\ tracked = {} /\ barrier = Null
    /\ allocated = Old

IsMarked(o) == dvmHeapBitmapIsObjectBitSet(marks, o)
ValuesAt(ls) == {mem[l] : l \in ls} \cap Addrs
Children(o) == ValuesAt(visitObject(mem, status, o))
AtSafePoint == barrier = Null

-----------------------------------------------------------------------------
(* The thread.                                                                          *)

\* What it can reach: its registers, its tracked allocations, and the old objects.
Held == Old \cup locals \cup tracked

threadVars == <<locals, tracked, barrier>>
collectorVars == <<marks, scanned, phase, swept>>

\* dvmMalloc zeroes the memory, DVM_OBJECT_INIT stores the class as a field.
NewObject(o) ==
    /\ AtSafePoint /\ o \in Young \ allocated
    /\ status[Layout[o].clazz] = CLASS_RESOLVED
    /\ allocated' = allocated \cup {o}
    /\ live' = dvmHeapBitmapSetObjectBit(live, o)
    /\ UNCHANGED <<status, collectorVars>>

dvmAllocObject(o) ==
    /\ NewObject(o)
    /\ mem' = [l \in Locations |-> IF l[1] = o THEN InitialMem(l) ELSE mem[l]]
    /\ tracked' = tracked \cup {o}
    /\ barrier' = o
    /\ UNCHANGED <<cards, locals>>

dvmReleaseTrackedAlloc(o) ==
    /\ AtSafePoint /\ o \in tracked
    /\ tracked' = tracked \ {o}
    /\ UNCHANGED <<mem, status, live, collectorVars, cards, locals, barrier, allocated>>

LoadReference(l) ==
    /\ l[1] \in Held /\ mem[l] \in Young
    /\ locals' = locals \cup {mem[l]}
    /\ UNCHANGED <<mem, status, live, collectorVars, cards, tracked, barrier, allocated>>

ForgetReference(o) ==
    /\ AtSafePoint /\ o \in locals
    /\ locals' = locals \ {o}
    /\ UNCHANGED <<mem, status, live, collectorVars, cards, tracked, barrier, allocated>>

\* Mutant: the write barrier is for the object that is referred to.
SetReferenceBarrierOnValue(l, val) ==
    /\ AtSafePoint
    /\ l \in MutableLocs /\ l[1] \in Held
    /\ mem' = [mem EXCEPT ![l] = val]
    /\ barrier' = val
    /\ UNCHANGED <<status, live, collectorVars, cards, locals, tracked, allocated>>

\* The store, and a write barrier to come unless it is null that is stored.
SetReference(l, val) ==
    /\ AtSafePoint
    /\ l \in MutableLocs /\ l[1] \in Held
    /\ mem' = [mem EXCEPT ![l] = val]
    /\ barrier' = IF val # Null THEN l[1] ELSE Null
    /\ UNCHANGED <<status, live, collectorVars, cards, locals, tracked, allocated>>

dvmSetObjectArrayElement(l, val) == l[2] = "contents" /\ SetReference(l, val)
dvmSetFieldObject(l, val) == l[2] = "field" /\ SetReference(l, val)
dvmSetStaticFieldObject(l, val) == l[2] = "static" /\ SetReference(l, val)

dvmMarkCard ==
    /\ barrier # Null
    /\ cards' = cards \cup {CardOf(barrier)}
    /\ barrier' = Null
    /\ UNCHANGED <<mem, status, live, collectorVars, locals, tracked, allocated>>

\* boxMethodArgs: a new box is stored into argObjects, and is no longer tracked.
boxMethodArg(l, o) ==
    /\ phase \in BoxingPhases /\ NewObject(o)
    /\ l \in MutableLocs /\ l[1] \in tracked /\ l[2] = "contents"
    /\ mem' = [k \in Locations |-> IF k = l THEN o ELSE IF k[1] = o THEN InitialMem(k) ELSE mem[k]]
    /\ cards' = cards \cup {CardOf(o)}
    /\ UNCHANGED threadVars

\* The linker: first the status, with no super, then the super.
LinkLoaded(c) ==
    /\ AtSafePoint /\ c \in Linking /\ status[c] = CLASS_IDX
    /\ status' = [status EXCEPT ![c] = CLASS_LOADED]
    /\ mem' = [l \in Locations |->
                 IF l[1] = c /\ l[2] \in {"super", "interface"} THEN Null ELSE mem[l]]
    /\ UNCHANGED <<live, collectorVars, cards, threadVars, allocated>>

LinkResolved(c) ==
    /\ AtSafePoint /\ c \in Linking /\ status[c] = CLASS_LOADED
    /\ status' = [status EXCEPT ![c] = CLASS_RESOLVED]
    /\ mem' = [mem EXCEPT ![<<c, "super", 0>>] = Layout[c].super]
    /\ barrier' = c
    /\ UNCHANGED <<live, collectorVars, cards, locals, tracked, allocated>>

\* A class fails before or after its super is stored, or when it is initialized; that is
\* for good, and the objects it has remain.
ClassFails(c) ==
    /\ AtSafePoint /\ c \in Linking /\ status[c] > CLASS_NOTREADY
    /\ status' = [status EXCEPT ![c] = CLASS_ERROR]
    /\ \/ UNCHANGED <<mem, barrier>>
       \/ /\ status[c] = CLASS_LOADED
          /\ mem' = [mem EXCEPT ![<<c, "super", 0>>] = Layout[c].super]
          /\ barrier' = c
    /\ UNCHANGED <<live, collectorVars, cards, locals, tracked, allocated>>

-----------------------------------------------------------------------------
(* The collector.                                                                       *)

\* In a pause: dvmHeapBeginMarkStep, dvmHeapMarkRootSet, dvmClearCardTable.
BeginMark ==
    /\ phase = "idle" /\ AtSafePoint
    /\ phase' = "mark"
    /\ marks' = Marked(EmptyBitmap, Held)
    /\ scanned' = {} /\ cards' = {}
    /\ UNCHANGED <<mem, status, live, swept, threadVars, allocated>>

Gray == {o \in allocated : IsMarked(o) /\ o \notin scanned}

\* dvmHeapScanMarkedObjects, one object at a time, from the lowest address.
ScanObject ==
    /\ phase = "mark"
    /\ \E o \in Gray :
         /\ \A p \in Gray : o <= p
         /\ scanned' = scanned \cup {o}
         /\ marks' = Marked(marks, Children(o))
    /\ UNCHANGED <<mem, status, live, phase, swept, cards, threadVars, allocated>>

\* What can be marked from the objects of s.
Reachable(s) ==
    LET step[n \in 0 .. Cardinality(Young)] ==
          IF n = 0 THEN s
          ELSE LET r == step[n - 1] IN r \cup ((UNION {Children(o) : o \in r}) \ Old)
    IN step[Cardinality(Young)]

\* In a pause: dvmHeapReMarkRootSet, dvmHeapReScanMarkedObjects, which scans the marked
\* objects on dirty cards, and what they lead to, and dvmHeapSourceSwapBitmaps.
FinishMark ==
    /\ phase = "mark" /\ Gray = {} /\ AtSafePoint
    /\ phase' = "sweep" /\ swept' = -1
    /\ LET roots == Held \ {o \in Addrs : IsMarked(o)}
           dirty == {o \in allocated : IsMarked(o) /\ CardOf(o) \in cards}
           white == (UNION {Children(o) : o \in dirty}) \ {o \in Addrs : IsMarked(o)}
           found == Reachable(roots \cup white)
       IN live' = Marked(marks, found)
    /\ marks' = live /\ scanned' = {}
    /\ UNCHANGED <<mem, status, cards, threadVars, allocated>>

Garbage == {o \in Addrs : o > swept /\ IsMarked(o) /\ ~dvmHeapBitmapIsObjectBitSet(live, o)}

\* dvmHeapSweepUnmarkedObjects frees the objects that were live and are not marked.
SweepObject ==
    /\ phase = "sweep"
    /\ \E o \in Garbage :
         /\ \A p \in Garbage : o <= p
         /\ allocated' = allocated \ {o}
         /\ swept' = o
    /\ UNCHANGED <<mem, status, live, marks, scanned, phase, cards, threadVars>>

FinishSweep ==
    /\ phase = "sweep" /\ Garbage = {}
    /\ phase' = "idle" /\ swept' = -1 /\ marks' = EmptyBitmap
    /\ UNCHANGED <<mem, status, live, scanned, cards, threadVars, allocated>>

GCNext ==
    \/ \E o \in Young : dvmAllocObject(o) \/ dvmReleaseTrackedAlloc(o) \/ ForgetReference(o)
    \/ \E l \in MutableLocs : LoadReference(l)
    \/ \E l \in MutableLocs, val \in locals \cup tracked \cup {Null} :
         \/ dvmSetObjectArrayElement(l, val)
         \/ dvmSetFieldObject(l, val)
         \/ dvmSetStaticFieldObject(l, val)
    \/ dvmMarkCard
    \/ \E l \in MutableLocs, o \in Young : boxMethodArg(l, o)
    \/ \E c \in Linking : LinkLoaded(c) \/ LinkResolved(c) \/ ClassFails(c)
    \/ BeginMark \/ ScanObject \/ FinishMark
    \/ SweepObject \/ FinishSweep

GCSpec == GCInit /\ [][GCNext]_gcVars

-----------------------------------------------------------------------------
(* Properties.                                                                          *)

\* Whether there is a reference: not an index, which the super of a class is before it is
\* linked, not a number, and not a field of another class.
HoldsReference(l) ==
    LET o == l[1] IN
    CASE l[2] = "clazz" -> TRUE
      [] l[2] = "field" -> l[3] \in InheritedFields(mem, Layout[o].clazz)
      [] l[2] = "static" -> Layout[o].sfields[l[3]] # "I"
      [] l[2] = "contents" -> Layout[Layout[o].clazz].element # Null
                                /\ "CLASS_ISOBJECTARRAY" \in Layout[Layout[o].clazz].accessFlags
      [] l[2] = "elementClass" -> Layout[o].element # Null
      [] l[2] = "referent" -> "CLASS_ISREFERENCE" \in Layout[Layout[o].clazz].accessFlags
      [] OTHER -> mem[l] # Idx

\* What the status of a class that has failed hides, whatever is there.
Hidden(o) ==
    IF status[o] = CLASS_ERROR THEN {<<o, "super", 0>>} \cup visitInterfaces(o) ELSE {}

\* visitObject finds every reference an object holds, and nothing that is none; the one
\* exception is the super and the interfaces of a class that has failed, which it leaves
\* out though they may be references (VisitInlines.h:96: "status > CLASS_IDX").
VisitsTheReferences ==
    \A o \in allocated :
       visitObject(mem, status, o) =
          {l \in LocationsIn[o] : HoldsReference(l)} \ Hidden(o)

\* Each bit is that of one object: the bitmap of live objects has the bits of the
\* objects there are, however they were set, cleared and swapped.
LiveBitsAreTheObjects ==
    phase # "sweep" =>
       \A o \in Addrs : dvmHeapBitmapIsObjectBitSet(live, o) <=> o \in allocated

\* What the thread can reach has not been freed.
ReachableNotFreed == Reachable(Held) \subseteq allocated

\* "Verifies that all gray objects are on a dirty card" (alloc/CardTable.h): an object
\* that has been scanned and refers to one not marked is on a dirty card, whenever the
\* collector may pause the thread.
GrayOnDirtyCard ==
    (phase = "mark" /\ AtSafePoint) =>
       \A o \in scanned : CardOf(o) \in cards \/ \A p \in Children(o) : IsMarked(p)

\* A collection beside a running thread frees garbage only, and keeps account of what there
\* is for the next one.
CollectionSound == LiveBitsAreTheObjects /\ ReachableNotFreed /\ GrayOnDirtyCard

\* The same of what boxMethodArgs does: "argObjects is tracked, don't need to hold this
\* too" (Proxy.cpp:45), so an object that a tracked array refers to is not freed.
TrackedArrayHoldsBoxes == \A o \in tracked : Children(o) \subseteq allocated
=============================================================================
