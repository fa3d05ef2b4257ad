----------------------------- MODULE ObjectHeap -----------------------------
(***************************************************************************)
(* Objects on the heap of the VM, as the headers that the hook is compiled *)
(* with lay them out (oo/Object.h, oo/ObjectInlines.h), the references     *)
(* that visitObject finds in one (alloc/VisitInlines.h) and the bitmaps    *)
(* that have a bit for each object (alloc/HeapBitmap.h).                   *)
(*                                                                         *)
(* A location is a word that can hold a reference: <<object, part, n>>.    *)
(* mem, the contents of the heap, maps locations to addresses.             *)
(***************************************************************************)
EXTENDS Integers, Sequences, FiniteSets

CONSTANTS
    Layout,   \* for each address where there can be an object: what is there (see Shapes)
    Null,     \* 0, which is no address of an object
    Idx,      \* an index into a DEX file, where there will be a reference
    Depth,    \* a bound on the classes above a class
    CLASS_BITS_PER_WORD, HB_BITS_PER_WORD   \* 32 and 32 in the code

Addrs == DOMAIN Layout

CLASS_SMALLEST_OFFSET == 8
CLASS_OFFSET_ALIGNMENT == 4
HB_OBJECT_ALIGNMENT == 8

(* A class has accessFlags, the byte offsets ifields of the references that its own     *)
(* fields hold, the first letters of the signatures of its static fields, and what its  *)
(* super will be; an array has a length.                                                *)
Shapes == [clazz : Addrs, accessFlags : SUBSET {"CLASS_ISCLASS", "CLASS_ISARRAY",
               "CLASS_ISOBJECTARRAY", "CLASS_ISREFERENCE"},
           element : Addrs \cup {Null}, super : Addrs \cup {Null}, ifields : SUBSET Nat, sfields : Seq({"L", "[", "I"}),
           interfaceCount : Nat, length : Nat]

IS_CLASS_FLAG_SET(c, flag) == flag \in Layout[c].accessFlags
dvmIsClassObject(o) == IS_CLASS_FLAG_SET(Layout[o].clazz, "CLASS_ISCLASS")

ASSUME LayoutAssumption ==
    /\ Addrs # {} /\ Addrs \subseteq Nat /\ IsFiniteSet(Addrs)
    /\ Null \in Nat \ Addrs /\ Idx \notin Addrs \cup {Null}
    /\ \A a \in Addrs : a % HB_OBJECT_ALIGNMENT = 0 /\ Layout[a] \in Shapes
    /\ Depth \in Nat
    /\ CLASS_BITS_PER_WORD \in Nat \ {0} /\ HB_BITS_PER_WORD \in Nat \ {0}

\* What is a class, an array or a Reference is one of these; classes are classes.
ASSUME ShapesAssumption ==
    \A a \in Addrs :
      LET shape == Layout[a] IN
      /\ dvmIsClassObject(shape.clazz)
      /\ shape.super # Null => dvmIsClassObject(shape.super)
      /\ shape.element # Null <=> IS_CLASS_FLAG_SET(a, "CLASS_ISARRAY")
      /\ IS_CLASS_FLAG_SET(a, "CLASS_ISOBJECTARRAY") => IS_CLASS_FLAG_SET(a, "CLASS_ISARRAY")
      /\ IS_CLASS_FLAG_SET(a, "CLASS_ISREFERENCE") => ~IS_CLASS_FLAG_SET(a, "CLASS_ISARRAY")
      /\ \A off \in shape.ifields : off >= CLASS_SMALLEST_OFFSET
                                     /\ off % CLASS_OFFSET_ALIGNMENT = 0

\* How far the linking of a class is, or that it has failed; CLASS_RESOLVED stands for
\* itself and what follows it.
CLASS_ERROR == -1
CLASS_NOTREADY == 0
CLASS_IDX == 1
CLASS_LOADED == 2
CLASS_RESOLVED == 3
ClassStatus == {CLASS_ERROR, CLASS_NOTREADY, CLASS_IDX, CLASS_LOADED, CLASS_RESOLVED}

-----------------------------------------------------------------------------
(* refOffsets: a bit for each offset at which objects of a class hold references, the   *)
(* highest for the first.  A set of bits is the set of their numbers as CLZ counts them. *)

CLASS_WALK_SUPER == {CLASS_BITS_PER_WORD - 2, CLASS_BITS_PER_WORD - 1}
CLASS_BIT_NUMBER_FROM_OFFSET(off) == (off - CLASS_SMALLEST_OFFSET) \div CLASS_OFFSET_ALIGNMENT
CLASS_CAN_ENCODE_OFFSET(off) == CLASS_BIT_NUMBER_FROM_OFFSET(off) < CLASS_BITS_PER_WORD
CLASS_OFFSET_FROM_CLZ(rshift) == rshift * CLASS_OFFSET_ALIGNMENT + CLASS_SMALLEST_OFFSET

\* c and the classes above it.
SuperChain(mem, c) ==
    LET up[n \in 0 .. Depth] ==
          IF n = 0 THEN {c}
          ELSE LET s == up[n - 1]
               IN s \cup ({mem[<<k, "super", 0>>] : k \in s} \cap Addrs)
    IN up[Depth]

InheritedFields(mem, c) == UNION {Layout[k].ifields : k \in SuperChain(mem, c)}

\* The part of the contents by which classes lead to those above them once all are linked.
Linked == [l \in {<<c, "super", 0>> : c \in Addrs} |-> Layout[l[1]].super]

\* The linker sets refOffsets, unless a field is too far from the start of the object.
refOffsets(mem, c) ==
    LET fields == InheritedFields(mem, c)
    IN IF \A off \in fields : CLASS_CAN_ENCODE_OFFSET(off)
       THEN {CLASS_BIT_NUMBER_FROM_OFFSET(off) : off \in fields}
       ELSE CLASS_WALK_SUPER

-----------------------------------------------------------------------------
(* The locations that visitObject passes to the visitor.                                *)

visitFields(mem, o) ==
    LET c == Layout[o].clazz
        bits == refOffsets(mem, c)
    IN {<<o, "field", off>> :
          off \in IF bits # CLASS_WALK_SUPER
                  THEN {CLASS_OFFSET_FROM_CLZ(rshift) : rshift \in bits}
                  ELSE InheritedFields(mem, c)}

visitStaticFields(c) ==
    {<<c, "static", i>> : i \in {j \in DOMAIN Layout[c].sfields :
                                   Layout[c].sfields[j] \in {"[", "L"}}}

visitInterfaces(c) == {<<c, "interface", i>> : i \in 1 .. Layout[c].interfaceCount}

\* Mutant: the guards on the status of the class are forgotten.
visitClassObjectAlways(mem, status, c) ==
    {<<c, "clazz", 0>>, <<c, "classLoader", 0>>, <<c, "super", 0>>}
    \cup (IF IS_CLASS_FLAG_SET(c, "CLASS_ISARRAY") THEN {<<c, "elementClass", 0>>} ELSE {})
    \cup visitFields(mem, c) \cup visitStaticFields(c) \cup visitInterfaces(c)

visitClassObject(mem, status, c) ==
    {<<c, "clazz", 0>>, <<c, "classLoader", 0>>}
    \cup (IF IS_CLASS_FLAG_SET(c, "CLASS_ISARRAY") THEN {<<c, "elementClass", 0>>} ELSE {})
    \cup visitFields(mem, c) \cup visitStaticFields(c)
    \cup (IF status[c] > CLASS_IDX THEN {<<c, "super", 0>>} \cup visitInterfaces(c) ELSE {})

visitArrayObject(o) ==
    {<<o, "clazz", 0>>}
    \cup (IF IS_CLASS_FLAG_SET(Layout[o].clazz, "CLASS_ISOBJECTARRAY")
          THEN {<<o, "contents", i>> : i \in 0 .. (Layout[o].length - 1)} ELSE {})

visitDataObject(mem, o) == {<<o, "clazz", 0>>} \cup visitFields(mem, o)

visitReferenceObject(mem, o) == visitDataObject(mem, o) \cup {<<o, "referent", 0>>}

visitObject(mem, status, o) ==
    CASE dvmIsClassObject(o) -> visitClassObject(mem, status, o)
      [] ~dvmIsClassObject(o) /\ IS_CLASS_FLAG_SET(Layout[o].clazz, "CLASS_ISARRAY") ->
           visitArrayObject(o)
      [] ~dvmIsClassObject(o) /\ IS_CLASS_FLAG_SET(Layout[o].clazz, "CLASS_ISREFERENCE")
           /\ ~IS_CLASS_FLAG_SET(Layout[o].clazz, "CLASS_ISARRAY") -> visitReferenceObject(mem, o)
      [] OTHER -> visitDataObject(mem, o)

-----------------------------------------------------------------------------
(* Bitmaps: the words, each with its bits, and the highest address ever set.            *)

HB_OFFSET_TO_INDEX(offset) == (offset \div HB_OBJECT_ALIGNMENT) \div HB_BITS_PER_WORD
HB_OFFSET_TO_MASK(offset) ==
    HB_BITS_PER_WORD - 1 - ((offset \div HB_OBJECT_ALIGNMENT) % HB_BITS_PER_WORD)

HeapBase == CHOOSE a \in Addrs : \A b \in Addrs : a <= b
BitOf(o) == <<HB_OFFSET_TO_INDEX(o - HeapBase), HB_OFFSET_TO_MASK(o - HeapBase)>>

HeapBitmap == [bits : SUBSET (Nat \X Nat), max : Addrs \cup {-1}]
EmptyBitmap == [bits |-> {}, max |-> -1]

dvmHeapBitmapSetObjectBit(hb, o) ==
    [bits |-> hb.bits \cup {BitOf(o)}, max |-> IF o > hb.max THEN o ELSE hb.max]

dvmHeapBitmapIsObjectBitSet(hb, o) == o <= hb.max /\ BitOf(o) \in hb.bits

\* The bits of a set of objects, set one after the other.
Marked(hb, objects) ==
    [bits |-> hb.bits \cup {BitOf(o) : o \in objects},
     max |-> IF \A o \in objects : o <= hb.max THEN hb.max
             ELSE CHOOSE o \in objects : \A p \in objects : p <= o]
=============================================================================
