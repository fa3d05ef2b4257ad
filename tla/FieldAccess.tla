----------------------------- MODULE FieldAccess -----------------------------
(***************************************************************************)
(* Getting and setting the fields of objects (oo/ObjectInlines.h): each is *)
(* a JValue, a union of all types that starts at the field's offset, of    *)
(* which a getter reads as many bytes as the type has; "the VM treats all  *)
(* fields as 32 or 64 bits, so the field set functions write 32 bits even  *)
(* if the underlying type is smaller".  The write barrier is in            *)
(* ConcurrentGC.                                                           *)
(***************************************************************************)
EXTENDS ByteOrder

CONSTANTS
    FieldType,      \* of each instance field, by its byteOffset
    Volatile,       \* those instance fields that are volatile, by their byteOffset
    StaticType,     \* of each static field
    ObjectSize      \* in bytes

\* The members of JValue, little-endian; floats and doubles are bits here, and so are
\* references.
Width == [z |-> 1, b |-> 1, c |-> 2, s |-> 2, i |-> 4, f |-> 4, l |-> 4, j |-> 8, d |-> 8]
Signed == {"b", "s", "i", "j"}

ASSUME FieldAssumption ==
    /\ ObjectSize \in Nat /\ ObjectSize >= 8    \* clazz and lock
    /\ Volatile \subseteq DOMAIN FieldType
    /\ \A k \in DOMAIN StaticType : StaticType[k] \in DOMAIN Width
    /\ \A o \in DOMAIN FieldType :
         /\ FieldType[o] \in DOMAIN Width
         /\ o \in 8 .. (ObjectSize - 4) /\ o % 4 = 0
         /\ FieldType[o] \in {"j", "d"} => o % 8 = 0 /\ o <= ObjectSize - 8
         /\ \A p \in DOMAIN FieldType : p > o => p >= o + IF FieldType[o] \in {"j", "d"} THEN 8 ELSE 4

VARIABLES
    contents,     \* the bytes of the object
    sfields,      \* those of the values of the static fields
    stored        \* history: what each field was last set to

fieldVars == <<contents, sfields, stored>>

\* Values at the edges of each type.
EdgeValues(t) ==
    LET n == Power[Width[t]]
    IN IF t = "z" THEN {0, 1}
       ELSE IF t \in Signed THEN {-(n \div 2), -1, 0, n \div 2 - 1} ELSE {0, 1, n - 1}

Bytes(n, v) == [k \in 0 .. (n - 1) |-> Digit(v, k)]
Bits(bytes, at, n) == Value([k \in 0 .. (n - 1) |-> bytes[at + k]], n)

\* A JValue at some offset, read as a type.
Member(bytes, at, t) ==
    LET u == Bits(bytes, at, Width[t])
    IN IF t \in Signed /\ u >= Power[Width[t]] \div 2 THEN u - Power[Width[t]] ELSE u

Written(bytes, at, n, v) ==
    [a \in DOMAIN bytes |-> IF a \in at .. (at + n - 1) THEN Bytes(n, v)[a - at] ELSE bytes[a]]

\* Mutant: a small type is written in its own bytes only, upon what the field held.
OwnWidth(t) == Width[t]

\* The width that is written for a type: that of member i at least.
WrittenWidth(t) == IF Width[t] < 4 THEN 4 ELSE Width[t]

Slot == [0 .. 7 -> Byte]

FieldTypeOK ==
    /\ contents \in [0 .. (ObjectSize - 1) -> Byte]
    /\ \A k \in DOMAIN StaticType : sfields[k] \in Slot
    /\ \A o \in DOMAIN FieldType : stored.instance[o] \in EdgeValues(FieldType[o])

FieldInit ==
    /\ contents = [a \in 0 .. (ObjectSize - 1) |-> 0]
    /\ sfields = [k \in DOMAIN StaticType |-> [a \in 0 .. 7 |-> 0]]
    /\ stored = [instance |-> [o \in DOMAIN FieldType |-> 0], static |-> [k \in DOMAIN StaticType |-> 0]]

-----------------------------------------------------------------------------
(* The functions, each for all the types there are.                                      *)

dvmGetField(offset) == Member(contents, offset, FieldType[offset])
dvmGetStaticField(k) == Member(sfields[k], 0, StaticType[k])

SetInstance(offset, v) ==
    /\ v \in EdgeValues(FieldType[offset])
    /\ contents' = Written(contents, offset, WrittenWidth(FieldType[offset]), v)
    /\ stored' = [stored EXCEPT !.instance[offset] = v]
    /\ UNCHANGED sfields

dvmSetField(offset, v) == offset \notin Volatile /\ SetInstance(offset, v)

StoredAsInt == {"z", "b", "c", "s", "i", "f"}

\* dvmSetFieldIntVolatile, and the functions for smaller types and float that call it:
\* their store is commented out.
dvmSetFieldIntVolatile(offset, v) ==
    /\ offset \in Volatile /\ FieldType[offset] \in StoredAsInt
    /\ v \in EdgeValues(FieldType[offset])
    /\ stored' = [stored EXCEPT !.instance[offset] = v]
    /\ UNCHANGED <<contents, sfields>>

\* The volatile functions for long, double and references.
dvmSetFieldWideVolatile(offset, v) ==
    offset \in Volatile /\ FieldType[offset] \notin StoredAsInt /\ SetInstance(offset, v)

SetStatic(k, v) ==
    /\ sfields' = [sfields EXCEPT ![k] = Written(sfields[k], 0, WrittenWidth(StaticType[k]), v)]
    /\ stored' = [stored EXCEPT !.static[k] = v]
    /\ UNCHANGED contents

dvmSetStaticField(k, v) == v \in EdgeValues(StaticType[k]) /\ SetStatic(k, v)
dvmSetStaticFieldVolatile(k, v) == v \in EdgeValues(StaticType[k]) /\ SetStatic(k, v)

FieldNumbers == UNION {EdgeValues(t) : t \in DOMAIN Width}

FieldNext ==
    \E v \in FieldNumbers :
       \/ \E o \in DOMAIN FieldType :
            dvmSetField(o, v) \/ dvmSetFieldIntVolatile(o, v) \/ dvmSetFieldWideVolatile(o, v)
       \/ \E k \in DOMAIN StaticType : dvmSetStaticField(k, v) \/ dvmSetStaticFieldVolatile(k, v)

FieldSpec == FieldInit /\ [][FieldNext]_fieldVars

-----------------------------------------------------------------------------
(* Properties.                                                                           *)

\* Each field reads as it was last set, whatever has been written to its neighbours: a
\* setter that writes more bytes than the type has stays in the field.  (Not so for the
\* volatile fields of dvmSetFieldIntVolatile, which does not store.)
FieldsReadBack ==
    /\ \A o \in DOMAIN FieldType :
         o \notin Volatile \/ FieldType[o] \notin StoredAsInt => dvmGetField(o) = stored.instance[o]
    /\ \A k \in DOMAIN StaticType : dvmGetStaticField(k) = stored.static[k]

\* The clazz and the lock of the object are left alone; and a field smaller than a word
\* fills its word with its sign or with zeros, so that it reads the same as an int.
WordsWhole ==
    /\ \A a \in 0 .. 7 : contents[a] = 0
    /\ \A o \in DOMAIN FieldType \ Volatile :
         Width[FieldType[o]] < 4 => Member(contents, o, "i") = stored.instance[o]

\* What a setter writes is all of its field and nothing but its field.
FieldsSound == FieldsReadBack /\ WordsWhole
=============================================================================
