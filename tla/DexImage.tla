------------------------------ MODULE DexImage ------------------------------
(***************************************************************************)
(* How the VM finds its way in the dex file of an apk it has loaded, mapped*)
(* into memory as it is (libdex/DexFile.h, libdex/DexProto.h): tables of   *)
(* ids at the front, data behind them, and offsets into the data, 0 for    *)
(* nothing.  dx, which writes the file, puts one item behind the other;    *)
(* the accessors must find each of them again.                             *)
(***************************************************************************)
EXTENDS Integers, Sequences, SequencesExt, FiniteSetsExt

CONSTANTS
    MaxStrings, MaxTypes,
    MaxSets,       \* of annotations
    MaxInsns       \* code units in a method

ASSUME DexAssumption ==
    /\ MaxStrings \in Nat \ {0} /\ MaxTypes \in Nat \ {0}
    /\ MaxSets \in Nat /\ MaxInsns \in Nat

VARIABLES
    image,       \* the bytes from baseAddr on; a number of more than one byte stands in
                 \* its first, followed by Rest
    pStringIds, pTypeIds, pProtoIds, pMethodIds, pClassDefs,  \* the tables
    section,     \* what dx is writing
    lists, sets, refLists, directory, classes, codes          \* history: what it has written

dexVars == <<image, pStringIds, pTypeIds, pProtoIds, pMethodIds, pClassDefs,
             section, lists, sets, refLists, directory, classes, codes>>

NULL == 0
kDexNoIndex == -1   \* 0xffffffff
Rest == -2

\* Numbers one after the other, each of so many bytes.
u1(ns) == ns
u2(ns) == [p \in 1 .. (2 * Len(ns)) |-> IF p % 2 = 1 THEN ns[(p + 1) \div 2] ELSE Rest]
u4(ns) == [p \in 1 .. (4 * Len(ns)) |-> IF p % 4 = 1 THEN ns[(p + 3) \div 4] ELSE Rest]
At(addr) == IF addr < Len(image) THEN image[addr + 1] ELSE Rest
Aligned(addr) == ((addr + 3) \div 4) * 4

\* The header, of whose length nothing depends here but that no offset is 0.
DexInit ==
    /\ image = u4(<<kDexNoIndex>>)
    /\ pStringIds = <<>> /\ pTypeIds = <<>> /\ pProtoIds = <<>> /\ pMethodIds = <<>>
    /\ pClassDefs = <<>>
    /\ section = "strings"
    /\ lists = <<>> /\ sets = <<>> /\ refLists = <<>> /\ directory = <<>>
    /\ classes = <<>> /\ codes = <<>>

-----------------------------------------------------------------------------
(* The accessors.                                                          *)

dexGetStringId(idx) == pStringIds[idx + 1]

\* "Skip the uleb128 length."
dexGetStringData(stringId) ==
    CHOOSE ptr \in (stringId.stringDataOff + 1) .. (Len(image) - 1) :
       /\ At(ptr - 1) <= 127
       /\ \A p \in stringId.stringDataOff .. (ptr - 2) : At(p) > 127

dexStringById(idx) == dexGetStringData(dexGetStringId(idx))
dexGetTypeId(idx) == pTypeIds[idx + 1]
dexStringByTypeIdx(idx) == dexStringById(dexGetTypeId(idx).descriptorIdx)
dexGetMethodId(idx) == pMethodIds[idx + 1]
dexGetProtoId(idx) == pProtoIds[idx + 1]
dexGetProtoParameters(protoId) == protoId.parametersOff
dexProtoSetFromMethodId(methodId) == [protoIdx |-> methodId.protoIdx]
dexGetClassDef(idx) == pClassDefs[idx + 1]

\* struct DexTypeList: size, then u2 items.
dexGetTypeItem(list, idx) == list + 4 + 2 * idx
dexTypeListGetIdx(list, idx) == At(dexGetTypeItem(list, idx))
dexGetInterfacesList(classDef) == classDef.interfacesOff

dexGetClassDescriptor(classDef) == dexStringByTypeIdx(classDef.classIdx)
dexGetSuperClassDescriptor(classDef) ==
    IF classDef.superclassIdx = 0 THEN NULL ELSE dexStringByTypeIdx(classDef.superclassIdx)
dexGetSourceFile(classDef) ==
    IF classDef.sourceFileIdx = kDexNoIndex THEN NULL ELSE dexStringById(classDef.sourceFileIdx)

\* struct DexAnnotationsDirectoryItem, and the items that follow it.
dexGetAnnotationsDirectoryItem(classDef) == classDef.annotationsOff
classAnnotationsOff == 0
fieldsSize == 4
methodsSize == 8
parametersSize == 12
DirectorySize == 16
ItemSize == 8       \* of a member: its index, annotationsOff

dexGetClassAnnotationSet(dir) == At(dir + classAnnotationsOff)
dexGetFieldAnnotations(dir) == IF At(dir + fieldsSize) = 0 THEN NULL ELSE dir + DirectorySize
dexGetMethodAnnotations(dir) ==
    IF At(dir + methodsSize) = 0 THEN NULL
    ELSE dir + DirectorySize + At(dir + fieldsSize) * ItemSize

dexGetParameterAnnotations(dir) ==
    IF At(dir + parametersSize) = 0 THEN NULL
    ELSE dir + DirectorySize + At(dir + fieldsSize) * ItemSize + At(dir + methodsSize) * ItemSize

MemberIdx(item) == At(item)
dexGetAnnotationSetItem(item) == At(item + 4)   \* of a field, a method or parameters
dexGetParameterAnnotationSetRefSize(item) ==
    IF At(item + 4) = 0 THEN 0 ELSE At(At(item + 4))
dexGetParameterAnnotationSetRef(list, idx) == list + 4 + 4 * idx
dexGetSetRefItemItem(ref) == At(ref)

\* struct DexAnnotationSetItem: size, then offsets of annotations; an annotation has its
\* visibility first.
dexGetAnnotationOff(set, idx) == At(set + 4 + 4 * idx)
dexGetAnnotationItem(set, idx) == dexGetAnnotationOff(set, idx)

\* struct DexCode, up to its insns.
insnsSize == 12
triesSize == 6
debugInfoOff == 8
InsnsAt == 16
TrySize == 8

\* Mutant: the padding is taken for granted.
AlwaysPadded(code) == code + InsnsAt + 2 * At(code + insnsSize) + 2

\* "Round to four bytes."
dexGetTries(code) ==
    LET insnsEnd == code + InsnsAt + 2 * At(code + insnsSize)
    IN IF insnsEnd % 4 # 0 THEN insnsEnd + 2 ELSE insnsEnd
dexGetCatchHandlerData(code) == dexGetTries(code) + TrySize * At(code + triesSize)
dexGetDebugInfoStream(code) == At(code + debugInfoOff)

-----------------------------------------------------------------------------
(* dx, section after section.                                              *)

Text(idx) == 1000 + idx    \* the first of the characters of a string, in place of all
Annotation(n) == 2000 + n  \* of an annotation's

Then(next) == section' = section \/ section' = next
Filler(n) == [i \in 1 .. n |-> Rest]
AppendAt(addr, bytes) == image' = image \o Filler(addr - Len(image)) \o bytes
Here == Aligned(Len(image))

\* A string of up to 127 characters, or of more.
AddString ==
    /\ section = "strings" /\ Len(pStringIds) < MaxStrings
    /\ Then("types")
    /\ \E length \in {<<5>>, <<200, 1>>} :
         AppendAt(Len(image), u1(length \o <<Text(Len(pStringIds)), 0>>))
    /\ pStringIds' = Append(pStringIds, [stringDataOff |-> Len(image)])
    /\ UNCHANGED <<pTypeIds, pProtoIds, pMethodIds, pClassDefs, lists, sets, refLists,
                   directory, classes, codes>>

\* The types, all at once, in the order of their descriptors.
AddTypes ==
    /\ section = "types" /\ section' = "lists"
    /\ LET n == Min({MaxTypes, Len(pStringIds)})
       IN pTypeIds' = [i \in 1 .. n |-> [descriptorIdx |-> Len(pStringIds) - n + i - 1]]
    /\ UNCHANGED <<image, pStringIds, pProtoIds, pMethodIds, pClassDefs, lists, sets,
                   refLists, directory, classes, codes>>

TypeIndices == 0 .. (Len(pTypeIds) - 1)

\* A list of types, or none.
AddList ==
    /\ section = "lists" /\ section' = "protos"
    /\ \/ UNCHANGED <<image, lists>>
       \/ \E types \in {<<0>>, <<Len(pTypeIds) - 1, 0>>} :
            /\ AppendAt(Here, u4(<<Len(types)>>) \o u2(types))
            /\ lists' = Append(lists, [off |-> Here, types |-> types])
    /\ UNCHANGED <<pStringIds, pTypeIds, pProtoIds, pMethodIds, pClassDefs, sets, refLists,
                   directory, classes, codes>>

ListOffs == {0} \cup {lists[k].off : k \in DOMAIN lists}

\* A prototype, and a method that has it.
AddMethod ==
    /\ section = "protos" /\ section' = "sets"
    /\ pProtoIds' = <<[returnTypeIdx |-> 0, parametersOff |-> 0],
                      [returnTypeIdx |-> 0, parametersOff |-> IF lists = <<>> THEN 0 ELSE lists[1].off]>>
    /\ \E p \in 0 .. 1 : pMethodIds' = <<[classIdx |-> 0, protoIdx |-> p, nameIdx |-> 0]>>
    /\ UNCHANGED <<image, pStringIds, pTypeIds, pClassDefs, lists, sets, refLists,
                   directory, classes, codes>>

\* An annotation, which may start at any byte, and a set of it alone.
AddSet ==
    /\ section = "sets" /\ Len(sets) < MaxSets
    /\ Then("directory")
    /\ LET item == Len(image)
           set == Aligned(item + 2)
       IN /\ AppendAt(item, u1(<<1, Annotation(Len(sets))>>) \o Filler(set - item - 2)
                              \o u4(<<1, item>>))
          /\ sets' = Append(sets, [off |-> set, annotation |-> Annotation(Len(sets))])
    /\ UNCHANGED <<pStringIds, pTypeIds, pProtoIds, pMethodIds, pClassDefs, lists, refLists,
                   directory, classes, codes>>

\* For the parameters of a method: the second has annotations, the first none.
AddRefList ==
    /\ section = "sets" /\ sets # <<>> /\ section' = "directory"
    /\ AppendAt(Here, u4(<<2, 0, sets[1].off>>))
    /\ refLists' = Append(refLists, [off |-> Here, refs |-> <<0, sets[1].off>>])
    /\ UNCHANGED <<pStringIds, pTypeIds, pProtoIds, pMethodIds, pClassDefs, lists, sets,
                   directory, classes, codes>>

Offs(items) == {items[k].off : k \in DOMAIN items}

\* Members with annotations: items in the order of their indices.
Members(offs) == UNION {[1 .. n -> offs] : n \in 0 .. 2}
Items(m) == [j \in 1 .. (2 * Len(m)) |-> IF j % 2 = 1 THEN j \div 2 ELSE m[j \div 2]]

\* (A file of ours has a directory of annotations or code.)
AddDirectory ==
    /\ section = "directory" /\ section' = "classes"
    /\ \E c \in {0} \cup Offs(sets), f \in Members(Offs(sets)), m \in Members(Offs(sets)),
          p \in Members(Offs(refLists)) :
         /\ AppendAt(Here, u4(<<c, Len(f), Len(m), Len(p)>> \o Items(f) \o Items(m) \o Items(p)))
         /\ directory' = <<[off |-> Here, class |-> c, fields |-> f, methods |-> m,
                            parameters |-> p]>>
    /\ UNCHANGED <<pStringIds, pTypeIds, pProtoIds, pMethodIds, pClassDefs, lists, sets,
                   refLists, classes, codes>>

AddClass ==
    /\ section = "classes" /\ section' = "done"
    /\ \E c \in TypeIndices, s \in TypeIndices, i \in ListOffs, f \in {kDexNoIndex, Len(pStringIds) - 1} :
       /\ directory # <<>> => c = 0 /\ s = 0 /\ i = 0 /\ f = kDexNoIndex
       /\ pClassDefs' = <<[classIdx |-> c, superclassIdx |-> s, interfacesOff |-> i,
                            sourceFileIdx |-> f,
                            annotationsOff |-> IF directory = <<>> THEN 0 ELSE directory[1].off]>>
    /\ classes' = pClassDefs'
    /\ UNCHANGED <<image, pStringIds, pTypeIds, pProtoIds, pMethodIds, lists, sets, refLists,
                   directory, codes>>

\* Code: instructions, "optional u2 padding", tries, handlers; debug info behind it.
AddCode ==
    /\ section = "directory" /\ section' = "classes"
    /\ \E n \in 0 .. MaxInsns, t \in 0 .. 2 :
         LET tries == Aligned(Here + InsnsAt + 2 * n)
             handlers == tries + TrySize * t
         IN /\ AppendAt(Here,
                 u2(<<2, 1, 1, t>>) \o u4(<<handlers + 1, n>>) \o Filler(handlers - Here - InsnsAt)
                 \o u1(<<77, 88>>))
            /\ codes' = <<[off |-> Here, tries |-> tries, handlers |-> handlers,
                           debug |-> handlers + 1]>>
    /\ UNCHANGED <<pStringIds, pTypeIds, pProtoIds, pMethodIds, pClassDefs, lists, sets,
                   refLists, directory, classes>>

DexNext == \/ AddString \/ AddTypes \/ AddList \/ AddMethod \/ AddSet \/ AddRefList
           \/ AddDirectory \/ AddClass \/ AddCode

DexSpec == DexInit /\ [][DexNext]_dexVars

-----------------------------------------------------------------------------
(* Properties: what was written is found, wherever the items before it end.             *)

\* The VM resolves by name: the text of a string, long or short, is found by its index,
\* and through it the names of a class, of its superclass and of its source file.
NamesFound ==
    /\ \A i \in 0 .. (Len(pStringIds) - 1) : At(dexStringById(i)) = Text(i)
    /\ \A k \in DOMAIN classes :
         LET def == dexGetClassDef(k - 1)
             name(t) == Text(pTypeIds[t + 1].descriptorIdx)
         IN /\ At(dexGetClassDescriptor(def)) = name(classes[k].classIdx)
            /\ classes[k].superclassIdx # 0 =>
                 At(dexGetSuperClassDescriptor(def)) = name(classes[k].superclassIdx)
            /\ IF classes[k].sourceFileIdx = kDexNoIndex THEN dexGetSourceFile(def) = NULL
               ELSE At(dexGetSourceFile(def)) = Text(classes[k].sourceFileIdx)

\* A list of types that is not NULL reads as one that was written.
ReadsAsList(off) ==
    off # NULL =>
       \E k \in DOMAIN lists :
          /\ lists[k].off = off
          /\ At(off) = Len(lists[k].types)
          /\ \A i \in DOMAIN lists[k].types : dexTypeListGetIdx(off, i - 1) = lists[k].types[i]

\* The parameters of a method, from which boxMethodArgs and the Java side get their types,
\* and the interfaces of a class.
TypeListsFound ==
    /\ \A k \in DOMAIN pMethodIds :
         LET id == dexProtoSetFromMethodId(dexGetMethodId(k - 1))
         IN ReadsAsList(dexGetProtoParameters(dexGetProtoId(id.protoIdx)))
    /\ \A k \in DOMAIN classes : ReadsAsList(dexGetInterfacesList(dexGetClassDef(k - 1)))

\* A set, reached in whatever way, has the annotation that was written to it.
SetFound(off) ==
    \E k \in DOMAIN sets :
       /\ sets[k].off = off /\ At(off) = 1
       /\ At(dexGetAnnotationItem(off, 0) + 1) = sets[k].annotation

\* The items from first on are those of the members.
ItemsFound(first, members, found(_)) ==
    IF members = <<>> THEN first = NULL
    ELSE \A i \in DOMAIN members :
            LET item == first + (i - 1) * ItemSize
            IN /\ MemberIdx(item) = i - 1
               /\ dexGetAnnotationSetItem(item) = members[i]
               /\ found(item)

\* The annotations of each member are found, though the items of the methods come after
\* those of any number of fields, and those of the parameters after both.
AnnotationsFound ==
    \A k \in DOMAIN pClassDefs :
       directory # <<>> =>
         LET dir == dexGetAnnotationsDirectoryItem(dexGetClassDef(k - 1))
             d == directory[1]
             SetOf(item) == SetFound(dexGetAnnotationSetItem(item))
             RefsOf(item) ==
               /\ dexGetParameterAnnotationSetRefSize(item) = 2
               /\ \A i \in 0 .. 1 :
                    LET ref == dexGetParameterAnnotationSetRef(dexGetAnnotationSetItem(item), i)
                    IN dexGetSetRefItemItem(ref) = refLists[1].refs[i + 1]
         IN /\ dexGetClassAnnotationSet(dir) = d.class /\ (d.class # 0 => SetFound(d.class))
            /\ ItemsFound(dexGetFieldAnnotations(dir), d.fields, SetOf)
            /\ ItemsFound(dexGetMethodAnnotations(dir), d.methods, SetOf)
            /\ ItemsFound(dexGetParameterAnnotations(dir), d.parameters, RefsOf)

\* The tries, the handlers and the debug info of a method are found, whether the number
\* of its code units is even or odd.
CodeFound ==
    \A k \in DOMAIN codes :
       /\ dexGetTries(codes[k].off) = codes[k].tries
       /\ dexGetCatchHandlerData(codes[k].off) = codes[k].handlers
       /\ dexGetDebugInfoStream(codes[k].off) = codes[k].debug
       /\ At(codes[k].handlers) = 77 /\ At(codes[k].debug) = 88

\* Whatever is in a dex file is found in it, by arithmetic on offsets alone.
DexItemsFound == NamesFound /\ TypeListsFound /\ AnnotationsFound /\ CodeFound
=============================================================================
