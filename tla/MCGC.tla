-------------------------------- MODULE MCGC --------------------------------
EXTENDS ConcurrentGC, TLC

\* The class of classes; Node, which has a static reference and a static int; the class of
\* its arrays; a class of References below Node, with an interface and a field that
\* refOffsets cannot reach, to be linked; an array and a reference.
Shape(c, flags) ==
    [clazz |-> c, accessFlags |-> flags, element |-> 0, super |-> 0, ifields |-> {},
     sfields |-> <<>>, interfaceCount |-> 0, length |-> 0]
Heap ==
    (8 :> Shape(8, {"CLASS_ISCLASS"}))
    @@ (16 :> [Shape(8, {}) EXCEPT !.ifields = {8}, !.sfields = <<"I", "L">>])
    @@ (24 :> [Shape(8, {"CLASS_ISARRAY", "CLASS_ISOBJECTARRAY"}) EXCEPT !.element = 16])
    @@ (32 :> [Shape(8, {"CLASS_ISREFERENCE"}) EXCEPT
                 !.ifields = {24}, !.super = 16, !.interfaceCount = 1])
    @@ (40 :> [Shape(24, {}) EXCEPT !.length = 1])
    @@ (48 :> Shape(32, {}))

\* A name of its own for what the .cfg substitutes: TLC computes Heap once, and what it
\* substitutes each time.
MCLayout == Heap
MCYoung == {40, 48}
MCMutableLocs == {<<16, "static", 2>>, <<40, "contents", 0>>, <<48, "field", 24>>}
MCLinking == {32}
=============================================================================
