----------------------------- MODULE ArgBoxing -----------------------------
(***************************************************************************)
(* What methodHookHandler of Proxy.cpp makes of an invocation: it takes    *)
(* the arguments out of the registers of the hooked method's frame, boxes  *)
(* them into an Object[] for handleHookedMethod, and unboxes what that     *)
(* returns into the result that the invoker expects.                       *)
(*                                                                         *)
(* The invoker has put the arguments in registers by their types, one      *)
(* register each or two for a long or a double.  A boolean or a byte uses  *)
(* the lower bits of a register, extended to the rest.                     *)
(***************************************************************************)
EXTENDS Integers, Sequences

CONSTANTS
    WORDS,       \* the values of a register, 2^32 in the code ...
    BYTES,       \* ... and of a byte, 2^8
    References,  \* objects, and thereby the contents of a register
    Letters,     \* the types that the shorty names, as far as they differ here
    MaxArgs      \* a bound on the parameters of a method

ASSUME BoxingAssumption ==
    /\ BYTES \in Nat \ {0} /\ BYTES % 2 = 0
    /\ WORDS \in Nat \ {0} /\ WORDS % BYTES = 0
    /\ Letters \subseteq {"Z", "B", "I", "J", "L"}
    /\ MaxArgs \in Nat
    /\ References \subseteq 1 .. (WORDS - 1)

Word == 0 .. (WORDS - 1)
Null == 0

\* What registers hold for a value of each type.
Unsigned == 0 .. (BYTES - 1)
SignExtend(n) == IF n < BYTES \div 2 THEN n ELSE n + WORDS - BYTES
Values(c) ==
    CASE c = "Z" -> {<<n>> : n \in {0, 1}}
      [] c = "B" -> {<<SignExtend(n)>> : n \in Unsigned}
      [] c = "I" -> {<<n>> : n \in Word}
      [] c = "J" -> Word \X Word
      [] c = "L" -> {<<r>> : r \in References \cup {Null}}

VARIABLES
    boxPc,        \* "pass": the invoker passes arguments; "box", "call", "handling", "returned"
    shorty,       \* of the method invoked: the types of its arguments ...
    returns,      \* ... and of its result, "V" for none
    isStatic,
    passed,       \* history: the values passed
    ins,          \* the registers they are in
    thisObject, srcIndex, argObjects,   \* the handler's and boxMethodArgs's locals
    handled,      \* history: what handleHookedMethod returned
    pResult,      \* what the invoker finds as the result
    pending       \* the exception it finds

boxingVars == <<boxPc, shorty, returns, isStatic, passed, ins, thisObject, srcIndex,
                argObjects, handled, pResult, pending>>

None == [class |-> "none", value |-> <<>>]
Box(c, v) == [class |-> c, value |-> v]

\* dvmBoxPrimitive keeps of a narrow value only its bits.
dvmBoxPrimitive(c, v) ==
    Box(c, IF c = "J" THEN v
           ELSE IF c \in {"Z", "B"} THEN <<v[1] % BYTES>> ELSE <<v[1]>>)

Boxes(c) == {dvmBoxPrimitive(c, v) : v \in Values(c)}
Objects == UNION {Boxes(c) : c \in Letters}
Exceptions == {"none", "callback", "NullPointerException", "ClassCastException"}

BoxingTypeOK ==
    /\ boxPc \in {"pass", "box", "call", "handling", "returned"}
    /\ shorty \in Seq(Letters) /\ Len(shorty) <= MaxArgs
    /\ returns \in Letters \cup {"V"}
    /\ isStatic \in BOOLEAN
    /\ Len(passed) = Len(shorty)
    /\ \A k \in DOMAIN passed : passed[k] \in Values(shorty[k])
    /\ ins \in Seq(Word)
    /\ thisObject \in References \cup {Null}
    /\ srcIndex \in 0 .. Len(ins)
    /\ argObjects \in Seq(Objects)
    /\ handled \in Objects \cup {None}
    /\ pResult \in Seq(Word)
    /\ pending \in Exceptions

\* A method is invoked: its kind and what it returns, and this, if it has one.
BoxingInit ==
    /\ boxPc = "pass"
    /\ shorty = <<>> /\ passed = <<>>
    /\ isStatic \in BOOLEAN
    /\ ins \in IF isStatic THEN {<<>>} ELSE {<<r>> : r \in References}
    /\ returns = "V"
    /\ thisObject = Null /\ srcIndex = 0 /\ argObjects = <<>>
    /\ handled = None /\ pResult = <<>> /\ pending = "none"

Pass(c, v) ==
    /\ boxPc = "pass" /\ Len(shorty) < MaxArgs
    /\ shorty' = Append(shorty, c)
    /\ passed' = Append(passed, v)
    /\ ins' = ins \o v
    /\ UNCHANGED <<boxPc, returns, isStatic, thisObject, srcIndex, argObjects, handled,
                   pResult, pending>>

\* The registers of the frame of a hooked method, whose size hookMethod has made that
\* of the arguments; there is nothing to be read beyond.
args(i) == IF i \in 0 .. (Len(ins) - 1) THEN ins[i + 1] ELSE Null

argsindex == IF isStatic THEN 0 ELSE 1

\* The handler, down to the call of boxMethodArgs.
methodHookHandler ==
    /\ boxPc = "pass"
    /\ boxPc' = "box"
    /\ thisObject' = IF isStatic THEN Null ELSE args(0)
    /\ srcIndex' = argsindex
    /\ UNCHANGED <<shorty, returns, isStatic, passed, ins, argObjects, handled, pResult, pending>>

\* dvmGetArgLong copies two registers as they are.
dvmGetArgLong(i) == <<args(i), args(i + 1)>>

dstType == shorty[Len(argObjects) + 1]
Boxing == boxPc = "box" /\ Len(argObjects) < Len(shorty)
BoxedAs(o, width) ==
    /\ argObjects' = Append(argObjects, o)
    /\ srcIndex' = srcIndex + width
    /\ UNCHANGED <<boxPc, shorty, returns, isStatic, passed, ins, thisObject, handled,
                   pResult, pending>>

\* The cases of the switch in boxMethodArgs.
BoxWord ==
    /\ Boxing /\ dstType \in {"Z", "B", "I"}
    /\ BoxedAs(dvmBoxPrimitive(dstType, <<args(srcIndex)>>), 1)

\* Mutant: a long is taken for one register wide.
BoxLongAsWord ==
    /\ Boxing /\ dstType = "J"
    /\ BoxedAs(dvmBoxPrimitive("J", dvmGetArgLong(srcIndex)), 1)

BoxLong ==
    /\ Boxing /\ dstType = "J"
    /\ BoxedAs(dvmBoxPrimitive("J", dvmGetArgLong(srcIndex)), 2)

BoxReference ==
    /\ Boxing /\ dstType = "L"
    /\ BoxedAs(Box("L", <<args(srcIndex)>>), 1)

\* The value in a box, as it is in registers again (dvmUnboxPrimitive).
Content(o) ==
    IF o.class \in {"Z", "B"}
    THEN <<IF o.class = "Z" THEN o.value[1] ELSE SignExtend(o.value[1])>> ELSE o.value

CallHandler ==
    /\ boxPc = "box" /\ Len(argObjects) = Len(shorty)
    /\ boxPc' = "call"
    /\ UNCHANGED <<shorty, returns, isStatic, passed, ins, thisObject, srcIndex, argObjects,
                   handled, pResult, pending>>

\* dvmCallMethod calls handleHookedMethod, which is done with the arguments ...
HandleHookedMethod ==
    /\ boxPc = "call" /\ boxPc' = "handling"
    /\ shorty' = <<>> /\ passed' = <<>> /\ ins' = <<>> /\ isStatic' = TRUE
    /\ thisObject' = Null /\ srcIndex' = 0 /\ argObjects' = <<>>
    /\ UNCHANGED <<returns, handled, pResult, pending>>

Finished ==
    /\ boxPc = "handling" /\ boxPc' = "returned"
    /\ UNCHANGED <<shorty, isStatic, passed, ins, thisObject, srcIndex, argObjects>>

\* ... and throws what the callback threw ...
CallbackThrew ==
    /\ Finished
    /\ pending' = "callback" /\ returns' \in Letters \cup {"V"}
    /\ UNCHANGED <<handled, pResult>>

\* The types that a box can be unboxed to by a widening conversion.
Widens == {<<"B", "I">>, <<"B", "J">>, <<"I", "J">>} \cup {<<c, c>> : c \in Letters}
Widen(o, c) ==
    IF c = "J" /\ o.class # "J"
    THEN LET w == Content(o)[1] IN <<w, IF w < WORDS \div 2 THEN 0 ELSE WORDS - 1>>
    ELSE Content(o)

\* A reference result is unboxed as it is, and so is a box where a reference is due.
dvmUnboxPrimitive(o, c) == c = "L" \/ <<o.class, c>> \in Widens

\* The result of the invocation and the exception, for the object returned.
ResultOf(o, c) ==
    IF c = "V" THEN <<pResult, "none">>
    ELSE IF o = None THEN <<<<Null>>, IF c # "L" THEN "NullPointerException" ELSE "none">>
    ELSE IF dvmUnboxPrimitive(o, c)
    THEN <<IF c = "L" THEN o.value ELSE Widen(o, c), "none">>
    ELSE <<pResult, "ClassCastException">>

\* ... or returns o (None: null).
Unbox(o, c) ==
    /\ Finished
    /\ handled' = o /\ returns' = c
    /\ pResult' = ResultOf(o, c)[1]
    /\ pending' = ResultOf(o, c)[2]

\* The invoker takes the result, and invokes the next method.
TakeResult ==
    /\ boxPc = "returned" /\ boxPc' = "pass"
    /\ isStatic' \in BOOLEAN
    /\ ins' \in IF isStatic' THEN {<<>>} ELSE {<<r>> : r \in References}
    /\ returns' = "V" /\ handled' = None /\ pResult' = <<>> /\ pending' = "none"
    /\ UNCHANGED <<shorty, passed, thisObject, srcIndex, argObjects>>

BoxingNext ==
    \/ \E c \in Letters : \E v \in Values(c) : Pass(c, v)
    \/ methodHookHandler \/ BoxWord \/ BoxLong \/ BoxReference \/ CallHandler
    \/ HandleHookedMethod \/ CallbackThrew \/ TakeResult
    \/ \E c \in Letters \cup {"V"}, o \in Objects \cup {None} : Unbox(o, c)

BoxingSpec == BoxingInit /\ [][BoxingNext]_boxingVars

-----------------------------------------------------------------------------
(* What must hold.                                                         *)

\* handleHookedMethod gets the arguments that were passed, each in its place and
\* with its value, whatever the types of those before it, and this.
BoxesAreTheArguments ==
    boxPc = "call" =>
        /\ Len(argObjects) = Len(passed)
        /\ \A k \in DOMAIN passed :
            argObjects[k].class = shorty[k] /\ Content(argObjects[k]) = passed[k]
        /\ thisObject = IF isStatic THEN Null ELSE ins[1]

\* boxMethodArgs, which stops at the end of the shorty, has then read the registers
\* to the last and has not read beyond.
ReadsAllOfIns == boxPc = "call" => srcIndex = Len(ins)

\* An invoker that finds no exception finds a value of the type it expects, and when
\* the callback returned a box of that type, as it does with the result of the
\* original method, the very value in it.
ResultIsReturned ==
    boxPc = "returned" /\ pending = "none" /\ returns # "V" =>
        /\ pResult \in Values(returns) \/ returns = "L"
        /\ handled.class = returns => pResult = Content(handled)
        /\ handled = None => returns = "L" /\ pResult = <<Null>>

\* A hook is transparent: the callback sees the call that was made, and the invoker what
\* the callback returned.
CallSeen == BoxesAreTheArguments /\ ReadsAllOfIns /\ ResultIsReturned
=============================================================================
