--------------------------- MODULE MCHookManager ---------------------------
(***************************************************************************)
(* Small instances of HookManager for TLC.  A method is given by what      *)
(* reflection reports: a type is its name and the class implementing       *)
(* java.lang.reflect.Type that represents it.                              *)
(***************************************************************************)
EXTENDS HookManager, TLC
CONSTANTS m1, m2

PlainType(name) == [type |-> name, implementation |-> "java.lang.Class"]
GenericType(name) == [type |-> name, implementation |-> "ParameterizedTypeImpl"]

Declares(params) ==
    [declaringClass |-> "Activity", name |-> "foo", params |-> params,
     result |-> PlainType("void")]

\* foo(int) and foo(List<String>): the overloads get keys of their own.
DistinctOverloads ==
    m1 :> Declares(<<PlainType("int")>>) @@ m2 :> Declares(<<GenericType("List<String>")>>)

\* foo(int) and foo(String): both parameters are represented by a Class.
CollidingOverloads ==
    m1 :> Declares(<<PlainType("int")>>) @@ m2 :> Declares(<<PlainType("String")>>)

\* The second method registered is the one that makes the table grow.
GrowingKeys == {generateKey(m2)}

\* Installing threads, callers, callbacks and wrappers are interchangeable.
Symmetry ==
    Permutations(Threads) \cup Permutations(Callers)
        \cup Permutations(Callbacks) \cup Permutations(Wrappers)
=============================================================================
