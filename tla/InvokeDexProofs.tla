--------------------------- MODULE InvokeDexProofs ---------------------------
(***************************************************************************)
(* What InvokeDex promises of the table and of the natives, proved for     *)
(* every number of dexes, stack addresses, loads, methods and threads, and *)
(* every size of the table.                                                *)
(***************************************************************************)
EXTENDS InvokeDex, FiniteSetTheorems, TLAPS

\* The parts of TypeOK.
TableType ==
    /\ PATHS \in [Entries -> Addresses \cup {NoAddress}]
    /\ CLASS \in [Entries -> Classes \cup {NoClass}]
    /\ sSize \in 0 .. SIZE
HookType ==
    /\ memory \in [Addresses -> Dexes \cup {Junk}]
    /\ pc \in Pc
    /\ dexPath \in Addresses \cup {NoAddress}
    /\ index \in 0 .. SIZE
    /\ pc \in {"main", "replaceParentClassLoader", "onInject"} => index \in Entries
    /\ targetClass \in Classes \cup {NoClass}
    /\ result \in {0, -1}
VmType ==
    /\ catfish \in Classes \cup {NoClass}
    /\ registered \subseteq Classes /\ bound \subseteq Classes /\ hooked \subseteq Classes
    /\ sMethodCache \in [Classes -> SUBSET Methods]
    /\ diverted \subseteq Methods
    /\ dexOf \in [Classes -> Dexes \cup {Junk}]
    /\ injected \in [Classes -> Nat]
CallerType ==
    /\ callerPc \in [Callers -> CallerPc]
    /\ callee \in [Callers -> Methods \cup {NoMethod}]
    /\ handler \in [Callers -> Classes \cup {NoClass}]
    /\ due \in [Callers -> BOOLEAN]
UsedType == used \subseteq Addresses \X Dexes /\ cutShort \in BOOLEAN

\* Where invoke_dex_method fills a new entry, and where it has loaded the class.
Loaded == {"register", "setCatfish", "setNativeFunc", "setClass", "setPath", "count"}
Loading == {"load"} \cup Loaded

\* The entry that index designates, and the argument: no counted entry points to
\* the argument while a new entry is made for it.
IndexInv ==
    /\ pc \in Loading => index = sSize
    /\ pc \in {"main", "replaceParentClassLoader", "onInject"} => index < sSize
    /\ pc # "idle" => dexPath \in Addresses /\ memory[dexPath] \in Dexes
    /\ pc \in Loading => \A i \in Entries : i < sSize => PATHS[i] # dexPath

\* How far the class just loaded has been prepared, and the new entry filled.
TargetInv ==
    /\ pc \in Loaded => targetClass \in Classes /\ dexOf[targetClass] \in Dexes
    /\ pc \in Loaded \ {"register"} => targetClass \in registered
    /\ pc \in {"setClass", "setPath", "count"} => targetClass \in bound
    /\ pc \in {"setPath", "count"} => CLASS[index] = targetClass
    /\ pc = "count" => PATHS[index] = dexPath

\* A counted entry is complete and its class is prepared.
EntriesInv ==
    \A i \in Entries : i < sSize =>
        /\ PATHS[i] \in Addresses
        /\ CLASS[i] \in registered \cap bound
        /\ dexOf[CLASS[i]] \in Dexes

\* The index is SIZE only when the places used outnumber the entries.
RangeInv ==
    /\ pc \in Loading /\ index = SIZE => Cardinality(Places) > SIZE
    /\ pc \in {"setPath", "count"} => index \in Entries
    /\ NoOverrun

\* The places in the table, and the one of the argument, are of injections.
PathInv ==
    /\ pc # "idle" => \E d \in Dexes : <<dexPath, d>> \in used
    /\ \A i \in Entries : i < sSize => \E d \in Dexes : <<PATHS[i], d>> \in used

UsedInv == IsFiniteSet(Places) /\ PathInv /\ RangeInv

\* Hook.hooked is set before onInject is called, and Java code runs only then.
JavaInv ==
    /\ \A k \in Classes : injected[k] \in {0, 1}
    /\ \A k \in Classes : injected[k] = 1 => k \in hooked
    /\ hooked \subseteq registered \cap bound
    /\ pc = "replaceParentClassLoader" =>
        CLASS[index] \in hooked /\ injected[CLASS[index]] = 0
    /\ pc = "onInject" => injected[CLASS[index]] = 1
    /\ \A k \in hooked :
        \/ injected[k] = 1
        \/ cutShort
        \/ pc = "replaceParentClassLoader" /\ k = CLASS[index]
    /\ \A k \in Classes : sMethodCache[k] # {} => injected[k] = 1
    /\ \A m \in diverted : \E k \in Classes : m \in sMethodCache[k]

\* A class whose invokeOriginalMethod is missing while its handler is in force, or
\* still executed, is the one being loaded, or one whose loading was cut short.
HandlerInv ==
    /\ bound # {} => catfish \in Classes
    /\ pc = "setNativeFunc" => catfish = targetClass
    /\ catfish \in Classes \ bound => cutShort \/ pc = "setNativeFunc"
    /\ \A c \in Callers : callerPc[c] = "get" =>
        /\ handler[c] \in Classes
        /\ handler[c] \in bound \/ cutShort \/ (pc = "setNativeFunc" /\ handler[c] = targetClass)
    /\ \A c \in Callers : callerPc[c] = "callback" => handler[c] \in hooked

TableInv == IndexInv /\ TargetInv /\ EntriesInv /\ EntriesDistinct

Types == TableType /\ HookType /\ VmType /\ CallerType /\ UsedType
IInv == Types /\ TableInv /\ UsedInv /\ JavaInv /\ HandlerInv

-----------------------------------------------------------------------------

LEMMA PartsOfType == Types <=> TypeOK
BY DEF Types, TypeOK, TableType, HookType, VmType, CallerType, UsedType

\* The pigeonhole: an argument that no entry points to, and a table that is full,
\* make more places than entries.  U is the set of places with the new one.
LEMMA MorePlaces ==
    ASSUME TableType, EntriesDistinct, sSize = SIZE,
           NEW U, IsFiniteSet(U), NEW a \in U,
           \A i \in Entries : i < sSize => PATHS[i] \in U /\ PATHS[i] # a
    PROVE  Cardinality(U) > SIZE
<1> DEFINE f == [n \in 1 .. sSize |-> PATHS[n - 1]]
<1>1. sSize \in Nat
  BY TableAssumption
<1>2. \A n \in 1 .. sSize : n - 1 \in Entries /\ n - 1 < sSize
  BY <1>1 DEF Entries
<1>3. f \in [1 .. sSize -> U \ {a}]
  BY <1>2
<1>4. \A m, n \in 1 .. sSize : f[m] = f[n] => m = n
  <2> SUFFICES ASSUME NEW m \in 1 .. sSize, NEW n \in 1 .. sSize, PATHS[m - 1] = PATHS[n - 1]
               PROVE  m = n
    OBVIOUS
  <2>1. m - 1 = n - 1  BY <1>2 DEF EntriesDistinct
  <2> QED  BY <2>1, <1>1
<1>5. f \in Injection(1 .. sSize, U \ {a})
  BY <1>3, <1>4 DEF Injection, IsInjective
<1>6. /\ IsFiniteSet(U \ {a})
      /\ Cardinality(U \ {a}) = Cardinality(U) - 1
  BY FS_RemoveElement
<1>7. Cardinality(1 .. sSize) = sSize
  BY <1>1, FS_Interval
<1>8. Cardinality(1 .. sSize) <= Cardinality(U \ {a})
  BY <1>5, <1>6, FS_Injection
<1>9. Cardinality(U) \in Nat
  BY FS_CardinalityType
<1> QED  BY <1>1, <1>6, <1>7, <1>8, <1>9

LEMMA InitIInv == Init => IInv
<1> SUFFICES ASSUME Init PROVE IInv  OBVIOUS
<1> USE TableAssumption DEF Entries
<1>1. TableType  BY DEF Init, TableType
<1>2. HookType  BY DEF Init, HookType, Pc
<1>3. VmType  BY DEF Init, VmType
<1>4. CallerType  BY DEF Init, CallerType, CallerPc
<1>5. UsedType  BY DEF Init, UsedType
<1>6. TableInv
  BY DEF Init, TableInv, IndexInv, TargetInv, EntriesInv, EntriesDistinct, Loading, Loaded
<1>7. JavaInv /\ HandlerInv
  BY NullAssumption DEF Init, JavaInv, HandlerInv
<1>8. UsedInv
  <2>1. Places = {}  BY DEF Init, Places
  <2> QED  BY <2>1, FS_EmptySet DEF Init, UsedInv, PathInv, RangeInv, NoOverrun, Loading, Loaded
<1> QED  BY <1>1, <1>2, <1>3, <1>4, <1>5, <1>6, <1>7, <1>8 DEF IInv, Types

(* One lemma per action of hook.                                           *)

LEMMA LoadTargetClassKeeps == ASSUME IInv, LoadTargetClass PROVE IInv'
<1> USE NullAssumption, TableAssumption
    DEF IInv, Types, TableType, HookType, VmType, CallerType, UsedType, Entries, Pc, Loading, Loaded,
        LoadTargetClass, Step,
        vmVars, tableVars, callerVars, localVars, historyVars
<1>1. Types'  BY DEF TableInv, IndexInv, TargetInv, EntriesInv, UsedInv, RangeInv
<1>2. TableInv'
  BY DEF TableInv, IndexInv, TargetInv, EntriesInv, EntriesDistinct
<1>3. UsedInv'
  <2>1. Places' = Places  BY DEF Places
  <2> QED  BY <2>1 DEF TableInv, IndexInv, TargetInv, UsedInv, PathInv, RangeInv, NoOverrun
<1>4. JavaInv'
  BY DEF TableInv, IndexInv, TargetInv, EntriesInv, JavaInv
<1>5. HandlerInv'
  BY DEF TableInv, TargetInv, HandlerInv
<1> QED  BY <1>1, <1>2, <1>3, <1>4, <1>5

LEMMA LoadFailsKeeps == ASSUME IInv, LoadFails PROVE IInv'
<1> USE NullAssumption, TableAssumption
    DEF IInv, Types, TableType, HookType, VmType, CallerType, UsedType, Entries, Pc, Loading, Loaded,
        LoadFails, Fail, Step,
        vmVars, tableVars, callerVars, localVars, historyVars
<1>1. Types'  BY DEF TableInv, IndexInv, TargetInv, EntriesInv, UsedInv, RangeInv
<1>2. TableInv'
  BY DEF TableInv, IndexInv, TargetInv, EntriesInv, EntriesDistinct
<1>3. UsedInv'
  <2>1. Places' = Places  BY DEF Places
  <2> QED  BY <2>1 DEF TableInv, IndexInv, TargetInv, UsedInv, PathInv, RangeInv, NoOverrun
<1>4. JavaInv'
  BY DEF TableInv, IndexInv, TargetInv, EntriesInv, JavaInv
<1>5. HandlerInv'
  BY DEF TableInv, TargetInv, HandlerInv
<1> QED  BY <1>1, <1>2, <1>3, <1>4, <1>5

LEMMA RegisterKeeps == ASSUME IInv, Register PROVE IInv'
<1> USE NullAssumption, TableAssumption
    DEF IInv, Types, TableType, HookType, VmType, CallerType, UsedType, Entries, Pc, Loading, Loaded,
        Register, Step,
        vmVars, tableVars, callerVars, localVars, historyVars
<1>1. Types'  BY DEF TableInv, IndexInv, TargetInv, EntriesInv, UsedInv, RangeInv
<1>2. TableInv'
  BY DEF TableInv, IndexInv, TargetInv, EntriesInv, EntriesDistinct
<1>3. UsedInv'
  <2>1. Places' = Places  BY DEF Places
  <2> QED  BY <2>1 DEF TableInv, IndexInv, TargetInv, UsedInv, PathInv, RangeInv, NoOverrun
<1>4. JavaInv'
  BY DEF TableInv, IndexInv, TargetInv, EntriesInv, JavaInv
<1>5. HandlerInv'
  BY DEF TableInv, TargetInv, HandlerInv
<1> QED  BY <1>1, <1>2, <1>3, <1>4, <1>5

LEMMA SetCatfishKeeps == ASSUME IInv, SetCatfish PROVE IInv'
<1> USE NullAssumption, TableAssumption
    DEF IInv, Types, TableType, HookType, VmType, CallerType, UsedType, Entries, Pc, Loading, Loaded,
        SetCatfish, Step,
        vmVars, tableVars, callerVars, localVars, historyVars
<1>1. Types'  BY DEF TableInv, IndexInv, TargetInv, EntriesInv, UsedInv, RangeInv
<1>2. TableInv'
  BY DEF TableInv, IndexInv, TargetInv, EntriesInv, EntriesDistinct
<1>3. UsedInv'
  <2>1. Places' = Places  BY DEF Places
  <2> QED  BY <2>1 DEF TableInv, IndexInv, TargetInv, UsedInv, PathInv, RangeInv, NoOverrun
<1>4. JavaInv'
  BY DEF TableInv, IndexInv, TargetInv, EntriesInv, JavaInv
<1>5. HandlerInv'
  BY DEF TableInv, TargetInv, HandlerInv
<1> QED  BY <1>1, <1>2, <1>3, <1>4, <1>5

LEMMA SetNativeFuncKeeps == ASSUME IInv, SetNativeFunc PROVE IInv'
<1> USE NullAssumption, TableAssumption
    DEF IInv, Types, TableType, HookType, VmType, CallerType, UsedType, Entries, Pc, Loading, Loaded,
        SetNativeFunc, Step,
        vmVars, tableVars, callerVars, localVars, historyVars
<1>1. Types'  BY DEF TableInv, IndexInv, TargetInv, EntriesInv, UsedInv, RangeInv
<1>2. TableInv'
  BY DEF TableInv, IndexInv, TargetInv, EntriesInv, EntriesDistinct
<1>3. UsedInv'
  <2>1. Places' = Places  BY DEF Places
  <2> QED  BY <2>1 DEF TableInv, IndexInv, TargetInv, UsedInv, PathInv, RangeInv, NoOverrun
<1>4. JavaInv'
  BY DEF TableInv, IndexInv, TargetInv, EntriesInv, JavaInv
<1>5. HandlerInv'
  BY DEF TableInv, TargetInv, HandlerInv
<1> QED  BY <1>1, <1>2, <1>3, <1>4, <1>5

LEMMA SetClassKeeps == ASSUME IInv, SetClass PROVE IInv'
<1> USE NullAssumption, TableAssumption
    DEF IInv, Types, TableType, HookType, VmType, CallerType, UsedType, Entries, Pc, Loading, Loaded,
        SetClass, Step,
        vmVars, tableVars, callerVars, localVars, historyVars
<1>1. Types'  BY DEF TableInv, IndexInv, TargetInv, EntriesInv, UsedInv, RangeInv
<1>2. TableInv'
  BY DEF TableInv, IndexInv, TargetInv, EntriesInv, EntriesDistinct
<1>3. UsedInv'
  <2>1. Places' = Places  BY DEF Places
  <2>2. index \in Entries \/ index = SIZE  OBVIOUS
  <2>3. RangeInv'  BY <2>1, <2>2 DEF UsedInv, RangeInv, NoOverrun
  <2>4. PathInv'  BY DEF UsedInv, PathInv
  <2> QED  BY <2>1, <2>3, <2>4 DEF UsedInv
<1>4. JavaInv'
  BY DEF TableInv, IndexInv, TargetInv, EntriesInv, JavaInv
<1>5. HandlerInv'
  BY DEF TableInv, TargetInv, HandlerInv
<1> QED  BY <1>1, <1>2, <1>3, <1>4, <1>5

LEMMA SetPathKeeps == ASSUME IInv, SetPath PROVE IInv'
<1> USE NullAssumption, TableAssumption
    DEF IInv, Types, TableType, HookType, VmType, CallerType, UsedType, Entries, Pc, Loading, Loaded,
        SetPath, Step,
        vmVars, tableVars, callerVars, localVars, historyVars
<1>1. Types'  BY DEF TableInv, IndexInv, TargetInv, EntriesInv, UsedInv, RangeInv
<1>2. TableInv'
  <2>1. index \in Entries  BY DEF UsedInv, RangeInv
  <2> QED  BY <2>1 DEF TableInv, IndexInv, TargetInv, EntriesInv, EntriesDistinct
<1>3. UsedInv'
  <2>1. Places' = Places  BY DEF Places
  <2> QED  BY <2>1 DEF TableInv, IndexInv, TargetInv, UsedInv, PathInv, RangeInv, NoOverrun
<1>4. JavaInv'
  BY DEF TableInv, IndexInv, TargetInv, EntriesInv, JavaInv
<1>5. HandlerInv'
  BY DEF TableInv, TargetInv, HandlerInv
<1> QED  BY <1>1, <1>2, <1>3, <1>4, <1>5

LEMMA CountKeeps == ASSUME IInv, Count PROVE IInv'
<1> USE NullAssumption, TableAssumption
    DEF IInv, Types, TableType, HookType, VmType, CallerType, UsedType, Entries, Pc, Loading, Loaded,
        Count, Step,
        vmVars, tableVars, callerVars, localVars, historyVars
<1>1. Types'  BY DEF TableInv, IndexInv, TargetInv, EntriesInv, UsedInv, RangeInv
<1>2. TableInv'
  BY DEF TableInv, IndexInv, TargetInv, EntriesInv, EntriesDistinct
<1>3. UsedInv'
  <2>1. Places' = Places  BY DEF Places
  <2>2. PathInv'
    <3>1. \A i \in Entries : i < sSize' => i < sSize \/ PATHS[i] = dexPath
      BY DEF TableInv, IndexInv, TargetInv
    <3> QED  BY <3>1 DEF UsedInv, PathInv
  <2>3. RangeInv'  BY <2>1 DEF UsedInv, RangeInv, NoOverrun
  <2> QED  BY <2>1, <2>2, <2>3 DEF UsedInv
<1>4. JavaInv'
  BY DEF TableInv, IndexInv, TargetInv, EntriesInv, JavaInv
<1>5. HandlerInv'
  BY DEF TableInv, TargetInv, HandlerInv
<1> QED  BY <1>1, <1>2, <1>3, <1>4, <1>5

LEMMA NoMainKeeps == ASSUME IInv, NoMain PROVE IInv'
<1> USE NullAssumption, TableAssumption
    DEF IInv, Types, TableType, HookType, VmType, CallerType, UsedType, Entries, Pc, Loading, Loaded,
        NoMain, Fail, Step,
        vmVars, tableVars, callerVars, localVars, historyVars
<1>1. Types'  BY DEF TableInv, IndexInv, TargetInv, EntriesInv, UsedInv, RangeInv
<1>2. TableInv'
  BY DEF TableInv, IndexInv, TargetInv, EntriesInv, EntriesDistinct
<1>3. UsedInv'
  <2>1. Places' = Places  BY DEF Places
  <2> QED  BY <2>1 DEF TableInv, IndexInv, TargetInv, UsedInv, PathInv, RangeInv, NoOverrun
<1>4. JavaInv'
  BY DEF TableInv, IndexInv, TargetInv, EntriesInv, JavaInv
<1>5. HandlerInv'
  BY DEF TableInv, TargetInv, HandlerInv
<1> QED  BY <1>1, <1>2, <1>3, <1>4, <1>5

LEMMA MainKeeps == ASSUME IInv, Main PROVE IInv'
<1> USE NullAssumption, TableAssumption
    DEF IInv, Types, TableType, HookType, VmType, CallerType, UsedType, Entries, Pc, Loading, Loaded,
        Main, Step,
        vmVars, tableVars, callerVars, localVars, historyVars
<1>1. Types'  BY DEF TableInv, IndexInv, TargetInv, EntriesInv, UsedInv, RangeInv
<1>2. TableInv'
  BY DEF TableInv, IndexInv, TargetInv, EntriesInv, EntriesDistinct
<1>3. UsedInv'
  <2>1. Places' = Places  BY DEF Places
  <2> QED  BY <2>1 DEF TableInv, IndexInv, TargetInv, UsedInv, PathInv, RangeInv, NoOverrun
<1>4. JavaInv'
  BY DEF TableInv, IndexInv, TargetInv, EntriesInv, JavaInv
<1>5. HandlerInv'
  BY DEF TableInv, TargetInv, HandlerInv
<1> QED  BY <1>1, <1>2, <1>3, <1>4, <1>5

LEMMA ReplaceParentClassLoaderKeeps == ASSUME IInv, ReplaceParentClassLoader PROVE IInv'
<1> USE NullAssumption, TableAssumption
    DEF IInv, Types, TableType, HookType, VmType, CallerType, UsedType, Entries, Pc, Loading, Loaded,
        ReplaceParentClassLoader, Step,
        vmVars, tableVars, callerVars, localVars, historyVars
<1>1. Types'  BY DEF TableInv, IndexInv, TargetInv, EntriesInv, UsedInv, RangeInv
<1>2. TableInv'
  BY DEF TableInv, IndexInv, TargetInv, EntriesInv, EntriesDistinct
<1>3. UsedInv'
  <2>1. Places' = Places  BY DEF Places
  <2> QED  BY <2>1 DEF TableInv, IndexInv, TargetInv, UsedInv, PathInv, RangeInv, NoOverrun
<1>4. JavaInv'
  BY DEF TableInv, IndexInv, TargetInv, EntriesInv, JavaInv
<1>5. HandlerInv'
  BY DEF TableInv, TargetInv, HandlerInv
<1> QED  BY <1>1, <1>2, <1>3, <1>4, <1>5

LEMMA OnInjectEndsKeeps == ASSUME IInv, OnInjectEnds PROVE IInv'
<1> USE NullAssumption, TableAssumption
    DEF IInv, Types, TableType, HookType, VmType, CallerType, UsedType, Entries, Pc, Loading, Loaded,
        OnInjectEnds, Step,
        vmVars, tableVars, callerVars, localVars, historyVars
<1>1. Types'  BY DEF TableInv, IndexInv, TargetInv, EntriesInv, UsedInv, RangeInv
<1>2. TableInv'
  BY DEF TableInv, IndexInv, TargetInv, EntriesInv, EntriesDistinct
<1>3. UsedInv'
  <2>1. Places' = Places  BY DEF Places
  <2> QED  BY <2>1 DEF TableInv, IndexInv, TargetInv, UsedInv, PathInv, RangeInv, NoOverrun
<1>4. JavaInv'
  BY DEF TableInv, IndexInv, TargetInv, EntriesInv, JavaInv
<1>5. HandlerInv'
  BY DEF TableInv, TargetInv, HandlerInv
<1> QED  BY <1>1, <1>2, <1>3, <1>4, <1>5

LEMMA ReturnKeeps == ASSUME IInv, Return PROVE IInv'
<1> USE NullAssumption, TableAssumption
    DEF IInv, Types, TableType, HookType, VmType, CallerType, UsedType, Entries, Pc, Loading, Loaded,
        Return, LeaveHook,
        vmVars, tableVars, callerVars, localVars, historyVars
<1>1. Types'  BY DEF TableInv, IndexInv, TargetInv, EntriesInv, UsedInv, RangeInv
<1>2. TableInv'
  BY DEF TableInv, IndexInv, TargetInv, EntriesInv, EntriesDistinct
<1>3. UsedInv'
  <2>1. Places' = Places  BY DEF Places
  <2> QED  BY <2>1 DEF TableInv, IndexInv, TargetInv, UsedInv, PathInv, RangeInv, NoOverrun
<1>4. JavaInv'
  BY DEF TableInv, IndexInv, TargetInv, EntriesInv, JavaInv
<1>5. HandlerInv'
  BY DEF TableInv, TargetInv, HandlerInv
<1> QED  BY <1>1, <1>2, <1>3, <1>4, <1>5

LEMMA CutShortKeeps == ASSUME IInv, CutShort PROVE IInv'
<1> USE NullAssumption, TableAssumption
    DEF IInv, Types, TableType, HookType, VmType, CallerType, UsedType, Entries, Pc, Loading, Loaded,
        CutShort, LeaveHook,
        vmVars, tableVars, callerVars, localVars, historyVars
<1>1. Types'  BY DEF TableInv, IndexInv, TargetInv, EntriesInv, UsedInv, RangeInv
<1>2. TableInv'
  BY DEF TableInv, IndexInv, TargetInv, EntriesInv, EntriesDistinct
<1>3. UsedInv'
  <2>1. Places' = Places  BY DEF Places
  <2> QED  BY <2>1 DEF TableInv, IndexInv, TargetInv, UsedInv, PathInv, RangeInv, NoOverrun
<1>4. JavaInv'
  BY DEF TableInv, IndexInv, TargetInv, EntriesInv, JavaInv
<1>5. HandlerInv'
  BY DEF TableInv, TargetInv, HandlerInv
<1> QED  BY <1>1, <1>2, <1>3, <1>4, <1>5

LEMMA SetMethodHookedKeeps == ASSUME IInv, NEW m \in Methods, SetMethodHooked(m) PROVE IInv'
<1> USE NullAssumption, TableAssumption
    DEF IInv, Types, TableType, HookType, VmType, CallerType, UsedType, Entries, Pc, Loading, Loaded,
        SetMethodHooked, Step,
        vmVars, tableVars, callerVars, localVars, historyVars
<1>1. Types'  BY DEF TableInv, IndexInv, TargetInv, EntriesInv, UsedInv, RangeInv
<1>2. TableInv'
  BY DEF TableInv, IndexInv, TargetInv, EntriesInv, EntriesDistinct
<1>3. UsedInv'
  <2>1. Places' = Places  BY DEF Places
  <2> QED  BY <2>1 DEF TableInv, IndexInv, TargetInv, UsedInv, PathInv, RangeInv, NoOverrun
<1>4. JavaInv'
  BY DEF TableInv, IndexInv, TargetInv, EntriesInv, JavaInv
<1>5. HandlerInv'
  BY DEF TableInv, TargetInv, HandlerInv
<1> QED  BY <1>1, <1>2, <1>3, <1>4, <1>5

LEMMA OverwriteKeeps == ASSUME IInv, NEW a \in Addresses, Overwrite(a) PROVE IInv'
<1> USE NullAssumption, TableAssumption
    DEF IInv, Types, TableType, HookType, VmType, CallerType, UsedType, Entries, Pc, Loading, Loaded,
        Overwrite,
        vmVars, tableVars, callerVars, localVars, historyVars
<1>1. Types'  BY DEF TableInv, IndexInv, TargetInv, EntriesInv, UsedInv, RangeInv
<1>2. TableInv'
  BY DEF TableInv, IndexInv, TargetInv, EntriesInv, EntriesDistinct
<1>3. UsedInv'
  <2>1. Places' = Places  BY DEF Places
  <2> QED  BY <2>1 DEF TableInv, IndexInv, TargetInv, UsedInv, PathInv, RangeInv, NoOverrun
<1>4. JavaInv'
  BY DEF TableInv, IndexInv, TargetInv, EntriesInv, JavaInv
<1>5. HandlerInv'
  BY DEF TableInv, TargetInv, HandlerInv
<1> QED  BY <1>1, <1>2, <1>3, <1>4, <1>5

\* Inject finds the entry that points to its argument, or there is room for one.
LEMMA InjectKeeps ==
    ASSUME IInv, NEW a \in Addresses, NEW d \in Dexes, Inject(a, d)
    PROVE  IInv'
<1> USE NullAssumption, TableAssumption
    DEF IInv, Types, TableType, HookType, VmType, CallerType, UsedType, Entries, Pc, Loading, Loaded,
        vmVars, tableVars, callerVars, localVars, historyVars
<1>1. PICK i \in 0 .. sSize :
        /\ i = sSize \/ Matches(i, d)
        /\ \A j \in 0 .. (i - 1) : ~ Matches(j, d)
        /\ index' = i
        /\ Step("idle", IF i = sSize \/ CLASS[i] = NoClass THEN "load" ELSE "main")
  BY DEF Inject
<1>2. /\ memory' = [memory EXCEPT ![a] = d]
      /\ dexPath' = a
      /\ IF sSize = 0 THEN /\ PATHS' = [n \in Entries |-> NoAddress]
                           /\ CLASS' = [n \in Entries |-> NoClass]
                      ELSE UNCHANGED <<PATHS, CLASS>>
      /\ used' = used \cup {<<a, d>>}
      /\ UNCHANGED <<sSize, vmVars, targetClass, result, callerVars, dexOf, injected, cutShort>>
  BY DEF Inject
<1>0. IsFiniteSet(Places')
  <2>1. Places' = Places \cup {a}
    <3>1. used' = used \cup {<<a, d>>}  BY <1>2
    <3>2. <<a, d>>[1] = a  OBVIOUS
    <3> QED  BY ONLY <3>1, <3>2 DEF Places
  <2> QED  BY <2>1, FS_AddElement DEF UsedInv
<1>3. ASSUME i = sSize
      PROVE  /\ pc' = "load"
             /\ \A j \in Entries : j < sSize => PATHS[j] # a
             /\ sSize = SIZE => Cardinality(Places') > SIZE
  <2>1. ASSUME NEW j \in Entries, j < sSize PROVE PATHS[j] # a
    <3>1. ~ Matches(j, d)  BY <1>1, <1>3, <2>1
    <3>2. PATHS[j] \in Addresses  BY <2>1 DEF TableInv, EntriesInv
    <3> QED  BY <1>2, <2>1, <3>1, <3>2 DEF Matches
  <2>2. ASSUME sSize = SIZE PROVE Cardinality(Places') > SIZE
    <3>1. a \in Places'
      <4>1. <<a, d>> \in used' /\ <<a, d>>[1] = a  BY <1>2
      <4> QED  BY ONLY <4>1 DEF Places
    <3>2. ASSUME NEW j \in Entries, j < sSize PROVE PATHS[j] \in Places'
      <4>1. PICK e \in Dexes : <<PATHS[j], e>> \in used'
        BY <1>2, <3>2 DEF UsedInv, PathInv
      <4> QED  BY <4>1 DEF Places
    <3> HIDE DEF Places
    <3> QED  BY <1>0, <2>1, <2>2, <3>1, <3>2, MorePlaces DEF TableInv
  <2> QED  BY <1>1, <1>3, <2>1, <2>2 DEF Step
<1>4. ASSUME i # sSize
      PROVE  pc' = "main" /\ i \in Entries /\ i < sSize
  <2>1. i \in Entries /\ i < sSize  BY <1>4
  <2>2. CLASS[i] # NoClass  BY <2>1 DEF TableInv, EntriesInv
  <2> QED  BY <1>1, <1>4, <2>1, <2>2 DEF Step
<1>5. \A j \in Entries : j < sSize => PATHS'[j] = PATHS[j] /\ CLASS'[j] = CLASS[j]
  BY <1>2
<1>6. TableType' /\ VmType' /\ CallerType' /\ UsedType'
  BY <1>2, <<a, d>> \in Addresses \X Dexes
<1>7. HookType'
  BY <1>1, <1>2, <1>3, <1>4
<1>8. IndexInv' /\ TargetInv'
  BY <1>1, <1>2, <1>3, <1>4, <1>5 DEF IndexInv, TargetInv
<1>9. EntriesInv' /\ EntriesDistinct'
  BY <1>2, <1>5 DEF TableInv, EntriesInv, EntriesDistinct
<1>10. JavaInv' /\ HandlerInv'
  BY <1>1, <1>2, <1>3, <1>4 DEF JavaInv, HandlerInv, Step
<1>11. UsedInv'
  <2>1. PathInv'  BY <1>2, <1>5 DEF UsedInv, PathInv
  <2>2. RangeInv'  BY <1>1, <1>3, <1>4 DEF RangeInv, NoOverrun
  <2> QED  BY <1>0, <2>1, <2>2 DEF UsedInv
<1> QED  BY <1>6, <1>7, <1>8, <1>9, <1>10, <1>11 DEF TableInv

\* What other threads do leaves the table and the natives alone.
LEMMA CallersKeep ==
    ASSUME IInv, NEW c \in Callers,
           HandleHookedMethod(c) \/ InvocationEnds(c) \/ \E m \in Methods : Invoke(c, m)
    PROVE  IInv'
<1>1. UNCHANGED <<memory, tableVars, vmVars, pc, localVars, historyVars>>
  BY DEF HandleHookedMethod, InvocationEnds, Invoke, CallerStep
<1>2. CallerType'
  <2> USE DEF CallerStep, CallerType, CallerPc
  <2>1. CASE HandleHookedMethod(c)
    BY <2>1 DEF HandleHookedMethod, IInv, Types
  <2>2. CASE InvocationEnds(c)
    BY <2>2 DEF InvocationEnds, IInv, Types
  <2>3. ASSUME NEW m \in Methods, Invoke(c, m) PROVE CallerType'
    <3>1. catfish \in Classes \cup {NoClass}  BY DEF IInv, Types, VmType
    <3>2. (\E k \in Classes : m \in sMethodCache[k]) \in BOOLEAN  OBVIOUS
    <3>3. callerPc' \in [Callers -> CallerPc] /\ callee' \in [Callers -> Methods \cup {NoMethod}]
      BY <2>3 DEF Invoke, IInv, Types
    <3>4. handler' \in [Callers -> Classes \cup {NoClass}]
      BY <2>3, <3>1 DEF Invoke, IInv, Types
    <3>5. due' \in [Callers -> BOOLEAN]
      BY <2>3, <3>2, Zenon DEF Invoke, IInv, Types
    <3> QED  BY <3>3, <3>4, <3>5
  <2> QED  BY <2>1, <2>2, <2>3
<1>3. HandlerInv'
  <2> USE DEF CallerStep, vmVars, localVars, historyVars, IInv, Types, CallerType, VmType, HandlerInv
  <2>1. CASE HandleHookedMethod(c)
    <3>1. callee[c] \in sMethodCache[handler[c]] => handler[c] \in hooked
      BY <2>1 DEF HandleHookedMethod, JavaInv
    <3> QED  BY <1>1, <2>1, <3>1 DEF HandleHookedMethod
  <2>2. CASE InvocationEnds(c)
    BY <1>1, <2>2 DEF InvocationEnds
  <2>3. ASSUME NEW m \in Methods, Invoke(c, m) PROVE HandlerInv'
    <3>1. m \in diverted => catfish \in Classes
      BY DEF JavaInv
    <3> QED  BY <1>1, <2>3, <3>1 DEF Invoke
  <2> QED  BY <2>1, <2>2, <2>3
<1>4. Places' = Places
  BY <1>1 DEF Places, historyVars
<1>5. UsedInv'
  BY <1>1, <1>4 DEF IInv, UsedInv, PathInv, RangeInv, NoOverrun, tableVars, localVars, historyVars
<1>6. (TableType /\ HookType /\ VmType /\ UsedType)'
  BY <1>1 DEF IInv, Types, TableType, HookType, VmType, UsedType, tableVars, vmVars, localVars,
     historyVars
<1>7. TableInv' /\ JavaInv'
  BY <1>1 DEF IInv, TableInv, IndexInv, TargetInv, EntriesInv, EntriesDistinct, JavaInv, tableVars,
     vmVars, localVars, historyVars
<1> QED  BY <1>2, <1>3, <1>5, <1>6, <1>7 DEF IInv, Types

LEMMA StutterKeeps == ASSUME IInv, UNCHANGED vars PROVE IInv'
<1>1. Places' = Places
  BY DEF Places, vars, historyVars
<1>2. UsedInv'
  BY <1>1 DEF IInv, UsedInv, PathInv, RangeInv, NoOverrun, vars, tableVars, localVars, historyVars
<1>3. Types'
  BY DEF IInv, Types, TableType, HookType, VmType, CallerType, UsedType, vars, tableVars, vmVars,
     localVars, callerVars, historyVars
<1>4. (TableInv /\ JavaInv /\ HandlerInv)'
  BY DEF IInv, TableInv, IndexInv, TargetInv, EntriesInv, EntriesDistinct, JavaInv, HandlerInv,
     vars, tableVars, vmVars, localVars, callerVars, historyVars
<1> QED  BY <1>2, <1>3, <1>4 DEF IInv

LEMMA StepIInv == IInv /\ [Next]_vars => IInv'
<1> SUFFICES ASSUME IInv, [Next]_vars PROVE IInv'  OBVIOUS
<1>1. CASE HookStep
  BY <1>1, LoadTargetClassKeeps, LoadFailsKeeps, RegisterKeeps, SetCatfishKeeps,
     SetNativeFuncKeeps, SetClassKeeps, SetPathKeeps, CountKeeps, NoMainKeeps, MainKeeps,
     ReplaceParentClassLoaderKeeps, SetMethodHookedKeeps, OnInjectEndsKeeps, ReturnKeeps DEF HookStep
<1>2. CASE CutShort
  BY <1>2, CutShortKeeps
<1>3. ASSUME NEW a \in Addresses, Overwrite(a) \/ \E d \in Dexes : Inject(a, d) PROVE IInv'
  BY <1>3, OverwriteKeeps, InjectKeeps
<1>4. ASSUME NEW c \in Callers,
             HandleHookedMethod(c) \/ InvocationEnds(c) \/ \E m \in Methods : Invoke(c, m)
      PROVE  IInv'
  BY <1>4, CallersKeep
<1>5. CASE UNCHANGED vars
  BY <1>5, StutterKeeps
<1> QED  BY <1>1, <1>2, <1>3, <1>4, <1>5 DEF Next

\* The inductive invariant holds.
LEMMA Inductive == Spec => []IInv
BY InitIInv, StepIInv, PTL DEF Spec

-----------------------------------------------------------------------------

\* The table, the classes loaded and the locals of hook keep their types; the entry
\* whose class Hook.main is called on is inside the table.
THEOREM TableTypeCorrect == Spec => []TypeOK
<1>1. IInv => TypeOK  BY PartsOfType DEF IInv
<1> QED  BY <1>1, Inductive, PTL

\* The counted entries are complete and point to different places, wherever hook was
\* cut short; and hook, which does not check its index, writes behind the table only
\* after injections from more places on the stack than the table has entries.
THEOREM TableIsSound == Spec => []TableSound
<1>1. IInv => TableSound
  BY NullAssumption
     DEF IInv, Types, VmType, TableInv, EntriesInv, TableSound, EntriesComplete, UsedInv, RangeInv
<1> QED  BY <1>1, Inductive, PTL

\* Hook.main gets to onInject, and callbacks are registered and called, only with both
\* natives of their load in place; invocations that reach the handler of a load sooner
\* fall between the two assignments of initMembers, unless hook was cut short there.
THEOREM NativesAreInPlace == Spec => []NativesInPlace
<1>1. IInv => NativesInPlace
  BY DEF IInv, JavaInv, HandlerInv, NativesInPlace
<1> QED  BY <1>1, Inductive, PTL

\* A load has onInject called once at most, however often its dex is injected, and not
\* at all only if hook was cut short.
THEOREM OnInjectCalledOnce == Spec => []OnInjectOnce
<1>1. IInv => OnInjectOnce
  <2> SUFFICES ASSUME IInv PROVE OnInjectOnce  OBVIOUS
  <2>1. \A k \in Classes : injected[k] <= 1
    BY DEF IInv, JavaInv
  <2>2. ASSUME NEW m \in diverted
        PROVE  \E k \in Classes : injected[k] = 1 /\ m \in sMethodCache[k]
    <3>1. PICK k \in Classes : m \in sMethodCache[k]  BY DEF IInv, JavaInv
    <3>2. injected[k] = 1  BY <3>1 DEF IInv, JavaInv
    <3> QED  BY <3>1, <3>2
  <2>3. \A k \in hooked :
          \/ injected[k] = 1 \/ cutShort
          \/ pc = "replaceParentClassLoader" /\ k = CLASS[index]
    BY DEF IInv, JavaInv
  <2> QED  BY <2>1, <2>2, <2>3 DEF OnInjectOnce
<1> QED  BY <1>1, Inductive, PTL

-----------------------------------------------------------------------------
(* The same dex injected again and again.                                  *)

\* Every injection so far had the same path at the same place, and ran to its end.
Once == ~ cutShort /\ \A u, v \in used : u = v

\* The class loaded last is the one in force, and what has a callback is diverted.
ForceInv ==
    /\ pc \in Loaded \ {"register", "setCatfish"} => catfish = targetClass
    /\ \A k \in Classes, m \in Methods : m \in sMethodCache[k] => m \in diverted

\* As long as that is so there is one load, it is in force, and invocations reach it.
SingleInv ==
    Once =>
        /\ sSize <= 1
        /\ pc \in Loading => sSize = 0
        /\ \A k \in Classes : dexOf[k] # Junk =>
            (pc \in Loaded /\ k = targetClass) \/ (sSize = 1 /\ k = CLASS[0])
        /\ \A k \in hooked : sSize = 1 /\ k = CLASS[0]
        /\ sSize = 1 => catfish = CLASS[0]

\* So an invocation of a method with a callback reaches it.
DueInv ==
    Once => \A c \in Callers : due[c] =>
        /\ callerPc[c] \in {"get", "callback"}
        /\ callee[c] \in Methods /\ handler[c] \in Classes
        /\ callee[c] \in sMethodCache[handler[c]]

ReInv == IsFiniteSet(used) /\ ForceInv /\ SingleInv /\ DueInv

LEMMA InitReInv == Init => ReInv
<1> SUFFICES ASSUME Init PROVE ReInv  OBVIOUS
<1>1. IsFiniteSet(used)  BY FS_EmptySet DEF Init
<1> QED
  BY <1>1, TableAssumption DEF Init, ReInv, ForceInv, SingleInv, DueInv, Loading, Loaded, Entries

LEMMA LoadTargetClassRe == ASSUME IInv, ReInv, LoadTargetClass PROVE ReInv'
<1> USE NullAssumption, TableAssumption
    DEF IInv, Types, TableType, HookType, VmType, CallerType, ReInv, TableInv, IndexInv, Entries,
        Pc, Loading, Loaded, LoadTargetClass, Step, vmVars, tableVars, callerVars, localVars, historyVars
<1>1. UNCHANGED <<used, cutShort>> /\ (Once' <=> Once)  BY DEF Once
<1>2. ForceInv'  BY DEF ForceInv, TargetInv, EntriesInv
<1>3. SingleInv'  BY <1>1 DEF SingleInv, ForceInv, TargetInv, EntriesInv
<1>4. DueInv'  BY <1>1 DEF DueInv, EntriesInv
<1> QED  BY <1>1, <1>2, <1>3, <1>4

LEMMA LoadFailsRe == ASSUME IInv, ReInv, LoadFails PROVE ReInv'
<1> USE NullAssumption, TableAssumption
    DEF IInv, Types, TableType, HookType, VmType, CallerType, ReInv, TableInv, IndexInv, Entries,
        Pc, Loading, Loaded, LoadFails, Fail, Step, vmVars, tableVars, callerVars, localVars, historyVars
<1>1. UNCHANGED <<used, cutShort>> /\ (Once' <=> Once)  BY DEF Once
<1>2. ForceInv'  BY DEF ForceInv, TargetInv, EntriesInv
<1>3. SingleInv'  BY <1>1 DEF SingleInv, ForceInv, TargetInv, EntriesInv
<1>4. DueInv'  BY <1>1 DEF DueInv, EntriesInv
<1> QED  BY <1>1, <1>2, <1>3, <1>4

LEMMA RegisterRe == ASSUME IInv, ReInv, Register PROVE ReInv'
<1> USE NullAssumption, TableAssumption
    DEF IInv, Types, TableType, HookType, VmType, CallerType, ReInv, TableInv, IndexInv, Entries,
        Pc, Loading, Loaded, Register, Step, vmVars, tableVars, callerVars, localVars, historyVars
<1>1. UNCHANGED <<used, cutShort>> /\ (Once' <=> Once)  BY DEF Once
<1>2. ForceInv'  BY DEF ForceInv, TargetInv, EntriesInv
<1>3. SingleInv'  BY <1>1 DEF SingleInv, ForceInv, TargetInv, EntriesInv
<1>4. DueInv'  BY <1>1 DEF DueInv, EntriesInv
<1> QED  BY <1>1, <1>2, <1>3, <1>4

LEMMA SetCatfishRe == ASSUME IInv, ReInv, SetCatfish PROVE ReInv'
<1> USE NullAssumption, TableAssumption
    DEF IInv, Types, TableType, HookType, VmType, CallerType, ReInv, TableInv, IndexInv, Entries,
        Pc, Loading, Loaded, SetCatfish, Step, vmVars, tableVars, callerVars, localVars, historyVars
<1>1. UNCHANGED <<used, cutShort>> /\ (Once' <=> Once)  BY DEF Once
<1>2. ForceInv'  BY DEF ForceInv, TargetInv, EntriesInv
<1>3. SingleInv'  BY <1>1 DEF SingleInv, ForceInv, TargetInv, EntriesInv
<1>4. DueInv'  BY <1>1 DEF DueInv, EntriesInv
<1> QED  BY <1>1, <1>2, <1>3, <1>4

LEMMA SetNativeFuncRe == ASSUME IInv, ReInv, SetNativeFunc PROVE ReInv'
<1> USE NullAssumption, TableAssumption
    DEF IInv, Types, TableType, HookType, VmType, CallerType, ReInv, TableInv, IndexInv, Entries,
        Pc, Loading, Loaded, SetNativeFunc, Step, vmVars, tableVars, callerVars, localVars, historyVars
<1>1. UNCHANGED <<used, cutShort>> /\ (Once' <=> Once)  BY DEF Once
<1>2. ForceInv'  BY DEF ForceInv, TargetInv, EntriesInv
<1>3. SingleInv'  BY <1>1 DEF SingleInv, ForceInv, TargetInv, EntriesInv
<1>4. DueInv'  BY <1>1 DEF DueInv, EntriesInv
<1> QED  BY <1>1, <1>2, <1>3, <1>4

LEMMA SetClassRe == ASSUME IInv, ReInv, SetClass PROVE ReInv'
<1> USE NullAssumption, TableAssumption
    DEF IInv, Types, TableType, HookType, VmType, CallerType, ReInv, TableInv, IndexInv, Entries,
        Pc, Loading, Loaded, SetClass, Step, vmVars, tableVars, callerVars, localVars, historyVars
<1>1. UNCHANGED <<used, cutShort>> /\ (Once' <=> Once)  BY DEF Once
<1>2. ForceInv'  BY DEF ForceInv, TargetInv, EntriesInv
<1>3. SingleInv'  BY <1>1 DEF SingleInv, ForceInv, TargetInv, EntriesInv
<1>4. DueInv'  BY <1>1 DEF DueInv, EntriesInv
<1> QED  BY <1>1, <1>2, <1>3, <1>4

LEMMA SetPathRe == ASSUME IInv, ReInv, SetPath PROVE ReInv'
<1> USE NullAssumption, TableAssumption
    DEF IInv, Types, TableType, HookType, VmType, CallerType, ReInv, TableInv, IndexInv, Entries,
        Pc, Loading, Loaded, SetPath, Step, vmVars, tableVars, callerVars, localVars, historyVars
<1>1. UNCHANGED <<used, cutShort>> /\ (Once' <=> Once)  BY DEF Once
<1>2. ForceInv'  BY DEF ForceInv, TargetInv, EntriesInv
<1>3. SingleInv'  BY <1>1 DEF SingleInv, ForceInv, TargetInv, EntriesInv
<1>4. DueInv'  BY <1>1 DEF DueInv, EntriesInv
<1> QED  BY <1>1, <1>2, <1>3, <1>4

LEMMA CountRe == ASSUME IInv, ReInv, Count PROVE ReInv'
<1> USE NullAssumption, TableAssumption
    DEF IInv, Types, TableType, HookType, VmType, CallerType, ReInv, TableInv, IndexInv, Entries,
        Pc, Loading, Loaded, Count, Step, vmVars, tableVars, callerVars, localVars, historyVars
<1>1. UNCHANGED <<used, cutShort>> /\ (Once' <=> Once)  BY DEF Once
<1>2. ForceInv'  BY DEF ForceInv, TargetInv, EntriesInv
<1>3. SingleInv'  BY <1>1 DEF SingleInv, ForceInv, TargetInv, EntriesInv
<1>4. DueInv'  BY <1>1 DEF DueInv, EntriesInv
<1> QED  BY <1>1, <1>2, <1>3, <1>4

LEMMA NoMainRe == ASSUME IInv, ReInv, NoMain PROVE ReInv'
<1> USE NullAssumption, TableAssumption
    DEF IInv, Types, TableType, HookType, VmType, CallerType, ReInv, TableInv, IndexInv, Entries,
        Pc, Loading, Loaded, NoMain, Fail, Step, vmVars, tableVars, callerVars, localVars, historyVars
<1>1. UNCHANGED <<used, cutShort>> /\ (Once' <=> Once)  BY DEF Once
<1>2. ForceInv'  BY DEF ForceInv, TargetInv, EntriesInv
<1>3. SingleInv'  BY <1>1 DEF SingleInv, ForceInv, TargetInv, EntriesInv
<1>4. DueInv'  BY <1>1 DEF DueInv, EntriesInv
<1> QED  BY <1>1, <1>2, <1>3, <1>4

LEMMA MainRe == ASSUME IInv, ReInv, Main PROVE ReInv'
<1> USE NullAssumption, TableAssumption
    DEF IInv, Types, TableType, HookType, VmType, CallerType, ReInv, TableInv, IndexInv, Entries,
        Pc, Loading, Loaded, Main, Step, vmVars, tableVars, callerVars, localVars, historyVars
<1>1. UNCHANGED <<used, cutShort>> /\ (Once' <=> Once)  BY DEF Once
<1>2. ForceInv'  BY DEF ForceInv, TargetInv, EntriesInv
<1>3. SingleInv'  BY <1>1 DEF SingleInv, ForceInv, TargetInv, EntriesInv
<1>4. DueInv'  BY <1>1 DEF DueInv, EntriesInv
<1> QED  BY <1>1, <1>2, <1>3, <1>4

LEMMA ReplaceParentClassLoaderRe == ASSUME IInv, ReInv, ReplaceParentClassLoader PROVE ReInv'
<1> USE NullAssumption, TableAssumption
    DEF IInv, Types, TableType, HookType, VmType, CallerType, ReInv, TableInv, IndexInv, Entries,
        Pc, Loading, Loaded, ReplaceParentClassLoader, Step, vmVars, tableVars, callerVars, localVars, historyVars
<1>1. UNCHANGED <<used, cutShort>> /\ (Once' <=> Once)  BY DEF Once
<1>2. ForceInv'  BY DEF ForceInv, TargetInv, EntriesInv
<1>3. SingleInv'  BY <1>1 DEF SingleInv, ForceInv, TargetInv, EntriesInv
<1>4. DueInv'  BY <1>1 DEF DueInv, EntriesInv
<1> QED  BY <1>1, <1>2, <1>3, <1>4

LEMMA OnInjectEndsRe == ASSUME IInv, ReInv, OnInjectEnds PROVE ReInv'
<1> USE NullAssumption, TableAssumption
    DEF IInv, Types, TableType, HookType, VmType, CallerType, ReInv, TableInv, IndexInv, Entries,
        Pc, Loading, Loaded, OnInjectEnds, Step, vmVars, tableVars, callerVars, localVars, historyVars
<1>1. UNCHANGED <<used, cutShort>> /\ (Once' <=> Once)  BY DEF Once
<1>2. ForceInv'  BY DEF ForceInv, TargetInv, EntriesInv
<1>3. SingleInv'  BY <1>1 DEF SingleInv, ForceInv, TargetInv, EntriesInv
<1>4. DueInv'  BY <1>1 DEF DueInv, EntriesInv
<1> QED  BY <1>1, <1>2, <1>3, <1>4

LEMMA ReturnRe == ASSUME IInv, ReInv, Return PROVE ReInv'
<1> USE NullAssumption, TableAssumption
    DEF IInv, Types, TableType, HookType, VmType, CallerType, ReInv, TableInv, IndexInv, Entries,
        Pc, Loading, Loaded, Return, LeaveHook, vmVars, tableVars, callerVars, localVars, historyVars
<1>1. UNCHANGED <<used, cutShort>> /\ (Once' <=> Once)  BY DEF Once
<1>2. ForceInv'  BY DEF ForceInv, TargetInv, EntriesInv
<1>3. SingleInv'  BY <1>1 DEF SingleInv, ForceInv, TargetInv, EntriesInv
<1>4. DueInv'  BY <1>1 DEF DueInv, EntriesInv
<1> QED  BY <1>1, <1>2, <1>3, <1>4

LEMMA SetMethodHookedRe == ASSUME IInv, ReInv, NEW m \in Methods, SetMethodHooked(m) PROVE ReInv'
<1> USE NullAssumption, TableAssumption
    DEF IInv, Types, TableType, HookType, VmType, CallerType, ReInv, TableInv, IndexInv, Entries,
        Pc, Loading, Loaded, SetMethodHooked, Step, vmVars, tableVars, callerVars, localVars, historyVars
<1>1. UNCHANGED <<used, cutShort>> /\ (Once' <=> Once)  BY DEF Once
<1>2. ForceInv'  BY DEF ForceInv, TargetInv, EntriesInv
<1>3. SingleInv'  BY <1>1 DEF SingleInv, ForceInv, TargetInv, EntriesInv
<1>4. DueInv'  BY <1>1 DEF DueInv, EntriesInv
<1> QED  BY <1>1, <1>2, <1>3, <1>4

LEMMA OverwriteRe == ASSUME IInv, ReInv, NEW a \in Addresses, Overwrite(a) PROVE ReInv'
<1> USE NullAssumption, TableAssumption
    DEF IInv, Types, TableType, HookType, VmType, CallerType, ReInv, TableInv, IndexInv, Entries,
        Pc, Loading, Loaded, Overwrite, vmVars, tableVars, callerVars, localVars, historyVars
<1>1. UNCHANGED <<used, cutShort>> /\ (Once' <=> Once)  BY DEF Once
<1>2. ForceInv'  BY DEF ForceInv, TargetInv, EntriesInv
<1>3. SingleInv'  BY <1>1 DEF SingleInv, ForceInv, TargetInv, EntriesInv
<1>4. DueInv'  BY <1>1 DEF DueInv, EntriesInv
<1> QED  BY <1>1, <1>2, <1>3, <1>4

\* Injecting the same again finds the entry of the first time.
LEMMA InjectRe ==
    ASSUME IInv, ReInv, NEW a \in Addresses, NEW d \in Dexes, Inject(a, d)
    PROVE  ReInv'
<1> USE NullAssumption, TableAssumption
    DEF IInv, Types, TableType, HookType, VmType, CallerType, ReInv, TableInv, IndexInv, Entries,
        Pc, Loading, Loaded, vmVars, tableVars, callerVars, localVars, historyVars
<1>1. PICK i \in 0 .. sSize :
        /\ i = sSize \/ Matches(i, d)
        /\ \A j \in 0 .. (i - 1) : ~ Matches(j, d)
        /\ index' = i
        /\ Step("idle", IF i = sSize \/ CLASS[i] = NoClass THEN "load" ELSE "main")
  BY DEF Inject
<1>2. /\ memory' = [memory EXCEPT ![a] = d]
      /\ dexPath' = a
      /\ IF sSize = 0 THEN /\ PATHS' = [n \in Entries |-> NoAddress]
                           /\ CLASS' = [n \in Entries |-> NoClass]
                      ELSE UNCHANGED <<PATHS, CLASS>>
      /\ used' = used \cup {<<a, d>>}
      /\ UNCHANGED <<sSize, vmVars, targetClass, result, callerVars, dexOf, injected, cutShort>>
  BY DEF Inject
<1>3. IsFiniteSet(used')  BY <1>2, FS_AddElement
<1>4. pc = "idle" /\ pc' \in {"load", "main"}  BY <1>1 DEF Step
<1>5. \A j \in Entries : j < sSize => PATHS'[j] = PATHS[j] /\ CLASS'[j] = CLASS[j]
  BY <1>2
<1>7. ForceInv'  BY <1>2, <1>4 DEF ForceInv
<1>8. Once' => Once  BY <1>2 DEF Once
<1>9. ASSUME Once', sSize = 1 PROVE pc' # "load"
  <2>1. 0 \in Entries /\ 0 < sSize  BY <1>9
  <2>2. PICK e \in Dexes : <<PATHS[0], e>> \in used
    <3>1. \A n \in Entries : n < sSize => \E e \in Dexes : <<PATHS[n], e>> \in used
      BY DEF UsedInv, PathInv
    <3> QED  BY <2>1, <3>1, Zenon
  <2>3. <<PATHS[0], e>> = <<a, d>>  BY <1>2, <1>9, <2>2 DEF Once
  <2>4. Matches(0, d)  BY <1>2, <1>9, <2>1, <2>3 DEF Matches
  <2>5. i = 0  BY <1>1, <1>9, <2>4
  <2>6. CLASS[0] # NoClass  BY <1>9, <2>1 DEF EntriesInv
  <2> QED  BY <1>1, <1>9, <2>5, <2>6 DEF Step
<1>10. SingleInv'
  BY <1>2, <1>4, <1>5, <1>8, <1>9 DEF SingleInv
<1>11. DueInv'  BY <1>2, <1>8 DEF DueInv
<1> QED  BY <1>3, <1>7, <1>10, <1>11

\* An invocation of a method with a callback is handled by the one class in force.
LEMMA CallersRe ==
    ASSUME IInv, ReInv, NEW c \in Callers,
           HandleHookedMethod(c) \/ InvocationEnds(c) \/ \E m \in Methods : Invoke(c, m)
    PROVE  ReInv'
<1>1. UNCHANGED <<memory, tableVars, vmVars, pc, localVars, historyVars>>
  BY DEF HandleHookedMethod, InvocationEnds, Invoke, CallerStep
<1>2. IsFiniteSet(used') /\ ForceInv' /\ SingleInv' /\ (Once' <=> Once)
  BY <1>1 DEF ReInv, ForceInv, SingleInv, Once, tableVars, vmVars, localVars, historyVars
<1>3. DueInv'
  <2> SUFFICES ASSUME Once, NEW x \in Callers, due'[x]
               PROVE  /\ callerPc'[x] \in {"get", "callback"}
                      /\ callee'[x] \in Methods /\ handler'[x] \in Classes
                      /\ callee'[x] \in sMethodCache[handler'[x]]
    BY <1>1, <1>2 DEF DueInv, vmVars
  <2> USE DEF IInv, Types, CallerType, VmType, CallerStep, ReInv, DueInv
  <2>1. CASE HandleHookedMethod(c)
    BY <2>1 DEF HandleHookedMethod
  <2>2. CASE InvocationEnds(c)
    BY <2>2 DEF InvocationEnds
  <2>3. ASSUME NEW m \in Methods, Invoke(c, m), x = c
        PROVE  /\ callerPc'[x] \in {"get", "callback"}
               /\ callee'[x] \in Methods /\ handler'[x] \in Classes
               /\ callee'[x] \in sMethodCache[handler'[x]]
    <3>1. PICK k \in Classes : m \in sMethodCache[k]  BY <2>3 DEF Invoke
    <3>2. k \in hooked  BY <3>1 DEF JavaInv
    <3>3. m \in diverted  BY <3>1 DEF ForceInv
    <3>4. catfish = k  BY <3>2 DEF SingleInv
    <3> QED  BY <2>3, <3>1, <3>3, <3>4 DEF Invoke
  <2>4. ASSUME NEW m \in Methods, Invoke(c, m), x # c
        PROVE  /\ callerPc'[x] = callerPc[x] /\ callee'[x] = callee[x]
               /\ handler'[x] = handler[x] /\ due'[x] = due[x]
    BY <2>4 DEF Invoke
  <2> QED  BY <2>1, <2>2, <2>3, <2>4
<1> QED  BY <1>2, <1>3 DEF ReInv

\* Once cut short, nothing is claimed but of the table and the callbacks.
LEMMA CutShortRe == ASSUME IInv, ReInv, CutShort PROVE ReInv'
BY DEF IInv, ReInv, ForceInv, SingleInv, DueInv, Once, CutShort, LeaveHook, Loaded,
   tableVars, vmVars, callerVars

LEMMA StutterRe == ASSUME ReInv, UNCHANGED vars PROVE ReInv'
BY DEF ReInv, ForceInv, SingleInv, DueInv, Once, vars, tableVars, vmVars, localVars,
   callerVars, historyVars

LEMMA StepReInv == IInv /\ ReInv /\ [Next]_vars => ReInv'
<1> SUFFICES ASSUME IInv, ReInv, [Next]_vars PROVE ReInv'  OBVIOUS
<1>1. CASE HookStep
  BY <1>1, LoadTargetClassRe, LoadFailsRe, RegisterRe, SetCatfishRe, SetNativeFuncRe, SetClassRe,
     SetPathRe, CountRe, NoMainRe, MainRe, ReplaceParentClassLoaderRe, SetMethodHookedRe,
     OnInjectEndsRe, ReturnRe DEF HookStep
<1>2. CASE CutShort
  BY <1>2, CutShortRe
<1>3. ASSUME NEW a \in Addresses, Overwrite(a) \/ \E d \in Dexes : Inject(a, d) PROVE ReInv'
  BY <1>3, OverwriteRe, InjectRe
<1>4. ASSUME NEW c \in Callers,
             HandleHookedMethod(c) \/ InvocationEnds(c) \/ \E m \in Methods : Invoke(c, m)
      PROVE  ReInv'
  BY <1>4, CallersRe
<1>5. CASE UNCHANGED vars
  BY <1>5, StutterRe
<1> QED  BY <1>1, <1>2, <1>3, <1>4, <1>5 DEF Next

\* The second invariant is inductive relative to the first.
LEMMA InductiveRe == Spec => [](IInv /\ ReInv)
<1>1. Init => IInv /\ ReInv  BY InitIInv, InitReInv
<1>2. IInv /\ ReInv /\ [Next]_vars => (IInv /\ ReInv)'  BY StepIInv, StepReInv
<1> QED  BY <1>1, <1>2, PTL DEF Spec

\* The same dex injected again and again, from the same place and never cut short, is
\* loaded once, and every invocation of a method with a callback reaches it.
THEOREM ReinjectionIsHarmless == Spec => []ReinjectionHarmless
<1>1. IInv /\ ReInv => ReinjectionHarmless
  <2> SUFFICES ASSUME IInv, ReInv, Cardinality(used) <= 1, ~ cutShort
               PROVE  /\ Cardinality({k \in Classes : dexOf[k] # Junk}) <= 1
                      /\ \A c \in Callers : ~ Misses(c)
    BY DEF ReinjectionHarmless
  <2>1. Once
    <3> SUFFICES ASSUME NEW u \in used, NEW v \in used, u # v PROVE FALSE  BY DEF Once
    <3>1. IsFiniteSet({}) /\ Cardinality({}) = 0  BY FS_EmptySet
    <3>2. IsFiniteSet({u}) /\ Cardinality({u}) = 1  BY FS_Singleton
    <3>3. Cardinality({u} \cup {v}) = 2  BY <3>2, FS_AddElement
    <3>4. Cardinality({u} \cup {v}) <= Cardinality(used)
      BY FS_Subset, {u} \cup {v} \in SUBSET used DEF ReInv
    <3>5. Cardinality(used) \in Nat  BY FS_CardinalityType DEF ReInv
    <3> QED  BY <3>3, <3>4, <3>5
  <2>2. PICK x : \A k \in Classes : dexOf[k] # Junk => k = x
    <3>1. CASE pc \in Loaded
      BY <2>1, <3>1 DEF ReInv, SingleInv, Loading
    <3>2. CASE pc \notin Loaded
      BY <2>1, <3>2 DEF ReInv, SingleInv
    <3> QED  BY <3>1, <3>2
  <2>3. Cardinality({k \in Classes : dexOf[k] # Junk}) <= 1
    <3>1. IsFiniteSet({x}) /\ Cardinality({x}) = 1  BY FS_Singleton
    <3>2. {k \in Classes : dexOf[k] # Junk} \in SUBSET {x}  BY <2>2
    <3> QED  BY <3>1, <3>2, FS_Subset
  <2>4. \A c \in Callers : ~ Misses(c)
    BY <2>1 DEF ReInv, DueInv, Misses
  <2> QED  BY <2>3, <2>4
<1> QED  BY <1>1, InductiveRe, PTL

=============================================================================
