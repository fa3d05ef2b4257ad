------------------------------ MODULE InvokeDex ------------------------------
(***************************************************************************)
(* What happens inside the target, injection after injection (hook and     *)
(* invoke_dex_method of jni/hook/libhook.cpp, initMembers of Proxy.cpp,    *)
(* Hook.java): the injector makes the main thread run hook, which looks    *)
(* the dex up in a table of the ones it has loaded, loads it if it is not  *)
(* there, and has its Hook.main call Undercover.onInject, once.            *)
(*                                                                         *)
(* The table keeps no copy of the path of a dex: PATHS points into the     *)
(* argument that ptrace_call pushed on the main thread's stack, memory the *)
(* application has back as soon as hook is over.  And hook may be cut      *)
(* short anywhere: the injector takes any stop of the thread for its end   *)
(* (PtraceSession) and puts the application's registers back.              *)
(*                                                                         *)
(* Other threads invoke hooked methods meanwhile; how one such invocation  *)
(* and one setMethodHooked interleave is the subject of HookManager, here  *)
(* setMethodHooked is one step.                                            *)
(***************************************************************************)
EXTENDS Integers, FiniteSets

CONSTANTS
    Dexes,        \* the apks injected
    WithMain,     \* those whose class Hook has the method main
    Addresses,    \* where on the stack the path may be
    Junk,         \* what the application leaves there
    Classes,      \* each load defines the dex's classes anew (a bound: no more loads)
    Methods,      \* the methods that onInject hooks
    Callers,      \* threads that invoke them
    SIZE,         \* the length of PATHS and CLASS
    MayCutShort,  \* whether hook may be cut short
    NoAddress, NoClass, NoMethod

ASSUME TableAssumption == SIZE \in Nat \ {0}
ASSUME NullAssumption ==
    /\ Junk \notin Dexes /\ WithMain \subseteq Dexes
    /\ NoAddress \notin Addresses
    /\ NoClass \notin Classes
    /\ NoMethod \notin Methods

Entries == 0 .. (SIZE - 1)

VARIABLES
    memory,      \* the stack: the dex whose path is at each address, or Junk
    PATHS, CLASS, sSize,  \* the table
    catfish,     \* the HookManager class whose handleHookedMethod is called
    registered,  \* those whose hookMethodNative is registered ...
    bound,       \* ... and whose invokeOriginalMethod has its native function
    hooked,      \* classes whose Hook.hooked is true
    sMethodCache,     \* the methods with a callback, in each class's cache
    diverted,    \* methods whose invocations reach methodHookHandler
    pc,          \* where in hook the main thread is
    dexPath,     \* the address of its argument
    index,       \* the local variable i of invoke_dex_method ...
    targetClass, \* ... the class it has loaded ...
    result,      \* ... and what it returns
    callerPc,    \* where each caller is
    callee,      \* the method it invoked
    handler      \* the class whose handleHookedMethod it is in

\* History variables.
VARIABLES
    dexOf,       \* the dex each class was loaded from; Junk: not loaded
    injected,    \* how often onInject of each class was called
    used,        \* the injections so far: address and dex
    cutShort,    \* one of them was cut short
    due          \* whether the callee had a callback when the caller invoked it

tableVars == <<PATHS, CLASS, sSize>>
vmVars == <<catfish, registered, bound, hooked, sMethodCache, diverted>>
localVars == <<dexPath, index, targetClass, result>>
callerVars == <<callerPc, callee, handler, due>>
historyVars == <<dexOf, injected, used, cutShort>>
vars == <<memory, tableVars, vmVars, pc, localVars, callerVars, historyVars>>

Pc == {"idle", "load", "register", "setCatfish", "setNativeFunc", "setClass", "setPath",
       "count", "main", "replaceParentClassLoader", "onInject", "return", "overrun"}
CallerPc == {"idle", "get", "callback", "original", "undiverted", "unsatisfiedLink"}

TypeOK ==
    /\ memory \in [Addresses -> Dexes \cup {Junk}]
    /\ PATHS \in [Entries -> Addresses \cup {NoAddress}]
    /\ CLASS \in [Entries -> Classes \cup {NoClass}]
    /\ sSize \in 0 .. SIZE
    /\ catfish \in Classes \cup {NoClass}
    /\ registered \subseteq Classes /\ bound \subseteq Classes /\ hooked \subseteq Classes
    /\ sMethodCache \in [Classes -> SUBSET Methods]
    /\ diverted \subseteq Methods
    /\ pc \in Pc
    /\ dexPath \in Addresses \cup {NoAddress}
    /\ index \in 0 .. SIZE
    /\ pc \in {"main", "replaceParentClassLoader", "onInject"} => index \in Entries
    /\ targetClass \in Classes \cup {NoClass}
    /\ result \in {0, -1}
    /\ callerPc \in [Callers -> CallerPc]
    /\ callee \in [Callers -> Methods \cup {NoMethod}]
    /\ handler \in [Callers -> Classes \cup {NoClass}]
    /\ due \in [Callers -> BOOLEAN]
    /\ dexOf \in [Classes -> Dexes \cup {Junk}]
    /\ injected \in [Classes -> Nat]
    /\ used \subseteq Addresses \X Dexes
    /\ cutShort \in BOOLEAN

Init ==
    /\ memory = [a \in Addresses |-> Junk]
    /\ PATHS = [i \in Entries |-> NoAddress]
    /\ CLASS = [i \in Entries |-> NoClass]
    /\ sSize = 0
    /\ catfish = NoClass
    /\ registered = {} /\ bound = {} /\ hooked = {} /\ diverted = {}
    /\ sMethodCache = [k \in Classes |-> {}]
    /\ pc = "idle"
    /\ dexPath = NoAddress /\ index = 0 /\ targetClass = NoClass /\ result = 0
    /\ callerPc = [c \in Callers |-> "idle"]
    /\ callee = [c \in Callers |-> NoMethod]
    /\ handler = [c \in Callers |-> NoClass]
    /\ due = [c \in Callers |-> FALSE]
    /\ dexOf = [k \in Classes |-> Junk]
    /\ injected = [k \in Classes |-> 0]
    /\ used = {} /\ cutShort = FALSE

-----------------------------------------------------------------------------
(* The main thread, in hook.                                               *)

Step(from, to) == pc = from /\ pc' = to

\* PATHS[i] && !strcmp(dexPath, PATHS[i])
Matches(i, d) == i < sSize /\ PATHS[i] # NoAddress /\ memory'[PATHS[i]] = d

\* ptrace_call pushes the path at a and has hook called with it, which looks it
\* up in the table, cleared first when nothing was loaded yet.
Inject(a, d) ==
    /\ memory' = [memory EXCEPT ![a] = d]
    /\ dexPath' = a
    /\ \E i \in 0 .. sSize :
        /\ i = sSize \/ Matches(i, d)
        /\ \A j \in 0 .. (i - 1) : ~ Matches(j, d)
        /\ index' = i
        /\ Step("idle", IF i = sSize \/ CLASS[i] = NoClass THEN "load" ELSE "main")
    /\ IF sSize = 0 THEN /\ PATHS' = [i \in Entries |-> NoAddress]
                         /\ CLASS' = [i \in Entries |-> NoClass]
                    ELSE UNCHANGED <<PATHS, CLASS>>
    /\ used' = used \cup {<<a, d>>}
    /\ UNCHANGED <<sSize, vmVars, targetClass, result, callerVars, dexOf, injected, cutShort>>

\* A class loader for the dex, and Hook and HookManager loaded by it ...
LoadTargetClass ==
    /\ Step("load", "register")
    /\ \E k \in Classes :
        /\ dexOf[k] = Junk
        /\ dexOf' = [dexOf EXCEPT ![k] = memory[dexPath]]
        /\ targetClass' = k
    /\ UNCHANGED <<memory, tableVars, vmVars, dexPath, index, result, callerVars,
                   injected, used, cutShort>>

Fail(from) ==
    /\ Step(from, "return")
    /\ result' = -1
    /\ UNCHANGED <<memory, tableVars, vmVars, dexPath, index, targetClass, callerVars, historyVars>>

\* Mutant: targetClass is used without a test whether it was found.
LoadFailsUnseen ==
    /\ Step("load", "register")
    /\ UNCHANGED <<memory, tableVars, vmVars, localVars, callerVars, historyVars>>

\* ... or one of them is not found in it.
LoadFails == Fail("load")

\* register_android_jni
Register ==
    /\ Step("register", "setCatfish")
    /\ registered' = registered \cup {targetClass}
    /\ UNCHANGED <<memory, tableVars, catfish, bound, hooked, sMethodCache, diverted, localVars,
                   callerVars, historyVars>>

\* initMembers: handleHookedMethod of the new class is the one called from now on ...
SetCatfish ==
    /\ Step("setCatfish", "setNativeFunc")
    /\ catfish' = targetClass
    /\ UNCHANGED <<memory, tableVars, registered, bound, hooked, sMethodCache, diverted, localVars,
                   callerVars, historyVars>>

\* Mutant: dvmSetNativeFunc left out.
SetNativeFuncForgotten ==
    /\ Step("setNativeFunc", "setClass")
    /\ UNCHANGED <<memory, tableVars, vmVars, localVars, callerVars, historyVars>>

\* ... and its invokeOriginalMethod gets realInvokeOriginalMethodNative.
SetNativeFunc ==
    /\ Step("setNativeFunc", "setClass")
    /\ bound' = bound \cup {targetClass}
    /\ UNCHANGED <<memory, tableVars, catfish, registered, hooked, sMethodCache, diverted, localVars,
                   callerVars, historyVars>>

\* Mutant: sSize++ before the entry is complete.
SetClassAndCount ==
    /\ Step("setClass", "setPath")
    /\ CLASS' = [CLASS EXCEPT ![index] = targetClass]
    /\ sSize' = sSize + 1
    /\ UNCHANGED <<memory, PATHS, vmVars, localVars, callerVars, historyVars>>

\* The new entry, CLASS, then PATHS, then sSize.  Nothing compares i with SIZE:
\* with the table full the first of these writes lands behind CLASS, and what the
\* program does from then on is undefined.
SetClass ==
    /\ IF index \in Entries
       THEN Step("setClass", "setPath") /\ CLASS' = [CLASS EXCEPT ![index] = targetClass]
       ELSE Step("setClass", "overrun") /\ UNCHANGED CLASS
    /\ UNCHANGED <<memory, PATHS, sSize, vmVars, localVars, callerVars, historyVars>>

SetPath ==
    /\ Step("setPath", "count")
    /\ PATHS' = [PATHS EXCEPT ![index] = dexPath]
    /\ UNCHANGED <<memory, CLASS, sSize, vmVars, localVars, callerVars, historyVars>>

\* Mutant: the entry is never counted.
CountForgotten ==
    /\ Step("count", "main")
    /\ UNCHANGED <<memory, tableVars, vmVars, localVars, callerVars, historyVars>>

Count ==
    /\ Step("count", "main")
    /\ sSize' = sSize + 1
    /\ UNCHANGED <<memory, PATHS, CLASS, vmVars, localVars, callerVars, historyVars>>

NoMain == pc = "main" /\ dexOf[CLASS[index]] \notin WithMain /\ Fail("main")

\* Mutant: the flag is not set.
MainAgain ==
    /\ Step("main", "replaceParentClassLoader")
    /\ dexOf[CLASS[index]] \in WithMain
    /\ CLASS[index] \notin hooked
    /\ UNCHANGED <<memory, tableVars, vmVars, localVars, callerVars, historyVars>>

\* Hook.main: "Already Hooked", or the flag is set ...
Main ==
    /\ pc = "main"
    /\ dexOf[CLASS[index]] \in WithMain
    /\ IF CLASS[index] \in hooked
       THEN Step("main", "return") /\ result' = 0 /\ UNCHANGED hooked
       ELSE /\ Step("main", "replaceParentClassLoader")
            /\ hooked' = hooked \cup {CLASS[index]}
            /\ UNCHANGED result
    /\ UNCHANGED <<memory, tableVars, catfish, registered, bound, sMethodCache, diverted, dexPath,
                   index, targetClass, callerVars, historyVars>>

\* ... and, after the application has been looked up and become the parent of the
\* class loader, whether that works or not, onInject is called.
ReplaceParentClassLoader ==
    /\ Step("replaceParentClassLoader", "onInject")
    /\ injected' = [injected EXCEPT ![CLASS[index]] = @ + 1]
    /\ UNCHANGED <<memory, tableVars, vmVars, localVars, callerVars, dexOf, used, cutShort>>

\* onInject calls setMethodHooked, which needs hookMethodNative registered.
SetMethodHooked(m) ==
    /\ Step("onInject", "onInject")
    /\ CLASS[index] \in registered
    /\ sMethodCache' = [sMethodCache EXCEPT ![CLASS[index]] = @ \cup {m}]
    /\ diverted' = diverted \cup {m}
    /\ UNCHANGED <<memory, tableVars, catfish, registered, bound, hooked, localVars,
                   callerVars, historyVars>>

\* onInject returns or throws, which nobody looks at.
OnInjectEnds ==
    /\ Step("onInject", "return")
    /\ result' = 0
    /\ UNCHANGED <<memory, tableVars, vmVars, dexPath, index, targetClass, callerVars, historyVars>>

\* The locals of hook are gone.
LeaveHook ==
    /\ pc' = "idle"
    /\ dexPath' = NoAddress /\ index' = 0 /\ targetClass' = NoClass /\ result' = 0

\* hook returns and the injector detaches.
Return ==
    /\ pc = "return"
    /\ LeaveHook
    /\ UNCHANGED <<memory, tableVars, vmVars, callerVars, historyVars>>

\* The injector takes a fault, or a signal's stop, for the end of hook.
CutShort ==
    /\ MayCutShort
    /\ pc \notin {"idle", "overrun"}
    /\ LeaveHook
    /\ cutShort' = TRUE
    /\ UNCHANGED <<memory, tableVars, vmVars, callerVars, dexOf, injected, used>>

\* Between injections the application uses its stack.
Overwrite(a) ==
    /\ pc = "idle"
    /\ memory' = [memory EXCEPT ![a] = Junk]
    /\ UNCHANGED <<tableVars, vmVars, pc, localVars, callerVars, historyVars>>

HookStep ==
    \/ LoadTargetClass \/ LoadFails \/ Register \/ SetCatfish \/ SetNativeFunc
    \/ SetClass \/ SetPath \/ Count \/ NoMain \/ Main \/ ReplaceParentClassLoader
    \/ (\E m \in Methods : SetMethodHooked(m))
    \/ OnInjectEnds \/ Return

-----------------------------------------------------------------------------
(* An invocation on another thread.                                        *)

CallerStep(c, from, to) ==
    /\ callerPc[c] = from
    /\ callerPc' = [callerPc EXCEPT ![c] = to]
    /\ UNCHANGED <<memory, tableVars, vmVars, pc, localVars, historyVars>>

\* methodHookHandler calls the method catfish of the moment.
Invoke(c, m) ==
    /\ CallerStep(c, "idle", IF m \in diverted THEN "get" ELSE "undiverted")
    /\ callee' = [callee EXCEPT ![c] = m]
    /\ handler' = [handler EXCEPT ![c] = catfish]
    /\ due' = [due EXCEPT ![c] = \E k \in Classes : m \in sMethodCache[k]]

\* handleHookedMethod: the callback in the cache of its class, or the original
\* through the invokeOriginalMethod of its class.
HandleHookedMethod(c) ==
    /\ CallerStep(c, "get", CASE callee[c] \in sMethodCache[handler[c]] -> "callback"
                              [] callee[c] \notin sMethodCache[handler[c]]
                                  /\ handler[c] \in bound -> "original"
                              [] OTHER -> "unsatisfiedLink")
    /\ UNCHANGED <<callee, handler, due>>

\* The invocation ends, with an UnsatisfiedLinkError at worst.
InvocationEnds(c) ==
    /\ \E from \in {"callback", "original", "undiverted", "unsatisfiedLink"} :
        CallerStep(c, from, "idle")
    /\ callee' = [callee EXCEPT ![c] = NoMethod]
    /\ handler' = [handler EXCEPT ![c] = NoClass]
    /\ due' = [due EXCEPT ![c] = FALSE]

-----------------------------------------------------------------------------

Next ==
    \/ HookStep \/ CutShort
    \/ \E a \in Addresses : Overwrite(a) \/ \E d \in Dexes : Inject(a, d)
    \/ \E c \in Callers :
        HandleHookedMethod(c) \/ InvocationEnds(c) \/ \E m \in Methods : Invoke(c, m)

Spec == Init /\ [][Next]_vars

-----------------------------------------------------------------------------
(* What must hold.                                                         *)

\* A counted entry has its path and its class, wherever hook was cut short while
\* it filled an entry: sSize is incremented last.
EntriesComplete ==
    \A i \in Entries : i < sSize =>
        /\ PATHS[i] # NoAddress
        /\ CLASS[i] # NoClass
        /\ dexOf[CLASS[i]] \in Dexes

\* No two counted entries point to the same place: whatever the memory behind
\* PATHS holds by now, an injection finds the entry that points to its own
\* argument.  Hence the table has at most one entry per stack address.
EntriesDistinct ==
    \A i, j \in Entries : i < sSize /\ j < sSize /\ PATHS[i] = PATHS[j] => i = j

\* The places on the stack that injections have had their argument at.
Places == {u[1] : u \in used}

\* So the unchecked index runs off the table only after injections from more
\* places than it has entries, however many injections there were.
NoOverrun == pc = "overrun" => Cardinality(Places) > SIZE

\* The table is sound after any number of injections, whole or cut short.
TableSound == EntriesComplete /\ EntriesDistinct /\ NoOverrun

\* What a dex's own Java code may rely on.  Its Hook.main goes on to onInject, and
\* its callbacks are registered and called, only with both native methods of its
\* HookManager in place, also when an earlier attempt to load it was cut short.
\* Only handleHookedMethod itself is reached sooner, by invocations of methods that
\* are hooked already, and there invokeOriginalMethod may be missing: unless hook
\* was cut short, just between the two assignments of initMembers.
NativesInPlace ==
    /\ \A k \in Classes :
        (k \in hooked \/ sMethodCache[k] # {}) => k \in registered \cap bound
    /\ \A c \in Callers : callerPc[c] = "callback" => handler[c] \in registered \cap bound
    /\ \A c \in Callers :
        callerPc[c] = "get" /\ handler[c] \notin bound =>
            cutShort \/ (pc = "setNativeFunc" /\ handler[c] = targetClass)

\* However often a dex is injected, each load of it has onInject called at most
\* once, and only then are methods diverted; a load whose Hook.main has run misses
\* its onInject only if hook was cut short.
OnInjectOnce ==
    /\ \A k \in Classes : injected[k] <= 1
    /\ \A m \in diverted : \E k \in Classes : injected[k] = 1 /\ m \in sMethodCache[k]
    /\ \A k \in hooked :
        \/ injected[k] = 1 \/ cutShort
        \/ pc = "replaceParentClassLoader" /\ k = CLASS[index]

\* An invocation of a method with a callback, past the point of choice.
Misses(c) == due[c] /\ callerPc[c] \in {"original", "undiverted", "unsatisfiedLink"}

\* The same dex injected again and again, with its path at the same place and no
\* injection cut short, is loaded once and every callback stays in force, whatever the
\* application does to the stack in between and whoever invokes meanwhile.
ReinjectionHarmless ==
    (Cardinality(used) <= 1 /\ ~ cutShort) =>
        /\ Cardinality({k \in Classes : dexOf[k] # Junk}) <= 1
        /\ \A c \in Callers : ~ Misses(c)

\* "This method will be called in target process" (Injector.java): when
\* invoke_dex_method returns 0 the onInject of the dex it was given has been called
\* (hook returns -1 whatever the result).
OnInjectCalled ==
    (pc = "return" /\ result = 0) =>
        \E k \in Classes : dexOf[k] = memory[dexPath] /\ injected[k] >= 1

\* "Each time a target method is invoked, the callback is called"
\* (HookManager.java): also after another injection.
InvocationReachesCallback == \A c \in Callers : ~ Misses(c)

=============================================================================
