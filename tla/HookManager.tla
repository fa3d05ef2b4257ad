---------------------------- MODULE HookManager ----------------------------
(***************************************************************************)
(* The Java half of the hook (HookManager.java and HookedMethod.java): the *)
(* cache sMethodCache of registered callbacks, written by setMethodHooked  *)
(* and read, without any lock, by handleHookedMethod each time a hooked    *)
(* method is invoked.  The native installation is the abstract one of      *)
(* HookInstall, which MethodHook implements.                               *)
(*                                                                         *)
(* The threads of HookInstall are the ones that call setMethodHooked.      *)
(* Memory is sequentially consistent.                                      *)
(***************************************************************************)
EXTENDS HookInstall, Naturals

CONSTANTS
    Callers,       \* threads that invoke the methods
    Callbacks,     \* HookedCallback objects
    Wrappers,      \* HookedMethod objects that can be allocated (a bound)
    Signature,     \* what reflection reports of each method
    ResizingKeys,  \* keys whose insertion makes the HashMap double its table
    MaxAsked,      \* how often one run of a callback calls HookedMethod.invoke
    NoThread, NoWrapper, NoCallback

ASSUME NullAssumption ==
    /\ NoThread \notin Threads
    /\ NoWrapper \notin Wrappers
    /\ NoCallback \notin Callbacks
ASSUME MaxAskedAssumption == MaxAsked \in Nat

\* Mutant: the parameters left out of the key.
keyWithoutParameters(m) == <<Signature[m].declaringClass, Signature[m].name>>

\* The string generateKey builds.  For a parameter, and for the result, it takes
\* t.getClass().getName(): the class that implements java.lang.reflect.Type,
\* not the type itself.
generateKey(m) ==
    <<Signature[m].declaringClass, Signature[m].name,
      [i \in DOMAIN Signature[m].params |-> Signature[m].params[i].implementation],
      Signature[m].result.implementation>>

Keys == {generateKey(m) : m \in Methods}

VARIABLES
    sMethodCache,  \* the HashMap: the wrapper of each key, or NoWrapper
    resizing,      \* a put is moving the entries to a larger table
    cacheMonitor,  \* the thread in synchronized (sMethodCache)
    mCallback,     \* field of each HookedMethod; NoCallback: not allocated
    mMethod,       \* field of each HookedMethod; NoMethod: null
    setPc,         \* where in setMethodHooked each thread is
    hookMethod,    \* its arguments ...
    callback,
    fake,          \* ... and the wrapper it found in, or puts into, the cache
    callerPc,      \* where each caller is
    callee,        \* the method it invoked
    wrapper,       \* the wrapper handleHookedMethod found
    served,        \* the callback this invocation called, or NoCallback
    asked,         \* how often that callback called HookedMethod.invoke
    ran            \* the methods whose original code this invocation ran

\* History variables: they let the properties speak of "the callback that is
\* registered" while registrations overlap.
VARIABLES
    registered,    \* callbacks of each method not yet replaced by a later call
    replaces,      \* those that a call in progress replaces when it returns
    admissible,    \* callbacks registered at some moment of an invocation
    grew           \* the table was growing at some moment of it

cacheVars == <<sMethodCache, resizing, cacheMonitor>>
wrapperVars == <<mCallback, mMethod>>
setVars == <<setPc, hookMethod, callback, fake>>
callerVars == <<callerPc, callee, wrapper, served, asked, ran>>
vars == <<hooked, pending, cacheVars, wrapperVars, setVars, callerVars,
          registered, replaces, admissible, grew>>

SetPc == {"idle", "update", "hook", "installing", "put", "resize"}
CallerPc == {"idle", "unhooked", "get", "setMethod", "readCallback", "callback", "original"}
Slot == Callbacks \cup {NoCallback}

TypeOK ==
    /\ InstallTypeOK
    /\ sMethodCache \in [Keys -> Wrappers \cup {NoWrapper}]
    /\ resizing \in BOOLEAN
    /\ cacheMonitor \in Threads \cup {NoThread}
    /\ mCallback \in [Wrappers -> Slot]
    /\ mMethod \in [Wrappers -> Methods \cup {NoMethod}]
    /\ setPc \in [Threads -> SetPc]
    /\ hookMethod \in [Threads -> Methods \cup {NoMethod}]
    /\ callback \in [Threads -> Slot]
    /\ fake \in [Threads -> Wrappers \cup {NoWrapper}]
    /\ callerPc \in [Callers -> CallerPc]
    /\ callee \in [Callers -> Methods \cup {NoMethod}]
    /\ wrapper \in [Callers -> Wrappers \cup {NoWrapper}]
    /\ served \in [Callers -> Slot]
    /\ asked \in [Callers -> 0 .. MaxAsked]
    /\ ran \in [Callers -> SUBSET (Methods \cup {NoMethod})]
    /\ registered \in [Methods -> SUBSET Slot]
    /\ replaces \in [Threads -> SUBSET Slot]
    /\ admissible \in [Callers -> SUBSET Slot]
    /\ grew \in [Callers -> BOOLEAN]
    /\ \A c \in Callers :
        callerPc[c] \in {"setMethod", "readCallback", "callback"} => wrapper[c] \in Wrappers

Init ==
    /\ InstallInit
    /\ sMethodCache = [k \in Keys |-> NoWrapper]
    /\ resizing = FALSE
    /\ cacheMonitor = NoThread
    /\ mCallback = [w \in Wrappers |-> NoCallback]
    /\ mMethod = [w \in Wrappers |-> NoMethod]
    /\ setPc = [t \in Threads |-> "idle"]
    /\ hookMethod = [t \in Threads |-> NoMethod]
    /\ callback = [t \in Threads |-> NoCallback]
    /\ fake = [t \in Threads |-> NoWrapper]
    /\ callerPc = [c \in Callers |-> "idle"]
    /\ callee = [c \in Callers |-> NoMethod]
    /\ wrapper = [c \in Callers |-> NoWrapper]
    /\ served = [c \in Callers |-> NoCallback]
    /\ asked = [c \in Callers |-> 0]
    /\ ran = [c \in Callers |-> {}]
    /\ registered = [m \in Methods |-> {NoCallback}]
    /\ replaces = [t \in Threads |-> {}]
    /\ admissible = [c \in Callers |-> {}]
    /\ grew = [c \in Callers |-> FALSE]

\* HashMap.get takes no lock.  doubleCapacity publishes the new, empty table
\* before it moves the entries into it: meanwhile a get may miss any of them.
Found(k) == {sMethodCache[k]} \cup (IF resizing THEN {NoWrapper} ELSE {})

-----------------------------------------------------------------------------
(* setMethodHooked.                                                        *)

Overlapping(m) == {callback[t] : t \in {u \in Threads : setPc[u] # "idle" /\ hookMethod[u] = m}}

\* Bound: a callback is registered again only when no trace of it is left.
Fresh(cb) ==
    /\ \A m \in Methods : cb \notin registered[m]
    /\ \A t \in Threads : callback[t] # cb /\ cb \notin replaces[t]
    /\ \A w \in Wrappers : mCallback[w] # cb
    /\ \A c \in Callers : cb \notin admissible[c]

\* The call with a callback other than null, down to the lookup of the key.
SetMethodHooked(t, m, cb) ==
    /\ setPc[t] = "idle"
    /\ Fresh(cb)
    /\ \E w \in Found(generateKey(m)) :
        /\ fake' = [fake EXCEPT ![t] = w]
        /\ setPc' = [setPc EXCEPT ![t] = IF w = NoWrapper THEN "hook" ELSE "update"]
    /\ hookMethod' = [hookMethod EXCEPT ![t] = m]
    /\ callback' = [callback EXCEPT ![t] = cb]
    /\ registered' = [registered EXCEPT ![m] = @ \cup {cb}]
    /\ replaces' = [replaces EXCEPT ![t] = registered[m] \ Overlapping(m)]
    /\ admissible' = [c \in Callers |->
                        IF callerPc[c] # "idle" /\ callee[c] = m
                        THEN admissible[c] \cup {cb} ELSE admissible[c]]
    /\ UNCHANGED <<hooked, pending, cacheVars, wrapperVars, callerVars, grew>>

\* The return of the call.
Finish(t) ==
    /\ setPc' = [setPc EXCEPT ![t] = "idle"]
    /\ registered' = [registered EXCEPT ![hookMethod[t]] = @ \ replaces[t]]
    /\ UNCHANGED <<hookMethod, callback, replaces, admissible, grew>>

\* Mutant: a second registration leaves the first callback in place.
UpdateIgnored(t) ==
    /\ setPc[t] = "update"
    /\ Finish(t)
    /\ UNCHANGED <<hooked, pending, cacheVars, wrapperVars, fake, callerVars>>

\* A wrapper is there already: fake.mCallback = callback.
UpdateCallback(t) ==
    /\ setPc[t] = "update"
    /\ mCallback' = [mCallback EXCEPT ![fake[t]] = callback[t]]
    /\ Finish(t)
    /\ UNCHANGED <<hooked, pending, cacheVars, mMethod, fake, callerVars>>

\* Mutant: setMethodHooked does not wait for the native hook.
HookNotAwaited(t) ==
    /\ setPc[t] = "hook"
    /\ setPc' = [setPc EXCEPT ![t] = "put"]
    /\ UNCHANGED <<hooked, pending, cacheVars, wrapperVars, hookMethod, callback, fake,
                   callerVars, registered, replaces, admissible, grew>>

\* None there: hookMethodNative(hookMethod).
HookMethodNative(t) ==
    /\ \/ /\ setPc[t] = "hook"
          /\ InstallBegin(t, hookMethod[t])
          /\ setPc' = [setPc EXCEPT ![t] = "installing"]
       \/ /\ setPc[t] = "installing"
          /\ InstallEffect(t)
          /\ UNCHANGED setPc
       \/ /\ setPc[t] = "installing"
          /\ InstallEnd(t)
          /\ setPc' = [setPc EXCEPT ![t] = "put"]
    /\ UNCHANGED <<cacheVars, wrapperVars, hookMethod, callback, fake, callerVars,
                   registered, replaces, admissible, grew>>

\* synchronized (sMethodCache) { sMethodCache.put(key, new HookedMethod(callback)); }
\* in one step when the table has room ...
Put(t) ==
    /\ setPc[t] = "put"
    /\ cacheMonitor = NoThread
    /\ LET k == generateKey(hookMethod[t]) IN
        /\ ~ (k \in ResizingKeys /\ sMethodCache[k] = NoWrapper)
        /\ \E w \in Wrappers :
            /\ mCallback[w] = NoCallback
            /\ mCallback' = [mCallback EXCEPT ![w] = callback[t]]
            /\ sMethodCache' = [sMethodCache EXCEPT ![k] = w]
    /\ Finish(t)
    /\ UNCHANGED <<hooked, pending, resizing, cacheMonitor, mMethod, fake, callerVars>>

\* ... and in two when the insertion doubles the table first.
PutResizes(t) ==
    /\ setPc[t] = "put"
    /\ cacheMonitor = NoThread
    /\ LET k == generateKey(hookMethod[t]) IN
        k \in ResizingKeys /\ sMethodCache[k] = NoWrapper
    /\ \E w \in Wrappers :
        /\ mCallback[w] = NoCallback
        /\ mCallback' = [mCallback EXCEPT ![w] = callback[t]]
        /\ fake' = [fake EXCEPT ![t] = w]
    /\ resizing' = TRUE
    /\ grew' = [c \in Callers |-> callerPc[c] # "idle"]
    /\ cacheMonitor' = t
    /\ setPc' = [setPc EXCEPT ![t] = "resize"]
    /\ UNCHANGED <<hooked, pending, sMethodCache, mMethod, hookMethod, callback,
                   callerVars, registered, replaces, admissible>>

PutResized(t) ==
    /\ setPc[t] = "resize"
    /\ sMethodCache' = [sMethodCache EXCEPT ![generateKey(hookMethod[t])] = fake[t]]
    /\ resizing' = FALSE
    /\ cacheMonitor' = NoThread
    /\ Finish(t)
    /\ UNCHANGED <<hooked, pending, wrapperVars, fake, callerVars>>

SetStep(t) ==
    \/ UpdateCallback(t) \/ HookMethodNative(t)
    \/ Put(t) \/ PutResizes(t) \/ PutResized(t)

-----------------------------------------------------------------------------
(* An invocation, and handleHookedMethod when the method is hooked.        *)

otherVars == <<hooked, pending, cacheVars, mCallback, setVars, registered, replaces>>

Invoke(c, m) ==
    /\ callerPc[c] = "idle"
    /\ callerPc' = [callerPc EXCEPT ![c] = IF m \in hooked THEN "get" ELSE "unhooked"]
    /\ callee' = [callee EXCEPT ![c] = m]
    /\ admissible' = [admissible EXCEPT ![c] = registered[m]]
    /\ grew' = [grew EXCEPT ![c] = resizing]
    /\ ran' = [ran EXCEPT ![c] = {}]
    /\ UNCHANGED <<otherVars, mMethod, wrapper, served, asked>>

\* Mutant: the test for null left out.
GetUnchecked(c) ==
    /\ callerPc[c] = "get"
    /\ \E w \in Found(generateKey(callee[c])) : wrapper' = [wrapper EXCEPT ![c] = w]
    /\ callerPc' = [callerPc EXCEPT ![c] = "setMethod"]
    /\ UNCHANGED <<otherVars, mMethod, callee, served, asked, ran, admissible, grew>>

\* sMethodCache.get(generateKey(method))
GetWrapper(c) ==
    /\ callerPc[c] = "get"
    /\ \E w \in Found(generateKey(callee[c])) :
        /\ wrapper' = [wrapper EXCEPT ![c] = w]
        /\ callerPc' = [callerPc EXCEPT ![c] = IF w = NoWrapper THEN "original" ELSE "setMethod"]
    /\ UNCHANGED <<otherVars, mMethod, callee, served, asked, ran, admissible, grew>>

\* Mutant: the wrapper is not told which method it stands for.
MMethodForgotten(c) ==
    /\ callerPc[c] = "setMethod"
    /\ callerPc' = [callerPc EXCEPT ![c] = "readCallback"]
    /\ UNCHANGED <<otherVars, mMethod, callee, wrapper, served, asked, ran, admissible, grew>>

\* hookkedmethod.mMethod = method
SetMMethod(c) ==
    /\ callerPc[c] = "setMethod"
    /\ mMethod' = [mMethod EXCEPT ![wrapper[c]] = callee[c]]
    /\ callerPc' = [callerPc EXCEPT ![c] = "readCallback"]
    /\ UNCHANGED <<otherVars, callee, wrapper, served, asked, ran, admissible, grew>>

\* hookkedmethod.mCallback.invoke(...)
ReadCallback(c) ==
    /\ callerPc[c] = "readCallback"
    /\ served' = [served EXCEPT ![c] = mCallback[wrapper[c]]]
    /\ callerPc' = [callerPc EXCEPT ![c] =
                        IF mCallback[wrapper[c]] = NoCallback THEN "original" ELSE "callback"]
    /\ UNCHANGED <<otherVars, mMethod, callee, wrapper, asked, ran, admissible, grew>>

\* The original code of m runs, on behalf of c.
Run(c, m) == ran' = [ran EXCEPT ![c] = @ \cup {m}]

\* The callback calls HookedMethod.invoke, which runs the original of mMethod.
\* An exception of the original reaches the callback wrapped in an
\* InvocationTargetException: the callback goes on after it, or lets it out.
CallbackAsks(c) ==
    /\ callerPc[c] = "callback"
    /\ asked[c] < MaxAsked
    /\ asked' = [asked EXCEPT ![c] = @ + 1]
    /\ Run(c, mMethod[wrapper[c]])
    /\ callerPc' \in {callerPc, [callerPc EXCEPT ![c] = "original"]}
    /\ UNCHANGED <<otherVars, mMethod, callee, wrapper, served, admissible, grew>>

\* The end of an invocation: what is left of it is the code it ran.
Leave(c) ==
    /\ callerPc' = [callerPc EXCEPT ![c] = "idle"]
    /\ wrapper' = [wrapper EXCEPT ![c] = NoWrapper]
    /\ served' = [served EXCEPT ![c] = NoCallback]
    /\ asked' = [asked EXCEPT ![c] = 0]
    /\ admissible' = [admissible EXCEPT ![c] = {}]
    /\ grew' = [grew EXCEPT ![c] = FALSE]

\* The callback returns ...
CallbackReturns(c) ==
    /\ callerPc[c] = "callback"
    /\ Leave(c)
    /\ UNCHANGED <<otherVars, mMethod, callee, ran>>

\* ... or throws an Exception of its own, which is caught.
CallbackThrows(c) ==
    /\ callerPc[c] = "callback"
    /\ callerPc' = [callerPc EXCEPT ![c] = "original"]
    /\ UNCHANGED <<otherVars, mMethod, callee, wrapper, served, asked, ran, admissible, grew>>

\* invokeOriginalMethod(method, ...), the last line of handleHookedMethod.
InvokeOriginal(c) ==
    /\ callerPc[c] \in {"original", "unhooked"}
    /\ Run(c, callee[c])
    /\ Leave(c)
    /\ UNCHANGED <<otherVars, mMethod, callee>>

HandlerStep(c) ==
    \/ GetWrapper(c) \/ SetMMethod(c) \/ ReadCallback(c) \/ CallbackAsks(c)
    \/ CallbackReturns(c) \/ CallbackThrows(c) \/ InvokeOriginal(c)

-----------------------------------------------------------------------------

Next ==
    \/ \E t \in Threads :
        SetStep(t) \/ \E m \in Methods, cb \in Callbacks : SetMethodHooked(t, m, cb)
    \/ \E c \in Callers : HandlerStep(c) \/ \E m \in Methods : Invoke(c, m)

Spec == Init /\ [][Next]_vars

-----------------------------------------------------------------------------
(* What must hold.                                                         *)

\* No two methods share a key: what the rest takes for granted of generateKey.
DistinctKeys == \A m, n \in Methods : generateKey(m) = generateKey(n) => m = n

\* An invocation past the point where it chose what to call.
Decided(c) == callerPc[c] \in {"unhooked", "callback", "original"}

\* "Each time a target method is invoked, the callback is called": an invocation
\* calls a callback that was registered at some moment of it, and falls through
\* to the original only if at some moment no call of setMethodHooked had
\* returned.  Registrations and invocations may overlap in every way.
InvocationSeesCurrentCallback ==
    \A c \in Callers : Decided(c) => served[c] \in admissible[c]

\* What the unlocked get keeps of it: an invocation may miss the callback, and
\* run the original instead, while the table grows, but at no time does it call
\* one that was replaced before it began, or that of another method.
NeverWrongCallback ==
    \A c \in Callers : Decided(c) =>
        \/ served[c] \in admissible[c]
        \/ grew[c] /\ served[c] = NoCallback

\* The original code an invocation runs, through the callback's HookedMethod or
\* after it, is that of the method invoked, whatever other threads invoke
\* between the assignment of mMethod and its use.
OriginalOfCallee == \A c \in Callers : ran[c] \subseteq {callee[c]}

\* A wrapper enters the cache only when its method is hooked already: a thread
\* that finds one returns at once, and promises its caller a hooked method.
CachedIsHooked ==
    \A m \in Methods : sMethodCache[generateKey(m)] # NoWrapper => m \in hooked

\* A HookedMethod may be treated "as a normal method": once it stands for a
\* method it stands for that one, also for a callback that kept it.
WrapperIsOneMethod ==
    [][\A w \in Wrappers : mMethod[w] # NoMethod => mMethod'[w] = mMethod[w]]_mMethod

=============================================================================
