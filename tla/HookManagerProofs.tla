------------------------- MODULE HookManagerProofs -------------------------
(***************************************************************************)
(* What HookManager promises, for any number of methods, threads and       *)
(* wrappers, as long as generateKey tells the methods apart                *)
(* (DistinctKeys).                                                         *)
(***************************************************************************)
EXTENDS HookManager, TLAPS

\* The callback that an invocation of m that begins now finds.
Current(m) ==
    IF sMethodCache[generateKey(m)] = NoWrapper THEN NoCallback
    ELSE mCallback[sMethodCache[generateKey(m)]]

\* A call of setMethodHooked in progress: its callback counts as registered, and no call
\* beside it takes that back.
SetterInv(t) ==
    /\ setPc[t] # "idle" => hookMethod[t] \in Methods /\ callback[t] \in Callbacks
    /\ setPc[t] # "idle" => callback[t] \in registered[hookMethod[t]]
    /\ setPc[t] = "installing" => pending[t] = hookMethod[t]
    /\ setPc[t] \in {"put", "resize"} => hookMethod[t] \in hooked
    /\ setPc[t] \in {"update", "resize"} => fake[t] \in Wrappers
    /\ setPc[t] = "update" =>
         /\ sMethodCache[generateKey(hookMethod[t])] # NoWrapper
         /\ Current(hookMethod[t]) \in replaces[t] =>
              sMethodCache[generateKey(hookMethod[t])] = fake[t]
    /\ setPc[t] = "resize" =>
         /\ mCallback[fake[t]] = callback[t]
         /\ \A k \in Keys : sMethodCache[k] # fake[t]

\* Two calls in progress.
SettersInv(t, u) ==
    /\ setPc[t] # "idle" /\ setPc[u] # "idle" /\ hookMethod[t] = hookMethod[u] =>
         callback[t] \notin replaces[u]
    /\ t # u /\ setPc[t] = "resize" /\ setPc[u] \in {"update", "resize"} => fake[t] # fake[u]

\* An invocation in progress: what is registered, during it or when it read the cache, it may call.
CallerInv(c) ==
    /\ callerPc[c] # "idle" => callee[c] \in Methods /\ registered[callee[c]] \subseteq admissible[c]
    /\ callerPc[c] \in {"setMethod", "readCallback"} => mCallback[wrapper[c]] \in admissible[c]
    /\ callerPc[c] \in {"readCallback", "callback"} => mMethod[wrapper[c]] = callee[c]
    /\ callerPc[c] \in {"idle", "unhooked", "get", "setMethod", "readCallback"} => served[c] = NoCallback
    /\ callerPc[c] = "unhooked" => NoCallback \in admissible[c]
    /\ callerPc[c] \in {"callback", "original"} =>
         served[c] \in admissible[c] \/ (grew[c] /\ served[c] = NoCallback)
    /\ ran[c] \subseteq {callee[c]}
    /\ resizing /\ callerPc[c] # "idle" => grew[c]

\* All the ways in which a wrapper may stand for a method.
Uses(w, m) ==
    \/ sMethodCache[generateKey(m)] = w
    \/ \E t \in Threads : setPc[t] \in {"update", "resize"} /\ hookMethod[t] = m /\ fake[t] = w
    \/ \E c \in Callers :
         callerPc[c] \in {"setMethod", "readCallback", "callback"} /\ callee[c] = m /\ wrapper[c] = w
    \/ mMethod[w] = m

\* A wrapper in use has been allocated, and for one method.
WrapperInv(w) ==
    \A m \in Methods : Uses(w, m) =>
        /\ mCallback[w] # NoCallback
        /\ \A n \in Methods : Uses(w, n) => n = m

MethodInv(m) ==
    /\ Current(m) \in registered[m]
    /\ sMethodCache[generateKey(m)] # NoWrapper => m \in hooked

\* The invariant that the steps preserve.
IInv ==
    /\ TypeOK
    /\ \A t \in Threads : SetterInv(t)
    /\ \A t, u \in Threads : SettersInv(t, u)
    /\ \A c \in Callers : CallerInv(c)
    /\ \A w \in Wrappers : WrapperInv(w)
    /\ \A m \in Methods : MethodInv(m)

LEMMA KeyOf == \A m \in Methods : generateKey(m) \in Keys
BY DEF Keys

LEMMA InitInv == Init => IInv
<1> SUFFICES ASSUME Init PROVE IInv
  OBVIOUS
<1> USE KeyOf, NullAssumption, NoMethodAssumption, MaxAskedAssumption
<1>1. TypeOK
  <2>1. grew \in [Callers -> BOOLEAN] /\ resizing \in BOOLEAN
    BY DEF Init
  <2>2. asked \in [Callers -> 0 .. MaxAsked]
    BY DEF Init
  <2>3. InstallTypeOK
    BY DEF Init, InstallInit, InstallTypeOK
  <2>4. /\ sMethodCache \in [Keys -> Wrappers \cup {NoWrapper}]
        /\ cacheMonitor \in Threads \cup {NoThread}
        /\ mCallback \in [Wrappers -> Slot]
        /\ mMethod \in [Wrappers -> Methods \cup {NoMethod}]
        /\ setPc \in [Threads -> SetPc]
        /\ hookMethod \in [Threads -> Methods \cup {NoMethod}]
        /\ callback \in [Threads -> Slot]
        /\ fake \in [Threads -> Wrappers \cup {NoWrapper}]
    BY DEF Init, SetPc, Slot
  <2>5. /\ callerPc \in [Callers -> CallerPc]
        /\ callee \in [Callers -> Methods \cup {NoMethod}]
        /\ wrapper \in [Callers -> Wrappers \cup {NoWrapper}]
        /\ served \in [Callers -> Slot]
        /\ ran \in [Callers -> SUBSET (Methods \cup {NoMethod})]
        /\ registered \in [Methods -> SUBSET Slot]
        /\ replaces \in [Threads -> SUBSET Slot]
        /\ admissible \in [Callers -> SUBSET Slot]
        /\ \A c \in Callers : callerPc[c] = "idle"
    BY DEF Init, CallerPc, Slot
  <2> QED
    BY <2>1, <2>2, <2>3, <2>4, <2>5 DEF TypeOK
<1>2. \A t, u \in Threads : SetterInv(t) /\ SettersInv(t, u)
  BY DEF Init, SetterInv, SettersInv
<1>3. \A c \in Callers : CallerInv(c)
  BY DEF Init, CallerInv
<1>4. \A w \in Wrappers, m \in Methods : ~ Uses(w, m)
  BY DEF Init, Uses
<1>5. \A w \in Wrappers : WrapperInv(w)
  BY <1>4 DEF WrapperInv
<1>6. \A m \in Methods : MethodInv(m)
  BY DEF Init, MethodInv, Current
<1> QED
  BY <1>1, <1>2, <1>3, <1>5, <1>6 DEF IInv

-----------------------------------------------------------------------------
(* The steps of invocations.                                               *)

\* A step of an invocation leaves to the other side what is its own.
LEMMA InvocationKeepsSetters ==
    ASSUME IInv, UNCHANGED otherVars
    PROVE  /\ \A t, u \in Threads : SetterInv(t)' /\ SettersInv(t, u)'
           /\ \A m \in Methods : MethodInv(m)'
BY DEF IInv, otherVars, cacheVars, setVars, SetterInv, SettersInv, MethodInv, Current

\* It comes to use no wrapper for a method that was not used for it.
LEMMA InvocationKeepsWrappers ==
    ASSUME IInv, UNCHANGED otherVars, \A w \in Wrappers, m \in Methods : Uses(w, m)' => Uses(w, m)
    PROVE  \A w \in Wrappers : WrapperInv(w)'
BY DEF IInv, otherVars, WrapperInv

\* A step of c does not concern other invocations, unless it touches mMethod.
LEMMA InvocationKeepsCallers ==
    ASSUME IInv, NEW c \in Callers, UNCHANGED <<otherVars, mMethod>>,
           \A d \in Callers \ {c} :
             /\ callerPc'[d] = callerPc[d] /\ callee'[d] = callee[d] /\ wrapper'[d] = wrapper[d]
             /\ served'[d] = served[d] /\ ran'[d] = ran[d]
             /\ admissible'[d] = admissible[d] /\ grew'[d] = grew[d],
           CallerInv(c)'
    PROVE  \A d \in Callers : CallerInv(d)'
BY DEF IInv, otherVars, cacheVars, setVars, CallerInv

LEMMA InvokeInv ==
    ASSUME IInv, NEW c \in Callers, NEW m \in Methods, Invoke(c, m)
    PROVE  IInv'
<1> USE DEF IInv
<1>1. TypeOK'
  BY DEF TypeOK, InstallTypeOK, Invoke, otherVars, cacheVars, setVars, CallerPc, Slot
<1>2. \A w \in Wrappers, n \in Methods : Uses(w, n)' => Uses(w, n)
  BY DEF TypeOK, Uses, Invoke, otherVars, cacheVars, setVars
<1>3. CallerInv(c)'
  <2>1. m \notin hooked => NoCallback \in registered[m]
    BY DEF MethodInv, Current
  <2> QED
    BY <2>1 DEF TypeOK, CallerInv, Invoke, otherVars, cacheVars
<1>4. \A d \in Callers : CallerInv(d)'
  BY <1>3, InvocationKeepsCallers DEF TypeOK, Invoke
<1> QED
  BY <1>1, <1>2, <1>4, InvocationKeepsSetters, InvocationKeepsWrappers DEF Invoke

LEMMA GetWrapperInv ==
    ASSUME IInv, NEW c \in Callers, GetWrapper(c)
    PROVE  IInv'
<1> USE DEF IInv
<1>0. PICK w \in Found(generateKey(callee[c])) :
         /\ wrapper' = [wrapper EXCEPT ![c] = w]
         /\ callerPc' = [callerPc EXCEPT ![c] = IF w = NoWrapper THEN "original" ELSE "setMethod"]
  BY DEF GetWrapper
<1>k. callee[c] \in Methods /\ generateKey(callee[c]) \in Keys
  BY KeyOf DEF GetWrapper, CallerInv
<1>w. w \in Wrappers \cup {NoWrapper} /\ (w # NoWrapper => w = sMethodCache[generateKey(callee[c])])
  BY <1>k DEF Found, TypeOK
<1>1. TypeOK'
  BY <1>0, <1>w DEF TypeOK, InstallTypeOK, GetWrapper, otherVars, cacheVars, setVars, CallerPc, Slot
<1>2. \A v \in Wrappers, n \in Methods : Uses(v, n)' => Uses(v, n)
  BY <1>0, <1>k, <1>w, NullAssumption DEF TypeOK, Uses, GetWrapper, otherVars, cacheVars, setVars
<1>3. CallerInv(c)'
  <2>1. CASE w = NoWrapper
    <3>1. NoCallback \in admissible[c] \/ grew[c]
      BY <1>0, <1>k, <2>1 DEF Found, MethodInv, Current, CallerInv, GetWrapper
    <3> QED
      BY <1>0, <2>1, <3>1 DEF TypeOK, CallerInv, GetWrapper, otherVars, cacheVars
  <2>2. CASE w # NoWrapper
    <3>1. mCallback[w] \in admissible[c]
      BY <1>0, <1>k, <1>w, <2>2 DEF MethodInv, Current, CallerInv, GetWrapper
    <3> QED
      BY <1>0, <2>2, <3>1 DEF TypeOK, CallerInv, GetWrapper, otherVars, cacheVars
  <2> QED
    BY <2>1, <2>2
<1>4. \A d \in Callers : CallerInv(d)'
  BY <1>0, <1>3, InvocationKeepsCallers DEF TypeOK, GetWrapper
<1> QED
  BY <1>1, <1>2, <1>4, InvocationKeepsSetters, InvocationKeepsWrappers DEF GetWrapper

\* mMethod is written again and again, and always the same.
LEMMA SetMMethodInv ==
    ASSUME IInv, NEW c \in Callers, SetMMethod(c)
    PROVE  /\ IInv'
           /\ mMethod[wrapper[c]] \in {NoMethod, callee[c]}
<1> USE DEF IInv
<1>w. wrapper[c] \in Wrappers /\ callee[c] \in Methods /\ Uses(wrapper[c], callee[c])
  BY DEF SetMMethod, TypeOK, CallerInv, Uses
<1>1. TypeOK'
  BY <1>w DEF TypeOK, InstallTypeOK, SetMMethod, otherVars, cacheVars, setVars, CallerPc, Slot
<1>2. \A w \in Wrappers, n \in Methods : Uses(w, n)' => Uses(w, n)
  BY <1>w DEF TypeOK, Uses, SetMMethod, otherVars, cacheVars, setVars
<1>3. ASSUME NEW d \in Callers PROVE CallerInv(d)'
  <2>1. ASSUME d # c, callerPc[d] \in {"readCallback", "callback"}, wrapper[d] = wrapper[c]
        PROVE  callee[d] = callee[c]
    <3>1. callee[d] \in Methods /\ Uses(wrapper[c], callee[d])
      BY <2>1 DEF CallerInv, Uses
    <3> QED
      BY <1>w, <3>1 DEF WrapperInv
  <2> QED
    BY <1>w, <2>1 DEF TypeOK, CallerInv, SetMMethod, otherVars, cacheVars
<1>4. mMethod[wrapper[c]] \in {NoMethod, callee[c]}
  <2>1. ASSUME mMethod[wrapper[c]] \in Methods PROVE mMethod[wrapper[c]] = callee[c]
    BY <1>w, <2>1 DEF WrapperInv, Uses
  <2> QED
    BY <1>w, <2>1 DEF TypeOK
<1> QED
  BY <1>1, <1>2, <1>3, <1>4, InvocationKeepsSetters, InvocationKeepsWrappers DEF SetMMethod

LEMMA CallbackInv ==
    ASSUME IInv, NEW c \in Callers,
           \/ ReadCallback(c) \/ CallbackAsks(c) \/ CallbackReturns(c) \/ CallbackThrows(c)
           \/ InvokeOriginal(c)
    PROVE  IInv'
<1> USE DEF IInv
<1>w. callerPc[c] \in {"readCallback", "callback"} => wrapper[c] \in Wrappers
  BY DEF TypeOK
<1>1. CASE ReadCallback(c)
  <2>1. TypeOK'
    BY <1>1, <1>w DEF TypeOK, InstallTypeOK, ReadCallback, otherVars, cacheVars, setVars, CallerPc, Slot
  <2>2. \A w \in Wrappers, n \in Methods : Uses(w, n)' => Uses(w, n)
    BY <1>1 DEF TypeOK, Uses, ReadCallback, otherVars, cacheVars, setVars
  <2>3. CallerInv(c)'
    <3>1. /\ served'[c] = mCallback[wrapper[c]]
          /\ callerPc'[c] = IF mCallback[wrapper[c]] = NoCallback THEN "original" ELSE "callback"
          /\ UNCHANGED <<mCallback, mMethod, callee, wrapper, ran, admissible, grew, registered, resizing>>
      BY <1>1 DEF TypeOK, ReadCallback, otherVars, cacheVars
    <3>2. /\ callerPc[c] = "readCallback"
          /\ mCallback[wrapper[c]] \in admissible[c] /\ mMethod[wrapper[c]] = callee[c]
      BY <1>1 DEF ReadCallback, CallerInv
    <3>3. /\ callee[c] \in Methods /\ registered[callee[c]] \subseteq admissible[c]
          /\ ran[c] \subseteq {callee[c]} /\ (resizing => grew[c])
      BY <3>2 DEF CallerInv
    <3> QED
      BY <3>1, <3>2, <3>3 DEF CallerInv
  <2>4. \A d \in Callers : CallerInv(d)'
    BY <1>1, <2>3, InvocationKeepsCallers DEF TypeOK, ReadCallback
  <2> QED
    BY <1>1, <2>1, <2>2, <2>4, InvocationKeepsSetters, InvocationKeepsWrappers DEF ReadCallback
<1>2. CASE CallbackAsks(c)
  <2>0. /\ callerPc' \in {callerPc, [callerPc EXCEPT ![c] = "original"]}
        /\ ran' = [ran EXCEPT ![c] = ran[c] \cup {callee[c]}]
    BY <1>2 DEF CallbackAsks, Run, CallerInv
  <2>1. TypeOK'
    BY <1>2, <2>0, MaxAskedAssumption
    DEF TypeOK, InstallTypeOK, CallbackAsks, otherVars, cacheVars, setVars, CallerPc, Slot
  <2>2. \A w \in Wrappers, n \in Methods : Uses(w, n)' => Uses(w, n)
    BY <1>2, <2>0 DEF TypeOK, Uses, CallbackAsks, otherVars, cacheVars, setVars
  <2>3. CallerInv(c)'
    BY <1>2, <2>0 DEF TypeOK, CallerInv, CallbackAsks, otherVars, cacheVars
  <2>4. \A d \in Callers : CallerInv(d)'
    BY <1>2, <2>0, <2>3, InvocationKeepsCallers DEF TypeOK, CallbackAsks
  <2> QED
    BY <1>2, <2>1, <2>2, <2>4, InvocationKeepsSetters, InvocationKeepsWrappers DEF CallbackAsks
<1>3. CASE CallbackThrows(c)
  <2>1. TypeOK'
    BY <1>3 DEF TypeOK, InstallTypeOK, CallbackThrows, otherVars, cacheVars, setVars, CallerPc, Slot
  <2>2. \A w \in Wrappers, n \in Methods : Uses(w, n)' => Uses(w, n)
    BY <1>3 DEF TypeOK, Uses, CallbackThrows, otherVars, cacheVars, setVars
  <2>3. CallerInv(c)'
    BY <1>3 DEF TypeOK, CallerInv, CallbackThrows, otherVars, cacheVars
  <2>4. \A d \in Callers : CallerInv(d)'
    BY <1>3, <2>3, InvocationKeepsCallers DEF TypeOK, CallbackThrows
  <2> QED
    BY <1>3, <2>1, <2>2, <2>4, InvocationKeepsSetters, InvocationKeepsWrappers DEF CallbackThrows
<1>4. CASE CallbackReturns(c) \/ InvokeOriginal(c)
  <2>0. /\ Leave(c) /\ UNCHANGED <<otherVars, mMethod, callee>>
        /\ ran' = ran \/ ran' = [ran EXCEPT ![c] = ran[c] \cup {callee[c]}]
    BY <1>4 DEF CallbackReturns, InvokeOriginal, Run
  <2>1. TypeOK'
    BY <2>0, MaxAskedAssumption
    DEF TypeOK, InstallTypeOK, Leave, otherVars, cacheVars, setVars, CallerPc, Slot
  <2>2. \A w \in Wrappers, n \in Methods : Uses(w, n)' => Uses(w, n)
    BY <2>0 DEF TypeOK, Uses, Leave, otherVars, cacheVars, setVars
  <2>3. CallerInv(c)'
    BY <2>0 DEF TypeOK, CallerInv, Leave, otherVars, cacheVars
  <2>4. \A d \in Callers : CallerInv(d)'
    BY <2>0, <2>3, InvocationKeepsCallers DEF TypeOK, Leave
  <2> QED
    BY <2>0, <2>1, <2>2, <2>4, InvocationKeepsSetters, InvocationKeepsWrappers
<1> QED
  BY <1>1, <1>2, <1>3, <1>4

-----------------------------------------------------------------------------
(* The steps of setMethodHooked.                                           *)

LEMMA SetMethodHookedInv ==
    ASSUME IInv, NEW t \in Threads, NEW m \in Methods, NEW cb \in Callbacks,
           SetMethodHooked(t, m, cb)
    PROVE  IInv'
<1> USE DEF IInv
<1>k. generateKey(m) \in Keys
  BY KeyOf
<1>0. PICK w \in Found(generateKey(m)) :
         /\ fake' = [fake EXCEPT ![t] = w]
         /\ setPc' = [setPc EXCEPT ![t] = IF w = NoWrapper THEN "hook" ELSE "update"]
  BY DEF SetMethodHooked
<1>w. w \in Wrappers \cup {NoWrapper} /\ (w # NoWrapper => w = sMethodCache[generateKey(m)])
  BY <1>k DEF Found, TypeOK
<1>f. /\ cb # NoCallback
      /\ \A n \in Methods : cb \notin registered[n]
      /\ \A u \in Threads : callback[u] # cb /\ cb \notin replaces[u]
  BY NullAssumption DEF SetMethodHooked, Fresh
<1>e. /\ hookMethod' = [hookMethod EXCEPT ![t] = m] /\ callback' = [callback EXCEPT ![t] = cb]
      /\ registered' = [registered EXCEPT ![m] = registered[m] \cup {cb}]
      /\ replaces' = [replaces EXCEPT ![t] = registered[m] \ Overlapping(m)]
      /\ setPc[t] = "idle"
      /\ UNCHANGED <<hooked, pending, sMethodCache, resizing, cacheMonitor, mCallback, mMethod>>
      /\ UNCHANGED <<callerPc, callee, wrapper, served, asked, ran, grew>>
  BY DEF SetMethodHooked, cacheVars, wrapperVars, callerVars
<1>a. \A c \in Callers : admissible'[c] = IF callerPc[c] # "idle" /\ callee[c] = m
                                           THEN admissible[c] \cup {cb} ELSE admissible[c]
  BY DEF SetMethodHooked
<1>1. TypeOK'
  <2>1. admissible' \in [Callers -> SUBSET Slot]
    BY DEF SetMethodHooked, TypeOK, Slot
  <2>2. setPc' \in [Threads -> SetPc]
    BY <1>0 DEF TypeOK, SetPc
  <2> QED
    BY <1>0, <1>w, <1>e, <2>1, <2>2 DEF TypeOK, InstallTypeOK, Slot
<1>2. \A u \in Threads : SetterInv(u)'
  <2>1. ASSUME NEW u \in Threads, u # t PROVE SetterInv(u)'
    BY <1>0, <1>e, <2>1 DEF TypeOK, SetterInv, Current
  <2>2. SetterInv(t)'
    BY <1>0, <1>w, <1>e DEF TypeOK, SetterInv, Current
  <2> QED
    BY <2>1, <2>2
<1>3. \A u, v \in Threads : SettersInv(u, v)'
  <2>1. ASSUME NEW u \in Threads, NEW v \in Threads, u # t, v # t PROVE SettersInv(u, v)'
    BY <1>0, <1>e, <2>1 DEF TypeOK, SettersInv
  <2>2. ASSUME NEW v \in Threads PROVE SettersInv(t, v)'
    BY <1>0, <1>e, <1>f DEF TypeOK, SettersInv
  <2>3. ASSUME NEW v \in Threads, v # t PROVE SettersInv(v, t)'
    <3>1. setPc[v] # "idle" /\ hookMethod[v] = m => callback[v] \in Overlapping(m)
      BY DEF Overlapping
    <3>2. setPc[v] = "resize" => fake[v] \in Wrappers /\ sMethodCache[generateKey(m)] # fake[v]
      BY <1>k DEF SetterInv
    <3> QED
      BY <1>0, <1>w, <1>e, <2>3, <3>1, <3>2, NullAssumption DEF TypeOK, SettersInv
  <2> QED
    BY <2>1, <2>2, <2>3
<1>4. ASSUME NEW c \in Callers PROVE CallerInv(c)'
  <2>1. admissible[c] \subseteq admissible'[c]
    BY <1>a
  <2>2. callerPc[c] # "idle" => callee[c] \in Methods /\ registered'[callee[c]] \subseteq admissible'[c]
    <3>1. CASE callerPc[c] # "idle" /\ callee[c] = m
      BY <1>e, <1>a, <3>1 DEF TypeOK, CallerInv
    <3>2. CASE callerPc[c] # "idle" /\ callee[c] # m
      BY <1>e, <1>a, <3>2 DEF TypeOK, CallerInv
    <3> QED
      BY <3>1, <3>2
  <2> QED
    BY <1>e, <2>1, <2>2 DEF CallerInv
<1>5. \A v \in Wrappers, n \in Methods : Uses(v, n)' => Uses(v, n)
  BY <1>0, <1>w, <1>e, NullAssumption DEF TypeOK, Uses
<1>6. \A v \in Wrappers : WrapperInv(v)'
  BY <1>e, <1>5 DEF WrapperInv
<1>7. \A n \in Methods : MethodInv(n)'
  BY <1>e DEF TypeOK, MethodInv, Current
<1> QED
  BY <1>1, <1>2, <1>3, <1>4, <1>6, <1>7

LEMMA HookMethodNativeInv ==
    ASSUME IInv, NEW t \in Threads, HookMethodNative(t)
    PROVE  IInv'
<1> USE DEF IInv
<1>e. /\ UNCHANGED <<sMethodCache, resizing, cacheMonitor, mCallback, mMethod>>
      /\ UNCHANGED <<hookMethod, callback, fake, registered, replaces, admissible, grew>>
      /\ UNCHANGED <<callerPc, callee, wrapper, served, asked, ran>>
  BY DEF HookMethodNative, cacheVars, wrapperVars, callerVars
<1>0. /\ setPc[t] \in {"hook", "installing"} /\ setPc'[t] \in {"installing", "put"}
      /\ setPc' \in [Threads -> SetPc]
      /\ \A u \in Threads \ {t} : setPc'[u] = setPc[u] /\ pending'[u] = pending[u]
  BY DEF HookMethodNative, InstallBegin, InstallEffect, InstallEnd, TypeOK, InstallTypeOK, SetPc
<1>1. /\ hooked \subseteq hooked' /\ InstallTypeOK'
      /\ setPc'[t] = "installing" => pending'[t] = hookMethod[t]
      /\ setPc'[t] = "put" => hookMethod[t] \in hooked'
  <2>m. hookMethod[t] \in Methods
    BY <1>0 DEF SetterInv
  <2>1. CASE setPc[t] = "hook" /\ InstallBegin(t, hookMethod[t]) /\ setPc' = [setPc EXCEPT ![t] = "installing"]
    BY <2>m, <2>1 DEF InstallBegin, TypeOK, InstallTypeOK
  <2>2. CASE setPc[t] = "installing" /\ InstallEffect(t) /\ UNCHANGED setPc
    BY <2>m, <2>2 DEF InstallEffect, TypeOK, InstallTypeOK, SetterInv
  <2>3. CASE setPc[t] = "installing" /\ InstallEnd(t) /\ setPc' = [setPc EXCEPT ![t] = "put"]
    BY <2>m, <2>3 DEF InstallEnd, TypeOK, InstallTypeOK, SetterInv
  <2> QED
    BY <2>1, <2>2, <2>3 DEF HookMethodNative
<1>2. TypeOK'
  BY <1>e, <1>0, <1>1 DEF TypeOK
<1>3. \A u \in Threads : SetterInv(u)'
  <2>1. ASSUME NEW u \in Threads, u # t PROVE SetterInv(u)'
    BY <1>e, <1>0, <1>1, <2>1 DEF SetterInv, Current
  <2>2. SetterInv(t)'
    BY <1>e, <1>0, <1>1 DEF SetterInv
  <2> QED
    BY <2>1, <2>2
<1>4. \A u, v \in Threads : SettersInv(u, v)'
  BY <1>e, <1>0 DEF SettersInv
<1>5. \A c \in Callers : CallerInv(c)'
  BY <1>e DEF CallerInv
<1>6. \A w \in Wrappers, n \in Methods : Uses(w, n)' => Uses(w, n)
  BY <1>e, <1>0 DEF Uses
<1>7. \A w \in Wrappers : WrapperInv(w)'
  BY <1>e, <1>6 DEF WrapperInv
<1>8. \A n \in Methods : MethodInv(n)'
  BY <1>e, <1>1 DEF MethodInv, Current
<1> QED
  BY <1>2, <1>3, <1>4, <1>5, <1>7, <1>8

\* What the return of a call, or the step before it in which it makes its callback the
\* current one, does to the invocations and to the other calls.
LEMMA FinishKeepsCallers ==
    ASSUME IInv, NEW t \in Threads, Finish(t), UNCHANGED <<mMethod, callerVars>>,
           setPc[t] # "idle",
           resizing' => resizing,
           \A c \in Callers :
              callerPc[c] \in {"setMethod", "readCallback"} => mCallback'[wrapper[c]] \in admissible[c]
    PROVE  \A c \in Callers : CallerInv(c)'
<1> USE DEF IInv
<1> SUFFICES ASSUME NEW c \in Callers PROVE CallerInv(c)'
  OBVIOUS
<1>1. /\ UNCHANGED <<mMethod, callerPc, callee, wrapper, served, asked, ran, admissible, grew>>
      /\ registered' = [registered EXCEPT ![hookMethod[t]] = registered[hookMethod[t]] \ replaces[t]]
  BY DEF Finish, callerVars
<1>2. callerPc[c] # "idle" => callee[c] \in Methods /\ registered'[callee[c]] \subseteq admissible[c]
  BY <1>1 DEF TypeOK, CallerInv
<1>3. callerPc[c] \in {"setMethod", "readCallback"} => mCallback'[wrapper[c]] \in admissible[c]
  OBVIOUS
<1>4. resizing' /\ callerPc[c] # "idle" => grew[c]
  BY DEF CallerInv
<1> QED
  BY <1>1, <1>2, <1>3, <1>4 DEF CallerInv

LEMMA FinishKeepsSetters ==
    ASSUME IInv, NEW t \in Threads, Finish(t), UNCHANGED <<hooked, pending>>,
           setPc[t] # "idle", NEW own \in Methods, own = hookMethod[t],
           \A u \in Threads : fake'[u] = fake[u],
           \A m \in Methods \ {own} : UNCHANGED sMethodCache[generateKey(m)],
           \A k \in Keys, u \in Threads : u # t /\ setPc[u] = "resize" => sMethodCache'[k] # fake[u],
           \A u \in Threads : u # t /\ setPc[u] = "resize" => mCallback'[fake[u]] = mCallback[fake[u]],
           \A m \in Methods \ {own} : Current(m)' = Current(m),
           sMethodCache'[generateKey(own)] # NoWrapper,
           \/ Current(own)' = callback[t]
           \/ /\ Current(own)' = Current(own)
              /\ Current(own) \notin replaces[t]
              /\ UNCHANGED sMethodCache[generateKey(own)]
    PROVE  /\ \A u, v \in Threads : SetterInv(u)' /\ SettersInv(u, v)'
           /\ \A m \in Methods : Current(m)' \in registered'[m]
<1> USE DEF IInv
<1>m. hookMethod[t] \in Methods
  BY DEF SetterInv
<1>1. /\ setPc' = [setPc EXCEPT ![t] = "idle"]
      /\ registered' = [registered EXCEPT ![hookMethod[t]] = registered[hookMethod[t]] \ replaces[t]]
      /\ UNCHANGED <<hookMethod, callback, replaces>>
  BY DEF Finish
<1>2. ASSUME NEW u \in Threads, u # t, setPc[u] # "idle" PROVE callback[u] \in registered'[hookMethod[u]]
  BY <1>1, <1>m, <1>2 DEF TypeOK, SetterInv, SettersInv
<1>3. ASSUME NEW u \in Threads, u # t, setPc[u] = "update"
      PROVE  /\ sMethodCache'[generateKey(hookMethod[u])] # NoWrapper
             /\ Current(hookMethod[u])' \in replaces[u] =>
                  sMethodCache'[generateKey(hookMethod[u])] = fake[u]
  <2>1. CASE hookMethod[u] = hookMethod[t]
    BY <1>1, <1>3, <2>1 DEF SetterInv, SettersInv
  <2>2. CASE hookMethod[u] # hookMethod[t]
    <3>1. hookMethod[u] \in Methods \ {own} /\ SetterInv(u)
      BY <1>3, <2>2 DEF SetterInv
    <3> QED
      BY <1>1, <1>3, <3>1 DEF SetterInv
  <2> QED
    BY <2>1, <2>2
<1>4. \A u \in Threads : SetterInv(u)'
  <2>1. SetterInv(t)'
    BY <1>1 DEF TypeOK, SetterInv
  <2>2. ASSUME NEW u \in Threads, u # t PROVE SetterInv(u)'
    BY <1>1, <1>2, <1>3, <2>2 DEF TypeOK, SetterInv
  <2> QED
    BY <2>1, <2>2
<1>5. \A u, v \in Threads : SettersInv(u, v)'
  BY <1>1 DEF TypeOK, SettersInv
<1>6. ASSUME NEW m \in Methods PROVE Current(m)' \in registered'[m]
  <2>1. CASE m = hookMethod[t]
    BY <1>1, <1>m, <2>1 DEF TypeOK, SetterInv, SettersInv, MethodInv
  <2>2. CASE m # hookMethod[t]
    BY <1>1, <2>2 DEF TypeOK, MethodInv
  <2> QED
    BY <2>1, <2>2
<1> QED
  BY <1>4, <1>5, <1>6

LEMMA UpdateCallbackInv ==
    ASSUME DistinctKeys, IInv, NEW t \in Threads, UpdateCallback(t)
    PROVE  IInv'
<1> USE DEF IInv
<1>m. /\ hookMethod[t] \in Methods /\ callback[t] \in Callbacks /\ callback[t] # NoCallback
      /\ callback[t] \in registered[hookMethod[t]] /\ fake[t] \in Wrappers
      /\ setPc[t] = "update" /\ Uses(fake[t], hookMethod[t])
  BY NullAssumption DEF UpdateCallback, SetterInv, Uses
<1>e. /\ mCallback' = [mCallback EXCEPT ![fake[t]] = callback[t]] /\ Finish(t)
      /\ UNCHANGED <<hooked, pending, sMethodCache, resizing, cacheMonitor, mMethod, fake>>
      /\ UNCHANGED callerVars
  BY DEF UpdateCallback, cacheVars
<1>f. /\ setPc' = [setPc EXCEPT ![t] = "idle"]
      /\ registered' = [registered EXCEPT ![hookMethod[t]] = registered[hookMethod[t]] \ replaces[t]]
      /\ UNCHANGED <<hookMethod, callback, replaces, admissible, grew>>
      /\ UNCHANGED <<callerPc, callee, wrapper, served, asked, ran>>
  BY <1>e DEF Finish, callerVars
<1>1. TypeOK'
  BY <1>m, <1>e, <1>f DEF TypeOK, InstallTypeOK, SetPc, Slot
<1>2. ASSUME NEW m \in Methods, m # hookMethod[t] PROVE sMethodCache[generateKey(m)] # fake[t]
  BY <1>m, <1>2 DEF WrapperInv, Uses
<1>3. \A m \in Methods \ {hookMethod[t]} : Current(m)' = Current(m)
  BY <1>e, <1>2, KeyOf DEF TypeOK, Current
<1>4. ASSUME NEW own \in Methods, own = hookMethod[t]
      PROVE  /\ sMethodCache[generateKey(own)] # NoWrapper
             /\ \/ Current(own)' = callback[t]
                \/ Current(own)' = Current(own) /\ Current(own) \notin replaces[t]
  <2>0. sMethodCache[generateKey(own)] \in Wrappers /\ SetterInv(t)
    BY <1>m, <1>4, KeyOf DEF TypeOK, SetterInv
  <2>1. CASE sMethodCache[generateKey(own)] = fake[t]
    BY <1>m, <1>e, <2>0, <2>1, NullAssumption DEF TypeOK, Current
  <2>2. CASE sMethodCache[generateKey(own)] # fake[t]
    <3>1. Current(own)' = Current(own)
      BY <1>m, <1>e, <2>0, <2>2 DEF TypeOK, Current
    <3>2. Current(own) \notin replaces[t]
      BY <1>m, <1>4, <2>0, <2>2 DEF SetterInv
    <3> QED
      BY <2>0, <3>1, <3>2, NullAssumption
  <2> QED
    BY <2>1, <2>2, <2>0, NullAssumption
<1>5. \A u \in Threads : u # t /\ setPc[u] = "resize" =>
         mCallback'[fake[u]] = mCallback[fake[u]] /\ \A k \in Keys : sMethodCache[k] # fake[u]
  BY <1>m, <1>e DEF TypeOK, SetterInv, SettersInv
<1>6. /\ \A u, v \in Threads : SetterInv(u)' /\ SettersInv(u, v)'
      /\ \A m \in Methods : Current(m)' \in registered'[m]
  <2> DEFINE own == hookMethod[t]
  <2>1. own \in Methods /\ own = hookMethod[t] /\ hookMethod' = hookMethod
    BY <1>m, <1>f
  <2> HIDE DEF own
  <2> QED
    BY <1>m, <1>e, <1>3, <1>4, <1>5, <2>1, FinishKeepsSetters
<1>7. ASSUME NEW c \in Callers, callerPc[c] \in {"setMethod", "readCallback"}
      PROVE  mCallback'[wrapper[c]] \in admissible[c]
  <2>0. wrapper[c] \in Wrappers /\ callee[c] \in Methods /\ registered[callee[c]] \subseteq admissible[c]
    BY <1>7 DEF TypeOK, CallerInv
  <2>1. CASE wrapper[c] = fake[t]
    <3>1. Uses(fake[t], callee[c])
      BY <1>7, <2>1 DEF Uses
    <3>2. callee[c] = hookMethod[t]
      BY <1>m, <2>0, <3>1 DEF WrapperInv
    <3> QED
      BY <1>m, <1>e, <2>0, <2>1, <3>2 DEF TypeOK
  <2>2. CASE wrapper[c] # fake[t]
    BY <1>7, <1>e, <2>0, <2>2 DEF TypeOK, CallerInv
  <2> QED
    BY <2>1, <2>2
<1>8. \A c \in Callers : CallerInv(c)'
  BY <1>m, <1>e, <1>7, FinishKeepsCallers
<1>9. \A w \in Wrappers, n \in Methods : Uses(w, n)' => Uses(w, n)
  BY <1>e, <1>f DEF TypeOK, Uses
<1>10. \A w \in Wrappers : mCallback[w] # NoCallback => mCallback'[w] # NoCallback
  BY <1>m, <1>e DEF TypeOK
<1>11. \A w \in Wrappers : WrapperInv(w)'
  BY <1>9, <1>10 DEF WrapperInv
<1>12. \A m \in Methods : MethodInv(m)'
  BY <1>e, <1>6 DEF MethodInv
<1> QED
  BY <1>1, <1>6, <1>8, <1>11, <1>12

LEMMA PutInv ==
    ASSUME DistinctKeys, IInv, NEW t \in Threads, Put(t)
    PROVE  IInv'
<1> USE DEF IInv
<1>0. PICK w \in Wrappers :
         /\ mCallback[w] = NoCallback
         /\ mCallback' = [mCallback EXCEPT ![w] = callback[t]]
         /\ sMethodCache' = [sMethodCache EXCEPT ![generateKey(hookMethod[t])] = w]
  BY DEF Put
<1>m. /\ hookMethod[t] \in Methods /\ callback[t] \in Callbacks /\ callback[t] # NoCallback
      /\ hookMethod[t] \in hooked /\ setPc[t] = "put"
      /\ generateKey(hookMethod[t]) \in Keys /\ w # NoWrapper
  BY NullAssumption, KeyOf DEF Put, SetterInv
<1>e. /\ Finish(t)
      /\ UNCHANGED <<hooked, pending, resizing, cacheMonitor, mMethod, fake>>
      /\ UNCHANGED callerVars
  BY DEF Put
<1>f. /\ setPc' = [setPc EXCEPT ![t] = "idle"]
      /\ registered' = [registered EXCEPT ![hookMethod[t]] = registered[hookMethod[t]] \ replaces[t]]
      /\ UNCHANGED <<hookMethod, callback, replaces, admissible, grew>>
      /\ UNCHANGED <<callerPc, callee, wrapper, served, asked, ran>>
  BY <1>e DEF Finish, callerVars
<1>u. \A m \in Methods : ~ Uses(w, m)
  BY <1>0 DEF WrapperInv
<1>1. TypeOK'
  BY <1>0, <1>m, <1>e, <1>f DEF TypeOK, InstallTypeOK, SetPc, Slot
<1>2. ASSUME NEW m \in Methods, m # hookMethod[t]
      PROVE  /\ sMethodCache'[generateKey(m)] = sMethodCache[generateKey(m)]
             /\ sMethodCache[generateKey(m)] # w
             /\ Current(m)' = Current(m)
  <2>1. generateKey(m) # generateKey(hookMethod[t]) /\ generateKey(m) \in Keys
    BY <1>m, <1>2, KeyOf DEF DistinctKeys
  <2>2. sMethodCache[generateKey(m)] # w
    BY <1>u DEF Uses
  <2>3. sMethodCache'[generateKey(m)] = sMethodCache[generateKey(m)]
    BY <1>0, <2>1 DEF TypeOK
  <2>4. sMethodCache[generateKey(m)] # NoWrapper =>
          mCallback'[sMethodCache[generateKey(m)]] = mCallback[sMethodCache[generateKey(m)]]
    BY <1>0, <2>1, <2>2 DEF TypeOK
  <2> QED
    BY <2>2, <2>3, <2>4 DEF Current
<1>3. ASSUME NEW own \in Methods, own = hookMethod[t]
      PROVE  sMethodCache'[generateKey(own)] = w /\ Current(own)' = callback[t]
  BY <1>0, <1>m, <1>3 DEF TypeOK, Current
<1>4. ASSUME NEW u \in Threads, u # t, setPc[u] \in {"update", "resize"}
      PROVE  fake[u] # w /\ mCallback'[fake[u]] = mCallback[fake[u]]
  <2>1. Uses(fake[u], hookMethod[u]) /\ hookMethod[u] \in Methods /\ fake[u] \in Wrappers
    BY <1>4 DEF Uses, SetterInv
  <2>2. fake[u] # w
    BY <1>u, <2>1
  <2> QED
    BY <1>0, <2>1, <2>2 DEF TypeOK
<1>5. \A u \in Threads : u # t /\ setPc[u] = "resize" => \A k \in Keys : sMethodCache'[k] # fake[u]
  BY <1>0, <1>m, <1>4 DEF TypeOK, SetterInv
<1>6. /\ \A u, v \in Threads : SetterInv(u)' /\ SettersInv(u, v)'
      /\ \A m \in Methods : Current(m)' \in registered'[m]
  <2> DEFINE own == hookMethod[t]
  <2>1. own \in Methods /\ own = hookMethod[t]
    BY <1>m
  <2> HIDE DEF own
  <2> QED
    BY <1>m, <1>e, <1>2, <1>3, <1>4, <1>5, <2>1, FinishKeepsSetters
<1>7. ASSUME NEW c \in Callers, callerPc[c] \in {"setMethod", "readCallback"}
      PROVE  mCallback'[wrapper[c]] \in admissible[c]
  <2>1. wrapper[c] \in Wrappers /\ callee[c] \in Methods /\ Uses(wrapper[c], callee[c])
    BY <1>7 DEF TypeOK, CallerInv, Uses
  <2>2. wrapper[c] # w
    BY <1>u, <2>1
  <2> QED
    BY <1>7, <1>0, <2>1, <2>2 DEF TypeOK, CallerInv
<1>8. \A c \in Callers : CallerInv(c)'
  BY <1>m, <1>e, <1>7, FinishKeepsCallers
<1>9. \A v \in Wrappers, n \in Methods : Uses(v, n)' => Uses(v, n) \/ (v = w /\ n = hookMethod[t])
  BY <1>0, <1>m, <1>2, <1>f, <1>e DEF TypeOK, Uses
<1>10. \A v \in Wrappers : mCallback[v] # NoCallback \/ v = w => mCallback'[v] # NoCallback
  BY <1>m, <1>0 DEF TypeOK
<1>11. \A v \in Wrappers : WrapperInv(v)'
  BY <1>9, <1>10, <1>u DEF WrapperInv
<1>12. \A m \in Methods : MethodInv(m)'
  BY <1>2, <1>m, <1>e, <1>6 DEF MethodInv
<1> QED
  BY <1>1, <1>6, <1>8, <1>11, <1>12

LEMMA PutResizesInv ==
    ASSUME IInv, NEW t \in Threads, PutResizes(t)
    PROVE  IInv'
<1> USE DEF IInv
<1>0. PICK w \in Wrappers :
         /\ mCallback[w] = NoCallback
         /\ mCallback' = [mCallback EXCEPT ![w] = callback[t]]
         /\ fake' = [fake EXCEPT ![t] = w]
  BY DEF PutResizes
<1>m. /\ hookMethod[t] \in Methods /\ callback[t] \in Callbacks /\ callback[t] # NoCallback
      /\ hookMethod[t] \in hooked /\ setPc[t] = "put" /\ w # NoWrapper
  BY NullAssumption DEF PutResizes, SetterInv
<1>e. /\ setPc' = [setPc EXCEPT ![t] = "resize"] /\ cacheMonitor' = t /\ resizing' = TRUE
      /\ UNCHANGED <<hooked, pending, sMethodCache, mMethod, hookMethod, callback>>
      /\ UNCHANGED <<callerPc, callee, wrapper, served, asked, ran, registered, replaces, admissible>>
  BY DEF PutResizes, callerVars
<1>g. grew' \in [Callers -> BOOLEAN] /\ \A c \in Callers : callerPc[c] # "idle" => grew'[c]
  BY DEF PutResizes
<1>u. \A m \in Methods : ~ Uses(w, m)
  BY <1>0 DEF WrapperInv
<1>1. TypeOK'
  BY <1>0, <1>m, <1>e, <1>g DEF TypeOK, InstallTypeOK, SetPc, Slot
<1>2. \A k \in Keys : sMethodCache[k] # w
  BY <1>u DEF Uses, Keys
<1>3. ASSUME NEW m \in Methods PROVE Current(m)' = Current(m)
  <2>1. sMethodCache[generateKey(m)] \in Wrappers \cup {NoWrapper} /\ sMethodCache[generateKey(m)] # w
    BY <1>2, KeyOf DEF TypeOK
  <2> QED
    BY <1>0, <1>e, <2>1 DEF TypeOK, Current
<1>4. ASSUME NEW u \in Threads, u # t, setPc[u] \in {"update", "resize"}
      PROVE  fake[u] # w /\ mCallback'[fake[u]] = mCallback[fake[u]]
  <2>1. Uses(fake[u], hookMethod[u]) /\ hookMethod[u] \in Methods /\ fake[u] \in Wrappers
    BY <1>4 DEF Uses, SetterInv
  <2>2. fake[u] # w
    BY <1>u, <2>1
  <2> QED
    BY <1>0, <2>1, <2>2 DEF TypeOK
<1>5. \A u \in Threads : SetterInv(u)'
  <2>1. ASSUME NEW u \in Threads, u # t PROVE SetterInv(u)'
    <3>1. setPc'[u] = setPc[u] /\ fake'[u] = fake[u]
      BY <1>0, <1>e, <2>1 DEF TypeOK
    <3>2. setPc[u] # "idle" => hookMethod[u] \in Methods /\ Current(hookMethod[u])' = Current(hookMethod[u])
      BY <1>e, <1>3 DEF SetterInv
    <3> QED
      BY <1>e, <1>4, <2>1, <3>1, <3>2 DEF SetterInv
  <2>2. SetterInv(t)'
    <3>1. /\ setPc'[t] = "resize" /\ fake'[t] = w /\ mCallback'[w] = callback[t]
          /\ callback[t] \in registered[hookMethod[t]]
      BY <1>0, <1>e, <1>m DEF TypeOK, SetterInv
    <3> QED
      BY <1>e, <1>m, <1>2, <3>1 DEF SetterInv
  <2> QED
    BY <2>1, <2>2
<1>6. \A u, v \in Threads : SettersInv(u, v)'
  BY <1>0, <1>e, <1>m, <1>4 DEF TypeOK, SettersInv
<1>7. ASSUME NEW c \in Callers PROVE CallerInv(c)'
  <2>1. callerPc[c] \in {"setMethod", "readCallback"} => mCallback'[wrapper[c]] \in admissible[c]
    <3> SUFFICES ASSUME callerPc[c] \in {"setMethod", "readCallback"}
                 PROVE  mCallback'[wrapper[c]] \in admissible[c]
      OBVIOUS
    <3>1. wrapper[c] \in Wrappers /\ callee[c] \in Methods /\ Uses(wrapper[c], callee[c])
      BY DEF TypeOK, CallerInv, Uses
    <3>2. wrapper[c] # w
      BY <1>u, <3>1
    <3> QED
      BY <1>0, <3>1, <3>2 DEF TypeOK, CallerInv
  <2>2. callerPc[c] \in {"callback", "original"} =>
          served[c] \in admissible[c] \/ (grew'[c] /\ served[c] = NoCallback)
    BY <1>g DEF CallerInv
  <2> QED
    BY <1>e, <1>g, <2>1, <2>2 DEF CallerInv
<1>8. \A v \in Wrappers, n \in Methods : Uses(v, n)' => Uses(v, n) \/ (v = w /\ n = hookMethod[t])
  BY <1>0, <1>e DEF TypeOK, Uses
<1>9. \A v \in Wrappers : mCallback[v] # NoCallback \/ v = w => mCallback'[v] # NoCallback
  BY <1>m, <1>0 DEF TypeOK
<1>10. \A v \in Wrappers : WrapperInv(v)'
  BY <1>8, <1>9, <1>u DEF WrapperInv
<1>11. \A m \in Methods : MethodInv(m)'
  BY <1>3, <1>e DEF MethodInv
<1> QED
  BY <1>1, <1>5, <1>6, <1>7, <1>10, <1>11

LEMMA PutResizedInv ==
    ASSUME DistinctKeys, IInv, NEW t \in Threads, PutResized(t)
    PROVE  IInv'
<1> USE DEF IInv
<1>m. /\ hookMethod[t] \in Methods /\ callback[t] \in Callbacks
      /\ hookMethod[t] \in hooked /\ setPc[t] = "resize"
      /\ generateKey(hookMethod[t]) \in Keys /\ fake[t] # NoWrapper /\ fake[t] \in Wrappers
      /\ mCallback[fake[t]] = callback[t] /\ Uses(fake[t], hookMethod[t])
  BY NullAssumption, KeyOf DEF PutResized, SetterInv, Uses
<1>e. /\ sMethodCache' = [sMethodCache EXCEPT ![generateKey(hookMethod[t])] = fake[t]]
      /\ resizing' = FALSE /\ cacheMonitor' = NoThread /\ Finish(t)
      /\ UNCHANGED <<hooked, pending, mCallback, mMethod, fake>>
      /\ UNCHANGED callerVars
  BY DEF PutResized, wrapperVars
<1>f. /\ setPc' = [setPc EXCEPT ![t] = "idle"]
      /\ registered' = [registered EXCEPT ![hookMethod[t]] = registered[hookMethod[t]] \ replaces[t]]
      /\ UNCHANGED <<hookMethod, callback, replaces, admissible, grew>>
      /\ UNCHANGED <<callerPc, callee, wrapper, served, asked, ran>>
  BY <1>e DEF Finish, callerVars
<1>1. TypeOK'
  BY <1>m, <1>e, <1>f DEF TypeOK, InstallTypeOK, SetPc, Slot
<1>2. ASSUME NEW m \in Methods, m # hookMethod[t]
      PROVE  /\ sMethodCache'[generateKey(m)] = sMethodCache[generateKey(m)]
             /\ Current(m)' = Current(m)
  <2>1. generateKey(m) # generateKey(hookMethod[t])
    BY <1>m, <1>2 DEF DistinctKeys
  <2>2. sMethodCache'[generateKey(m)] = sMethodCache[generateKey(m)]
    BY <1>e, <2>1, KeyOf DEF TypeOK
  <2> QED
    BY <1>e, <2>2 DEF Current
<1>3. ASSUME NEW own \in Methods, own = hookMethod[t]
      PROVE  sMethodCache'[generateKey(own)] = fake[t] /\ Current(own)' = callback[t]
  BY <1>e, <1>m, <1>3 DEF TypeOK, Current
<1>4. \A u \in Threads : u # t /\ setPc[u] = "resize" => \A k \in Keys : sMethodCache'[k] # fake[u]
  BY <1>m, <1>e DEF TypeOK, SetterInv, SettersInv
<1>5. /\ \A u, v \in Threads : SetterInv(u)' /\ SettersInv(u, v)'
      /\ \A m \in Methods : Current(m)' \in registered'[m]
  <2> DEFINE own == hookMethod[t]
  <2>1. own \in Methods /\ own = hookMethod[t]
    BY <1>m
  <2> HIDE DEF own
  <2> QED
    BY <1>m, <1>e, <1>2, <1>3, <1>4, <2>1, FinishKeepsSetters
<1>6. \A c \in Callers : callerPc[c] \in {"setMethod", "readCallback"} =>
                            mCallback'[wrapper[c]] \in admissible[c]
  BY <1>e DEF CallerInv
<1>7. \A c \in Callers : CallerInv(c)'
  BY <1>m, <1>e, <1>6, FinishKeepsCallers
<1>8. \A v \in Wrappers, n \in Methods : Uses(v, n)' => Uses(v, n)
  BY <1>m, <1>e, <1>f, <1>2 DEF TypeOK, Uses
<1>9. \A v \in Wrappers : WrapperInv(v)'
  BY <1>e, <1>8 DEF WrapperInv
<1>10. \A m \in Methods : MethodInv(m)'
  BY <1>2, <1>m, <1>e, <1>5 DEF MethodInv
<1> QED
  BY <1>1, <1>5, <1>7, <1>9, <1>10

-----------------------------------------------------------------------------
(* Together.                                                               *)

LEMMA StutterInv == IInv /\ UNCHANGED vars => IInv'
<1> SUFFICES ASSUME IInv, UNCHANGED vars PROVE IInv'
  OBVIOUS
<1>1. /\ UNCHANGED <<hooked, pending, sMethodCache, resizing, cacheMonitor, mCallback, mMethod>>
      /\ UNCHANGED <<setPc, hookMethod, callback, fake, registered, replaces, admissible, grew>>
      /\ UNCHANGED <<callerPc, callee, wrapper, served, asked, ran>>
  BY DEF vars, cacheVars, wrapperVars, setVars, callerVars
<1>2. TypeOK' /\ \A m \in Methods : MethodInv(m)'
  BY <1>1 DEF IInv, TypeOK, InstallTypeOK, MethodInv, Current
<1>3. \A t, u \in Threads : SetterInv(t)' /\ SettersInv(t, u)'
  BY <1>1 DEF IInv, SetterInv, SettersInv, Current
<1>4. \A c \in Callers : CallerInv(c)'
  BY <1>1 DEF IInv, CallerInv
<1>5. \A w \in Wrappers : WrapperInv(w)'
  BY <1>1 DEF IInv, WrapperInv, Uses
<1> QED
  BY <1>2, <1>3, <1>4, <1>5 DEF IInv

LEMMA NextInv == DistinctKeys /\ IInv /\ [Next]_vars => IInv'
BY StutterInv, SetMethodHookedInv, UpdateCallbackInv, HookMethodNativeInv, PutInv, PutResizesInv,
   PutResizedInv, InvokeInv, GetWrapperInv, SetMMethodInv, CallbackInv
DEF Next, SetStep, HandlerStep

LEMMA Invariance ==
    ASSUME DistinctKeys
    PROVE  Spec => []IInv
<1>1. Init => IInv
  BY InitInv
<1>2. IInv /\ [Next]_vars => IInv'
  BY NextInv
<1> QED
  BY <1>1, <1>2, PTL DEF Spec

-----------------------------------------------------------------------------
(* The theorems.                                                           *)

\* The cache, the wrappers and the locals of all threads keep their types; in particular
\* handleHookedMethod never goes on with a wrapper it did not find.
THEOREM TypeCorrect ==
    ASSUME DistinctKeys
    PROVE  Spec => []TypeOK
<1>1. IInv => TypeOK
  BY DEF IInv
<1> QED
  BY <1>1, Invariance, PTL

\* However registrations, their puts and invocations interleave, with the table growing
\* under an unlocked get: handleHookedMethod calls no callback that was replaced before the
\* invocation began, nor that of another method.
THEOREM NoWrongCallback ==
    ASSUME DistinctKeys
    PROVE  Spec => []NeverWrongCallback
<1>1. IInv => NeverWrongCallback
  BY DEF IInv, CallerInv, NeverWrongCallback, Decided
<1> QED
  BY <1>1, Invariance, PTL

\* HookedMethod.invoke, and handleHookedMethod after it, run the original of the method
\* invoked, though mMethod is written by every invocation and read without a lock.
THEOREM OriginalIsOfCallee ==
    ASSUME DistinctKeys
    PROVE  Spec => []OriginalOfCallee
<1>1. IInv => OriginalOfCallee
  BY DEF IInv, CallerInv, OriginalOfCallee
<1> QED
  BY <1>1, Invariance, PTL

\* setMethodHooked puts a wrapper only when the native hook is in place, so that a second
\* registration may return at once.
THEOREM CachedAreHooked ==
    ASSUME DistinctKeys
    PROVE  Spec => []CachedIsHooked
<1>1. IInv => CachedIsHooked
  BY DEF IInv, MethodInv, CachedIsHooked
<1> QED
  BY <1>1, Invariance, PTL

\* A HookedMethod that has stood for a method stands for no other, ever.
THEOREM WrapperStays ==
    ASSUME DistinctKeys
    PROVE  Spec => WrapperIsOneMethod
<1> DEFINE Stays == \A w \in Wrappers : mMethod[w] # NoMethod => mMethod'[w] = mMethod[w]
<1>1. IInv /\ [Next]_vars => [Stays]_mMethod
  <2> SUFFICES ASSUME IInv, [Next]_vars, mMethod' # mMethod PROVE Stays
    OBVIOUS
  <2>1. PICK c \in Callers : SetMMethod(c)
    BY DEF Next, vars, wrapperVars, SetStep, HandlerStep, SetMethodHooked, UpdateCallback,
           HookMethodNative, Put, PutResizes, PutResized, Invoke, GetWrapper, ReadCallback,
           CallbackAsks, CallbackReturns, CallbackThrows, InvokeOriginal
  <2>2. mMethod[wrapper[c]] \in {NoMethod, callee[c]}
    BY <2>1, SetMMethodInv
  <2> QED
    BY <2>1, <2>2 DEF IInv, TypeOK, SetMMethod
<1> QED
  BY <1>1, Invariance, PTL DEF Spec, WrapperIsOneMethod

=============================================================================
