----------------------------- MODULE MethodHook -----------------------------
(***************************************************************************)
(* The native half of the hook (jni/hook/Proxy.cpp): hookMethod rewrites,  *)
(* field by field, the Method struct the Dalvik interpreter dispatches on, *)
(* while other threads of the process go on invoking that method.          *)
(*                                                                         *)
(* Installers call hookMethodNative, which Java declares static            *)
(* synchronized: the caller holds the monitor of the HookManager class it  *)
(* was loaded with.  A second dex injected into the process brings a       *)
(* HookManager class of its own, hence Managers and ManagerOf.             *)
(* Callers invoke the methods; a hooked one reaches methodHookHandler,     *)
(* whose Java callback may ask for the original through                    *)
(* realInvokeOriginalMethodNative.                                         *)
(***************************************************************************)
CONSTANTS
    Methods,      \* the non-native Java methods being hooked
    Installers,   \* threads that call HookManager.hookMethodNative
    Callers,      \* threads that invoke the methods
    Managers,     \* HookManager classes loaded into the process
    ManagerOf,    \* the HookManager class each installer calls
    Infos,        \* the Method-sized blocks calloc can return (a bound)
    Bytecode,     \* stands for a method's own instructions, as insns
    NoMethod, NoThread, Free

ASSUME ManagerAssumption == ManagerOf \in [Installers -> Managers]
ASSUME NullAssumption ==
    /\ NoMethod \notin Methods
    /\ NoThread \notin Installers
    /\ Bytecode \notin Infos

\* The fields of struct Method that hookMethod touches or that dispatch reads.
MethodStruct ==
    [nativeFunc    : {"null", "methodHookHandler"},
     insns         : Infos \cup {Bytecode},
     registersSize : {"insAndLocals", "insSize"},
     outsSize      : {"outs", "zero"},
     accessFlags   : SUBSET {"ACC_NATIVE"}]

ASSUME FreeAssumption == Free \notin MethodStruct

\* A bytecode method as the class linker left it.
Pristine ==
    [nativeFunc |-> "null", insns |-> Bytecode, registersSize |-> "insAndLocals",
     outsSize |-> "outs", accessFlags |-> {}]

dvmIsNativeMethod(s) == "ACC_NATIVE" \in s.accessFlags

VARIABLES
    method,     \* the Method struct of each method
    hookInfo,   \* the heap blocks that hold saved copies, or Free
    monitor,    \* the installer in each HookManager class's monitor
    pc,         \* where in hookMethod each installer is
    target,     \* the method it is hooking
    info,       \* its local variable hookInfo
    callerPc,   \* where each caller is
    callee,     \* the method it invoked
    seen,       \* what its dispatch has read of the struct so far
    hookedBefore \* history: the method was native when the invocation began

installerVars == <<method, hookInfo, monitor, pc, target, info>>
callerVars == <<callerPc, callee, seen, hookedBefore>>
vars == <<method, hookInfo, monitor, pc, target, info, callerPc, callee, seen, hookedBefore>>

InstallerPc ==
    {"idle", "check", "copy", "setNativeFunc", "setInsns", "setRegisters",
     "setOuts", "setFlag", "return"}

\* A dispatch ends in the handler, in the handler with locals for arguments, in
\* the method's own bytecode, or in memory that is no code; the handler's request
\* for the original ends in the original, in the handler again, or in such memory.
CallerPc == {"idle", "dispatch", "handler", "misplaced", "bytecode", "original",
             "reentered", "garbage"}

\* The fields a dispatch reads before it knows what to run.
Seen == [registersSize : {"unread", "insAndLocals", "insSize"},
         outsSize      : {"unread", "outs", "zero"},
         native        : {"unread", "yes", "no"}]

NothingSeen == [registersSize |-> "unread", outsSize |-> "unread", native |-> "unread"]

TypeOK ==
    /\ method \in [Methods -> MethodStruct]
    /\ hookInfo \in [Infos -> MethodStruct \cup {Free}]
    /\ monitor \in [Managers -> Installers \cup {NoThread}]
    /\ pc \in [Installers -> InstallerPc]
    /\ target \in [Installers -> Methods \cup {NoMethod}]
    /\ info \in [Installers -> Infos \cup {Free}]
    /\ callerPc \in [Callers -> CallerPc]
    /\ callee \in [Callers -> Methods \cup {NoMethod}]
    /\ seen \in [Callers -> Seen]
    /\ hookedBefore \in [Callers -> BOOLEAN]

Init ==
    /\ method = [m \in Methods |-> Pristine]
    /\ hookInfo = [i \in Infos |-> Free]
    /\ monitor = [g \in Managers |-> NoThread]
    /\ pc = [t \in Installers |-> "idle"]
    /\ target = [t \in Installers |-> NoMethod]
    /\ info = [t \in Installers |-> Free]
    /\ callerPc = [c \in Callers |-> "idle"]
    /\ callee = [c \in Callers |-> NoMethod]
    /\ seen = [c \in Callers |-> NothingSeen]
    /\ hookedBefore = [c \in Callers |-> FALSE]

-----------------------------------------------------------------------------
(* hookMethod, one action per access to shared memory.                     *)

\* Mutant: hookMethodNative without "synchronized".
EnterUnlocked(t, m) ==
    /\ pc[t] = "idle"
    /\ monitor' = [monitor EXCEPT ![ManagerOf[t]] = t]
    /\ pc' = [pc EXCEPT ![t] = "check"]
    /\ target' = [target EXCEPT ![t] = m]
    /\ UNCHANGED <<method, hookInfo, info, callerVars>>

\* HookManager.hookMethodNative(m): the JNI bridge takes the class monitor.
Enter(t, m) ==
    /\ pc[t] = "idle"
    /\ monitor[ManagerOf[t]] = NoThread
    /\ monitor' = [monitor EXCEPT ![ManagerOf[t]] = t]
    /\ pc' = [pc EXCEPT ![t] = "check"]
    /\ target' = [target EXCEPT ![t] = m]
    /\ UNCHANGED <<method, hookInfo, info, callerVars>>

\* Mutant: the test for an earlier hook left out.
methodNeverHooked(m) == FALSE

methodIsHooked(m) == method[m].nativeFunc = "methodHookHandler"

Check(t) ==
    /\ pc[t] = "check"
    /\ pc' = [pc EXCEPT ![t] = IF methodIsHooked(target[t]) THEN "return" ELSE "copy"]
    /\ UNCHANGED <<method, hookInfo, monitor, target, info, callerVars>>

\* Mutant: the address of the block is lost.
CopyLost(t) ==
    /\ pc[t] = "copy"
    /\ \E i \in Infos :
        /\ hookInfo[i] = Free
        /\ hookInfo' = [hookInfo EXCEPT ![i] = method[target[t]]]
    /\ pc' = [pc EXCEPT ![t] = "setNativeFunc"]
    /\ UNCHANGED <<method, monitor, target, info, callerVars>>

\* calloc and memcpy: a fresh block receives the method as it is now.
Copy(t) ==
    /\ pc[t] = "copy"
    /\ \E i \in Infos :
        /\ hookInfo[i] = Free
        /\ hookInfo' = [hookInfo EXCEPT ![i] = method[target[t]]]
        /\ info' = [info EXCEPT ![t] = i]
    /\ pc' = [pc EXCEPT ![t] = "setNativeFunc"]
    /\ UNCHANGED <<method, monitor, target, callerVars>>

\* One assignment to the live struct, leaving it as s, and on to the next line.
Assign(t, from, s, to) ==
    /\ pc[t] = from
    /\ method' = [method EXCEPT ![target[t]] = s]
    /\ pc' = [pc EXCEPT ![t] = to]
    /\ UNCHANGED <<hookInfo, monitor, target, info, callerVars>>

\* Mutant: ACC_NATIVE raised together with the handler, before the rest.
SetNativeFuncAndFlag(t) ==
    Assign(t, "setNativeFunc",
           [method[target[t]] EXCEPT !.nativeFunc = "methodHookHandler",
                                     !.accessFlags = @ \cup {"ACC_NATIVE"}], "setInsns")

SetNativeFunc(t) ==
    Assign(t, "setNativeFunc",
           [method[target[t]] EXCEPT !.nativeFunc = "methodHookHandler"], "setInsns")

SetInsns(t) ==
    Assign(t, "setInsns", [method[target[t]] EXCEPT !.insns = info[t]], "setRegisters")

SetRegisters(t) ==
    Assign(t, "setRegisters",
           [method[target[t]] EXCEPT !.registersSize = "insSize"], "setOuts")

SetOuts(t) ==
    Assign(t, "setOuts", [method[target[t]] EXCEPT !.outsSize = "zero"], "setFlag")

\* Mutant: SET_METHOD_FLAG forgotten.
SetFlagForgotten(t) == Assign(t, "setFlag", method[target[t]], "return")

SetFlag(t) ==
    Assign(t, "setFlag", [method[target[t]] EXCEPT !.accessFlags = @ \cup {"ACC_NATIVE"}], "return")

\* The JNI bridge leaves the monitor.
Return(t) ==
    /\ pc[t] = "return"
    /\ monitor' = [monitor EXCEPT ![ManagerOf[t]] = NoThread]
    /\ pc' = [pc EXCEPT ![t] = "idle"]
    /\ UNCHANGED <<method, hookInfo, target, info, callerVars>>

InstallStep(t) ==
    \/ Check(t) \/ Copy(t) \/ SetNativeFunc(t) \/ SetInsns(t)
    \/ SetRegisters(t) \/ SetOuts(t) \/ SetFlag(t) \/ Return(t)

-----------------------------------------------------------------------------
(* Invocation.  The virtual machine sizes the frame from registersSize and  *)
(* outsSize and branches on ACC_NATIVE, each a read of its own, before it   *)
(* takes the code pointer that belongs to the branch.  Some of its call     *)
(* paths size the frame first, some test the flag first: the three reads    *)
(* come in any order, and hookMethod's assignments fall between them.       *)

\* What runs when a frame with the sizes of s is entered through the flag and
\* the code pointer of s.  A native function finds its arguments at the bottom
\* of the frame, where a frame sized for bytecode has the locals.
Execute(s) ==
    IF dvmIsNativeMethod(s) /\ s.nativeFunc = "methodHookHandler"
    THEN IF s.registersSize = "insSize" THEN "handler" ELSE "misplaced"
    ELSE IF s = Pristine THEN "bytecode" ELSE "garbage"

\* A thread is about to call the method.
Invoke(c, m) ==
    /\ callerPc[c] = "idle"
    /\ callerPc' = [callerPc EXCEPT ![c] = "dispatch"]
    /\ callee' = [callee EXCEPT ![c] = m]
    /\ seen' = [seen EXCEPT ![c] = NothingSeen]
    /\ hookedBefore' = [hookedBefore EXCEPT ![c] = dvmIsNativeMethod(method[m])]
    /\ UNCHANGED installerVars

ReadRegistersSize(c) ==
    /\ callerPc[c] = "dispatch"
    /\ seen[c].registersSize = "unread"
    /\ seen' = [seen EXCEPT ![c].registersSize = method[callee[c]].registersSize]
    /\ UNCHANGED <<installerVars, callerPc, callee, hookedBefore>>

ReadOutsSize(c) ==
    /\ callerPc[c] = "dispatch"
    /\ seen[c].outsSize = "unread"
    /\ seen' = [seen EXCEPT ![c].outsSize = method[callee[c]].outsSize]
    /\ UNCHANGED <<installerVars, callerPc, callee, hookedBefore>>

ReadFlag(c) ==
    /\ callerPc[c] = "dispatch"
    /\ seen[c].native = "unread"
    /\ seen' = [seen EXCEPT ![c].native =
                    IF dvmIsNativeMethod(method[callee[c]]) THEN "yes" ELSE "no"]
    /\ UNCHANGED <<installerVars, callerPc, callee, hookedBefore>>

\* The code pointer is read, nativeFunc or insns as the flag says, and followed.
Dispatch(c) ==
    /\ callerPc[c] = "dispatch"
    /\ "unread" \notin {seen[c].registersSize, seen[c].outsSize, seen[c].native}
    /\ LET native == seen[c].native = "yes"
           entered ==
               [nativeFunc    |-> IF native THEN method[callee[c]].nativeFunc ELSE "null",
                insns         |-> method[callee[c]].insns,
                registersSize |-> seen[c].registersSize,
                outsSize      |-> seen[c].outsSize,
                accessFlags   |-> IF native THEN {"ACC_NATIVE"} ELSE {}]
       IN callerPc' = [callerPc EXCEPT ![c] = Execute(entered)]
    /\ UNCHANGED <<installerVars, callee, seen, hookedBefore>>

\* realInvokeOriginalMethodNative, called back from Java: meth->insns is used
\* as the Method to invoke.  Nobody writes a saved copy any more.
InvokeOriginal(c) ==
    /\ callerPc[c] = "handler"
    /\ LET insns == method[callee[c]].insns
           run == IF insns \in Infos THEN Execute(hookInfo[insns]) ELSE "garbage"
       IN callerPc' = [callerPc EXCEPT ![c] =
                          CASE run = "bytecode" -> "original"
                            [] run \in {"handler", "misplaced"} -> "reentered"
                            [] OTHER -> "garbage"]
    /\ UNCHANGED <<installerVars, callee, seen, hookedBefore>>

\* The callback (which may have chosen not to call the original) or the
\* bytecode returns to the invoker.
Finish(c) ==
    /\ callerPc[c] \in {"handler", "original", "bytecode"}
    /\ callerPc' = [callerPc EXCEPT ![c] = "idle"]
    /\ UNCHANGED <<installerVars, callee, seen, hookedBefore>>

CallerStep(c) ==
    \/ ReadRegistersSize(c) \/ ReadOutsSize(c) \/ ReadFlag(c)
    \/ Dispatch(c) \/ InvokeOriginal(c) \/ Finish(c)

-----------------------------------------------------------------------------

Next ==
    \/ \E t \in Installers : InstallStep(t) \/ \E m \in Methods : Enter(t, m)
    \/ \E c \in Callers : CallerStep(c) \/ \E m \in Methods : Invoke(c, m)

Spec == Init /\ [][Next]_vars

\* A thread inside hookMethod has no wait in front of it and is scheduled.
FairSpec == Spec /\ \A t \in Installers : WF_vars(InstallStep(t))

-----------------------------------------------------------------------------
(* What must hold.                                                         *)

\* Every HookManager class of the process has the same monitor: one injected
\* dex, hence one class.
SingleManager == \A s, t \in Installers : ManagerOf[s] = ManagerOf[t]

\* The state hookMethod leaves a method in when it is done.
Hooked(i) ==
    [nativeFunc |-> "methodHookHandler", insns |-> i, registersSize |-> "insSize",
     outsSize |-> "zero", accessFlags |-> {"ACC_NATIVE"}]

\* "Save a copy of the original method": whenever insns of a live struct leads
\* to a saved copy, that copy is the method as the class linker left it.  A copy
\* taken from a half or fully hooked struct would send the original back into
\* the handler for ever.
SavedIsOriginal ==
    \A m \in Methods :
        method[m].insns \in Infos => hookInfo[method[m].insns] = Pristine

\* The order of the assignments publishes the hook: no thread can see ACC_NATIVE
\* before the handler, the saved copy and the native frame sizes are in place.
NativeImpliesReady ==
    \A m \in Methods :
        dvmIsNativeMethod(method[m]) => \E i \in Infos : method[m] = Hooked(i)

\* What a caller may count on, whatever the order it reads the struct in.  An
\* invocation that begins once the method is native reaches the handler, with its
\* arguments, and is never missed; the handler's request for the original reaches
\* the original.  An invocation the hook overtakes may have sized its frame too
\* early and run the handler on misplaced arguments, but one that read ACC_NATIVE
\* takes neither insns for code nor the handler for the original.
NativeCallsSound ==
    \A c \in Callers :
        /\ hookedBefore[c] =>
            callerPc[c] \notin {"misplaced", "bytecode", "reentered", "garbage"}
        /\ seen[c].native = "yes" => callerPc[c] \notin {"bytecode", "reentered", "garbage"}

\* Each hooked method keeps its own saved copy, for good: hooking again, from any
\* thread, neither replaces the copy nor undoes the hook, and no two methods
\* share one.
HookIsPermanent ==
    [][\A m \in Methods :
        /\ dvmIsNativeMethod(method[m]) => method'[m] = method[m]
        /\ \A n \in Methods \ {m} :
            method'[m].insns \in Infos => method'[n].insns # method'[m].insns]_method

\* Seen from Java the installation is one indivisible step between the call of
\* hookMethodNative and its return: in particular a call that finds the handler
\* already there does not return while another thread is still installing it.
Install == INSTANCE HookInstall WITH
    Threads <- Installers,
    hooked  <- {m \in Methods : dvmIsNativeMethod(method[m])},
    pending <- [t \in Installers |-> IF pc[t] = "idle" THEN NoMethod ELSE target[t]]

ImplementsHookInstall == Install!InstallSpec

\* A call of hookMethodNative that got the monitor does hook its method.
HookCompletes ==
    \A t \in Installers, m \in Methods :
        (pc[t] # "idle" /\ target[t] = m) ~> dvmIsNativeMethod(method[m])

\* Each time a target method is invoked, the callback is called
\* (HookManager.java): whatever moment an invocation falls on, the interpreter
\* executes the handler on the method's arguments or the method's own bytecode.
InvocationsRunCode == \A c \in Callers : callerPc[c] \notin {"misplaced", "garbage"}

=============================================================================
