-------------------------- MODULE MethodHookProofs --------------------------
(***************************************************************************)
(* Proofs about MethodHook for any number of methods, installing threads,  *)
(* invoking threads and heap blocks, when all installers go through one    *)
(* HookManager class (SingleManager).                                      *)
(***************************************************************************)
EXTENDS MethodHook, TLAPS

-----------------------------------------------------------------------------
(* The inductive invariant.                                                *)

Inside(t) == pc[t] # "idle"

\* Where hookMethod has its copy and has not finished writing the struct.
Editing == {"setNativeFunc", "setInsns", "setRegisters", "setOuts", "setFlag"}

\* The struct as hookMethod has rewritten it when it is about to do p.
Partial(p, i) ==
    [nativeFunc    |-> IF p = "setNativeFunc" THEN "null" ELSE "methodHookHandler",
     insns         |-> IF p \in {"setNativeFunc", "setInsns"} THEN Bytecode ELSE i,
     registersSize |-> IF p \in {"setNativeFunc", "setInsns", "setRegisters"}
                       THEN "insAndLocals" ELSE "insSize",
     outsSize      |-> IF p = "setFlag" THEN "zero" ELSE "outs",
     accessFlags   |-> {}]

\* A thread inside hookMethodNative is in its class's monitor.
MonitorInv ==
    \A t \in Installers :
        Inside(t) => target[t] \in Methods /\ monitor[ManagerOf[t]] = t

\* What each installer knows of the method it is hooking.
InstallerInv ==
    \A t \in Installers :
        /\ pc[t] = "copy" => method[target[t]] = Pristine
        /\ pc[t] \in Editing =>
            /\ info[t] \in Infos
            /\ hookInfo[info[t]] = Pristine
            /\ method[target[t]] = Partial(pc[t], info[t])
            /\ \A n \in Methods \ {target[t]} : method[n].insns # info[t]
        /\ pc[t] = "return" => dvmIsNativeMethod(method[target[t]])

\* A method nobody is editing is untouched, or completely hooked.
Settled(m) == method[m] = Pristine \/ \E i \in Infos : method[m] = Hooked(i)

Edited(m) == \E t \in Installers : pc[t] \in Editing /\ target[t] = m

MethodInv == \A m \in Methods : Settled(m) \/ Edited(m)

\* No two methods share a saved copy.
OwnCopy ==
    \A m, n \in Methods :
        m # n /\ method[m].insns \in Infos => method[n].insns # method[m].insns

\* A dispatch that saw ACC_NATIVE stays entitled to it; one that began when the
\* method was native can read nothing but the finished struct.
CallerInv ==
    \A c \in Callers :
        /\ callerPc[c] # "idle" => callee[c] \in Methods
        /\ seen[c].native = "yes" =>
            /\ callerPc[c] \notin {"bytecode", "reentered", "garbage"}
            /\ callerPc[c] # "idle" => dvmIsNativeMethod(method[callee[c]])
        /\ hookedBefore[c] =>
            /\ callerPc[c] \notin {"misplaced", "bytecode", "reentered", "garbage"}
            /\ callerPc[c] # "idle" => dvmIsNativeMethod(method[callee[c]])
            /\ seen[c].registersSize # "insAndLocals"
            /\ seen[c].native # "no"

IInv ==
    /\ TypeOK
    /\ MonitorInv
    /\ InstallerInv
    /\ MethodInv
    /\ SavedIsOriginal
    /\ OwnCopy
    /\ CallerInv

-----------------------------------------------------------------------------
(* Type correctness.                                                       *)

LEMMA RecordTypes ==
    /\ Pristine \in MethodStruct
    /\ \A s \in MethodStruct :
        /\ [s EXCEPT !.nativeFunc = "methodHookHandler"] \in MethodStruct
        /\ \A i \in Infos : [s EXCEPT !.insns = i] \in MethodStruct
        /\ [s EXCEPT !.registersSize = "insSize"] \in MethodStruct
        /\ [s EXCEPT !.outsSize = "zero"] \in MethodStruct
        /\ [s EXCEPT !.accessFlags = @ \cup {"ACC_NATIVE"}] \in MethodStruct
BY DEF Pristine, MethodStruct

LEMMA InitType == Init => TypeOK
BY RecordTypes, ManagerAssumption DEF Init, TypeOK, InstallerPc, CallerPc, NothingSeen, Seen

\* A write to the struct of the method being hooked keeps the types.
LEMMA AssignType ==
    ASSUME NEW t \in Installers, NEW from, NEW s \in MethodStruct, NEW to \in InstallerPc,
           TypeOK, Assign(t, from, s, to)
    PROVE  TypeOK'
BY DEF TypeOK, Assign, callerVars

\* A read of a dispatch that is under way finds a value of the field's type.
LEMMA ReadType ==
    ASSUME IInv, NEW c \in Callers,
           ReadRegistersSize(c) \/ ReadOutsSize(c) \/ ReadFlag(c)
    PROVE  TypeOK'
<1> USE DEF IInv
<1>1. callerPc[c] = "dispatch" /\ callee[c] \in Methods
    BY DEF ReadRegistersSize, ReadOutsSize, ReadFlag, CallerInv
<1>2. /\ method[callee[c]].registersSize \in {"insAndLocals", "insSize"}
      /\ method[callee[c]].outsSize \in {"outs", "zero"}
    BY <1>1 DEF TypeOK, MethodStruct
<1>3. seen[c] \in Seen
    BY DEF TypeOK
<1>4. PICK s \in Seen : seen' = [seen EXCEPT ![c] = s]
    <2>1. CASE ReadRegistersSize(c)
        BY <1>2, <1>3, <2>1 DEF ReadRegistersSize, Seen
    <2>2. CASE ReadOutsSize(c)
        BY <1>2, <1>3, <2>2 DEF ReadOutsSize, Seen
    <2>3. CASE ReadFlag(c)
        BY <1>3, <2>3 DEF ReadFlag, Seen
    <2> QED BY <2>1, <2>2, <2>3
<1>5. UNCHANGED <<installerVars, callerPc, callee, hookedBefore>>
    BY DEF ReadRegistersSize, ReadOutsSize, ReadFlag
<1> QED BY <1>4, <1>5 DEF TypeOK, installerVars

\* What the types need besides: a thread past Enter has a target, and past Copy
\* a block.
LEMMA StepType == IInv /\ [Next]_vars => TypeOK'
<1> SUFFICES ASSUME IInv, [Next]_vars PROVE TypeOK'
    OBVIOUS
<1> USE DEF IInv
<1>1. ASSUME NEW t \in Installers, NEW m \in Methods, Enter(t, m) PROVE TypeOK'
    BY <1>1, ManagerAssumption DEF TypeOK, Enter, InstallerPc, callerVars
<1>2. ASSUME NEW t \in Installers, InstallStep(t) PROVE TypeOK'
    <2>1. pc[t] # "idle" /\ target[t] \in Methods /\ method[target[t]] \in MethodStruct
        BY <1>2 DEF TypeOK, MonitorInv, Inside, InstallStep, Check, Copy, SetNativeFunc,
            SetInsns, SetRegisters, SetOuts, SetFlag, Return, Assign
    <2>2. pc[t] = "setInsns" => info[t] \in Infos
        BY DEF InstallerInv, Editing
    <2>3. CASE Check(t)
        BY <2>3 DEF TypeOK, Check, InstallerPc, callerVars
    <2>4. CASE Copy(t)
        BY <2>1, <2>4 DEF TypeOK, Copy, InstallerPc, callerVars
    <2>5. CASE SetNativeFunc(t)
        BY <2>1, <2>5, RecordTypes, AssignType DEF SetNativeFunc, InstallerPc
    <2>6. CASE SetInsns(t)
        <3>1. info[t] \in Infos
            BY <2>2, <2>6 DEF SetInsns, Assign
        <3> QED BY <2>1, <2>6, <3>1, RecordTypes, AssignType DEF SetInsns, InstallerPc
    <2>7. CASE SetRegisters(t)
        BY <2>1, <2>7, RecordTypes, AssignType DEF SetRegisters, InstallerPc
    <2>8. CASE SetOuts(t)
        BY <2>1, <2>8, RecordTypes, AssignType DEF SetOuts, InstallerPc
    <2>9. CASE SetFlag(t)
        BY <2>1, <2>9, RecordTypes, AssignType DEF SetFlag, InstallerPc
    <2>10. CASE Return(t)
        BY <2>10, ManagerAssumption DEF TypeOK, Return, InstallerPc, callerVars
    <2> QED BY <1>2, <2>3, <2>4, <2>5, <2>6, <2>7, <2>8, <2>9, <2>10 DEF InstallStep
<1>3. ASSUME NEW c \in Callers, NEW m \in Methods, Invoke(c, m) PROVE TypeOK'
    BY <1>3 DEF TypeOK, Invoke, CallerPc, NothingSeen, Seen, installerVars, dvmIsNativeMethod
<1>4. ASSUME NEW c \in Callers, CallerStep(c) PROVE TypeOK'
    <2>1. CASE ReadRegistersSize(c) \/ ReadOutsSize(c) \/ ReadFlag(c)
        BY <2>1, ReadType DEF ReadRegistersSize, ReadOutsSize, ReadFlag
    <2>2. CASE Dispatch(c) \/ InvokeOriginal(c) \/ Finish(c)
        BY <2>2 DEF TypeOK, Dispatch, InvokeOriginal, Finish, Execute, CallerPc, installerVars
    <2> QED BY <1>4, <2>1, <2>2 DEF CallerStep
<1>5. ASSUME UNCHANGED vars PROVE TypeOK'
    BY <1>5 DEF TypeOK, vars
<1> QED BY <1>1, <1>2, <1>3, <1>4, <1>5 DEF Next

-----------------------------------------------------------------------------
(* The inductive invariant is preserved.                                   *)

\* With one monitor for all of them, one installer at a time is inside.
LEMMA OneInside ==
    ASSUME SingleManager, MonitorInv, NEW s \in Installers, NEW t \in Installers,
           Inside(s), Inside(t)
    PROVE  s = t
BY DEF SingleManager, MonitorInv

\* Each assignment of hookMethod takes the struct from one stage to the next.
LEMMA PartialSteps ==
    ASSUME NEW i \in Infos
    PROVE  /\ Partial("setNativeFunc", i) = Pristine
           /\ [Partial("setNativeFunc", i) EXCEPT !.nativeFunc = "methodHookHandler"]
                = Partial("setInsns", i)
           /\ [Partial("setInsns", i) EXCEPT !.insns = i] = Partial("setRegisters", i)
           /\ [Partial("setRegisters", i) EXCEPT !.registersSize = "insSize"]
                = Partial("setOuts", i)
           /\ [Partial("setOuts", i) EXCEPT !.outsSize = "zero"] = Partial("setFlag", i)
           /\ [Partial("setFlag", i) EXCEPT !.accessFlags = @ \cup {"ACC_NATIVE"}] = Hooked(i)
BY DEF Partial, Pristine, Hooked

LEMMA StructFacts ==
    ASSUME NEW i
    PROVE  /\ Pristine.insns = Bytecode /\ ~ dvmIsNativeMethod(Pristine)
           /\ Pristine.nativeFunc # "methodHookHandler"
           /\ Hooked(i).insns = i /\ dvmIsNativeMethod(Hooked(i))
           /\ Hooked(i).nativeFunc = "methodHookHandler"
           /\ \A p : ~ dvmIsNativeMethod(Partial(p, i)) /\ Partial(p, i).insns \in {Bytecode, i}
BY DEF Pristine, Hooked, Partial, dvmIsNativeMethod

\* The part of the invariant about structs and installers.
HookInv == MonitorInv /\ InstallerInv /\ MethodInv /\ SavedIsOriginal /\ OwnCopy

LEMMA InitInv == Init => IInv
<1> SUFFICES ASSUME Init PROVE IInv
    OBVIOUS
<1>1. TypeOK
    BY InitType
<1>2. MonitorInv /\ InstallerInv /\ CallerInv
    BY DEF Init, MonitorInv, InstallerInv, CallerInv, Inside, Editing, NothingSeen
<1>3. MethodInv
    BY DEF Init, MethodInv, Settled
<1>4. SavedIsOriginal /\ OwnCopy
    BY NullAssumption DEF Init, SavedIsOriginal, OwnCopy, Pristine
<1> QED BY <1>1, <1>2, <1>3, <1>4 DEF IInv

\* Steps of hookMethod that do not write the struct.
LEMMA EnterInv ==
    ASSUME IInv, NEW t \in Installers, NEW m \in Methods, Enter(t, m)
    PROVE  HookInv'
<1> USE DEF IInv
<1>1. pc[t] = "idle" /\ monitor[ManagerOf[t]] = NoThread
    BY DEF Enter
<1>2. \A s \in Installers \ {t} : Inside(s) => ManagerOf[s] # ManagerOf[t]
    BY <1>1, NullAssumption DEF MonitorInv
<1>3. MonitorInv'
    BY <1>2, ManagerAssumption DEF Enter, MonitorInv, Inside, TypeOK
<1>4. InstallerInv'
    BY DEF Enter, InstallerInv, TypeOK, Editing
<1>5. MethodInv'
    BY <1>1 DEF Enter, MethodInv, Settled, Edited, Editing, TypeOK
<1>6. (SavedIsOriginal /\ OwnCopy)'
    BY DEF Enter, SavedIsOriginal, OwnCopy
<1> QED BY <1>3, <1>4, <1>5, <1>6 DEF HookInv

LEMMA CheckInv ==
    ASSUME SingleManager, IInv, NEW t \in Installers, Check(t)
    PROVE  HookInv'
<1> USE DEF IInv
<1>1. pc[t] = "check" /\ Inside(t) /\ target[t] \in Methods
    BY DEF Check, Inside, MonitorInv
<1>2. ~ Edited(target[t])
    <2>1. \A s \in Installers : pc[s] \in Editing => s = t
        BY <1>1, OneInside DEF Inside, Editing
    <2> QED BY <1>1, <2>1 DEF Edited, Editing
<1>3. Settled(target[t])
    BY <1>1, <1>2 DEF MethodInv
<1>4. MonitorInv'
    BY <1>1 DEF Check, MonitorInv, Inside, TypeOK
<1>5. InstallerInv'
    <2>1. methodIsHooked(target[t]) => dvmIsNativeMethod(method[target[t]])
        BY <1>3, StructFacts DEF Settled, methodIsHooked
    <2>2. ~ methodIsHooked(target[t]) => method[target[t]] = Pristine
        BY <1>3, StructFacts DEF Settled, methodIsHooked
    <2> QED BY <1>1, <2>1, <2>2 DEF Check, InstallerInv, TypeOK, Editing
<1>6. MethodInv'
    BY <1>1 DEF Check, MethodInv, Settled, Edited, Editing, TypeOK
<1>7. (SavedIsOriginal /\ OwnCopy)'
    BY DEF Check, SavedIsOriginal, OwnCopy
<1> QED BY <1>4, <1>5, <1>6, <1>7 DEF HookInv

LEMMA CopyInv ==
    ASSUME SingleManager, IInv, NEW t \in Installers, Copy(t)
    PROVE  HookInv'
<1> USE DEF IInv
<1>1. pc[t] = "copy" /\ Inside(t) /\ target[t] \in Methods
    BY DEF Copy, Inside, MonitorInv
<1>2. method[target[t]] = Pristine
    BY <1>1 DEF InstallerInv
<1>3. PICK i \in Infos :
        /\ hookInfo[i] = Free
        /\ hookInfo' = [hookInfo EXCEPT ![i] = method[target[t]]]
        /\ info' = [info EXCEPT ![t] = i]
    BY DEF Copy
<1>4. \A n \in Methods : method[n].insns # i
    BY <1>3, RecordTypes, FreeAssumption DEF SavedIsOriginal
<1>5. \A s \in Installers \ {t} : ~ Inside(s)
    BY <1>1, OneInside
<1>6. pc' = [pc EXCEPT ![t] = "setNativeFunc"] /\ UNCHANGED <<method, monitor, target>>
    BY DEF Copy
<1>7. MonitorInv'
    BY <1>1, <1>6 DEF MonitorInv, Inside, TypeOK
<1>8. InstallerInv'
    <2>1. \A s \in Installers \ {t} : pc'[s] = "idle"
        BY <1>5, <1>6 DEF Inside, TypeOK
    <2>2. pc'[t] = "setNativeFunc" /\ info'[t] = i /\ hookInfo'[i] = Pristine
        BY <1>2, <1>3, <1>6 DEF TypeOK
    <2>3. method'[target'[t]] = Partial("setNativeFunc", i)
        BY <1>2, <1>6, PartialSteps
    <2> QED BY <1>4, <1>6, <2>1, <2>2, <2>3 DEF InstallerInv, Editing
<1>9. MethodInv'
    <2>1. \A m \in Methods : Settled(m) => Settled(m)'
        BY <1>6 DEF Settled
    <2>2. \A m \in Methods : ~ Edited(m)
        BY <1>1, <1>5 DEF Edited, Editing, Inside
    <2> QED BY <2>1, <2>2 DEF MethodInv
<1>10. (SavedIsOriginal /\ OwnCopy)'
    BY <1>3, <1>4, <1>6 DEF SavedIsOriginal, OwnCopy, TypeOK
<1> QED BY <1>7, <1>8, <1>9, <1>10 DEF HookInv

\* The four assignments that leave the struct unfinished.
LEMMA EditInv ==
    ASSUME SingleManager, IInv, NEW t \in Installers,
           NEW from \in Editing, NEW to \in Editing,
           Assign(t, from, Partial(to, info[t]), to)
    PROVE  HookInv'
<1> USE DEF IInv
<1> DEFINE i == info[t]
<1>1. pc[t] = from /\ Inside(t) /\ target[t] \in Methods
    BY DEF Assign, Inside, MonitorInv, Editing
<1>2. /\ i \in Infos
      /\ hookInfo[i] = Pristine
      /\ \A n \in Methods \ {target[t]} : method[n].insns # i
    BY <1>1 DEF InstallerInv
<1>3. \A s \in Installers \ {t} : ~ Inside(s)
    BY <1>1, OneInside
<1>4. /\ pc' = [pc EXCEPT ![t] = to]
      /\ method' = [method EXCEPT ![target[t]] = Partial(to, i)]
      /\ UNCHANGED <<hookInfo, monitor, target, info>>
    BY DEF Assign
<1> HIDE DEF i
<1>5. Partial(to, i).insns \in {Bytecode, i}
    BY <1>2, StructFacts
<1>6. MonitorInv'
    BY <1>1, <1>4 DEF MonitorInv, Inside, TypeOK
<1>7. InstallerInv'
    <2>1. \A s \in Installers \ {t} : pc'[s] = "idle"
        BY <1>3, <1>4 DEF Inside, TypeOK
    <2>2. pc'[t] = to /\ method'[target'[t]] = Partial(to, i)
        BY <1>1, <1>4 DEF TypeOK
    <2>3. \A n \in Methods \ {target[t]} : method'[n] = method[n]
        BY <1>4 DEF TypeOK
    <2>4. to # "copy" /\ to # "return" /\ to # "idle"
        BY DEF Editing
    <2>5. info'[t] = i /\ hookInfo'[i] = Pristine /\ target'[t] = target[t]
        BY <1>2, <1>4 DEF i
    <2> QED BY <1>2, <2>1, <2>2, <2>3, <2>4, <2>5 DEF InstallerInv, Editing
<1>8. MethodInv'
    <2>1. pc'[t] \in Editing /\ target'[t] = target[t]
        BY <1>4 DEF TypeOK
    <2>2. ASSUME NEW m \in Methods \ {target[t]} PROVE Settled(m)'
        <3>1. ~ Edited(m)
            BY <1>3 DEF Edited, Editing, Inside
        <3>2. method'[m] = method[m]
            BY <1>4 DEF TypeOK
        <3> QED BY <3>1, <3>2 DEF MethodInv, Settled
    <2> QED BY <2>1, <2>2 DEF MethodInv, Edited
<1>9. SavedIsOriginal'
    BY <1>1, <1>2, <1>4, <1>5, NullAssumption DEF SavedIsOriginal, TypeOK
<1>10. OwnCopy'
    BY <1>1, <1>2, <1>4, <1>5, NullAssumption DEF OwnCopy, TypeOK
<1> QED BY <1>6, <1>7, <1>8, <1>9, <1>10 DEF HookInv

\* The one that finishes it.
LEMMA SetFlagInv ==
    ASSUME SingleManager, IInv, NEW t \in Installers, SetFlag(t)
    PROVE  HookInv' /\ ~ dvmIsNativeMethod(method[target[t]])
<1> USE DEF IInv
<1> DEFINE i == info[t]
<1>1. pc[t] = "setFlag" /\ Inside(t) /\ target[t] \in Methods
    BY DEF SetFlag, Assign, Inside, MonitorInv
<1>2. /\ i \in Infos
      /\ hookInfo[i] = Pristine
      /\ method[target[t]] = Partial("setFlag", i)
      /\ \A n \in Methods \ {target[t]} : method[n].insns # i
    BY <1>1 DEF InstallerInv, Editing
<1>3. \A s \in Installers \ {t} : ~ Inside(s)
    BY <1>1, OneInside
<1>4. /\ pc' = [pc EXCEPT ![t] = "return"]
      /\ method' = [method EXCEPT ![target[t]] = Hooked(i)]
      /\ UNCHANGED <<hookInfo, monitor, target, info>>
    BY <1>2, PartialSteps DEF SetFlag, Assign
<1> HIDE DEF i
<1>5. Hooked(i).insns = i /\ dvmIsNativeMethod(Hooked(i))
    BY StructFacts
<1>6. MonitorInv'
    BY <1>1, <1>4 DEF MonitorInv, Inside, TypeOK
<1>7. InstallerInv'
    <2>1. \A s \in Installers \ {t} : pc'[s] = "idle"
        BY <1>3, <1>4 DEF Inside, TypeOK
    <2>2. pc'[t] = "return" /\ method'[target'[t]] = Hooked(i)
        BY <1>1, <1>4 DEF TypeOK
    <2> QED BY <1>5, <2>1, <2>2 DEF InstallerInv, Editing
<1>8. MethodInv'
    <2>1. method'[target[t]] = Hooked(i)
        BY <1>1, <1>4 DEF TypeOK
    <2>2. ASSUME NEW m \in Methods \ {target[t]} PROVE Settled(m)'
        <3>1. ~ Edited(m)
            BY <1>3 DEF Edited, Editing, Inside
        <3>2. method'[m] = method[m]
            BY <1>4 DEF TypeOK
        <3> QED BY <3>1, <3>2 DEF MethodInv, Settled
    <2> QED BY <1>2, <2>1, <2>2 DEF MethodInv, Settled
<1>9. SavedIsOriginal'
    BY <1>1, <1>2, <1>4, <1>5 DEF SavedIsOriginal, TypeOK
<1>10. OwnCopy'
    BY <1>1, <1>2, <1>4, <1>5 DEF OwnCopy, TypeOK
<1>11. ~ dvmIsNativeMethod(method[target[t]])
    BY <1>2, StructFacts
<1> QED BY <1>6, <1>7, <1>8, <1>9, <1>10, <1>11 DEF HookInv

LEMMA ReturnInv ==
    ASSUME SingleManager, IInv, NEW t \in Installers, Return(t)
    PROVE  HookInv'
<1> USE DEF IInv
<1>1. pc[t] = "return" /\ Inside(t)
    BY DEF Return, Inside
<1>2. \A s \in Installers \ {t} : ~ Inside(s)
    BY <1>1, OneInside
<1>3. \A s \in Installers : pc'[s] = "idle"
    BY <1>1, <1>2 DEF Return, Inside, TypeOK
<1>4. MonitorInv' /\ InstallerInv'
    BY <1>3 DEF MonitorInv, InstallerInv, Inside, Editing
<1>5. \A m \in Methods : ~ Edited(m)
    BY <1>1, <1>2 DEF Edited, Editing, Inside
<1>6. MethodInv'
    BY <1>5 DEF Return, MethodInv, Settled
<1>7. (SavedIsOriginal /\ OwnCopy)'
    BY DEF Return, SavedIsOriginal, OwnCopy
<1> QED BY <1>4, <1>6, <1>7 DEF HookInv

\* Invocations only read what the installers write.
LEMMA CallerStepInv ==
    ASSUME IInv, UNCHANGED installerVars
    PROVE  HookInv'
BY DEF IInv, HookInv, installerVars, MonitorInv, InstallerInv, MethodInv, Settled, Edited,
    Inside, SavedIsOriginal, OwnCopy

\* A native struct is a finished one: NativeImpliesReady, and more than it.
LEMMA NativeIsHooked ==
    ASSUME InstallerInv, MethodInv, SavedIsOriginal,
           NEW m \in Methods, dvmIsNativeMethod(method[m])
    PROVE  \E i \in Infos : method[m] = Hooked(i) /\ hookInfo[i] = Pristine
<1>1. ~ Edited(m)
    BY StructFacts DEF Edited, InstallerInv
<1>2. PICK i \in Infos : method[m] = Hooked(i)
    BY <1>1, StructFacts DEF MethodInv, Settled
<1>3. hookInfo[i] = Pristine
    BY <1>2, StructFacts DEF SavedIsOriginal
<1> QED BY <1>2, <1>3

\* Executing the three kinds of struct.
LEMMA ExecuteFacts ==
    /\ Execute(Pristine) = "bytecode"
    /\ \A i \in Infos : Execute(Hooked(i)) = "handler"
BY DEF Execute, Pristine, Hooked, dvmIsNativeMethod

\* A caller with the method called, an entitled one with the finished struct.
LEMMA EntitledCaller ==
    ASSUME IInv, NEW c \in Callers, callerPc[c] # "idle"
    PROVE  /\ callee[c] \in Methods
           /\ seen[c].native = "yes" \/ hookedBefore[c] =>
                \E i \in Infos : method[callee[c]] = Hooked(i) /\ hookInfo[i] = Pristine
BY NativeIsHooked DEF IInv, CallerInv

\* Whatever was read before the hook was complete stays outside the entitlement.
LEMMA ReadInv ==
    ASSUME IInv, NEW c \in Callers,
           ReadRegistersSize(c) \/ ReadOutsSize(c) \/ ReadFlag(c)
    PROVE  CallerInv'
<1> USE DEF IInv
<1>1. callerPc[c] = "dispatch" /\ callee[c] \in Methods
    BY DEF ReadRegistersSize, ReadOutsSize, ReadFlag, CallerInv
<1>2. UNCHANGED <<method, callerPc, callee, hookedBefore>>
    BY DEF ReadRegistersSize, ReadOutsSize, ReadFlag, installerVars
<1>3. \A d \in Callers \ {c} : seen'[d] = seen[d]
    BY DEF ReadRegistersSize, ReadOutsSize, ReadFlag, TypeOK
<1>4. hookedBefore[c] =>
        /\ dvmIsNativeMethod(method[callee[c]])
        /\ method[callee[c]].registersSize = "insSize"
    <2> SUFFICES ASSUME hookedBefore[c]
                 PROVE  /\ dvmIsNativeMethod(method[callee[c]])
                        /\ method[callee[c]].registersSize = "insSize"
        OBVIOUS
    <2>1. PICK i \in Infos : method[callee[c]] = Hooked(i)
        BY <1>1, EntitledCaller
    <2>2. Hooked(i).registersSize = "insSize"
        BY DEF Hooked
    <2> QED BY <2>1, <2>2, StructFacts
<1>5. seen'[c].native = "yes" => dvmIsNativeMethod(method[callee[c]])
    <2>1. CASE ReadFlag(c)
        BY <2>1 DEF ReadFlag, TypeOK, Seen
    <2>2. CASE ReadRegistersSize(c) \/ ReadOutsSize(c)
        <3>1. seen'[c].native = seen[c].native
            BY <2>2 DEF ReadRegistersSize, ReadOutsSize, TypeOK, Seen
        <3> QED BY <1>1, <3>1 DEF CallerInv
    <2> QED BY <2>1, <2>2
<1>6. hookedBefore[c] => seen'[c].registersSize # "insAndLocals" /\ seen'[c].native # "no"
    <2>1. seen[c] \in Seen
        BY DEF TypeOK
    <2>2. hookedBefore[c] => seen[c].registersSize # "insAndLocals" /\ seen[c].native # "no"
        BY DEF CallerInv
    <2>3. CASE ReadRegistersSize(c)
        BY <1>4, <2>1, <2>2, <2>3 DEF ReadRegistersSize, TypeOK, Seen
    <2>4. CASE ReadOutsSize(c)
        BY <2>1, <2>2, <2>4 DEF ReadOutsSize, TypeOK, Seen
    <2>5. CASE ReadFlag(c)
        BY <1>4, <2>1, <2>2, <2>5 DEF ReadFlag, TypeOK, Seen
    <2> QED BY <2>3, <2>4, <2>5
<1> QED BY <1>1, <1>2, <1>3, <1>4, <1>5, <1>6 DEF CallerInv

LEMMA DispatchInv ==
    ASSUME IInv, NEW c \in Callers, Dispatch(c)
    PROVE  CallerInv'
<1> USE DEF IInv
<1>1. /\ callerPc[c] = "dispatch" /\ callee[c] \in Methods
      /\ seen[c].registersSize \in {"insAndLocals", "insSize"}
      /\ seen[c].native \in {"yes", "no"}
    BY DEF Dispatch, CallerInv, TypeOK, Seen
<1>2. ASSUME seen[c].native = "yes"
      PROVE  callerPc'[c] = IF seen[c].registersSize = "insSize" THEN "handler" ELSE "misplaced"
    <2>1. PICK i \in Infos : method[callee[c]] = Hooked(i)
        BY <1>1, <1>2, EntitledCaller
    <2>2. method[callee[c]].nativeFunc = "methodHookHandler"
        BY <2>1, StructFacts
    <2> QED BY <1>1, <1>2, <2>2 DEF Dispatch, Execute, dvmIsNativeMethod, TypeOK
<1>3. hookedBefore[c] => callerPc'[c] = "handler"
    <2>1. hookedBefore[c] => seen[c].registersSize = "insSize" /\ seen[c].native = "yes"
        BY <1>1 DEF CallerInv
    <2> QED BY <1>2, <2>1
<1>4. UNCHANGED <<method, callee, seen, hookedBefore>>
    BY DEF Dispatch, installerVars
<1>5. \A d \in Callers \ {c} : callerPc'[d] = callerPc[d]
    BY DEF Dispatch, TypeOK
<1> QED BY <1>1, <1>2, <1>3, <1>4, <1>5 DEF CallerInv

LEMMA InvokeOriginalInv ==
    ASSUME IInv, NEW c \in Callers, InvokeOriginal(c)
    PROVE  CallerInv'
<1> USE DEF IInv
<1>1. callerPc[c] = "handler" /\ callee[c] \in Methods
    BY DEF InvokeOriginal, CallerInv
<1>2. ASSUME seen[c].native = "yes" \/ hookedBefore[c] PROVE callerPc'[c] = "original"
    <2>1. PICK i \in Infos : method[callee[c]] = Hooked(i) /\ hookInfo[i] = Pristine
        BY <1>1, <1>2, EntitledCaller
    <2>2. method[callee[c]].insns = i
        BY <2>1, StructFacts
    <2> QED BY <1>1, <2>1, <2>2, ExecuteFacts DEF InvokeOriginal, TypeOK
<1>3. UNCHANGED <<method, callee, seen, hookedBefore>>
    BY DEF InvokeOriginal, installerVars
<1>4. \A d \in Callers \ {c} : callerPc'[d] = callerPc[d]
    BY DEF InvokeOriginal, TypeOK
<1> QED BY <1>1, <1>2, <1>3, <1>4 DEF CallerInv

LEMMA InvokeInv ==
    ASSUME IInv, NEW c \in Callers, NEW m \in Methods, Invoke(c, m)
    PROVE  CallerInv'
BY DEF IInv, TypeOK, Invoke, CallerInv, NothingSeen, installerVars

LEMMA FinishInv ==
    ASSUME IInv, NEW c \in Callers, Finish(c)
    PROVE  CallerInv'
BY DEF IInv, TypeOK, Finish, CallerInv, installerVars

\* None of them writes what the installers write.
LEMMA CallersOnlyRead ==
    ASSUME NEW c \in Callers, CallerStep(c) \/ \E m \in Methods : Invoke(c, m)
    PROVE  UNCHANGED installerVars
BY DEF CallerStep, ReadRegistersSize, ReadOutsSize, ReadFlag, Dispatch, InvokeOriginal,
    Finish, Invoke, installerVars

\* hookMethod never takes ACC_NATIVE, or anything else, from a hooked method.
LEMMA NativeStays ==
    ASSUME IInv, [Next]_vars, NEW m \in Methods, dvmIsNativeMethod(method[m])
    PROVE  method'[m] = method[m]
<1> USE DEF IInv
<1>1. ASSUME NEW t \in Installers, InstallStep(t) PROVE method'[m] = method[m]
    <2>1. pc[t] \in Editing => target[t] # m
        BY StructFacts DEF InstallerInv
    <2> QED BY <1>1, <2>1 DEF InstallStep, Check, Copy, SetNativeFunc, SetInsns, SetRegisters,
            SetOuts, SetFlag, Return, Assign, Editing, TypeOK
<1>2. ASSUME NEW t \in Installers, NEW n \in Methods, Enter(t, n) PROVE method'[m] = method[m]
    BY <1>2 DEF Enter
<1>3. ASSUME NEW c \in Callers, CallerStep(c) \/ \E n \in Methods : Invoke(c, n)
      PROVE  method'[m] = method[m]
    BY <1>3, CallersOnlyRead DEF installerVars
<1>4. ASSUME UNCHANGED vars PROVE method'[m] = method[m]
    BY <1>4 DEF vars
<1> QED BY <1>1, <1>2, <1>3, <1>4 DEF Next

LEMMA HookStepInv ==
    ASSUME SingleManager, IInv, NEW t \in Installers, InstallStep(t)
    PROVE  HookInv'
<1>1. \A e \in Editing : pc[t] = e =>
        info[t] \in Infos /\ method[target[t]] = Partial(e, info[t])
    BY DEF IInv, InstallerInv
<1>2. CASE Check(t)
    BY <1>2, CheckInv
<1>3. CASE Copy(t)
    BY <1>3, CopyInv
<1>4. CASE SetNativeFunc(t)
    <2>1. Assign(t, "setNativeFunc", Partial("setInsns", info[t]), "setInsns")
        BY <1>1, <1>4, PartialSteps DEF SetNativeFunc, Assign, Editing
    <2> QED BY <2>1, EditInv DEF Editing
<1>5. CASE SetInsns(t)
    <2>1. Assign(t, "setInsns", Partial("setRegisters", info[t]), "setRegisters")
        BY <1>1, <1>5, PartialSteps DEF SetInsns, Assign, Editing
    <2> QED BY <2>1, EditInv DEF Editing
<1>6. CASE SetRegisters(t)
    <2>1. Assign(t, "setRegisters", Partial("setOuts", info[t]), "setOuts")
        BY <1>1, <1>6, PartialSteps DEF SetRegisters, Assign, Editing
    <2> QED BY <2>1, EditInv DEF Editing
<1>7. CASE SetOuts(t)
    <2>1. Assign(t, "setOuts", Partial("setFlag", info[t]), "setFlag")
        BY <1>1, <1>7, PartialSteps DEF SetOuts, Assign, Editing
    <2> QED BY <2>1, EditInv DEF Editing
<1>8. CASE SetFlag(t)
    BY <1>8, SetFlagInv
<1>9. CASE Return(t)
    BY <1>9, ReturnInv
<1> QED BY <1>2, <1>3, <1>4, <1>5, <1>6, <1>7, <1>8, <1>9 DEF InstallStep

\* Steps of the installers leave the callers their entitlement.
LEMMA CallersKept ==
    ASSUME IInv, [Next]_vars, UNCHANGED callerVars
    PROVE  CallerInv'
BY NativeStays DEF IInv, CallerInv, callerVars

LEMMA NextInv ==
    ASSUME SingleManager, IInv, [Next]_vars
    PROVE  IInv'
<1>1. TypeOK'
    BY StepType
<1>2. ASSUME NEW t \in Installers, NEW m \in Methods, Enter(t, m) PROVE HookInv' /\ CallerInv'
    BY <1>2, EnterInv, CallersKept DEF Enter
<1>3. ASSUME NEW t \in Installers, InstallStep(t) PROVE HookInv' /\ CallerInv'
    <2>1. UNCHANGED callerVars
        BY <1>3 DEF InstallStep, Check, Copy, SetNativeFunc, SetInsns, SetRegisters, SetOuts,
            SetFlag, Return, Assign
    <2> QED BY <1>3, <2>1, HookStepInv, CallersKept
<1>4. ASSUME NEW c \in Callers, CallerStep(c) PROVE HookInv' /\ CallerInv'
    <2>1. HookInv'
        BY <1>4, CallersOnlyRead, CallerStepInv
    <2>2. CallerInv'
        BY <1>4, ReadInv, DispatchInv, InvokeOriginalInv, FinishInv DEF CallerStep
    <2> QED BY <2>1, <2>2
<1>5. ASSUME NEW c \in Callers, NEW m \in Methods, Invoke(c, m) PROVE HookInv' /\ CallerInv'
    BY <1>5, CallersOnlyRead, CallerStepInv, InvokeInv
<1>6. ASSUME UNCHANGED vars PROVE HookInv' /\ CallerInv'
    <2>1. UNCHANGED installerVars /\ UNCHANGED callerVars
        BY <1>6 DEF vars, installerVars, callerVars
    <2> QED BY <2>1, CallerStepInv, CallersKept
<1>7. HookInv' /\ CallerInv'
    BY <1>2, <1>3, <1>4, <1>5, <1>6 DEF Next
<1> QED BY <1>1, <1>7 DEF IInv, HookInv

-----------------------------------------------------------------------------
(* The theorems.                                                           *)

\* The inductive invariant of hookMethod under one monitor.
THEOREM Invariance ==
    ASSUME SingleManager
    PROVE  Spec => []IInv
<1>1. Init => IInv
    BY InitInv
<1>2. IInv /\ [Next]_vars => IInv'
    BY NextInv
<1> QED BY <1>1, <1>2, PTL DEF Spec

\* The variables of hookMethod and of the dispatch keep their types.
THEOREM TypeCorrect ==
    ASSUME SingleManager
    PROVE  Spec => []TypeOK
<1>1. IInv => TypeOK
    BY DEF IInv
<1> QED BY <1>1, Invariance, PTL

\* "Save a copy of the original method" (Proxy.cpp): the copy insns leads to is
\* the original for any number of threads and methods, provided all calls of
\* hookMethodNative contend for one monitor.
THEOREM CopySavedIsOriginal ==
    ASSUME SingleManager
    PROVE  Spec => []SavedIsOriginal
<1>1. IInv => SavedIsOriginal
    BY DEF IInv
<1> QED BY <1>1, Invariance, PTL

\* ACC_NATIVE, set last, is visible only on a struct that is completely hooked.
THEOREM NativeIsReady ==
    ASSUME SingleManager
    PROVE  Spec => []NativeImpliesReady
<1>1. IInv => NativeImpliesReady
    BY NativeIsHooked DEF IInv, NativeImpliesReady
<1> QED BY <1>1, Invariance, PTL

\* However the reads of a call fall between the assignments of hookMethod: an
\* invocation that began when the method was native reaches the handler with its
\* arguments, and through it the original; one that read ACC_NATIVE midway may
\* reach it on a frame sized too early, and nothing worse.
THEOREM NativeDispatch ==
    ASSUME SingleManager
    PROVE  Spec => []NativeCallsSound
<1>1. IInv => NativeCallsSound
    BY DEF IInv, CallerInv, NativeCallsSound
<1> QED BY <1>1, Invariance, PTL

\* Once hooked, a method stays hooked, with a saved copy of its own.
THEOREM HookStays ==
    ASSUME SingleManager
    PROVE  Spec => HookIsPermanent
<1>1. IInv /\ IInv' /\ [Next]_vars =>
        [\A m \in Methods :
            /\ dvmIsNativeMethod(method[m]) => method'[m] = method[m]
            /\ \A n \in Methods \ {m} :
                method'[m].insns \in Infos => method'[n].insns # method'[m].insns]_method
    BY NativeStays DEF IInv, OwnCopy
<1> QED BY <1>1, Invariance, PTL DEF Spec, HookIsPermanent

\* hookMethod, with its separate assignments and concurrent invocations, is
\* indivisible as HookInstall says.
THEOREM Refinement ==
    ASSUME SingleManager
    PROVE  Spec => ImplementsHookInstall
<1>1. Init => Install!InstallInit
    BY DEF Init, Install!InstallInit, Pristine, dvmIsNativeMethod
<1>2. IInv /\ IInv' /\ [Next]_vars => [Install!InstallNext]_(Install!installVars)
    <2> SUFFICES ASSUME IInv, IInv', [Next]_vars
                 PROVE  [Install!InstallNext]_(Install!installVars)
        OBVIOUS
    <2> DEFINE hooked == {m \in Methods : dvmIsNativeMethod(method[m])}
               pending == [t \in Installers |-> IF pc[t] = "idle" THEN NoMethod ELSE target[t]]
    <2> USE DEF IInv, TypeOK
    <2>1. ASSUME NEW t \in Installers, NEW m \in Methods, Enter(t, m)
          PROVE  Install!InstallBegin(t, m)
        BY <2>1 DEF Enter, Install!InstallBegin
    <2>2. ASSUME NEW t \in Installers, Check(t) \/ Copy(t)
          PROVE  UNCHANGED <<hooked, pending>>
        BY <2>2 DEF Check, Copy
    <2>3. ASSUME NEW t \in Installers,
                 SetNativeFunc(t) \/ SetInsns(t) \/ SetRegisters(t) \/ SetOuts(t)
          PROVE  UNCHANGED <<hooked, pending>>
        <3> DEFINE Writes(from, s, to) ==
                    from \in Editing /\ to \in Editing /\ Assign(t, from, s, to)
        <3>0. PICK from, s, to : Writes(from, s, to)
            BY <2>3 DEF SetNativeFunc, SetInsns, SetRegisters, SetOuts, Editing
        <3>1. /\ pc[t] \in Editing /\ pc'[t] \in Editing
              /\ \A u \in Installers \ {t} : pc'[u] = pc[u]
              /\ UNCHANGED <<target, info>>
              /\ \A m \in Methods \ {target[t]} : method'[m] = method[m]
            BY <3>0 DEF Assign
        <3>2. /\ method[target[t]] = Partial(pc[t], info[t])
              /\ method'[target[t]] = Partial(pc'[t], info[t])
            BY <3>1 DEF InstallerInv
        <3>3. ~ dvmIsNativeMethod(method[target[t]]) /\ ~ dvmIsNativeMethod(method'[target[t]])
            BY <3>2 DEF Partial, dvmIsNativeMethod
        <3>4. hooked' = hooked
            BY <3>1, <3>3
        <3>5. pending' = pending
            BY <3>1 DEF Editing
        <3> QED BY <3>4, <3>5
    <2>4. ASSUME NEW t \in Installers, SetFlag(t) PROVE Install!InstallEffect(t)
        <3>1. /\ pc[t] = "setFlag" /\ pc' = [pc EXCEPT ![t] = "return"]
              /\ target[t] \in Methods
              /\ UNCHANGED target
              /\ \A m \in Methods \ {target[t]} : method'[m] = method[m]
            BY <2>4 DEF SetFlag, Assign, MonitorInv, Inside
        <3>2. ~ dvmIsNativeMethod(method[target[t]])
            BY <2>4, SetFlagInv
        <3>3. dvmIsNativeMethod(method'[target[t]])
            BY <3>1 DEF InstallerInv
        <3>4. hooked' = hooked \cup {target[t]}
            BY <3>1, <3>3
        <3>5. pending' = pending /\ pending[t] = target[t]
            BY <3>1
        <3> QED BY <3>1, <3>2, <3>4, <3>5 DEF Install!InstallEffect
    <2>5. ASSUME NEW t \in Installers, Return(t) PROVE Install!InstallEnd(t)
        <3>1. /\ pc[t] = "return" /\ pc' = [pc EXCEPT ![t] = "idle"]
              /\ UNCHANGED <<method, target>>
            BY <2>5 DEF Return
        <3>2. target[t] \in hooked
            BY <3>1 DEF InstallerInv, MonitorInv, Inside
        <3> QED BY <3>1, <3>2 DEF Install!InstallEnd
    <2>6. ASSUME NEW c \in Callers, CallerStep(c) \/ \E m \in Methods : Invoke(c, m)
          PROVE  UNCHANGED <<hooked, pending>>
        <3>1. UNCHANGED <<method, pc, target>>
            BY <2>6, CallersOnlyRead DEF installerVars
        <3> QED BY <3>1
    <2>7. ASSUME UNCHANGED vars PROVE UNCHANGED <<hooked, pending>>
        BY <2>7 DEF vars
    <2> QED BY <2>1, <2>2, <2>3, <2>4, <2>5, <2>6, <2>7
            DEF Next, InstallStep, Install!InstallNext, Install!installVars
<1> QED BY <1>1, <1>2, Invariance, PTL DEF Spec, ImplementsHookInstall, Install!InstallSpec

=============================================================================
