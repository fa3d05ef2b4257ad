---------------------------- MODULE HookInstall ----------------------------
(***************************************************************************)
(* What installing a hook promises, seen from the Java side of the tool:   *)
(* HookManager.hookMethodNative(m) behaves as if m became hooked in one    *)
(* indivisible step somewhere between the call and the return, a hooked    *)
(* method is never unhooked, and a call that returns leaves its method     *)
(* hooked.  MethodHook (Proxy.cpp) is shown to implement this module, and  *)
(* HookManager (HookManager.java) is built on it.                          *)
(***************************************************************************)
CONSTANTS
    Methods,    \* the Java methods that may be hooked
    Threads,    \* the threads that call hookMethodNative
    NoMethod    \* "this thread is not inside hookMethodNative"

ASSUME NoMethodAssumption == NoMethod \notin Methods

VARIABLES
    hooked,     \* the set of methods whose invocations reach the handler
    pending     \* the method each thread is installing, or NoMethod

installVars == <<hooked, pending>>

InstallTypeOK ==
    /\ hooked \subseteq Methods
    /\ pending \in [Threads -> Methods \cup {NoMethod}]

InstallInit ==
    /\ hooked = {}
    /\ pending = [t \in Threads |-> NoMethod]

\* The call of hookMethodNative(m) by thread t.
InstallBegin(t, m) ==
    /\ pending[t] = NoMethod
    /\ pending' = [pending EXCEPT ![t] = m]
    /\ UNCHANGED hooked

\* The instant at which invocations of the method start to be diverted.
InstallEffect(t) ==
    /\ pending[t] \in Methods \ hooked
    /\ hooked' = hooked \cup {pending[t]}
    /\ UNCHANGED pending

\* The return: only ever with the method hooked.
InstallEnd(t) ==
    /\ pending[t] \in hooked
    /\ pending' = [pending EXCEPT ![t] = NoMethod]
    /\ UNCHANGED hooked

InstallNext ==
    \E t \in Threads :
        \/ \E m \in Methods : InstallBegin(t, m)
        \/ InstallEffect(t)
        \/ InstallEnd(t)

InstallSpec == InstallInit /\ [][InstallNext]_installVars

=============================================================================
