------------------------------- MODULE Loader -------------------------------
(***************************************************************************)
(* The other entry of libhook (dlmain and invoke of jni/hook/loader.cpp):  *)
(* it puts a ClassLoaderProxy, a class of the injected dex, between the    *)
(* application's class loader and that loader's parent, so that the        *)
(* application finds the dex's classes, and calls a method of the dex.     *)
(* Later calls find the proxy in the chain and use the class loader that   *)
(* defined it instead of making another one.                               *)
(*                                                                         *)
(* A JNI call that throws returns null and leaves an exception.  The code  *)
(* runs on the application's main thread; a fault in it (null used as an   *)
(* object) is taken for its end by the injector (PtraceSession), and the   *)
(* application goes on.                                                    *)
(***************************************************************************)
EXTENDS Integers

CONSTANTS
    Dexes,      \* the apks injected
    Ships,      \* what each has of what invoke looks for
    Loaders,    \* class loaders that can be created (a bound)
    NoDex, NoLoader

\* ClassLoaderProxy and its constructor, the class to call and its method.
Parts == {"proxy", "constructor", "target", "method"}
ASSUME ShipsAssumption == Ships \in [Dexes -> SUBSET Parts]
ASSUME NullAssumption == NoDex \notin Dexes /\ Loaders \cap {NoLoader, "boot", "null"} = {}

VARIABLES
    parent,       \* of the application's loader: "boot", "null", or the loader
                  \* that defined the ClassLoaderProxy which is the parent
    proxyParent,  \* the parent given to the proxy of each loader
    loaderDex,    \* the dex of each loader, or NoDex: not created
    pc,           \* where in invoke the main thread is
    dexPath,      \* its argument
    dexClassLoader,  \* its local variable
    returned,     \* the value and the exception of the last JNI call
    result,       \* what invoke returns
    threw         \* history: a constructor of ClassLoaderProxy threw

chainVars == <<parent, proxyParent, loaderDex>>
vars == <<chainVars, pc, dexPath, dexClassLoader, returned, result, threw>>

Parents == Loaders \cup {"boot", "null"}
Pc == {"idle", "getParent", "create", "loadProxy", "getConstructor", "newProxy", "changeParent",
       "inserted", "loadTarget", "getMethod", "call", "return"}
Object == [value |-> "object", exception |-> FALSE]
Thrown == [value |-> "null", exception |-> TRUE]

TypeOK ==
    /\ parent \in Parents
    /\ proxyParent \in [Loaders -> Parents]
    /\ loaderDex \in [Loaders -> Dexes \cup {NoDex}]
    /\ pc \in Pc
    /\ dexPath \in Dexes \cup {NoDex}
    /\ dexClassLoader \in Loaders \cup {NoLoader}
    /\ pc \in {"loadProxy", "getConstructor", "newProxy", "changeParent", "loadTarget"}
        => dexClassLoader \in Loaders
    /\ returned \in {Object, Thrown}
    /\ result \in {0, -1}
    /\ threw \in BOOLEAN

Init ==
    /\ parent = "boot"
    /\ proxyParent = [k \in Loaders |-> "null"]
    /\ loaderDex = [k \in Loaders |-> NoDex]
    /\ pc = "idle"
    /\ dexPath = NoDex /\ dexClassLoader = NoLoader /\ returned = Object /\ result = 0
    /\ threw = FALSE

-----------------------------------------------------------------------------

Step(from, to) == pc = from /\ pc' = to

Fail(from) ==
    /\ Step(from, "return")
    /\ result' = -1

\* catchException clears the exception and says whether there was none; the
\* callers take that for "there was one".
catchException(r) == ~ r.exception
GivenUp(r) == catchException(r) /\ r.value = "null"

\* dlmain and invoke, down to the application's class loader, which is there.
Invoke(d) ==
    /\ Step("idle", "getParent")
    /\ dexPath' = d
    /\ result' = 0
    /\ UNCHANGED <<chainVars, dexClassLoader, returned, threw>>

\* No class loader for the application could be found.
NoClassLoader ==
    /\ Fail("getParent")
    /\ UNCHANGED <<chainVars, dexPath, dexClassLoader, returned, threw>>

\* Mutant: a proxy already in the chain goes unnoticed.
AlwaysCreate ==
    /\ \/ parent = "null" /\ Fail("getParent")
       \/ parent # "null" /\ Step("getParent", "create") /\ UNCHANGED result
    /\ UNCHANGED <<chainVars, dexPath, dexClassLoader, returned, threw>>

\* Mutant: a loader of its own for each dex, whatever is in the chain.
LoaderPerDex ==
    /\ \/ parent = "null" /\ Fail("getParent") /\ UNCHANGED <<dexClassLoader, loaderDex>>
       \/ /\ parent = "boot" /\ Step("getParent", "create")
          /\ UNCHANGED <<dexClassLoader, loaderDex, result>>
       \/ /\ parent \in Loaders /\ Step("getParent", "loadTarget")
          /\ \E k \in Loaders :
                /\ loaderDex[k] = NoDex
                /\ loaderDex' = [loaderDex EXCEPT ![k] = dexPath]
                /\ dexClassLoader' = k
          /\ UNCHANGED result
    /\ UNCHANGED <<parent, proxyParent, dexPath, returned, threw>>

\* The parent's class tells whether the proxy is in the chain, and its loader.
GetParent ==
    /\ \/ parent = "null" /\ Fail("getParent") /\ UNCHANGED dexClassLoader
       \/ parent = "boot" /\ Step("getParent", "create") /\ UNCHANGED <<dexClassLoader, result>>
       \/ /\ parent \in Loaders /\ Step("getParent", "loadTarget")
          /\ dexClassLoader' = parent
          /\ UNCHANGED result
    /\ UNCHANGED <<chainVars, dexPath, returned, threw>>

\* createDexClassLoader, with the application's loader as the parent ...
CreateDexClassLoader ==
    /\ Step("create", "loadProxy")
    /\ \E k \in Loaders :
        /\ loaderDex[k] = NoDex
        /\ loaderDex' = [loaderDex EXCEPT ![k] = dexPath]
        /\ dexClassLoader' = k
    /\ UNCHANGED <<parent, proxyParent, dexPath, returned, result, threw>>

\* ... which may throw, as the apk may be gone.
CreateFails ==
    /\ Fail("create")
    /\ UNCHANGED <<chainVars, dexPath, dexClassLoader, returned, threw>>

\* insertClassLoaderProxy: the class, its constructor, the object, each obtained
\* by a JNI call and looked at as GivenUp does.
Obtain(from, to, r) ==
    /\ returned' = r
    /\ IF GivenUp(r) THEN Fail(from) ELSE Step(from, to) /\ UNCHANGED result
    /\ UNCHANGED <<parent, loaderDex, dexPath, dexClassLoader>>

LoadProxyClass ==
    /\ pc = "loadProxy"
    /\ Obtain("loadProxy", "getConstructor",
              IF "proxy" \in Ships[loaderDex[dexClassLoader]] THEN Object ELSE Thrown)
    /\ UNCHANGED <<proxyParent, threw>>

GetConstructor ==
    /\ pc = "getConstructor" /\ returned = Object
    /\ Obtain("getConstructor", "newProxy",
              IF "constructor" \in Ships[loaderDex[dexClassLoader]] THEN Object ELSE Thrown)
    /\ UNCHANGED <<proxyParent, threw>>

NewProxy ==
    /\ returned = Object
    /\ \E r \in {Object, Thrown} :
        /\ Obtain("newProxy", "changeParent", r)
        /\ threw' = (threw \/ r = Thrown)
    /\ proxyParent' = [proxyParent EXCEPT ![dexClassLoader] = parent]

ChangeClassLoaderParent ==
    /\ Step("changeParent", "inserted")
    /\ parent' = IF returned = Object THEN dexClassLoader ELSE "null"
    /\ UNCHANGED <<proxyParent, loaderDex, dexPath, dexClassLoader, returned, result, threw>>

\* It returns 0.
Inserted ==
    /\ Step("inserted", "loadTarget")
    /\ UNCHANGED <<chainVars, dexPath, dexClassLoader, returned, result, threw>>

\* The class or the object a JNI call is given is null.
Fault ==
    /\ pc \in {"getConstructor", "newProxy"} /\ returned = Thrown
    /\ pc' = "idle"
    /\ dexPath' = NoDex /\ dexClassLoader' = NoLoader /\ returned' = Object /\ result' = 0
    /\ UNCHANGED <<chainVars, threw>>

LoadTargetClass ==
    /\ pc = "loadTarget"
    /\ IF "target" \in Ships[loaderDex[dexClassLoader]]
       THEN Step("loadTarget", "getMethod") /\ UNCHANGED result
       ELSE Fail("loadTarget")
    /\ UNCHANGED <<chainVars, dexPath, dexClassLoader, returned, threw>>

GetStaticMethodID ==
    /\ pc = "getMethod"
    /\ IF "method" \in Ships[loaderDex[dexClassLoader]]
       THEN Step("getMethod", "call") /\ UNCHANGED result
       ELSE Fail("getMethod")
    /\ UNCHANGED <<chainVars, dexPath, dexClassLoader, returned, threw>>

CallTarget ==
    /\ Step("call", "return")
    /\ UNCHANGED <<chainVars, dexPath, dexClassLoader, returned, result, threw>>

Return ==
    /\ Step("return", "idle")
    /\ dexPath' = NoDex /\ dexClassLoader' = NoLoader /\ returned' = Object /\ result' = 0
    /\ UNCHANGED <<chainVars, threw>>

Next ==
    \/ \E d \in Dexes : Invoke(d)
    \/ NoClassLoader \/ GetParent \/ CreateDexClassLoader \/ CreateFails
    \/ LoadProxyClass \/ GetConstructor \/ NewProxy \/ ChangeClassLoaderParent \/ Inserted
    \/ Fault \/ LoadTargetClass \/ GetStaticMethodID \/ CallTarget \/ Return

Spec == Init /\ [][Next]_vars

-----------------------------------------------------------------------------
(* What must hold.                                                         *)

\* However many calls there are, of whatever dexes, at most one proxy is put in
\* the chain and right behind it is the parent the application started with.
OneProxy == parent \in Loaders => proxyParent[parent] = "boot"

\* The application's chain is changed once at most, and unless a constructor of
\* the proxy threw it still ends where it did.
ChainKept ==
    [][parent = "boot" /\ (parent' = "null" => threw)]_parent

\* The method called is looked up in the dex whose proxy is in the chain, also by
\* a call that was given another dex, so the classes it uses are those that the
\* application sees.
TargetSeenByApplication ==
    pc = "call" /\ ~ threw => parent = dexClassLoader

\* The application and the injected code see the same classes, through the one proxy.
ChainSound == OneProxy /\ TargetSeenByApplication

\* "return 0 success, otherwise failure" (insertClassLoaderProxy): when it returns
\* 0 the proxy is in the chain.
ZeroMeansInserted == pc = "inserted" => parent = dexClassLoader

=============================================================================
