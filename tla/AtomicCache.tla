---------------------------- MODULE AtomicCache ----------------------------
(***************************************************************************)
(* The cache without a mutex that answers instanceof (AtomicCache.h and    *)
(* oo/TypeCheck.h): an entry has two keys, a value and a version, which is *)
(* odd while the entry is written.  A lookup reads them one after the      *)
(* other, and the version again at the end.                                *)
(*                                                                         *)
(* All the keys here have the same hash, and thus share an entry.          *)
(***************************************************************************)
EXTENDS Integers

CONSTANTS
    Threads,
    Classes,    \* the keys: u4 values of pointers to classes
    Super,      \* the class above each class, or NoClass
    NoClass,
    MaxVersion  \* a bound on the versions of the entry: in the code they wrap at 2^32

ASSUME CacheAssumption ==
    /\ Classes \subseteq Nat \ {0} /\ Classes # {} /\ NoClass = 0
    /\ Super \in [Classes -> Classes \cup {NoClass}]
    /\ \A c \in Classes : Super[c] # NoClass => Super[c] < c
    /\ MaxVersion \in Nat

VARIABLES
    entry,         \* key1, key2, value, version
    cachePc,            \* of each thread
    instance, clazz,   \* the keys it looks up
    firstVersion,  \* the version it has read
    value          \* the value it has read or computed

cacheVars == <<entry, cachePc, instance, clazz, firstVersion, value>>

\* A class and the classes above it: those in every set that has sub and with each class
\* its super.
Above(sub) ==
    {c \in Classes : \A s \in SUBSET Classes :
        sub \in s /\ (\A k \in s : Super[k] # NoClass => Super[k] \in s) => c \in s}

\* ATOMIC_CACHE_CALC for instanceof of plain classes: a walk up the supers.
dvmIsSubClass == [sub \in Classes |-> [c \in Classes |-> IF c \in Above(sub) THEN 1 ELSE 0]]

Calc(t) == dvmIsSubClass[instance[t]][clazz[t]]

Reading == {"key1", "key2", "value", "second"}
Writing == {"write1", "write2", "write3", "release"}

CacheTypeOK ==
    /\ entry \in [key1 : Classes \cup {0}, key2 : Classes \cup {0}, value : {0, 1},
                 version : 0 .. MaxVersion]
    /\ cachePc \in [Threads -> Reading \cup Writing \cup {"idle", "version", "calc", "acquire", "done"}]
    /\ instance \in [Threads -> Classes] /\ clazz \in [Threads -> Classes]
    /\ firstVersion \in [Threads -> 0 .. MaxVersion]
    /\ value \in [Threads -> {0, 1}]

CacheInit ==
    /\ entry = [key1 |-> 0, key2 |-> 0, value |-> 0, version |-> 0]
    /\ cachePc = [t \in Threads |-> "idle"]
    /\ instance \in [Threads -> {CHOOSE c \in Classes : TRUE}]
    /\ clazz = instance
    /\ firstVersion = [t \in Threads |-> 0]
    /\ value = [t \in Threads |-> 0]

Goto(t, l) == cachePc' = [cachePc EXCEPT ![t] = l]

-----------------------------------------------------------------------------
(* dvmInstanceof, and ATOMIC_CACHE_LOOKUP.                                               *)

dvmInstanceof(t, i, c) ==
    /\ cachePc[t] \in {"idle", "done"}
    /\ instance' = [instance EXCEPT ![t] = i]
    /\ clazz' = [clazz EXCEPT ![t] = c]
    /\ IF i = c THEN value' = [value EXCEPT ![t] = 1] /\ Goto(t, "done")
       ELSE UNCHANGED value /\ Goto(t, "version")
    /\ UNCHANGED <<entry, firstVersion>>

ReadVersion(t) ==
    /\ cachePc[t] = "version"
    /\ firstVersion' = [firstVersion EXCEPT ![t] = entry.version]
    /\ Goto(t, "key1")
    /\ UNCHANGED <<entry, instance, clazz, value>>

ReadKey1(t) ==
    /\ cachePc[t] = "key1"
    /\ Goto(t, IF entry.key1 = instance[t] THEN "key2" ELSE "calc")
    /\ UNCHANGED <<entry, instance, clazz, firstVersion, value>>

ReadKey2(t) ==
    /\ cachePc[t] = "key2"
    /\ Goto(t, IF entry.key2 = clazz[t] THEN "value" ELSE "calc")
    /\ UNCHANGED <<entry, instance, clazz, firstVersion, value>>

ReadValue(t) ==
    /\ cachePc[t] = "value"
    /\ value' = [value EXCEPT ![t] = entry.value]
    /\ Goto(t, "second")
    /\ UNCHANGED <<entry, instance, clazz, firstVersion>>

\* Mutant: an update that is going on is not noticed.
VersionUnchanged(t) == firstVersion[t] = entry.version

\* The second read of the version: no update was going on, and none has begun.
NoClash(t) == firstVersion[t] % 2 = 0 /\ firstVersion[t] = entry.version

CheckVersion(t) ==
    /\ cachePc[t] = "second"
    /\ IF NoClash(t) THEN UNCHANGED value
       ELSE value' = [value EXCEPT ![t] = Calc(t)]
    /\ Goto(t, "done")
    /\ UNCHANGED <<entry, instance, clazz, firstVersion>>

Compute(t) ==
    /\ cachePc[t] = "calc"
    /\ value' = [value EXCEPT ![t] = Calc(t)]
    /\ Goto(t, "acquire")
    /\ UNCHANGED <<entry, instance, clazz, firstVersion>>

-----------------------------------------------------------------------------
(* dvmUpdateAtomicCache, of libdvm.so: it gives up if the entry is being updated, or     *)
(* has been since the version was read; "a version that gets incremented atomically when *)
(* a write begins and again when it completes".                                          *)

CanAcquire(t) == firstVersion[t] % 2 = 0 /\ entry.version = firstVersion[t]

Acquire(t) ==
    /\ cachePc[t] = "acquire"
    /\ IF CanAcquire(t)
       THEN /\ entry.version + 2 <= MaxVersion
            /\ entry' = [entry EXCEPT !.version = @ + 1]
            /\ Goto(t, "write1")
       ELSE UNCHANGED entry /\ Goto(t, "done")
    /\ UNCHANGED <<instance, clazz, firstVersion, value>>

WriteKey1(t) ==
    /\ cachePc[t] = "write1"
    /\ entry' = [entry EXCEPT !.key1 = instance[t]]
    /\ Goto(t, "write2")
    /\ UNCHANGED <<instance, clazz, firstVersion, value>>

WriteKey2(t) ==
    /\ cachePc[t] = "write2"
    /\ entry' = [entry EXCEPT !.key2 = clazz[t]]
    /\ Goto(t, "write3")
    /\ UNCHANGED <<instance, clazz, firstVersion, value>>

WriteValue(t) ==
    /\ cachePc[t] = "write3"
    /\ entry' = [entry EXCEPT !.value = value[t]]
    /\ Goto(t, "release")
    /\ UNCHANGED <<instance, clazz, firstVersion, value>>

Release(t) ==
    /\ cachePc[t] = "release"
    /\ entry' = [entry EXCEPT !.version = @ + 1]
    /\ Goto(t, "done")
    /\ UNCHANGED <<instance, clazz, firstVersion, value>>

CacheNext ==
    \E t \in Threads :
       \/ \E i \in Classes, c \in Classes : dvmInstanceof(t, i, c)
       \/ ReadVersion(t) \/ ReadKey1(t) \/ ReadKey2(t) \/ ReadValue(t) \/ CheckVersion(t)
       \/ Compute(t) \/ Acquire(t) \/ WriteKey1(t) \/ WriteKey2(t) \/ WriteValue(t) \/ Release(t)

CacheSpec == CacheInit /\ [][CacheNext]_cacheVars

-----------------------------------------------------------------------------
(* Properties.                                                                           *)

\* Whatever other threads write to the entry meanwhile, a lookup returns what
\* instanceof is for its own two classes.
LookupIsRight == \A t \in Threads : cachePc[t] = "done" => value[t] = Calc(t)

\* The entry has one writer at a time, and while there is none a value that belongs to
\* its keys.
EntryConsistent ==
    /\ \A t, u \in Threads : cachePc[t] \in Writing /\ cachePc[u] \in Writing => t = u
    /\ entry.version % 2 = 0 /\ entry.key1 # 0 =>
         entry.value = dvmIsSubClass[entry.key1][entry.key2]
=============================================================================
