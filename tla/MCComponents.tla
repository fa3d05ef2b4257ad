---------------------------- MODULE MCComponents ----------------------------
(***************************************************************************)
(* Components of the tool, and of the virtual machine around it, that      *)
(* share no state with one another, each checked for itself on a small     *)
(* instance: a behaviour is a behaviour of one of them, named by part,     *)
(* while the others stay as they begin.                                    *)
(***************************************************************************)
EXTENDS ArgBoxing, AtomicCache, IndirectRefs, DexImage, Injection, MCLoader,
        RemoteAddress, TLC

VARIABLE part

\* A class and its superclass; the first and the last thing in the linker.  (TLC computes
\* a definition once, and what a .cfg substitutes each time.)
Tables == [super |-> 1 :> 0 @@ 2 :> 1, offset |-> "dlopen" :> 0 @@ "dlsym" :> 1]
Chain2 == Tables.super
LinkerOffset == Tables.offset

\* Two inj do the same whatever they are called.
Symmetry == Permutations(Sessions)

ComponentsInit ==
    /\ part \in {"boxing", "cache", "refs", "dex", "injection", "loader", "remote"}
    /\ BoxingInit
    /\ CacheInit
    /\ RefsInit
    /\ DexInit
    /\ InjectionInit
    /\ Init
    /\ RemoteInit
    /\ part # "boxing" => isStatic
    /\ part # "injection" => \A p \in Pids : proc[p].name = "none"
    /\ part # "remote" => \A w \in Whose : Starts(w) = Starts("self") /\ 2 \in Starts(w)

ComponentsNext ==
    \/ part = "boxing" /\ BoxingNext
       /\ UNCHANGED <<part, cacheVars, refVars, dexVars, injectionVars, vars, remoteVars>>
    \/ part = "cache" /\ CacheNext
       /\ UNCHANGED <<part, boxingVars, refVars, dexVars, injectionVars, vars, remoteVars>>
    \/ part = "refs" /\ RefsNext
       /\ UNCHANGED <<part, boxingVars, cacheVars, dexVars, injectionVars, vars, remoteVars>>
    \/ part = "dex" /\ DexNext
       /\ UNCHANGED <<part, boxingVars, cacheVars, refVars, injectionVars, vars, remoteVars>>
    \/ part = "injection" /\ InjectionNext
       /\ UNCHANGED <<part, boxingVars, cacheVars, refVars, dexVars, vars, remoteVars>>
    \/ part = "loader" /\ Next
       /\ UNCHANGED <<part, boxingVars, cacheVars, refVars, dexVars, injectionVars, remoteVars>>
    \/ part = "remote" /\ RemoteNext
       /\ UNCHANGED <<part, boxingVars, cacheVars, refVars, dexVars, injectionVars, vars>>

componentsVars ==
    <<part, boxingVars, cacheVars, refVars, dexVars, injectionVars, vars, remoteVars>>

ComponentsSpec == ComponentsInit /\ [][ComponentsNext]_componentsVars

\* Each component keeps to its types: ranges of indices, counters and addresses, and what
\* the locals of each step may be.
ComponentsTypeOK ==
    /\ BoxingTypeOK /\ CacheTypeOK /\ RefsTypeOK
    /\ InjectionTypeOK /\ TypeOK /\ RemoteTypeOK
=============================================================================
