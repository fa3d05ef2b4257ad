--------------------------- MODULE RemoteAddress ---------------------------
(***************************************************************************)
(* How inj knows where dlopen, dlsym and dlclose are in the target (the    *)
(* end of inject/ptrace.c): it looks for the linker in /proc/self/maps and *)
(* in the target's maps and moves the address that a function has in inj   *)
(* by the difference of the two bases.                                     *)
(*                                                                         *)
(* The target's main thread is stopped, its other threads are not: they    *)
(* load and unload files while the lines of maps are read one by one.  The *)
(* kernel gives them in the order of the addresses, and goes on where it   *)
(* has been by address.                                                    *)
(***************************************************************************)
EXTENDS Integers, FiniteSets

CONSTANTS
    AddressSpace,          \* addresses are numbers below it: 2^32 in the code
    Fixed,        \* 0x8000: where a program that cannot be moved begins
    Functions,    \* those of the linker that are looked up
    Offset,       \* of each in the linker
    Segments,     \* of the linker, one mapping each, the first at its base
    NoFunction

ASSUME RemoteAssumption ==
    /\ AddressSpace \in Nat /\ Fixed \in 1 .. (AddressSpace - 1)
    /\ Segments \in Nat \ {0}
    /\ Offset \in [Functions -> 0 .. (Segments - 1)]
    /\ NoFunction \notin Functions

Addr == 0 .. (AddressSpace - 1)
Whose == {"self", "target"}
Files == {"linker", "other"}

VARIABLES
    mapped,     \* the mappings of each process: start and file; {} for one that is gone
    ldl,        \* the addresses found; -1 for none so far
    looking,    \* the function being looked up
    reading,    \* whose maps are read, or "none"
    from,       \* where the kernel goes on reading
    addr,       \* what get_module_base has found
    local_handle  \* the base of the linker in inj

remoteVars == <<mapped, ldl, looking, reading, from, addr, local_handle>>

Linker(base) == {[start |-> base + k, file |-> "linker"] : k \in 0 .. (Segments - 1)}
Bases == {b \in Addr : b > Fixed /\ b + Segments <= AddressSpace}

RemoteTypeOK ==
    /\ \A w \in Whose : mapped[w] \subseteq [start : Addr, file : Files]
    /\ ldl \in [Functions -> Addr \cup {-1}]
    /\ looking \in Functions \cup {NoFunction}
    /\ reading \in Whose \cup {"none", "done"}
    /\ from \in 0 .. AddressSpace /\ addr \in Addr /\ local_handle \in Addr

\* The linker lies elsewhere in each process, and so does all else.
RemoteInit ==
    /\ \E b \in [Whose -> Bases] : mapped = [w \in Whose |-> Linker(b[w])]
    /\ ldl = [f \in Functions |-> -1]
    /\ looking = NoFunction /\ reading = "none"
    /\ from = 0 /\ addr = 0 /\ local_handle = 0

Starts(w) == {m.start : m \in mapped[w]}

-----------------------------------------------------------------------------
(* The target.                                                             *)

\* Another thread maps a file where there is room, or unmaps one.
OtherThreadMaps(a) ==
    /\ mapped["target"] # {} /\ a \notin Starts("target")
    /\ mapped' = [mapped EXCEPT !["target"] = @ \cup {[start |-> a, file |-> "other"]}]
    /\ UNCHANGED <<ldl, looking, reading, from, addr, local_handle>>

OtherThreadUnmaps(m) ==
    /\ m \in mapped["target"] /\ m.file = "other"
    /\ mapped' = [mapped EXCEPT !["target"] = @ \ {m}]
    /\ UNCHANGED <<ldl, looking, reading, from, addr, local_handle>>

TargetIsKilled ==
    /\ mapped["target"] # {}
    /\ mapped' = [mapped EXCEPT !["target"] = {}]
    /\ UNCHANGED <<ldl, looking, reading, from, addr, local_handle>>

-----------------------------------------------------------------------------
(* inj.                                                                    *)

\* ptrace_find_dlinfo: the next function.
get_remote_addr(f) ==
    /\ reading = "none" /\ ldl[f] = -1
    /\ looking' = f
    /\ reading' = "self" /\ from' = 0 /\ addr' = 0
    /\ UNCHANGED <<mapped, ldl, local_handle>>

\* The lines of maps that are still to come.
Ahead == {m \in mapped[reading] : m.start >= from}
Line(m) == m \in Ahead /\ \A n \in Ahead : m.start <= n.start

\* strstr(line, module_name)
IsModule(m) == m.file = "linker"
BaseOf(m) == IF m.start = Fixed THEN 0 ELSE m.start

\* A line of get_module_base's loop, which ends with the first of the module.
ReadLine(m) ==
    IF IsModule(m) THEN addr' = BaseOf(m) /\ from' = AddressSpace
    ELSE from' = m.start + 1 /\ UNCHANGED addr

fgetsLine ==
    /\ reading \in Whose
    /\ \E m \in Ahead : Line(m) /\ ReadLine(m)
    /\ UNCHANGED <<mapped, ldl, looking, reading, local_handle>>

\* There is no other line, or no such file: the base is what has been found, or 0.
get_module_base ==
    /\ reading = "self" /\ Ahead = {}
    /\ local_handle' = addr
    /\ reading' = "target" /\ from' = 0 /\ addr' = 0
    /\ UNCHANGED <<mapped, ldl, looking>>

\* The address that the function has in inj itself.
BaseIn(w) == CHOOSE b \in Bases : Linker(b) \subseteq mapped[w]
local_addr(f) == BaseIn("self") + Offset[f]

\* Mutant: the bases are subtracted the other way round.
Backwards(f) == (local_addr(f) + local_handle - addr) % AddressSpace

Moved(f) == (local_addr(f) + addr - local_handle) % AddressSpace

RemoteAddr ==
    /\ reading = "target" /\ Ahead = {}
    /\ ldl' = [ldl EXCEPT ![looking] = Moved(looking)]
    /\ looking' = NoFunction
    /\ reading' = "none" /\ from' = 0 /\ addr' = 0 /\ local_handle' = 0
    /\ UNCHANGED mapped

RemoteNext ==
    \/ \E a \in Addr : OtherThreadMaps(a)
    \/ \E m \in mapped["target"] : OtherThreadUnmaps(m)
    \/ TargetIsKilled
    \/ \E f \in Functions : get_remote_addr(f)
    \/ fgetsLine \/ get_module_base \/ RemoteAddr

RemoteSpec == RemoteInit /\ [][RemoteNext]_remoteVars

-----------------------------------------------------------------------------
(* What must hold.                                                         *)

\* The functions that the target will be made to call are those of its own linker,
\* wherever it lies there and in inj, and whatever the target's threads have mapped and
\* unmapped around it meanwhile; unless the target is gone.
RemoteAddressRight ==
    \A f \in Functions :
       ldl[f] # -1 /\ mapped["target"] # {} => ldl[f] = BaseIn("target") + Offset[f]
=============================================================================
