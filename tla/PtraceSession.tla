--------------------------- MODULE PtraceSession ---------------------------
(***************************************************************************)
(* The native injector (jni/inject/inject.c and ptrace.c): main drives the *)
(* main thread of the target by ptrace through five stops.  It attaches,   *)
(* makes the thread fault at a bad address, makes it call dlopen, dlsym    *)
(* and hook, each returning to a bad address, restores the registers it    *)
(* found and detaches.  After each PTRACE_CONT it waits for one stop and   *)
(* takes whatever stop it gets for the one it expects:                     *)
(* ptrace_wait_for_signal says which signal it was, no caller looks.       *)
(*                                                                         *)
(* The kernel (stops, signals, who traces whom) is modelled as ptrace(2)   *)
(* and waitpid(2) present it to this code.  An address is a number where   *)
(* the stack is concerned and a name otherwise.                            *)
(***************************************************************************)
EXTENDS Integers, FiniteSets, Sequences

CONSTANTS
    Injectors,    \* processes running inj on the same target
    MayDie,       \* those that may be killed half way
    Signals,      \* other signals sent to the target, each of them once (a bound)
    StackTops,    \* stack pointers the target may be interrupted with
    Sizes,        \* sizes of the strings pushed
    NoInjector

ASSUME NoInjectorAssumption == NoInjector \notin Injectors
ASSUME SignalsAssumption == Signals \cap {"none", "SIGSTOP", "SIGSEGV", "exit"} = {}
\* The ARM stack pointer is a multiple of four at every instruction.
ASSUME StackAssumption ==
    /\ StackTops \subseteq {sp \in Nat : sp % 4 = 0}
    /\ Sizes \subseteq Nat \ {0}

\* What the thread is made to do at each of the stops.
Stages == <<"trap", "dlopen", "dlsym", "hook", "detach">>
Calls == {"dlopen", "dlsym", "hook"}

VARIABLES
    alive,        \* the target process
    tracer,       \* who traces its main thread
    stopped,      \* that thread is stopped
    report,       \* the stop, or the death, waitpid has not returned yet
    pending,      \* signals not yet delivered to it
    regs,         \* its registers
    ipc,          \* where each injector is
    stage,        \* the stop it is dealing with: an index of Stages
    oldregs,      \* the registers it found
    pushed        \* what it wrote on the target's stack, in order

\* History variables.
VARIABLES
    interrupted,  \* the registers of the application's own code
    sent,         \* the signals sent so far
    absorbed,     \* foreign stops each injector took before it called dlopen
    mishap,       \* a later one, a fault in a call, or a dlopen that failed
    completed,    \* the calls each injector had run to their end
    crashed       \* the target ran into a bad address with no tracer

targetVars == <<alive, tracer, stopped, report, pending, regs>>
injectorVars == <<ipc, stage, oldregs, pushed>>
historyVars == <<interrupted, sent, absorbed, mishap, completed, crashed>>
vars == <<targetVars, injectorVars, historyVars>>

\* The application's own code, a bad address, or the entry of a function.
Code == {"app", "trap", "null"} \cup Calls
\* Addresses on the stack are counted from anywhere: how far apart they lie matters.
Words == {a \in Int : a % 4 = 0}
Values == {"app", "null", "handle", "string"} \cup Calls
Registers == [pc : Code, sp : Words, r0 : Values]
IPc == {"start", "wait", "prepare", "cont", "done", "exited", "killed"}

TypeOK ==
    /\ alive \in BOOLEAN /\ stopped \in BOOLEAN /\ crashed \in BOOLEAN
    /\ tracer \in Injectors \cup {NoInjector}
    /\ report \in Signals \cup {"none", "SIGSTOP", "SIGSEGV", "exit"}
    /\ pending \subseteq Signals \cup {"SIGSTOP"}
    /\ regs \in Registers /\ interrupted \in Registers
    /\ ipc \in [Injectors -> IPc]
    /\ stage \in [Injectors -> DOMAIN Stages]
    /\ oldregs \in [Injectors -> Registers]
    /\ pushed \in [Injectors -> Seq([addr : Words, end : Words])]
    /\ sent \subseteq Signals
    /\ absorbed \in [Injectors -> Nat] /\ mishap \in [Injectors -> BOOLEAN]
    /\ completed \in [Injectors -> SUBSET Calls]

Init ==
    /\ alive = TRUE
    /\ tracer = NoInjector
    /\ stopped = FALSE
    /\ report = "none"
    /\ pending = {}
    /\ regs \in [pc : {"app"}, sp : StackTops, r0 : {"app"}]
    /\ interrupted = regs
    /\ ipc = [i \in Injectors |-> "start"]
    /\ stage = [i \in Injectors |-> 1]
    /\ oldregs = [i \in Injectors |-> regs]
    /\ pushed = [i \in Injectors |-> <<>>]
    /\ sent = {} /\ crashed = FALSE
    /\ absorbed = [i \in Injectors |-> 0]
    /\ mishap = [i \in Injectors |-> FALSE]
    /\ completed = [i \in Injectors |-> {}]

-----------------------------------------------------------------------------
(* The target's main thread, under the kernel.                             *)

Traced == tracer # NoInjector

\* Some process sends the target a signal it has a handler for.
SendSignal(s) ==
    /\ alive /\ s \notin sent
    /\ sent' = sent \cup {s}
    /\ pending' = pending \cup {s}
    /\ UNCHANGED <<alive, tracer, stopped, report, regs, injectorVars, interrupted, absorbed,
                   mishap, completed, crashed>>

\* Pending signals are delivered before the thread executes an instruction: to
\* the tracer as a stop, or else to the application's handler (SIGSTOP stops it).
Deliver(s) ==
    /\ alive /\ ~ stopped /\ s \in pending
    /\ pending' = pending \ {s}
    /\ stopped' = (Traced \/ s = "SIGSTOP")
    /\ report' = IF Traced THEN s ELSE report
    /\ UNCHANGED <<alive, tracer, regs, injectorVars, historyVars>>

Executes == alive /\ ~ stopped /\ pending = {}

\* An instruction fetch at a bad address.
FaultAtBadAddress ==
    /\ Executes /\ regs.pc \in {"trap", "null"}
    /\ IF Traced THEN stopped' = TRUE /\ report' = "SIGSEGV" /\ UNCHANGED <<alive, crashed>>
                 ELSE alive' = FALSE /\ crashed' = TRUE /\ UNCHANGED <<stopped, report>>
    /\ UNCHANGED <<tracer, pending, regs, injectorVars, interrupted, sent, absorbed,
                   mishap, completed>>

\* A mishap of the session in progress, if there is one.
Mishap(yes) ==
    mishap' = [i \in Injectors |-> mishap[i] \/ (tracer = i /\ yes)]

\* What the call returns in r0.  dlopen may fail; dlsym finds hook only
\* through the handle dlopen returned.
Results(call) ==
    CASE call = "dlopen" -> {"handle", "null"}
      [] call = "dlsym"  -> IF regs.r0 = "handle" THEN {"hook"} ELSE {"null"}
      [] call = "hook"   -> {"null"}

\* The call returns: the stack is balanced and lr was a bad address.
CallReturns ==
    /\ Executes /\ regs.pc \in Calls
    /\ \E r \in Results(regs.pc) :
        /\ regs' = [regs EXCEPT !.pc = "trap", !.r0 = r]
        /\ Mishap(regs.pc = "dlopen" /\ r = "null")
    /\ completed' = IF Traced THEN [completed EXCEPT ![tracer] = @ \cup {regs.pc}] ELSE completed
    /\ UNCHANGED <<alive, tracer, stopped, report, pending, injectorVars, interrupted, sent,
                   absorbed, crashed>>

\* A fault inside the call: to the tracer it looks like the return.
CallFaults ==
    /\ Executes /\ regs.pc \in Calls /\ Traced
    /\ stopped' = TRUE /\ report' = "SIGSEGV"
    /\ Mishap(TRUE)
    /\ UNCHANGED <<alive, tracer, pending, regs, injectorVars, interrupted, sent, absorbed,
                   completed, crashed>>

\* The application is killed (out of memory, or by the user).
Killed ==
    /\ alive
    /\ alive' = FALSE
    /\ report' = IF Traced THEN "exit" ELSE report
    /\ UNCHANGED <<tracer, stopped, pending, regs, injectorVars, historyVars>>

TargetStep ==
    FaultAtBadAddress \/ CallReturns \/ \E s \in pending : Deliver(s)

-----------------------------------------------------------------------------
(* The injector.                                                           *)

Exit(i) ==
    /\ ipc' = [ipc EXCEPT ![i] = "exited"]
    /\ tracer' = IF tracer = i THEN NoInjector ELSE tracer

\* ptrace_attach: PTRACE_ATTACH, or exit(-1) when the process is gone or already
\* traced (a pid of -1 from find_pid_of ends here too).  A thread that is stopped
\* already reports that at once.
Attach(i) ==
    /\ ipc[i] = "start"
    /\ IF alive /\ ~ Traced
       THEN /\ tracer' = i
            /\ pending' = pending \cup {"SIGSTOP"}
            /\ report' = IF stopped THEN "SIGSTOP" ELSE "none"
            /\ ipc' = [ipc EXCEPT ![i] = "wait"]
       ELSE Exit(i) /\ UNCHANGED <<pending, report>>
    /\ UNCHANGED <<alive, stopped, regs, stage, oldregs, pushed, historyVars>>

\* Mutant: main gives up when the stop is not the one it expects.
WaitOrExit(i) ==
    /\ ipc[i] = "wait" /\ tracer = i
    /\ report # "none"
    /\ report' = "none"
    /\ IF report = "SIGSEGV" \/ Stages[stage[i]] = "trap"
       THEN ipc' = [ipc EXCEPT ![i] = "prepare"] /\ UNCHANGED <<stopped, tracer>>
       ELSE Exit(i) /\ stopped' = FALSE
    /\ UNCHANGED <<alive, pending, regs, stage, oldregs, pushed, historyVars>>

\* ptrace_wait_for_signal: waitpid returns the first stop, or the death.
WaitForSignal(i) ==
    /\ ipc[i] = "wait" /\ tracer = i
    /\ report # "none"
    /\ report' = "none"
    /\ ipc' = [ipc EXCEPT ![i] = "prepare"]
    /\ absorbed' = [absorbed EXCEPT ![i] = IF report \in Signals /\ stage[i] <= 2 THEN @ + 1 ELSE @]
    /\ Mishap(report \in Signals /\ stage[i] > 2)
    /\ UNCHANGED <<alive, tracer, stopped, pending, regs, stage, oldregs, pushed, interrupted,
                   sent, completed, crashed>>

\* Mutant: "regs->ARM_sp -= size" forgotten.
pushWithoutRoom(r, size) == LET addr == r.sp - (r.sp % 8) IN [addr |-> addr, sp |-> addr]

\* Mutant: sp not aligned.
pushUnaligned(r, size) == [addr |-> r.sp - size, sp |-> r.sp - size]

\* ptrace_push: room for size bytes below sp, aligned to eight.
ptrace_push(r, size) ==
    LET addr == (r.sp - size) - ((r.sp - size) % 8) IN [addr |-> addr, sp |-> addr]

\* ptrace_write stores whole words: the last one may reach past the string.
Written(addr, size) == [addr |-> addr, end |-> addr + 4 * ((size + 3) \div 4)]

\* The thread is stopped and i, which waited for that, has its registers read,
\* changed and written.  With a dead target each request fails, and only logs it.
AtStop(i, what) ==
    /\ ipc[i] = "prepare" /\ Stages[stage[i]] = what
    /\ ipc' = [ipc EXCEPT ![i] = "cont"]
    /\ UNCHANGED <<alive, tracer, stopped, report, pending, stage, historyVars>>

DeadAtStop(i) ==
    /\ ~ alive
    /\ \E what \in Calls \cup {"trap"} : AtStop(i, what)
    /\ UNCHANGED <<regs, oldregs, pushed>>

\* Mutant: the registers are saved after pc was overwritten.
TrapThenSave(i) ==
    /\ alive /\ AtStop(i, "trap")
    /\ regs' = [regs EXCEPT !.pc = "trap"]
    /\ oldregs' = [oldregs EXCEPT ![i] = [regs EXCEPT !.pc = "trap"]]
    /\ UNCHANGED pushed

\* Mutant: no bad address is planted.
SaveOnly(i) ==
    /\ alive /\ AtStop(i, "trap")
    /\ oldregs' = [oldregs EXCEPT ![i] = regs]
    /\ UNCHANGED <<regs, pushed>>

\* ptrace_attach goes on: the registers are saved and pc set to a bad address.
SaveAndTrap(i) ==
    /\ alive /\ AtStop(i, "trap")
    /\ oldregs' = [oldregs EXCEPT ![i] = regs]
    /\ regs' = [regs EXCEPT !.pc = "trap"]
    /\ UNCHANGED pushed

\* A string of some size pushed, and the registers set for a call of entry.
CallRemote(i, entry, r0) ==
    /\ \E size \in Sizes :
        LET p == ptrace_push(regs, size) IN
        /\ pushed' = [pushed EXCEPT ![i] = Append(@, Written(p.addr, size))]
        /\ regs' = [pc |-> entry, sp |-> p.sp, r0 |-> r0]
    /\ UNCHANGED oldregs

ptrace_dlopen(i) == alive /\ AtStop(i, "dlopen") /\ CallRemote(i, "dlopen", "string")

\* Mutant: r0 set before the push, which is where the handle was.
dlsymLosesHandle(i) == alive /\ AtStop(i, "dlsym") /\ CallRemote(i, "dlsym", "string")

\* The handle is what the stop after dlopen left in r0 ...
ptrace_dlsym(i) == alive /\ AtStop(i, "dlsym") /\ CallRemote(i, "dlsym", regs.r0)

\* ... and the address called is what the stop after dlsym left there.
ptrace_call(i) ==
    /\ alive /\ AtStop(i, "hook")
    /\ CallRemote(i, IF regs.r0 = "hook" THEN "hook" ELSE "null", "string")

Prepare(i) ==
    SaveAndTrap(i) \/ ptrace_dlopen(i) \/ ptrace_dlsym(i) \/ ptrace_call(i) \/ DeadAtStop(i)

\* ptrace_cont, with signal 0: the signal that stopped the thread is dropped.
Cont(i) ==
    /\ ipc[i] = "cont"
    /\ IF alive
       THEN /\ stopped' = FALSE
            /\ stage' = [stage EXCEPT ![i] = @ + 1]
            /\ ipc' = [ipc EXCEPT ![i] = "wait"]
            /\ UNCHANGED tracer
       ELSE Exit(i) /\ UNCHANGED <<stopped, stage>>
    /\ UNCHANGED <<alive, report, pending, regs, oldregs, pushed, historyVars>>

\* Mutant: the registers are not put back.
DetachOnly(i) ==
    /\ ipc[i] = "prepare" /\ Stages[stage[i]] = "detach" /\ alive
    /\ tracer' = NoInjector /\ stopped' = FALSE
    /\ ipc' = [ipc EXCEPT ![i] = "done"]
    /\ UNCHANGED <<alive, report, pending, regs, stage, oldregs, pushed, historyVars>>

\* ptrace_detach.
Detach(i) ==
    /\ ipc[i] = "prepare" /\ Stages[stage[i]] = "detach"
    /\ IF alive
       THEN /\ regs' = oldregs[i]
            /\ tracer' = NoInjector
            /\ stopped' = FALSE
            /\ ipc' = [ipc EXCEPT ![i] = "done"]
       ELSE Exit(i) /\ UNCHANGED <<regs, stopped>>
    /\ UNCHANGED <<alive, report, pending, stage, oldregs, pushed, historyVars>>

\* The injector is killed: the kernel detaches it, the registers stay.
InjectorKilled(i) ==
    /\ i \in MayDie /\ tracer = i
    /\ ipc' = [ipc EXCEPT ![i] = "killed"]
    /\ tracer' = NoInjector
    /\ stopped' = FALSE
    /\ report' = "none"
    /\ UNCHANGED <<alive, pending, regs, stage, oldregs, pushed, historyVars>>

InjectorStep(i) ==
    Attach(i) \/ WaitForSignal(i) \/ Prepare(i) \/ Cont(i) \/ Detach(i)

-----------------------------------------------------------------------------

Next ==
    \/ TargetStep \/ CallFaults \/ Killed
    \/ \E s \in Signals : SendSignal(s)
    \/ \E i \in Injectors : InjectorStep(i) \/ InjectorKilled(i)

\* The target is scheduled and its calls return; the injectors are scheduled.
\* Nothing obliges a signal, a fault or a death to happen.
Spec ==
    /\ Init /\ [][Next]_vars
    /\ WF_vars(TargetStep)
    /\ \A i \in Injectors : WF_vars(InjectorStep(i))

-----------------------------------------------------------------------------
(* What must hold.                                                         *)

Ended(i) == ipc[i] \in {"done", "exited", "killed"}
NoneKilled == \A i \in Injectors : ipc[i] # "killed"

\* Between two injections the thread runs the application's code with the
\* registers it was interrupted with, whatever signals, faults and failures the
\* sessions met and however they overlapped.
ResumesWhereInterrupted ==
    (alive /\ NoneKilled /\ ~ Traced) => regs = interrupted

\* The bad addresses the injector plants are never run into without a tracer, so
\* the injection does not bring the application down, unless inj is killed.
InjectionDoesNotCrash == crashed => ~ NoneKilled

\* What is written on the stack lies below the interrupted frame and below what
\* was pushed before it, rounding and word-wise writing included, so the frames
\* of the application survive.
FramesSurvive ==
    \A i \in Injectors : \A k \in DOMAIN pushed[i] :
        pushed[i][k].end <= (IF k = 1 THEN interrupted.sp ELSE pushed[i][k - 1].addr)

\* While a function runs, its frames (below sp) do not overwrite the strings the
\* injector pushed for it and for the calls before it.
ArgumentsSurvive ==
    \A k \in DOMAIN (IF Traced THEN pushed[tracer] ELSE <<>>) :
        regs.pc \in Calls => regs.sp <= pushed[tracer][k].addr

\* The stack the injector borrows: neither its owner's frames nor what the injector put
\* there itself is lost.
StackSurvives == FramesSurvive /\ ArgumentsSurvive

\* An injection takes five stops, whatever they are: five signals of others could be
\* all of them, and its own SIGSTOP come after the detach.
FewSignals == Cardinality(sent) < Len(Stages)

\* The attach phase takes one stop in its stride that it did not ask for: unless
\* something else goes wrong or an earlier inj was killed, all three calls run to
\* their end, each with the handle or the address the call before it returned.
HookRuns ==
    \A i \in Injectors :
        (NoneKilled /\ FewSignals /\ ipc[i] = "done" /\ absorbed[i] <= 1 /\ ~ mishap[i])
            => completed[i] = Calls

\* The SIGSTOP of PTRACE_ATTACH is consumed before the detach, though it may
\* come after other stops, so no injection leaves the application stopped.
NotLeftStopped ==
    (alive /\ NoneKilled /\ FewSignals /\ ~ Traced) => ~ stopped /\ "SIGSTOP" \notin pending

\* Every injector ends: no wait is left without a stop or a death to report, in
\* whatever order stops, deaths and other injectors come.
InjectorEnds == \A i \in Injectors : <>Ended(i)

=============================================================================
