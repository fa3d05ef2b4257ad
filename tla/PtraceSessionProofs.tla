------------------------- MODULE PtraceSessionProofs -------------------------
(***************************************************************************)
(* What PtraceSession promises the interrupted thread, proved for any      *)
(* number of injectors and signals, any aligned stack pointer and strings  *)
(* of any size: its registers and the frames on its stack survive, the     *)
(* three calls are made, and it is not left stopped.                       *)
(***************************************************************************)
EXTENDS PtraceSession, FiniteSetTheorems, TLAPS

Active == {"wait", "prepare", "cont"}

\* Stack pointers and written addresses are aligned, and the application's own code
\* was interrupted.
FrameInv ==
    /\ regs \in Registers /\ interrupted \in Registers /\ oldregs \in [Injectors -> Registers]
    /\ interrupted.pc = "app"
    /\ pushed \in [Injectors -> Seq([addr : Words, end : Words])]

\* Where the injectors are.
PlaceInv ==
    /\ tracer \in Injectors \cup {NoInjector}
    /\ ipc \in [Injectors -> IPc]
    /\ stage \in [Injectors -> 1 .. 5]
    /\ \A i \in Injectors : ipc[i] = "cont" => stage[i] <= 4
    /\ \A i \in Injectors : ipc[i] = "start" => stage[i] = 1 /\ pushed[i] = <<>>

\* One injector at a time is past its PTRACE_ATTACH, and it is the tracer.
TracerInv ==
    /\ \A i \in Injectors : ipc[i] \in Active => tracer = i
    /\ Traced => ipc[tracer] \in Active

\* The stack pointer never rises above the interrupted one, nor, while an injector
\* is at work, above what it has pushed.
StackInv ==
    /\ regs.sp <= interrupted.sp
    /\ \A i \in Injectors :
        /\ oldregs[i].sp <= interrupted.sp
        /\ ipc[i] \in Active => \A k \in DOMAIN pushed[i] : regs.sp <= pushed[i][k].addr

\* The application's registers are where the next one to need them looks: in the
\* thread until the injector saves them, then with the injector.
RegsInv ==
    (alive /\ NoneKilled) =>
        /\ ~ Traced => regs = interrupted
        /\ \A i \in Injectors : ipc[i] \in Active =>
            IF stage[i] = 1 /\ ipc[i] # "cont" THEN regs = interrupted ELSE oldregs[i] = interrupted

IInv ==
    FrameInv /\ PlaceInv /\ TracerInv /\ StackInv /\ FramesSurvive /\ RegsInv /\ InjectionDoesNotCrash

-----------------------------------------------------------------------------

LEMMA StagesInOrder ==
    \A n \in 1 .. 5 : /\ Stages[n] = "trap" <=> n = 1
                      /\ Stages[n] = "detach" <=> n = 5
<1>1. /\ Stages[1] = "trap" /\ Stages[2] = "dlopen" /\ Stages[3] = "dlsym"
      /\ Stages[4] = "hook" /\ Stages[5] = "detach"
  BY DEF Stages
<1>2. \A n \in 1 .. 5 : n = 1 \/ n = 2 \/ n = 3 \/ n = 4 \/ n = 5
  OBVIOUS
<1> QED  BY <1>1, <1>2

\* Whatever the size, a pushed string lies below the stack pointer it was pushed
\* at, though it is aligned to eight and written in whole words.
LEMMA PushBelow ==
    ASSUME NEW r \in Registers, NEW size \in Nat \ {0}
    PROVE  LET p == ptrace_push(r, size)
               w == Written(p.addr, size) IN
           /\ p.sp = p.addr /\ p.addr \in Words /\ w.addr = p.addr /\ w.end \in Words
           /\ p.addr <= r.sp /\ w.end <= r.sp
<1> DEFINE a == (r.sp - size) - ((r.sp - size) % 8)
           e == a + 4 * ((size + 3) \div 4)
<1>1. r.sp \in Int /\ r.sp % 4 = 0  BY DEF Registers, Words
<1>2. a \in Int /\ a % 4 = 0 /\ a <= r.sp - size  BY <1>1
<1>3. e \in Int /\ e % 4 = 0 /\ e <= a + size + 3  BY <1>2
<1>4. e <= r.sp  BY <1>1, <1>2, <1>3
<1>5. ptrace_push(r, size) = [addr |-> a, sp |-> a]  BY DEF ptrace_push
<1>6. Written(a, size) = [addr |-> a, end |-> e]  BY DEF Written
<1> QED  BY <1>1, <1>2, <1>3, <1>4, <1>5, <1>6 DEF Words

LEMMA InitIInv == Init => IInv
<1> SUFFICES ASSUME Init PROVE IInv  OBVIOUS
<1>1. regs \in Registers /\ regs.pc = "app" /\ interrupted = regs
  <2>1. StackTops \subseteq Words  BY StackAssumption DEF Words
  <2> QED  BY <2>1 DEF Init, Registers, Code, Values, Calls
<1>2. FrameInv /\ PlaceInv
  BY <1>1 DEF Init, FrameInv, PlaceInv, IPc
<1>3. \A i \in Injectors : DOMAIN pushed[i] = {} /\ ipc[i] = "start"
  BY DEF Init
<1>4. TracerInv /\ StackInv /\ FramesSurvive
  BY <1>1, <1>3, NoInjectorAssumption
     DEF Init, TracerInv, Traced, StackInv, FramesSurvive, Active, Registers, Words
<1>5. RegsInv /\ InjectionDoesNotCrash
  BY <1>1, <1>3 DEF Init, RegsInv, InjectionDoesNotCrash, Active
<1> QED  BY <1>2, <1>4, <1>5 DEF IInv

\* What the kernel and the target's own thread do.

LEMMA SendSignalKeeps == ASSUME IInv, NEW s \in Signals, SendSignal(s) PROVE IInv'
<1> USE NoInjectorAssumption
    DEF IInv, FrameInv, PlaceInv, Traced, Active, NoneKilled, SendSignal,
        targetVars, injectorVars, historyVars
<1>1. FrameInv' /\ PlaceInv'  BY DEF Registers, Code, Values, Calls
<1>2. TracerInv'  BY DEF TracerInv
<1>3. StackInv' /\ FramesSurvive'
  BY DEF StackInv, FramesSurvive, TracerInv, Registers, Words
<1>4. RegsInv'  BY DEF RegsInv, TracerInv
<1>5. InjectionDoesNotCrash'  BY DEF InjectionDoesNotCrash, RegsInv
<1> QED  BY <1>1, <1>2, <1>3, <1>4, <1>5

LEMMA DeliverKeeps == ASSUME IInv, NEW s \in pending, Deliver(s) PROVE IInv'
<1> USE NoInjectorAssumption
    DEF IInv, FrameInv, PlaceInv, Traced, Active, NoneKilled, Deliver,
        targetVars, injectorVars, historyVars
<1>1. FrameInv' /\ PlaceInv'  BY DEF Registers, Code, Values, Calls
<1>2. TracerInv'  BY DEF TracerInv
<1>3. StackInv' /\ FramesSurvive'
  BY DEF StackInv, FramesSurvive, TracerInv, Registers, Words
<1>4. RegsInv'  BY DEF RegsInv, TracerInv
<1>5. InjectionDoesNotCrash'  BY DEF InjectionDoesNotCrash, RegsInv
<1> QED  BY <1>1, <1>2, <1>3, <1>4, <1>5

LEMMA FaultAtBadAddressKeeps == ASSUME IInv, FaultAtBadAddress PROVE IInv'
<1> USE NoInjectorAssumption
    DEF IInv, FrameInv, PlaceInv, Traced, Active, NoneKilled, FaultAtBadAddress, Executes,
        targetVars, injectorVars, historyVars
<1>1. FrameInv' /\ PlaceInv'  BY DEF Registers, Code, Values, Calls
<1>2. TracerInv'  BY DEF TracerInv
<1>3. StackInv' /\ FramesSurvive'
  BY DEF StackInv, FramesSurvive, TracerInv, Registers, Words
<1>4. RegsInv'  BY DEF RegsInv, TracerInv
<1>5. InjectionDoesNotCrash'  BY DEF InjectionDoesNotCrash, RegsInv
<1> QED  BY <1>1, <1>2, <1>3, <1>4, <1>5

LEMMA CallReturnsKeeps == ASSUME IInv, CallReturns PROVE IInv'
<1> USE NoInjectorAssumption
    DEF IInv, FrameInv, PlaceInv, Traced, Active, NoneKilled, CallReturns, Executes, Results, Calls,
        targetVars, injectorVars, historyVars
<1>1. FrameInv' /\ PlaceInv'  BY DEF Registers, Code, Values, Calls
<1>2. TracerInv'  BY DEF TracerInv
<1>3. StackInv' /\ FramesSurvive'
  BY DEF StackInv, FramesSurvive, TracerInv, Registers, Words
<1>4. RegsInv'  BY DEF RegsInv, TracerInv
<1>5. InjectionDoesNotCrash'  BY DEF InjectionDoesNotCrash, RegsInv
<1> QED  BY <1>1, <1>2, <1>3, <1>4, <1>5

LEMMA CallFaultsKeeps == ASSUME IInv, CallFaults PROVE IInv'
<1> USE NoInjectorAssumption
    DEF IInv, FrameInv, PlaceInv, Traced, Active, NoneKilled, CallFaults, Executes,
        targetVars, injectorVars, historyVars
<1>1. FrameInv' /\ PlaceInv'  BY DEF Registers, Code, Values, Calls
<1>2. TracerInv'  BY DEF TracerInv
<1>3. StackInv' /\ FramesSurvive'
  BY DEF StackInv, FramesSurvive, TracerInv, Registers, Words
<1>4. RegsInv'  BY DEF RegsInv, TracerInv
<1>5. InjectionDoesNotCrash'  BY DEF InjectionDoesNotCrash, RegsInv
<1> QED  BY <1>1, <1>2, <1>3, <1>4, <1>5

LEMMA KilledKeeps == ASSUME IInv, Killed PROVE IInv'
<1> USE NoInjectorAssumption
    DEF IInv, FrameInv, PlaceInv, Traced, Active, NoneKilled, Killed,
        targetVars, injectorVars, historyVars
<1>1. FrameInv' /\ PlaceInv'  BY DEF Registers, Code, Values, Calls
<1>2. TracerInv'  BY DEF TracerInv
<1>3. StackInv' /\ FramesSurvive'
  BY DEF StackInv, FramesSurvive, TracerInv, Registers, Words
<1>4. RegsInv'  BY DEF RegsInv, TracerInv
<1>5. InjectionDoesNotCrash'  BY DEF InjectionDoesNotCrash, RegsInv
<1> QED  BY <1>1, <1>2, <1>3, <1>4, <1>5

\* What an injector does. Its place changes and at most its own data; the rest is told
\* apart by what becomes of the tracer and of the registers.

LEMMA AttachKeeps == ASSUME IInv, NEW i \in Injectors, Attach(i) PROVE IInv'
<1> USE NoInjectorAssumption DEF IInv, PlaceInv, Traced, Active, IPc
<1>1. /\ ipc[i] = "start"
      /\ UNCHANGED <<alive, regs, stage, oldregs, pushed, interrupted, crashed>>
      /\ \/ ~ Traced /\ tracer' = i /\ ipc' = [ipc EXCEPT ![i] = "wait"]
         \/ tracer' = tracer /\ ipc' = [ipc EXCEPT ![i] = "exited"]
      /\ DOMAIN pushed[i] = {}
  BY DEF Attach, Exit, TracerInv, historyVars
<1>2. FrameInv'  BY <1>1 DEF FrameInv
<1>3. PlaceInv'  BY <1>1
<1>4. TracerInv'  BY <1>1 DEF TracerInv
<1>5. StackInv' /\ FramesSurvive'
  BY <1>1 DEF StackInv, FramesSurvive, FrameInv, TracerInv
<1>6. RegsInv' /\ InjectionDoesNotCrash'
  BY <1>1 DEF RegsInv, InjectionDoesNotCrash, NoneKilled, TracerInv
<1> QED  BY <1>2, <1>3, <1>4, <1>5, <1>6

LEMMA WaitForSignalKeeps == ASSUME IInv, NEW i \in Injectors, WaitForSignal(i) PROVE IInv'
<1> USE NoInjectorAssumption DEF IInv, PlaceInv, Traced, Active, IPc
<1>1. /\ ipc[i] = "wait" /\ ipc' = [ipc EXCEPT ![i] = "prepare"]
      /\ UNCHANGED <<alive, tracer, regs, stage, oldregs, pushed, interrupted, crashed>>
  BY DEF WaitForSignal
<1>2. FrameInv'  BY <1>1 DEF FrameInv
<1>3. PlaceInv'  BY <1>1
<1>4. TracerInv'  BY <1>1 DEF TracerInv
<1>5. StackInv' /\ FramesSurvive'
  BY <1>1 DEF StackInv, FramesSurvive, FrameInv, TracerInv
<1>6. RegsInv' /\ InjectionDoesNotCrash'
  BY <1>1 DEF RegsInv, InjectionDoesNotCrash, NoneKilled, TracerInv
<1> QED  BY <1>2, <1>3, <1>4, <1>5, <1>6

LEMMA DeadAtStopKeeps == ASSUME IInv, NEW i \in Injectors, DeadAtStop(i) PROVE IInv'
<1> USE NoInjectorAssumption DEF IInv, PlaceInv, Traced, Active, IPc
<1>1. /\ ~ alive
      /\ ipc[i] = "prepare" /\ ipc' = [ipc EXCEPT ![i] = "cont"] /\ stage[i] <= 4
      /\ UNCHANGED <<alive, tracer, regs, stage, oldregs, pushed, interrupted, crashed>>
  <2>1. Stages[stage[i]] # "detach"  BY DEF DeadAtStop, AtStop, Calls
  <2>2. stage[i] \in 1 .. 5 /\ stage[i] # 5  BY <2>1, StagesInOrder
  <2> QED  BY <2>2 DEF DeadAtStop, AtStop, historyVars
<1>2. FrameInv'  BY <1>1 DEF FrameInv
<1>3. PlaceInv'  BY <1>1
<1>4. TracerInv'  BY <1>1 DEF TracerInv
<1>5. StackInv' /\ FramesSurvive'
  BY <1>1 DEF StackInv, FramesSurvive, FrameInv, TracerInv
<1>6. RegsInv' /\ InjectionDoesNotCrash'
  BY <1>1 DEF RegsInv, InjectionDoesNotCrash, NoneKilled, TracerInv
<1> QED  BY <1>2, <1>3, <1>4, <1>5, <1>6

LEMMA SaveAndTrapKeeps == ASSUME IInv, NEW i \in Injectors, SaveAndTrap(i) PROVE IInv'
<1> USE NoInjectorAssumption DEF IInv, PlaceInv, Traced, Active, IPc
<1>1. /\ alive /\ stage[i] = 1 /\ tracer = i
      /\ ipc[i] = "prepare" /\ ipc' = [ipc EXCEPT ![i] = "cont"]
      /\ oldregs' = [oldregs EXCEPT ![i] = regs] /\ regs' = [regs EXCEPT !.pc = "trap"]
      /\ UNCHANGED <<alive, tracer, stage, pushed, interrupted, crashed>>
  BY StagesInOrder DEF SaveAndTrap, AtStop, TracerInv, historyVars
<1>2. FrameInv' /\ regs'.sp = regs.sp  BY <1>1 DEF FrameInv, Registers, Code, Values, Calls
<1>3. PlaceInv'  BY <1>1
<1>4. TracerInv'  BY <1>1 DEF TracerInv
<1>5. StackInv' /\ FramesSurvive'
  BY <1>1, <1>2 DEF StackInv, FramesSurvive, FrameInv, TracerInv
<1>6. RegsInv' /\ InjectionDoesNotCrash'
  <2>1. oldregs'[i] = regs  BY <1>1 DEF FrameInv
  <2>2. NoneKilled' => NoneKilled  BY <1>1 DEF NoneKilled
  <2>3. alive /\ NoneKilled => regs = interrupted  BY <1>1 DEF RegsInv
  <2>4. RegsInv'  BY <1>1, <1>4, <2>1, <2>2, <2>3 DEF RegsInv, TracerInv
  <2> QED  BY <1>1, <2>2, <2>4 DEF InjectionDoesNotCrash, NoneKilled
<1> QED  BY <1>2, <1>3, <1>4, <1>5, <1>6

LEMMA ContKeeps == ASSUME IInv, NEW i \in Injectors, Cont(i) PROVE IInv'
<1> USE NoInjectorAssumption DEF IInv, PlaceInv, Traced, Active, IPc
<1>1. /\ ipc[i] = "cont"
      /\ \/ /\ tracer' = tracer /\ ipc' = [ipc EXCEPT ![i] = "wait"]
            /\ stage' = [stage EXCEPT ![i] = @ + 1]
         \/ /\ ~ alive /\ tracer' = NoInjector /\ ipc' = [ipc EXCEPT ![i] = "exited"]
            /\ stage' = stage
      /\ UNCHANGED <<alive, regs, oldregs, pushed, interrupted, crashed>>
  BY DEF Cont, Exit, TracerInv, historyVars
<1>2. FrameInv'  BY <1>1 DEF FrameInv
<1>3. PlaceInv'  BY <1>1
<1>4. TracerInv'  BY <1>1 DEF TracerInv
<1>5. StackInv' /\ FramesSurvive'
  BY <1>1 DEF StackInv, FramesSurvive, FrameInv, TracerInv
<1>6. RegsInv' /\ InjectionDoesNotCrash'
  BY <1>1 DEF RegsInv, InjectionDoesNotCrash, NoneKilled, TracerInv
<1> QED  BY <1>2, <1>3, <1>4, <1>5, <1>6

LEMMA DetachKeeps == ASSUME IInv, NEW i \in Injectors, Detach(i) PROVE IInv'
<1> USE NoInjectorAssumption DEF IInv, PlaceInv, Traced, Active, IPc
<1>1. /\ ipc[i] = "prepare" /\ stage[i] = 5 /\ tracer = i /\ tracer' = NoInjector
      /\ \/ regs' = oldregs[i] /\ ipc' = [ipc EXCEPT ![i] = "done"]
         \/ ~ alive /\ regs' = regs /\ ipc' = [ipc EXCEPT ![i] = "exited"]
      /\ UNCHANGED <<alive, stage, oldregs, pushed, interrupted, crashed>>
  BY StagesInOrder DEF Detach, Exit, TracerInv, historyVars
<1>2. FrameInv'
  <2>1. regs \in Registers /\ oldregs[i] \in Registers  BY DEF FrameInv
  <2>2. regs' \in Registers  BY <1>1, <2>1
  <2> QED  BY <1>1, <2>2 DEF FrameInv
<1>3. PlaceInv'  BY <1>1
<1>4. TracerInv'  BY <1>1 DEF TracerInv
<1>5. StackInv' /\ FramesSurvive'
  BY <1>1 DEF StackInv, FramesSurvive, FrameInv, TracerInv
<1>6. RegsInv' /\ InjectionDoesNotCrash'
  BY <1>1 DEF RegsInv, InjectionDoesNotCrash, NoneKilled, TracerInv
<1> QED  BY <1>2, <1>3, <1>4, <1>5, <1>6

LEMMA InjectorKilledKeeps == ASSUME IInv, NEW i \in Injectors, InjectorKilled(i) PROVE IInv'
<1> USE NoInjectorAssumption DEF IInv, PlaceInv, Traced, Active, IPc
<1>1. /\ tracer = i /\ tracer' = NoInjector /\ ipc' = [ipc EXCEPT ![i] = "killed"]
      /\ UNCHANGED <<alive, regs, stage, oldregs, pushed, interrupted, crashed>>
  BY DEF InjectorKilled, historyVars
<1>2. FrameInv'  BY <1>1 DEF FrameInv
<1>3. PlaceInv'  BY <1>1
<1>4. TracerInv'  BY <1>1 DEF TracerInv
<1>5. StackInv' /\ FramesSurvive'
  BY <1>1 DEF StackInv, FramesSurvive, FrameInv, TracerInv
<1>6. RegsInv' /\ InjectionDoesNotCrash'
  BY <1>1 DEF RegsInv, InjectionDoesNotCrash, NoneKilled, TracerInv
<1> QED  BY <1>2, <1>3, <1>4, <1>5, <1>6

LEMMA ElementOf == ASSUME NEW S, NEW q \in Seq(S) PROVE \A k \in DOMAIN q : q[k] \in S
OBVIOUS

\* Pushing a string and setting up a call: what is written lies below what was there.
LEMMA CallRemoteKeeps ==
    ASSUME IInv, NEW i \in Injectors, NEW what \in Calls, alive, AtStop(i, what),
           NEW entry \in Code, NEW r0 \in Values, CallRemote(i, entry, r0)
    PROVE  IInv'
<1> USE NoInjectorAssumption DEF IInv, PlaceInv, Traced, Active, IPc
<1>1. /\ stage[i] # 1 /\ stage[i] <= 4 /\ tracer = i
      /\ ipc[i] = "prepare" /\ ipc' = [ipc EXCEPT ![i] = "cont"]
      /\ UNCHANGED <<alive, tracer, stage, oldregs, interrupted, crashed>>
  <2>1. Stages[stage[i]] \in Calls  BY DEF AtStop
  <2>2. Stages[stage[i]] # "trap" /\ Stages[stage[i]] # "detach"  BY <2>1 DEF Calls
  <2>3. stage[i] \in 1 .. 5 /\ stage[i] # 1 /\ stage[i] # 5  BY <2>2, StagesInOrder
  <2> QED  BY <2>3 DEF AtStop, CallRemote, TracerInv, historyVars
<1>2. PICK size \in Sizes :
        /\ pushed' = [pushed EXCEPT ![i] =
                Append(@, Written(ptrace_push(regs, size).addr, size))]
        /\ regs' = [pc |-> entry, sp |-> ptrace_push(regs, size).sp, r0 |-> r0]
  BY DEF CallRemote
<1> DEFINE addr == ptrace_push(regs, size).addr
           w == Written(addr, size)
<1>3. regs \in Registers  BY DEF FrameInv
<1>4. size \in Nat \ {0}  BY StackAssumption
<1>5. /\ ptrace_push(regs, size).sp = addr /\ addr \in Words
      /\ w.addr = addr /\ w.end \in Words /\ addr <= regs.sp /\ w.end <= regs.sp
  BY <1>3, <1>4, PushBelow
<1>6. w \in [addr : Words, end : Words]
  BY <1>5 DEF Written
<1>7. regs'.sp = addr  BY <1>2, <1>5
<1>8. pushed[i] \in Seq([addr : Words, end : Words])  BY DEF FrameInv
<1>9. \A k \in DOMAIN pushed[i] : pushed[i][k].addr \in Int
  <2>1. \A k \in DOMAIN pushed[i] : pushed[i][k] \in [addr : Words, end : Words]
    BY <1>8, ElementOf, Zenon
  <2>2. \A x \in [addr : Words, end : Words] : x.addr \in Int  BY DEF Words
  <2> QED  BY <2>1, <2>2
<1> HIDE DEF w, addr
<1>10. pushed'[i] = Append(pushed[i], w)  BY <1>2 DEF FrameInv, w, addr
<1>11. FrameInv'
  <2>1. regs' \in Registers  BY <1>2, <1>5 DEF Registers, addr
  <2>2. pushed' \in [Injectors -> Seq([addr : Words, end : Words])]
    <3>1. Append(pushed[i], w) \in Seq([addr : Words, end : Words])  BY <1>6, <1>8
    <3> QED  BY <1>2, <3>1 DEF FrameInv, w, addr
  <2> QED  BY <1>1, <2>1, <2>2 DEF FrameInv
<1>12. PlaceInv'
  <2>1. \A j \in Injectors : j # i => pushed'[j] = pushed[j]  BY <1>2 DEF FrameInv
  <2> QED  BY <1>1, <2>1
<1>13. TracerInv'  BY <1>1 DEF TracerInv
<1>14. \A k \in DOMAIN pushed'[i] :
        \/ k \in DOMAIN pushed[i] /\ pushed'[i][k] = pushed[i][k]
        \/ k = Len(pushed[i]) + 1 /\ pushed'[i][k] = w
  BY <1>8, <1>10
<1>15. \A j \in Injectors : j # i => pushed'[j] = pushed[j]
  BY <1>2 DEF FrameInv
<1>16. StackInv'
  <2>1. regs'.sp <= regs.sp /\ regs.sp <= interrupted.sp /\ regs'.sp \in Int
        /\ regs.sp \in Int /\ interrupted.sp \in Int
    BY <1>3, <1>5, <1>7 DEF StackInv, FrameInv, Registers, Words
  <2>2. \A k \in DOMAIN pushed[i] : regs.sp <= pushed[i][k].addr /\ pushed[i][k].addr \in Int
    BY <1>1, <1>9 DEF StackInv
  <2>3. ASSUME NEW k \in DOMAIN pushed'[i] PROVE regs'.sp <= pushed'[i][k].addr
    <3>1. CASE pushed'[i][k] = w  BY <1>5, <1>7, <2>1, <3>1
    <3>2. CASE k \in DOMAIN pushed[i] /\ pushed'[i][k] = pushed[i][k]
      <4>1. PICK a \in Int : a = pushed[i][k].addr /\ regs.sp <= a  BY <2>2, <3>2
      <4> QED  BY <2>1, <3>2, <4>1
    <3> QED  BY <1>14, <3>1, <3>2
  <2>4. \A j \in Injectors : ipc'[j] \in Active => j = i
    BY <1>1, <1>13 DEF TracerInv
  <2> QED  BY <1>1, <2>1, <2>3, <2>4 DEF StackInv, FrameInv, Registers, Words
<1>17. FramesSurvive'
  <2> SUFFICES ASSUME NEW j \in Injectors, NEW k \in DOMAIN pushed'[j]
               PROVE  pushed'[j][k].end <=
                        (IF k = 1 THEN interrupted.sp ELSE pushed'[j][k - 1].addr)
    BY <1>1 DEF FramesSurvive
  <2>1. CASE j # i
    BY <1>15, <2>1 DEF FramesSurvive
  <2>2. CASE j = i /\ k \in DOMAIN pushed[i]
    <3>1. pushed'[i][k] = pushed[i][k]  BY <1>8, <1>10, <2>2
    <3>2. k # 1 => pushed'[i][k - 1] = pushed[i][k - 1]  BY <1>8, <1>10, <2>2
    <3> QED  BY <2>2, <3>1, <3>2 DEF FramesSurvive
  <2>3. CASE j = i /\ k \notin DOMAIN pushed[i]
    <3>1. k = Len(pushed[i]) + 1 /\ pushed'[i][k] = w  BY <1>14, <2>3
    <3>2. CASE k = 1
      BY <1>3, <1>5, <2>3, <3>1, <3>2 DEF StackInv, FrameInv, Registers, Words
    <3>3. CASE k # 1
      <4>1. k - 1 \in DOMAIN pushed[i] /\ pushed'[i][k - 1] = pushed[i][k - 1]
        BY <1>8, <1>10, <3>1, <3>3
      <4>2. regs.sp <= pushed[i][k - 1].addr  BY <1>1, <4>1 DEF StackInv
      <4>3. pushed[i][k - 1].addr \in Int  BY <1>9, <4>1
      <4> QED  BY <1>3, <1>5, <2>3, <3>1, <3>3, <4>1, <4>2, <4>3 DEF Registers, Words
    <3> QED  BY <3>2, <3>3
  <2> QED  BY <2>1, <2>2, <2>3
<1>18. RegsInv' /\ InjectionDoesNotCrash'
  <2>1. NoneKilled' => NoneKilled  BY <1>1 DEF NoneKilled
  <2>2. alive /\ NoneKilled => oldregs[i] = interrupted  BY <1>1 DEF RegsInv
  <2>3. RegsInv'  BY <1>1, <1>13, <2>1, <2>2 DEF RegsInv, TracerInv
  <2> QED  BY <1>1, <2>1, <2>3 DEF InjectionDoesNotCrash
<1> QED  BY <1>11, <1>12, <1>13, <1>16, <1>17, <1>18

LEMMA StutterKeeps == ASSUME IInv, UNCHANGED vars PROVE IInv'
BY DEF IInv, FrameInv, PlaceInv, TracerInv, Traced, StackInv, FramesSurvive, RegsInv, NoneKilled,
   InjectionDoesNotCrash, vars, targetVars, injectorVars, historyVars

LEMMA StepIInv == IInv /\ [Next]_vars => IInv'
<1> SUFFICES ASSUME IInv, [Next]_vars PROVE IInv'  OBVIOUS
<1>1. CASE TargetStep
  BY <1>1, FaultAtBadAddressKeeps, CallReturnsKeeps, DeliverKeeps DEF TargetStep
<1>2. CASE CallFaults \/ Killed
  BY <1>2, CallFaultsKeeps, KilledKeeps
<1>3. ASSUME NEW s \in Signals, SendSignal(s) PROVE IInv'
  BY <1>3, SendSignalKeeps
<1>4. ASSUME NEW i \in Injectors, Prepare(i) PROVE IInv'
  <2>1. CASE SaveAndTrap(i) \/ DeadAtStop(i)
    BY <2>1, SaveAndTrapKeeps, DeadAtStopKeeps
  <2>2. CASE ptrace_dlopen(i)
    BY <2>2, CallRemoteKeeps DEF ptrace_dlopen, Calls, Code, Values
  <2>3. CASE ptrace_dlsym(i)
    <3>1. regs.r0 \in Values  BY DEF IInv, FrameInv, Registers
    <3> QED  BY <2>3, <3>1, CallRemoteKeeps DEF ptrace_dlsym, Calls, Code, Values
  <2>4. CASE ptrace_call(i)
    <3>1. (IF regs.r0 = "hook" THEN "hook" ELSE "null") \in Code  BY DEF Code, Calls
    <3> QED  BY <2>4, <3>1, CallRemoteKeeps DEF ptrace_call, Calls, Code, Values
  <2> QED  BY <1>4, <2>1, <2>2, <2>3, <2>4 DEF Prepare
<1>5. ASSUME NEW i \in Injectors, InjectorStep(i) \/ InjectorKilled(i) PROVE IInv'
  BY <1>4, <1>5, AttachKeeps, WaitForSignalKeeps, ContKeeps, DetachKeeps, InjectorKilledKeeps
     DEF InjectorStep
<1>6. CASE UNCHANGED vars
  BY <1>6, StutterKeeps
<1> QED  BY <1>1, <1>2, <1>3, <1>5, <1>6 DEF Next

\* The inductive invariant holds.
LEMMA Inductive == Spec => []IInv
BY InitIInv, StepIInv, PTL DEF Spec

-----------------------------------------------------------------------------
(* The stops of a session, and the calls it makes between them.                         *)

\* The signals that were sent, and what the history variables hold.
HistoryInv ==
    /\ alive \in BOOLEAN /\ stopped \in BOOLEAN /\ crashed \in BOOLEAN
    /\ report \in Signals \cup {"none", "SIGSTOP", "SIGSEGV", "exit"}
    /\ sent \subseteq Signals /\ IsFiniteSet(sent)
    /\ pending \subseteq sent \cup {"SIGSTOP"}
    /\ absorbed \in [Injectors -> Nat] /\ mishap \in [Injectors -> BOOLEAN]
    /\ completed \in [Injectors -> SUBSET Calls]
    /\ \A i \in Injectors : ipc[i] = "start" => absorbed[i] = 0

\* The stops an injector has taken, and whether the SIGSTOP of its attach is to come.
Taken(i) == IF ipc[i] = "wait" THEN stage[i] - 1 ELSE stage[i]
StopDue == "SIGSTOP" \in pending \/ report = "SIGSTOP"
Foreign == IF report \in Signals THEN 1 ELSE 0

\* As long as the SIGSTOP is to come, each stop was a signal of others; until the thread
\* runs into the bad address, which it does when no signal is pending, one at most was.
StopsOf(i) ==
    /\ ipc[i] = "wait" => (stopped <=> report # "none")
    /\ ipc[i] # "wait" => stopped /\ report = "none"
    /\ report # "exit"
    /\ "SIGSTOP" \in pending => report \notin {"SIGSTOP", "SIGSEGV"}
    /\ StopDue => Taken(i) + Foreign <= Cardinality(sent \ pending)
    /\ Taken(i) = 0 => StopDue /\ absorbed[i] = 0
    /\ Taken(i) = 1 => absorbed[i] = IF StopDue THEN 1 ELSE 0
    /\ Taken(i) > 1 /\ absorbed[i] <= 1 => ~ StopDue

\* The thread executes what it was made to at the n-th stop ...
Entered(i, n) ==
    /\ n = 1 => regs.pc = "trap"
    /\ n = 2 => regs.pc = "dlopen"
    /\ n = 3 => regs.pc = "dlsym" /\ regs.r0 = "handle" /\ "dlopen" \in completed[i]
    /\ n = 4 => regs.pc = "hook" /\ {"dlopen", "dlsym"} \subseteq completed[i]

\* ... or has come back from it, with the result.
Returned(i, n) ==
    /\ n > 0 => regs.pc = "trap"
    /\ n = 2 => regs.r0 = "handle" /\ "dlopen" \in completed[i]
    /\ n = 3 => regs.r0 = "hook" /\ {"dlopen", "dlsym"} \subseteq completed[i]
    /\ n = 4 => Calls \subseteq completed[i]

\* After the second stop it is at a SIGSEGV that the next call is made.
CallsOf(i) ==
    absorbed[i] <= 1 /\ ~ mishap[i] =>
        /\ ipc[i] = "wait" => \/ Entered(i, stage[i] - 1) /\ (stage[i] > 2 => report # "SIGSEGV")
                              \/ Returned(i, stage[i] - 1)
        /\ ipc[i] = "prepare" => Returned(i, stage[i] - 1)
        /\ ipc[i] = "cont" => Entered(i, stage[i])

Calm == alive /\ NoneKilled /\ FewSignals

SessionInv ==
    Calm => /\ ~ Traced => ~ stopped /\ "SIGSTOP" \notin pending
            /\ \A i \in Injectors : ipc[i] \in Active => StopsOf(i) /\ CallsOf(i)

SInv == IInv /\ HistoryInv /\ SessionInv /\ HookRuns

-----------------------------------------------------------------------------

LEMMA FiveStages == Len(Stages) = 5 /\ DOMAIN Stages = 1 .. 5
BY DEF Stages

LEMMA InitSInv == Init => SInv
<1> SUFFICES ASSUME Init PROVE SInv  OBVIOUS
<1>1. IsFiniteSet({})  BY FS_EmptySet
<1>2. HistoryInv  BY <1>1 DEF Init, HistoryInv
<1>3. \A i \in Injectors : ipc[i] = "start"  BY DEF Init
<1>4. SessionInv /\ HookRuns
  BY <1>3 DEF Init, SessionInv, HookRuns, Active
<1> QED  BY <1>2, <1>4, InitIInv DEF SInv

\* Pending signals were sent, so the others have been delivered; there are few of them.
LEMMA SignalsCounted ==
    ASSUME HistoryInv
    PROVE  /\ IsFiniteSet(sent \ pending) /\ Cardinality(sent \ pending) \in Nat
           /\ Cardinality(sent) \in Nat /\ Cardinality(sent \ pending) <= Cardinality(sent)
           /\ "SIGSTOP" \notin sent /\ "SIGSTOP" \notin Signals /\ "SIGSEGV" \notin Signals
           /\ "none" \notin Signals /\ "exit" \notin Signals
<1>1. IsFiniteSet(sent) /\ sent \subseteq Signals  BY DEF HistoryInv
<1>2. IsFiniteSet(sent \ pending) /\ Cardinality(sent \ pending) <= Cardinality(sent)
  BY <1>1, FS_Subset
<1>3. Cardinality(sent) \in Nat /\ Cardinality(sent \ pending) \in Nat
  BY <1>1, <1>2, FS_CardinalityType
<1> QED  BY <1>1, <1>2, <1>3, SignalsAssumption

\* Types, and that nothing is pending that was not sent.
LEMMA HistoryKept == ASSUME SInv, [Next]_vars PROVE HistoryInv'
<1> USE DEF HistoryInv, SInv
<1>1. CASE UNCHANGED vars
  BY <1>1 DEF vars, targetVars, injectorVars, historyVars
<1>2. ASSUME NEW s \in Signals, SendSignal(s) PROVE HistoryInv'
  <2>1. IsFiniteSet(sent \cup {s})  BY FS_AddElement
  <2> QED  BY <1>2, <2>1 DEF SendSignal, injectorVars
<1>3. ASSUME NEW s \in pending, Deliver(s) PROVE HistoryInv'
  BY <1>3 DEF Deliver, injectorVars, historyVars
<1>4. CASE FaultAtBadAddress \/ Killed
  BY <1>4 DEF FaultAtBadAddress, Killed, injectorVars, historyVars
<1>5. CASE CallReturns
  <2>1. mishap' \in [Injectors -> BOOLEAN]  BY <1>5 DEF CallReturns, Mishap
  <2>2. completed' \in [Injectors -> SUBSET Calls]
    <3>1. regs.pc \in Calls  BY <1>5 DEF CallReturns
    <3>2. Traced => tracer \in Injectors  BY DEF IInv, PlaceInv, Traced
    <3> QED  BY <1>5, <3>1, <3>2 DEF CallReturns
  <2> QED  BY <1>5, <2>1, <2>2 DEF CallReturns, injectorVars
<1>6. CASE CallFaults
  <2>1. mishap' \in [Injectors -> BOOLEAN]  BY <1>6 DEF CallFaults, Mishap
  <2> QED  BY <1>6, <2>1 DEF CallFaults, injectorVars
<1>7. ASSUME NEW i \in Injectors, Attach(i) PROVE HistoryInv'
  BY <1>7 DEF Attach, Exit, historyVars, IInv, PlaceInv
<1>8. ASSUME NEW i \in Injectors, WaitForSignal(i) PROVE HistoryInv'
  <2>1. mishap' \in [Injectors -> BOOLEAN]  BY <1>8 DEF WaitForSignal, Mishap
  <2>2. ipc' = [ipc EXCEPT ![i] = "prepare"]  BY <1>8 DEF WaitForSignal
  <2>3. absorbed' \in [Injectors -> Nat]  BY <1>8 DEF WaitForSignal
  <2>4. \A j \in Injectors : ipc'[j] = "start" => absorbed'[j] = 0
    BY <1>8, <2>2 DEF WaitForSignal, IInv, PlaceInv
  <2> QED  BY <1>8, <2>1, <2>3, <2>4 DEF WaitForSignal
<1>9. ASSUME NEW i \in Injectors, Prepare(i) PROVE HistoryInv'
  <2>1. PICK what : AtStop(i, what)
    BY <1>9 DEF Prepare, SaveAndTrap, ptrace_dlopen, ptrace_dlsym, ptrace_call, DeadAtStop
  <2> QED  BY <2>1 DEF AtStop, historyVars, IInv, PlaceInv
<1>10. ASSUME NEW i \in Injectors, Cont(i) \/ Detach(i) \/ InjectorKilled(i) PROVE HistoryInv'
  BY <1>10 DEF Cont, Detach, InjectorKilled, Exit, historyVars, IInv, PlaceInv
<1> QED
  BY <1>1, <1>2, <1>3, <1>4, <1>5, <1>6, <1>7, <1>8, <1>9, <1>10 DEF Next, TargetStep, InjectorStep

\* Once the target is dead, an inj killed or many signals sent, it stays that way; and an
\* inj that does not trace the thread is not at work.
LEMMA CalmBefore ==
    ASSUME SInv, [Next]_vars
    PROVE  /\ alive' => alive
           /\ NoneKilled' => NoneKilled
           /\ FewSignals' => FewSignals
<1>1. alive' => alive
  BY DEF Next, vars, targetVars, injectorVars, historyVars, TargetStep, SendSignal, Deliver,
         FaultAtBadAddress, CallReturns, CallFaults, Killed, InjectorStep, InjectorKilled, Attach,
         WaitForSignal, Prepare, SaveAndTrap, ptrace_dlopen, ptrace_dlsym, ptrace_call,
         DeadAtStop, AtStop, Cont, Detach
<1>2. NoneKilled' => NoneKilled
  <2> SUFFICES ASSUME NEW j \in Injectors, ipc[j] = "killed" PROVE ipc'[j] = "killed"
    BY DEF NoneKilled
  <2>1. ASSUME NEW i \in Injectors, NEW to, ipc' = [ipc EXCEPT ![i] = to], i # j
        PROVE  ipc'[j] = "killed"
    BY <2>1 DEF SInv, IInv, PlaceInv
  <2>2. tracer # j
    BY NoInjectorAssumption DEF SInv, IInv, TracerInv, Traced, Active
  <2> QED
    BY <2>1, <2>2 DEF Next, vars, targetVars, injectorVars, historyVars, TargetStep, SendSignal,
         Deliver, FaultAtBadAddress, CallReturns, CallFaults, Killed, InjectorStep,
         InjectorKilled, Attach, WaitForSignal, Prepare, SaveAndTrap, ptrace_dlopen,
         ptrace_dlsym, ptrace_call, DeadAtStop, AtStop, Cont, Detach, Exit
<1>3. FewSignals' => FewSignals
  <2>1. IsFiniteSet(sent) /\ Cardinality(sent) \in Nat  BY FS_CardinalityType DEF SInv, HistoryInv
  <2>2. sent' = sent \/ \E s \in Signals : sent' = sent \cup {s}
    BY DEF Next, vars, targetVars, injectorVars, historyVars, TargetStep, SendSignal, Deliver,
         FaultAtBadAddress, CallReturns, CallFaults, Killed, InjectorStep, InjectorKilled, Attach,
         WaitForSignal, Prepare, SaveAndTrap, ptrace_dlopen, ptrace_dlsym, ptrace_call,
         DeadAtStop, AtStop, Cont, Detach
  <2>3. IsFiniteSet(sent') /\ sent \subseteq sent'
    BY <2>1, <2>2, FS_AddElement
  <2>4. Cardinality(sent) <= Cardinality(sent') /\ Cardinality(sent') \in Nat
    BY <2>3, FS_Subset, FS_CardinalityType
  <2> QED  BY <2>1, <2>4, FiveStages DEF FewSignals
<1> QED  BY <1>1, <1>2, <1>3

LEMMA OneAtWork ==
    ASSUME IInv, NEW i \in Injectors, ipc[i] \in Active
    PROVE  tracer = i /\ Traced /\ \A j \in Injectors : j # i => ipc[j] \notin Active
BY NoInjectorAssumption DEF IInv, TracerInv, Traced

\* What the target's thread and the kernel do to a session: it goes on with the same stops
\* taken, and the application's own code makes no call of its own.

LEMMA SendSignalSession ==
    ASSUME SInv, Calm, Calm', NEW s \in Signals, SendSignal(s) PROVE SessionInv'
<1> USE DEF SInv, SessionInv
<1>1. s \notin pending /\ s # "SIGSTOP"
  BY SignalsAssumption DEF SendSignal, HistoryInv
<1>2. /\ sent' \ pending' = sent \ pending /\ ("SIGSTOP" \in pending' <=> "SIGSTOP" \in pending)
      /\ UNCHANGED <<tracer, stopped, report, regs, ipc, stage, absorbed, mishap, completed>>
  BY <1>1 DEF SendSignal, injectorVars
<1>3. ASSUME NEW i \in Injectors, StopsOf(i) /\ CallsOf(i) PROVE StopsOf(i)' /\ CallsOf(i)'
  <2>1. CallsOf(i)'  BY <1>2, <1>3 DEF CallsOf, Entered, Returned
  <2>2. StopsOf(i)'
    BY <1>2, <1>3 DEF StopsOf, Taken, StopDue, Foreign
  <2> QED  BY <2>1, <2>2
<1> QED  BY <1>2, <1>3 DEF Traced

LEMMA DeliverSession ==
    ASSUME SInv, Calm, Calm', NEW s \in pending, Deliver(s) PROVE SessionInv'
<1> USE DEF SInv, SessionInv
<1>1. /\ ~ stopped /\ pending' = pending \ {s} /\ stopped' = (Traced \/ s = "SIGSTOP")
      /\ report' = IF Traced THEN s ELSE report
      /\ UNCHANGED <<tracer, regs, ipc, stage, sent, absorbed, mishap, completed>>
  BY DEF Deliver, injectorVars, historyVars
<1>2. ~ Traced => s # "SIGSTOP"  OBVIOUS
<1>3. ASSUME NEW i \in Injectors, ipc[i] \in Active PROVE StopsOf(i)' /\ CallsOf(i)'
  <2>1. StopsOf(i) /\ CallsOf(i) /\ Traced  BY <1>3, OneAtWork
  <2>2. ipc[i] = "wait" /\ report = "none" /\ report' = s /\ stopped'
    BY <1>1, <1>3, <2>1 DEF StopsOf, Active
  <2>3. s # "SIGSEGV" /\ s # "exit" /\ s # "none"
    BY SignalsAssumption DEF HistoryInv
  <2>4. CallsOf(i)'  BY <1>1, <2>1, <2>2, <2>3 DEF CallsOf, Entered, Returned
  <2>5. Taken(i)' = Taken(i) /\ Taken(i) \in Nat
    BY <1>1, <1>3 DEF Taken, IInv, PlaceInv
  <2>6. StopDue' <=> StopDue
    BY <1>1, <2>2 DEF StopDue
  <2>7. StopDue => Taken(i)' + Foreign' <= Cardinality(sent' \ pending')
    <3>1. CASE s = "SIGSTOP"
      <4>1. sent' \ pending' = sent \ pending  BY <1>1, <3>1, SignalsCounted
      <4>2. Foreign' = 0 /\ Foreign = 0  BY <2>2, <3>1, SignalsCounted DEF Foreign
      <4> QED  BY <2>1, <2>5, <4>1, <4>2 DEF StopsOf
    <3>2. CASE s # "SIGSTOP"
      <4>1. s \in sent /\ s \notin sent \ pending  BY <3>2 DEF HistoryInv
      <4>2. sent' \ pending' = (sent \ pending) \cup {s}  BY <1>1, <4>1
      <4>3. Cardinality(sent' \ pending') = Cardinality(sent \ pending) + 1
        BY <4>1, <4>2, SignalsCounted, FS_AddElement
      <4>4. Foreign = 0 /\ Foreign' <= 1 /\ Foreign' \in Nat  BY <2>2, SignalsCounted DEF Foreign
      <4>5. StopDue => Taken(i) <= Cardinality(sent \ pending)
        BY <2>1, <2>5, <4>4 DEF StopsOf
      <4> QED  BY <2>5, <4>3, <4>4, <4>5, SignalsCounted
    <3> QED  BY <3>1, <3>2
  <2>8. StopsOf(i)'
    BY <1>1, <2>1, <2>2, <2>3, <2>5, <2>6, <2>7 DEF StopsOf
  <2> QED  BY <2>4, <2>8
<1> QED  BY <1>1, <1>2, <1>3 DEF Traced

LEMMA FaultAtBadAddressSession ==
    ASSUME SInv, Calm, Calm', FaultAtBadAddress PROVE SessionInv'
<1> USE DEF SInv, SessionInv
<1>1. /\ ~ stopped /\ pending = {} /\ regs.pc \in {"trap", "null"}
      /\ Traced /\ stopped' /\ report' = "SIGSEGV"
      /\ UNCHANGED <<tracer, pending, regs, ipc, stage, sent, absorbed, mishap, completed>>
  BY DEF FaultAtBadAddress, Executes, injectorVars, Calm
<1>2. ASSUME NEW i \in Injectors, ipc[i] \in Active PROVE StopsOf(i)' /\ CallsOf(i)'
  <2>1. StopsOf(i) /\ CallsOf(i)  BY <1>2
  <2>2. ipc[i] = "wait" /\ report = "none"
    BY <1>1, <1>2, <2>1 DEF StopsOf, Active
  <2>3. ~ StopDue /\ ~ StopDue'  BY <1>1, <2>2 DEF StopDue
  <2>4. Taken(i)' = Taken(i)  BY <1>1 DEF Taken
  <2>5. StopsOf(i)'
    BY <1>1, <2>1, <2>2, <2>3, <2>4 DEF StopsOf
  <2>6. CallsOf(i)'
    <3>1. stage[i] \in 1 .. 5  BY DEF IInv, PlaceInv
    <3>2. Entered(i, stage[i] - 1) => stage[i] <= 2  BY <1>1, <3>1 DEF Entered
    <3> QED  BY <1>1, <2>1, <2>2, <3>1, <3>2 DEF CallsOf, Entered, Returned
  <2> QED  BY <2>5, <2>6
<1> QED  BY <1>1, <1>2 DEF Traced

LEMMA CallReturnsSession ==
    ASSUME SInv, Calm, Calm', CallReturns PROVE SessionInv'
<1> USE DEF SInv, SessionInv
<1>1. /\ ~ stopped /\ pending = {} /\ regs.pc \in Calls
      /\ UNCHANGED <<tracer, stopped, report, pending, ipc, stage, sent, absorbed>>
  BY DEF CallReturns, Executes, injectorVars
<1>2. Traced
  <2>1. regs = interrupted => regs.pc = "app"  BY DEF IInv, FrameInv
  <2> QED  BY <1>1, <2>1 DEF Calm, IInv, RegsInv, Calls
<1>3. ASSUME NEW i \in Injectors, ipc[i] \in Active PROVE StopsOf(i)' /\ CallsOf(i)'
  <2>1. StopsOf(i) /\ CallsOf(i) /\ tracer = i  BY <1>3, OneAtWork
  <2>2. ipc[i] = "wait" /\ report = "none"
    BY <1>1, <1>3, <2>1 DEF StopsOf, Active
  <2>3. StopsOf(i)'  BY <1>1, <2>1 DEF StopsOf, Taken, StopDue, Foreign
  <2>4. PICK r \in Results(regs.pc) :
          /\ regs' = [regs EXCEPT !.pc = "trap", !.r0 = r]
          /\ Mishap(regs.pc = "dlopen" /\ r = "null")
    BY DEF CallReturns
  <2>5. regs'.pc = "trap" /\ regs'.r0 = r
    BY <2>4 DEF IInv, FrameInv, Registers
  <2>6. mishap'[i] = (mishap[i] \/ (regs.pc = "dlopen" /\ r = "null"))
    BY <2>1, <2>4 DEF Mishap
  <2>7. completed'[i] = completed[i] \cup {regs.pc}
    BY <1>2, <2>1 DEF CallReturns, HistoryInv
  <2>8. CallsOf(i)'
    <3> SUFFICES ASSUME absorbed[i] <= 1, ~ mishap'[i] PROVE Returned(i, stage[i] - 1)'
      BY <1>1, <2>2 DEF CallsOf
    <3>1. PICK n \in 0 .. 4 : n = stage[i] - 1  BY DEF IInv, PlaceInv
    <3>2. n # 0  BY <1>1, <2>1, <2>2, <3>1 DEF StopsOf, Taken, StopDue
    <3>3. Entered(i, n) \/ Returned(i, n)
      BY <2>1, <2>2, <2>6, <3>1 DEF CallsOf
    <3>4. Entered(i, n) /\ n # 1
      BY <1>1, <3>1, <3>2, <3>3 DEF Returned, Entered, Calls
    <3>5. n = 2 => r = "handle"
      BY <2>4, <2>6, <3>4 DEF Entered, Results
    <3>6. n = 3 => r = "hook"
      BY <2>4, <3>4 DEF Entered, Results
    <3>7. Returned(i, n)'
      BY <2>5, <2>7, <3>4, <3>5, <3>6 DEF Entered, Returned, Calls
    <3> QED  BY <1>1, <3>1, <3>7
  <2> QED  BY <2>3, <2>8
<1> QED  BY <1>1, <1>2, <1>3 DEF Traced

LEMMA CallFaultsSession ==
    ASSUME SInv, Calm, Calm', CallFaults PROVE SessionInv'
<1> USE DEF SInv, SessionInv
<1>1. /\ ~ stopped /\ pending = {} /\ Traced /\ stopped' /\ report' = "SIGSEGV" /\ Mishap(TRUE)
      /\ UNCHANGED <<tracer, pending, ipc, stage, sent, absorbed>>
  BY DEF CallFaults, Executes, injectorVars
<1>2. ASSUME NEW i \in Injectors, ipc[i] \in Active PROVE StopsOf(i)' /\ CallsOf(i)'
  <2>1. StopsOf(i) /\ tracer = i  BY <1>2, OneAtWork
  <2>2. ipc[i] = "wait" /\ report = "none"
    BY <1>1, <1>2, <2>1 DEF StopsOf, Active
  <2>3. ~ StopDue /\ ~ StopDue'  BY <1>1, <2>2 DEF StopDue
  <2>4. Taken(i)' = Taken(i)  BY <1>1 DEF Taken
  <2>5. StopsOf(i)'
    BY <1>1, <2>1, <2>2, <2>3, <2>4 DEF StopsOf
  <2>6. mishap'[i]  BY <1>1, <2>1 DEF Mishap
  <2> QED  BY <2>5, <2>6 DEF CallsOf
<1> QED  BY <1>1, <1>2 DEF Traced

\* What an injector does.

LEMMA AttachSession ==
    ASSUME SInv, Calm, Calm', NEW i \in Injectors, Attach(i), IInv' PROVE SessionInv'
<1> USE DEF SInv, SessionInv
<1>1. CASE ~ Traced
  <2>1. /\ ~ stopped /\ "SIGSTOP" \notin pending
        /\ ipc[i] = "start" /\ tracer' = i /\ pending' = pending \cup {"SIGSTOP"}
        /\ report' = "none" /\ ipc' = [ipc EXCEPT ![i] = "wait"]
        /\ UNCHANGED <<stopped, regs, stage, sent, absorbed, mishap, completed>>
    BY <1>1 DEF Attach, Calm, historyVars
  <2>2. ipc'[i] = "wait" /\ stage'[i] = 1 /\ absorbed'[i] = 0
    BY <2>1 DEF IInv, PlaceInv, HistoryInv
  <2>3. Taken(i)' = 0 /\ StopDue'  BY <2>1, <2>2 DEF Taken, StopDue
  <2>4. sent' \ pending' = sent \ pending  BY <2>1, SignalsCounted
  <2>5. Foreign' = 0  BY <2>1, SignalsCounted DEF Foreign
  <2>9. Taken(i)' + Foreign' <= Cardinality(sent' \ pending')
    BY <2>3, <2>4, <2>5, SignalsCounted
  <2>6. StopsOf(i)'
    BY <2>1, <2>2, <2>3, <2>9 DEF StopsOf
  <2>7. CallsOf(i)'  BY <2>1, <2>2 DEF CallsOf, Entered
  <2>8. Traced' /\ \A j \in Injectors : ipc'[j] \in Active => j = i
    <3>1. ipc'[i] \in Active  BY <2>2 DEF Active
    <3> QED  BY <2>1, <3>1, NoInjectorAssumption DEF IInv, TracerInv, Traced
  <2> QED  BY <2>6, <2>7, <2>8
<1>2. CASE Traced
  <2>1. /\ ipc[i] = "start" /\ ipc' = [ipc EXCEPT ![i] = "exited"]
        /\ UNCHANGED <<pending, report, stopped, regs, stage, sent, absorbed, mishap, completed>>
    BY <1>2 DEF Attach, Exit, historyVars
  <2>2. tracer # i
    BY <1>2, <2>1 DEF IInv, TracerInv, Active
  <2>3. tracer' = tracer  BY <1>2, <2>2 DEF Attach, Exit
  <2>4. ASSUME NEW j \in Injectors, ipc'[j] \in Active PROVE StopsOf(j)' /\ CallsOf(j)'
    <3>1. j # i /\ ipc'[j] = ipc[j]  BY <2>1, <2>4 DEF IInv, PlaceInv, Active
    <3>2. StopsOf(j) /\ CallsOf(j)  BY <2>4, <3>1
    <3> QED
      BY <2>1, <3>1, <3>2 DEF StopsOf, CallsOf, Taken, StopDue, Foreign, Entered, Returned
  <2> QED  BY <1>2, <2>3, <2>4 DEF Traced
<1> QED  BY <1>1, <1>2

LEMMA WaitForSignalSession ==
    ASSUME SInv, Calm, Calm', NEW i \in Injectors, WaitForSignal(i) PROVE SessionInv'
<1> USE DEF SInv, SessionInv
<1>1. /\ ipc[i] = "wait" /\ tracer = i /\ report # "none" /\ report' = "none"
      /\ ipc' = [ipc EXCEPT ![i] = "prepare"]
      /\ absorbed' = [absorbed EXCEPT ![i] = IF report \in Signals /\ stage[i] <= 2 THEN @ + 1 ELSE @]
      /\ Mishap(report \in Signals /\ stage[i] > 2)
      /\ UNCHANGED <<tracer, stopped, pending, regs, stage, sent, completed>>
  BY DEF WaitForSignal
<1>2. /\ StopsOf(i) /\ CallsOf(i) /\ Traced /\ \A j \in Injectors : j # i => ipc[j] \notin Active
  BY <1>1, OneAtWork DEF Active
<1>3. PICK n \in 0 .. 4 : n = stage[i] - 1 /\ n + 1 = stage[i]  BY DEF IInv, PlaceInv
<1>4. /\ ipc'[i] = "prepare" /\ stage'[i] = stage[i]
      /\ \A j \in Injectors : j # i => ipc'[j] = ipc[j]
  BY <1>1 DEF IInv, PlaceInv
<1>5. Taken(i) = n /\ Taken(i)' = n + 1  BY <1>1, <1>3, <1>4 DEF Taken
<1>6. PICK a \in Nat : a = absorbed[i]  BY DEF HistoryInv
<1>7. absorbed'[i] = IF report \in Signals /\ n <= 1 THEN a + 1 ELSE a
  BY <1>1, <1>3, <1>6 DEF HistoryInv
<1>8. stopped' /\ report \in Signals \cup {"SIGSTOP", "SIGSEGV"}
  BY <1>1, <1>2 DEF StopsOf, HistoryInv
<1>9. StopDue' <=> StopDue /\ report # "SIGSTOP"
  BY <1>1, <1>2 DEF StopsOf, StopDue
<1>10. StopDue' => report \in Signals
  BY <1>1, <1>2, <1>8, <1>9 DEF StopsOf, StopDue
<1>11. StopDue' => Taken(i)' + Foreign' <= Cardinality(sent' \ pending')
  <2>1. report \in Signals => Foreign = 1  BY DEF Foreign
  <2>2. Foreign' = 0  BY <1>1, SignalsCounted DEF Foreign
  <2> QED  BY <1>1, <1>2, <1>5, <1>9, <1>10, <2>1, <2>2, SignalsCounted DEF StopsOf
<1>12. Taken(i)' = 1 => absorbed'[i] = IF StopDue' THEN 1 ELSE 0
  <2> SUFFICES ASSUME n = 0 PROVE absorbed'[i] = IF StopDue' THEN 1 ELSE 0  BY <1>5
  <2>1. StopDue /\ a = 0  BY <1>2, <1>5, <1>6 DEF StopsOf
  <2>2. report = "SIGSTOP" \/ report \in Signals
    BY <1>2, <1>8, <2>1 DEF StopsOf, StopDue
  <2> QED  BY <1>7, <1>9, <2>1, <2>2, SignalsCounted
<1>13. Taken(i)' > 1 /\ absorbed'[i] <= 1 => ~ StopDue'
  <2> SUFFICES ASSUME n # 0, absorbed'[i] <= 1, StopDue' PROVE FALSE  BY <1>5
  <2>1. StopDue /\ report \in Signals  BY <1>9, <1>10
  <2>2. CASE n = 1
    <3>1. a = 1  BY <1>2, <1>5, <1>6, <2>1, <2>2 DEF StopsOf
    <3> QED  BY <1>7, <2>1, <2>2, <3>1
  <2>3. CASE n > 1
    <3>1. absorbed'[i] = a  BY <1>7, <2>3
    <3> QED  BY <1>2, <1>5, <1>6, <2>1, <2>3, <3>1 DEF StopsOf
  <2> QED  BY <2>2, <2>3
<1>14. StopsOf(i)'
  BY <1>1, <1>3, <1>4, <1>5, <1>8, <1>11, <1>12, <1>13 DEF StopsOf
<1>15. CallsOf(i)'
  <2> SUFFICES ASSUME absorbed'[i] <= 1, ~ mishap'[i] PROVE Returned(i, n)
    BY <1>1, <1>3, <1>4 DEF CallsOf, Returned
  <2>1. a <= 1 /\ ~ mishap[i] /\ (report \in Signals => n <= 1)
    <3>1. a <= 1  BY <1>7
    <3>2. ~ mishap[i] /\ ~ (report \in Signals /\ stage[i] > 2)  BY <1>1 DEF Mishap
    <3> QED  BY <1>3, <3>1, <3>2
  <2>2. (Entered(i, n) /\ (n > 1 => report # "SIGSEGV")) \/ Returned(i, n)
    BY <1>1, <1>2, <1>3, <1>6, <2>1 DEF CallsOf
  <2>3. CASE n <= 1  BY <2>2, <2>3 DEF Entered, Returned
  <2>4. CASE n > 1
    <3>1. ~ StopDue  BY <1>2, <1>5, <1>6, <2>1, <2>4 DEF StopsOf
    <3>2. report = "SIGSEGV"  BY <1>8, <2>1, <2>4, <3>1 DEF StopDue
    <3> QED  BY <2>2, <2>4, <3>2
  <2> QED  BY <2>3, <2>4
<1> QED  BY <1>1, <1>2, <1>4, <1>14, <1>15 DEF Traced

\* The thread is stopped and made to go on elsewhere.
LEMMA AtStopSession ==
    ASSUME SInv, Calm, Calm', NEW i \in Injectors, NEW what, AtStop(i, what),
           Returned(i, stage[i] - 1) => Entered(i, stage[i])'
    PROVE  SessionInv'
<1> USE DEF SInv, SessionInv
<1>1. /\ ipc[i] = "prepare" /\ ipc' = [ipc EXCEPT ![i] = "cont"]
      /\ UNCHANGED <<tracer, stopped, report, pending, stage, sent, absorbed, mishap, completed>>
  BY DEF AtStop, historyVars
<1>2. /\ StopsOf(i) /\ CallsOf(i) /\ Traced /\ \A j \in Injectors : j # i => ipc[j] \notin Active
  BY <1>1, OneAtWork DEF Active
<1>3. /\ ipc'[i] = "cont" /\ \A j \in Injectors : j # i => ipc'[j] = ipc[j]
  BY <1>1 DEF IInv, PlaceInv
<1>4. StopsOf(i)'
  BY <1>1, <1>2, <1>3 DEF StopsOf, Taken, StopDue, Foreign
<1>5. CallsOf(i)'  BY <1>1, <1>2, <1>3 DEF CallsOf
<1> QED  BY <1>1, <1>2, <1>3, <1>4, <1>5 DEF Traced

LEMMA PrepareSession ==
    ASSUME SInv, Calm, Calm', NEW i \in Injectors, Prepare(i) PROVE SessionInv'
<1>1. /\ Stages[1] = "trap" /\ Stages[2] = "dlopen" /\ Stages[3] = "dlsym"
      /\ Stages[4] = "hook" /\ Stages[5] = "detach"
  BY DEF Stages
<1>2. /\ stage[i] \in 1 .. 5 /\ regs \in Registers
  BY DEF SInv, IInv, PlaceInv, FrameInv
<1>3. CASE SaveAndTrap(i)
  <2>1. stage[i] = 1  BY <1>2, <1>3, StagesInOrder DEF SaveAndTrap, AtStop
  <2>2. regs'.pc = "trap" /\ stage' = stage
    BY <1>2, <1>3 DEF SaveAndTrap, AtStop, Registers
  <2>3. Entered(i, stage[i])'  BY <2>1, <2>2 DEF Entered
  <2> QED  BY <1>3, <2>3, AtStopSession DEF SaveAndTrap
<1>4. CASE ptrace_dlopen(i)
  <2>1. stage[i] = 2  BY <1>1, <1>2, <1>4 DEF ptrace_dlopen, AtStop
  <2>2. regs'.pc = "dlopen" /\ stage' = stage  BY <1>4 DEF ptrace_dlopen, AtStop, CallRemote
  <2>3. Entered(i, stage[i])'  BY <2>1, <2>2 DEF Entered
  <2> QED  BY <1>4, <2>3, AtStopSession DEF ptrace_dlopen
<1>5. CASE ptrace_dlsym(i)
  <2>1. stage[i] = 3  BY <1>1, <1>2, <1>5 DEF ptrace_dlsym, AtStop
  <2>2. regs'.pc = "dlsym" /\ regs'.r0 = regs.r0 /\ stage' = stage /\ completed' = completed
    BY <1>5 DEF ptrace_dlsym, AtStop, CallRemote, historyVars
  <2>3. Returned(i, stage[i] - 1) => Entered(i, stage[i])'
    BY <2>1, <2>2 DEF Entered, Returned
  <2> QED  BY <1>5, <2>3, AtStopSession DEF ptrace_dlsym
<1>6. CASE ptrace_call(i)
  <2>1. stage[i] = 4  BY <1>1, <1>2, <1>6 DEF ptrace_call, AtStop
  <2>2. regs'.pc = (IF regs.r0 = "hook" THEN "hook" ELSE "null") /\ stage' = stage
        /\ completed' = completed
    BY <1>6 DEF ptrace_call, AtStop, CallRemote, historyVars
  <2>3. Returned(i, stage[i] - 1) => Entered(i, stage[i])'
    BY <2>1, <2>2 DEF Entered, Returned
  <2> QED  BY <1>6, <2>3, AtStopSession DEF ptrace_call
<1>7. ~ DeadAtStop(i)  BY DEF DeadAtStop, Calm
<1> QED  BY <1>3, <1>4, <1>5, <1>6, <1>7 DEF Prepare

LEMMA ContSession ==
    ASSUME SInv, Calm, Calm', NEW i \in Injectors, Cont(i) PROVE SessionInv'
<1> USE DEF SInv, SessionInv
<1>1. /\ ipc[i] = "cont" /\ ipc' = [ipc EXCEPT ![i] = "wait"] /\ ~ stopped'
      /\ stage' = [stage EXCEPT ![i] = @ + 1]
      /\ UNCHANGED <<tracer, report, pending, regs, sent, absorbed, mishap, completed>>
  BY DEF Cont, Calm, historyVars
<1>2. /\ StopsOf(i) /\ CallsOf(i) /\ Traced /\ \A j \in Injectors : j # i => ipc[j] \notin Active
  BY <1>1, OneAtWork DEF Active
<1>3. /\ ipc'[i] = "wait" /\ \A j \in Injectors : j # i => ipc'[j] = ipc[j]
      /\ stage'[i] = stage[i] + 1 /\ stage'[i] - 1 = stage[i] /\ stage[i] \in 1 .. 5
  BY <1>1 DEF IInv, PlaceInv
<1>4. Taken(i)' = Taken(i) /\ report = "none"
  BY <1>1, <1>2, <1>3 DEF Taken, StopsOf
<1>5. StopsOf(i)'
  BY <1>1, <1>2, <1>3, <1>4 DEF StopsOf, StopDue, Foreign
<1>6. CallsOf(i)'
  BY <1>1, <1>2, <1>3, <1>4 DEF CallsOf, Entered, Returned
<1> QED  BY <1>1, <1>2, <1>3, <1>5, <1>6 DEF Traced

\* Fewer than five signals have been sent, so the SIGSTOP was one of the five stops.
LEMMA DetachSession ==
    ASSUME SInv, Calm, Calm', NEW i \in Injectors, Detach(i) PROVE SessionInv'
<1> USE DEF SInv, SessionInv
<1>1. /\ ipc[i] = "prepare" /\ stage[i] = 5 /\ tracer' = NoInjector /\ ~ stopped'
      /\ ipc' = [ipc EXCEPT ![i] = "done"] /\ pending' = pending
  <2>1. stage[i] = 5  BY StagesInOrder DEF Detach, IInv, PlaceInv
  <2> QED  BY <2>1 DEF Detach, Calm
<1>2. /\ StopsOf(i) /\ \A j \in Injectors : j # i => ipc[j] \notin Active
  BY <1>1, OneAtWork DEF Active
<1>3. \A j \in Injectors : ipc'[j] \notin Active
  BY <1>1, <1>2 DEF IInv, PlaceInv, Active
<1>4. "SIGSTOP" \notin pending
  <2>1. Taken(i) = 5 /\ Foreign = 0
    BY <1>1, <1>2, SignalsCounted DEF Taken, Foreign, StopsOf
  <2>2. Cardinality(sent) < 5  BY FiveStages DEF Calm, FewSignals
  <2>3. StopDue => 5 <= Cardinality(sent \ pending)  BY <1>2, <2>1 DEF StopsOf
  <2> QED  BY <2>2, <2>3, SignalsCounted DEF StopDue
<1> QED  BY <1>1, <1>3, <1>4

LEMMA SessionKept == ASSUME SInv, [Next]_vars, IInv' PROVE SessionInv'
<1> SUFFICES ASSUME Calm' PROVE SessionInv'  BY DEF SessionInv
<1>1. Calm  BY CalmBefore DEF Calm
<1>2. CASE UNCHANGED vars
  <2>1. UNCHANGED <<alive, tracer, stopped, report, pending, regs, ipc, stage, sent, absorbed,
                    mishap, completed>>
    BY <1>2 DEF vars, targetVars, injectorVars, historyVars
  <2>2. \A i \in Injectors : StopsOf(i)' = StopsOf(i) /\ CallsOf(i)' = CallsOf(i)
    BY <2>1 DEF StopsOf, CallsOf, Taken, StopDue, Foreign, Entered, Returned
  <2> QED  BY <1>1, <2>1, <2>2 DEF SInv, SessionInv, Traced
<1>3. CASE TargetStep \/ CallFaults
  BY <1>1, <1>3, FaultAtBadAddressSession, CallReturnsSession, DeliverSession,
     CallFaultsSession DEF TargetStep
<1>4. ~ Killed  BY DEF Killed, Calm
<1>5. ASSUME NEW s \in Signals, SendSignal(s) PROVE SessionInv'
  BY <1>1, <1>5, SendSignalSession
<1>6. ASSUME NEW i \in Injectors, InjectorStep(i) PROVE SessionInv'
  BY <1>1, <1>6, AttachSession, WaitForSignalSession, PrepareSession, ContSession,
     DetachSession DEF InjectorStep
<1>7. ASSUME NEW i \in Injectors PROVE ~ InjectorKilled(i)
  BY DEF InjectorKilled, Calm, NoneKilled, SInv, IInv, PlaceInv
<1> QED  BY <1>2, <1>3, <1>4, <1>5, <1>6, <1>7 DEF Next

\* What a session that has ended did stays done; the one that ends at the detach comes
\* from its fifth stop, at which the last call has returned.
LEMMA HookRunsKept == ASSUME SInv, [Next]_vars PROVE HookRuns'
<1> SUFFICES ASSUME NEW j \in Injectors, NoneKilled', FewSignals', ipc'[j] = "done",
                    absorbed'[j] <= 1, ~ mishap'[j]
             PROVE  completed'[j] = Calls
  BY DEF HookRuns
<1> USE DEF SInv
<1>1. NoneKilled /\ FewSignals  BY CalmBefore
<1>2. CASE Detach(j) /\ ipc[j] # "done"
  <2>1. /\ alive /\ ipc[j] = "prepare" /\ stage[j] = 5
        /\ UNCHANGED <<absorbed, mishap, completed>>
    <3>1. ipc'[j] # "exited"  OBVIOUS
    <3>2. alive  BY <1>2, <3>1 DEF Detach, Exit, IInv, PlaceInv
    <3> QED  BY <1>2, <3>2, StagesInOrder DEF Detach, IInv, PlaceInv, historyVars
  <2>2. CallsOf(j)  BY <1>1, <2>1 DEF SessionInv, Calm, Active
  <2>3. Returned(j, 4)  BY <2>1, <2>2 DEF CallsOf
  <2> QED  BY <2>1, <2>3 DEF Returned, HistoryInv
<1>3. CASE ipc[j] = "done"
  <2>1. tracer # j  BY <1>3, NoInjectorAssumption DEF IInv, TracerInv, Traced, Active
  <2>2. ASSUME NEW yes, Mishap(yes) PROVE ~ mishap[j]
    BY <2>1, <2>2 DEF Mishap
  <2>3. ASSUME NEW i \in Injectors, WaitForSignal(i)
        PROVE  absorbed'[j] = absorbed[j] /\ completed'[j] = completed[j] /\ ~ mishap[j]
    BY <1>3, <2>2, <2>3 DEF WaitForSignal, HistoryInv
  <2>4. CASE CallReturns
    <3>1. completed'[j] = completed[j]  BY <2>1, <2>4 DEF CallReturns, HistoryInv
    <3>2. ~ mishap[j] /\ absorbed' = absorbed  BY <2>2, <2>4 DEF CallReturns
    <3> QED  BY <1>1, <1>3, <3>1, <3>2 DEF HookRuns
  <2>5. CASE CallFaults
    <3>1. ~ mishap[j] /\ absorbed' = absorbed /\ completed' = completed
      BY <2>2, <2>5 DEF CallFaults
    <3> QED  BY <1>1, <1>3, <3>1 DEF HookRuns
  <2>6. CASE \E i \in Injectors : WaitForSignal(i)
    BY <1>1, <1>3, <2>3, <2>6 DEF HookRuns
  <2>7. CASE UNCHANGED <<absorbed, mishap, completed>>
    BY <1>1, <1>3, <2>7 DEF HookRuns
  <2> QED
    BY <2>4, <2>5, <2>6, <2>7 DEF Next, vars, targetVars, injectorVars, historyVars, TargetStep,
       SendSignal, Deliver, FaultAtBadAddress, Killed, InjectorStep, InjectorKilled, Attach,
       Prepare, SaveAndTrap, ptrace_dlopen, ptrace_dlsym, ptrace_call, DeadAtStop, AtStop, Cont,
       Detach
<1>4. ipc[j] = "done" \/ Detach(j)
  <2> SUFFICES ASSUME ipc[j] # "done" PROVE Detach(j)  OBVIOUS
  <2>1. ASSUME NEW i \in Injectors, NEW to, ipc' = [ipc EXCEPT ![i] = to], to # "done"
        PROVE  FALSE
    BY <2>1 DEF IInv, PlaceInv
  <2>2. ASSUME NEW i \in Injectors, Detach(i), i # j PROVE FALSE
    BY <2>2 DEF Detach, Exit, IInv, PlaceInv
  <2> QED
    BY <2>1, <2>2 DEF Next, vars, targetVars, injectorVars, historyVars, TargetStep, SendSignal,
       Deliver, FaultAtBadAddress, CallReturns, CallFaults, Killed, InjectorStep,
       InjectorKilled, Attach, WaitForSignal, Prepare, SaveAndTrap, ptrace_dlopen,
       ptrace_dlsym, ptrace_call, DeadAtStop, AtStop, Cont, Exit
<1> QED  BY <1>2, <1>3, <1>4

LEMMA StepSInv == SInv /\ [Next]_vars => SInv'
<1> SUFFICES ASSUME SInv, [Next]_vars PROVE SInv'  OBVIOUS
<1>1. IInv'  BY StepIInv DEF SInv
<1> QED  BY <1>1, HistoryKept, SessionKept, HookRunsKept DEF SInv

LEMMA SessionInductive == Spec => []SInv
BY InitSInv, StepSInv, PTL DEF Spec

-----------------------------------------------------------------------------

\* Unless an inj is killed, the application's main thread goes on with the registers
\* it was interrupted with.
THEOREM RegistersRestored == Spec => []ResumesWhereInterrupted
<1>1. IInv => ResumesWhereInterrupted
  BY DEF IInv, RegsInv, ResumesWhereInterrupted
<1> QED  BY <1>1, Inductive, PTL

\* Unless an inj is killed, no bad address it planted brings the application down.
THEOREM NoCrash == Spec => []InjectionDoesNotCrash
<1>1. IInv => InjectionDoesNotCrash  BY DEF IInv
<1> QED  BY <1>1, Inductive, PTL

\* Neither the application's frames nor the injector's own strings are overwritten.
THEOREM StackIsKept == Spec => []StackSurvives
<1>1. IInv => StackSurvives
  <2> SUFFICES ASSUME IInv PROVE FramesSurvive /\ ArgumentsSurvive
    BY DEF StackSurvives
  <2>1. CASE Traced
    <3>1. tracer \in Injectors /\ ipc[tracer] \in Active
      BY <2>1 DEF IInv, PlaceInv, TracerInv, Traced
    <3>2. \A k \in DOMAIN pushed[tracer] : regs.sp <= pushed[tracer][k].addr
      BY <3>1 DEF IInv, StackInv
    <3> QED  BY <2>1, <3>2 DEF IInv, ArgumentsSurvive
  <2>2. CASE ~ Traced
    <3>1. (IF Traced THEN pushed[tracer] ELSE <<>>) = <<>>  BY <2>2
    <3>2. DOMAIN (IF Traced THEN pushed[tracer] ELSE <<>>) = {}  BY <3>1
    <3> QED  BY <3>2 DEF IInv, ArgumentsSurvive
  <2> QED  BY <2>1, <2>2
<1> QED  BY <1>1, Inductive, PTL

\* Types of the target, the kernel's records of it and the injectors.
THEOREM TypeCorrect == Spec => []TypeOK
<1>1. SInv => TypeOK
  <2> SUFFICES ASSUME SInv PROVE TypeOK  OBVIOUS
  <2>1. pending \subseteq Signals \cup {"SIGSTOP"}  BY DEF SInv, HistoryInv
  <2> QED  BY <2>1, FiveStages DEF SInv, IInv, FrameInv, PlaceInv, HistoryInv, TypeOK
<1> QED  BY <1>1, SessionInductive, PTL

\* An injection that ends at its detach has had dlopen, dlsym and hook run to their ends,
\* unless dlopen failed, a call faulted or signals of others took more than one stop.
THEOREM HookIsRun == Spec => []HookRuns
<1>1. SInv => HookRuns  BY DEF SInv
<1> QED  BY <1>1, SessionInductive, PTL

\* With fewer than five signals of others no injection leaves the application stopped, or
\* about to be.
THEOREM LeftRunning == Spec => []NotLeftStopped
<1>1. SInv => NotLeftStopped  BY DEF SInv, SessionInv, Calm, NotLeftStopped
<1> QED  BY <1>1, SessionInductive, PTL

=============================================================================
