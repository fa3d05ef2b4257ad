----------------------------- MODULE InterpStack -----------------------------
(***************************************************************************)
(* The interpreted stack of a thread (interp/Stack.h), which grows down:   *)
(* frames of registers with a save area of VM-specific goop below each,    *)
(* the outs of a caller being the ins of its callee.  hookMethod           *)
(* (Proxy.cpp) changes the sizes that frames are made from while frames of *)
(* the method may be on the stack.                                         *)
(*                                                                         *)
(* The words of the stack are numbers: a value in a register, the address  *)
(* of a frame or the number of a method.  hookMethod is one step here;     *)
(* MethodHook takes it apart.                                              *)
(***************************************************************************)
EXTENDS Integers, Sequences

CONSTANTS
    Methods,                            \* numbers, 0 being NoFP
    Registers, Ins, Outs,               \* their sizes before any is hooked
    StackSize, STACK_OVERFLOW_RESERVE,  \* in words
    Computed                             \* what programs compute with

ASSUME StackAssumption ==
    /\ Methods \subseteq 1 .. 9
    /\ Registers \in [Methods -> Nat] /\ Ins \in [Methods -> Nat] /\ Outs \in [Methods -> Nat]
    /\ \A m \in Methods : Ins[m] <= Registers[m]
    /\ StackSize \in Nat \ {0} /\ STACK_OVERFLOW_RESERVE \in Nat
    /\ Computed \subseteq Nat

\* The words of struct StackSaveArea.
SaveAreaSize == 5
prevFrame == 0
savedPc == 1
method == 2
localRefCookie == 3   \* or currentPc
returnAddr == 4

\* Stack addresses; the start of the stack is the highest, past the last word.
interpStackStart == StackSize + STACK_OVERFLOW_RESERVE

\* The copy hookMethod keeps of a method.
Copy(m) == m + 10
Copies == {Copy(m) : m \in Methods}

VARIABLES
    stack,             \* the words
    curFrame,          \* frame pointer, or NoFP
    interpStackEnd,    \* the limit; "flexes for StackOverflowError"
    stackOverflowed,
    sizes,             \* of each method: registersSize, insSize, outsSize, native
    frames             \* history: the frames, first to last, as they were pushed

stackVars == <<stack, curFrame, interpStackEnd, stackOverflowed, sizes, frames>>

NoFP == 0
Words == 0 .. (interpStackStart - 1)

Original(m) == [registersSize |-> Registers[m], insSize |-> Ins[m], outsSize |-> Outs[m],
                native |-> FALSE]

StackTypeOK ==
    /\ \A a \in Words : stack[a] \in Nat
    /\ curFrame \in Words
    /\ interpStackEnd \in {0, STACK_OVERFLOW_RESERVE}
    /\ stackOverflowed \in BOOLEAN
    /\ \A m \in Methods : sizes[m].registersSize \in Nat /\ sizes[m].native \in BOOLEAN
    /\ \A k \in DOMAIN frames : frames[k].fp \in Words /\ frames[k].native \in BOOLEAN

StackInit ==
    /\ stack = [a \in Words |-> 0]
    /\ curFrame = NoFP
    /\ interpStackEnd = STACK_OVERFLOW_RESERVE
    /\ stackOverflowed = FALSE
    /\ sizes = [m \in Methods \cup Copies |->
                  Original(IF m \in Methods THEN m ELSE CHOOSE n \in Methods : Copy(n) = m)]
    /\ frames = <<>>

SAVEAREA_FROM_FP(fp) == fp - SaveAreaSize
FP_FROM_SAVEAREA(save) == save + SaveAreaSize

OUTS_FROM_FP(fp, argCount) == SAVEAREA_FROM_FP(fp) - argCount

MethodAt(fp) == stack[SAVEAREA_FROM_FP(fp) + method]
dvmIsBreakFrame(fp) == MethodAt(fp) = NoFP

TopFrame == frames[Len(frames)]
Executing == curFrame # NoFP
Hooked(m) == m \in Methods /\ sizes[m].native

\* The words of a save area written.
Save(s, fp, prev, m) ==
    [s EXCEPT ![SAVEAREA_FROM_FP(fp) + prevFrame] = prev,
              ![SAVEAREA_FROM_FP(fp) + method] = m]

\* Values put into the words from a on.
Put(s, a, values) ==
    [b \in Words |-> IF b \in a .. (a + Len(values) - 1) THEN values[b - a + 1] ELSE s[b]]

RegistersIn(s, fp, n) == [i \in 1 .. n |-> s[fp + i - 1]]

\* A frame for m below one that ends at address a, as the sizes of m are now.
Frame(a, m) == a - sizes[m].registersSize
Bottom(fp, m) == SAVEAREA_FROM_FP(fp) - sizes[m].outsSize

Pushed(s, fp, m, passed) ==
    /\ stack' = s
    /\ curFrame' = fp
    /\ frames' = Append(frames, [fp |-> fp, method |-> m, arguments |-> passed,
                                 native |-> sizes[m].native,
                                 registers |-> RegistersIn(s, fp, sizes[m].registersSize)])
    /\ UNCHANGED <<interpStackEnd, stackOverflowed, sizes>>

-----------------------------------------------------------------------------
(* What libdvm.so does with the stack.                                     *)

\* An invoke instruction: registers of the caller go to its outs.
InvokeMethod(m) ==
    /\ Executing /\ ~TopFrame.native
    /\ sizes[TopFrame.method].outsSize >= sizes[m].insSize \/ Hooked(TopFrame.method)
    /\ Len(TopFrame.registers) >= sizes[m].insSize
    /\ LET n == sizes[m].insSize
           outs == OUTS_FROM_FP(curFrame, n)
           fp == Frame(SAVEAREA_FROM_FP(curFrame), m)
       IN /\ Bottom(fp, m) >= interpStackEnd
          /\ Pushed(Save(Put(stack, outs, SubSeq(TopFrame.registers, 1, n)), fp, curFrame, m),
                    fp, m, SubSeq(TopFrame.registers, 1, n))

\* A call by the VM or native code: a break frame and one for the method itself.
CallFromVM(m, arg) ==
    /\ m \in Methods \/ \E n \in Methods : m = Copy(n) /\ Hooked(n)
    /\ LET base == IF Executing THEN SAVEAREA_FROM_FP(curFrame) ELSE interpStackStart
           fp == Frame(SAVEAREA_FROM_FP(base), m)
           ins == fp + sizes[m].registersSize - sizes[m].insSize
           passed == [i \in 1 .. sizes[m].insSize |-> arg]
       IN /\ Bottom(fp, m) >= interpStackEnd
          /\ Pushed(Put(Save(Save(stack, base, curFrame, NoFP), fp, base, m), ins, passed),
                    fp, m, passed)

\* The frame before the one at fp, with no regard to break frames.
CallerOf(fp) ==
    LET prev == stack[SAVEAREA_FROM_FP(fp) + prevFrame]
    IN IF dvmIsBreakFrame(prev) THEN stack[SAVEAREA_FROM_FP(prev) + prevFrame] ELSE prev

\* A method returns, or lets an exception pass: its frame goes, and a break frame above.
\* What the words below then are is no concern of anybody's.
dvmPopFrame ==
    /\ Executing
    /\ LET caller == CallerOf(curFrame)
           top == IF caller = NoFP THEN interpStackStart ELSE SAVEAREA_FROM_FP(caller)
       IN /\ curFrame' = caller
          /\ stack' = [a \in Words |-> IF a < top THEN 0 ELSE stack[a]]
    /\ frames' = SubSeq(frames, 1, Len(frames) - 1)
    /\ UNCHANGED <<interpStackEnd, stackOverflowed, sizes>>

\* An instruction writes a register.
SetRegister(i, n) ==
    /\ Executing /\ ~TopFrame.native /\ i \in DOMAIN TopFrame.registers
    /\ stack' = [stack EXCEPT ![curFrame + i - 1] = n]
    /\ frames' = [frames EXCEPT ![Len(frames)].registers[i] = n]
    /\ UNCHANGED <<curFrame, interpStackEnd, stackOverflowed, sizes>>

\* "Common handling for stack overflow": the reserve is made available once.
dvmHandleStackOverflow ==
    /\ Executing /\ ~stackOverflowed
    /\ \E m \in Methods : Bottom(Frame(SAVEAREA_FROM_FP(curFrame), m), m) < interpStackEnd
    /\ interpStackEnd' = interpStackEnd - STACK_OVERFLOW_RESERVE
    /\ stackOverflowed' = TRUE
    /\ UNCHANGED <<stack, curFrame, sizes, frames>>

AllFramesAbove(end) ==
    Executing => SAVEAREA_FROM_FP(curFrame) >= end

\* The error has been caught where the frames that are left fit again.
dvmCleanupStackOverflow ==
    /\ stackOverflowed
    /\ AllFramesAbove(interpStackEnd + STACK_OVERFLOW_RESERVE)
    /\ interpStackEnd' = interpStackEnd + STACK_OVERFLOW_RESERVE
    /\ stackOverflowed' = FALSE
    /\ UNCHANGED <<stack, curFrame, sizes, frames>>

\* Mutant: the size of the arguments as it was once computed, plus one.
OneTooMany(m) == sizes[m].insSize + 1

HookedSize(m) == sizes[m].insSize

\* hookMethod, by whatever thread, at whatever point of this one.
hookMethod(m) ==
    /\ m \in Methods /\ ~Hooked(m)
    /\ sizes' = [sizes EXCEPT ![m].registersSize = HookedSize(m), ![m].outsSize = 0,
                              ![m].native = TRUE]
    /\ UNCHANGED <<stack, curFrame, interpStackEnd, stackOverflowed, frames>>

StackNext ==
    \/ \E m \in Methods : InvokeMethod(m) \/ hookMethod(m)
    \/ \E m \in Methods \cup Copies, n \in Computed : CallFromVM(m, n)
    \/ \E i \in 1 .. StackSize, n \in Computed : SetRegister(i, n)
    \/ dvmPopFrame \/ dvmHandleStackOverflow \/ dvmCleanupStackOverflow

StackSpec == StackInit /\ [][StackNext]_stackVars

-----------------------------------------------------------------------------
(* Properties.                                                             *)

\* The frames pushed are those that following prevFrame leads to.
Chain ==
    /\ curFrame = IF frames = <<>> THEN NoFP ELSE TopFrame.fp
    /\ \A k \in DOMAIN frames :
         CallerOf(frames[k].fp) = IF k = 1 THEN NoFP ELSE frames[k - 1].fp

\* A walk down the stack, by a return, an unwinding exception or the collector, meets
\* the frames that were pushed and their methods, and the registers of each hold what
\* the method has put there, whatever has been called and hooked since.
FramesKept ==
    /\ Chain
    /\ \A k \in DOMAIN frames :
         LET f == frames[k]
         IN /\ MethodAt(f.fp) = f.method
            /\ RegistersIn(stack, f.fp, Len(f.registers)) = f.registers

\* A handler such as methodHookHandler gets a pointer to its frame and takes args[0] for
\* the first argument: a native frame has no locals below its ins.
HandlerSeesArguments ==
    \A k \in DOMAIN frames :
       frames[k].native =>
         RegistersIn(stack, frames[k].fp, Len(frames[k].arguments)) = frames[k].arguments

\* No frame reaches beyond the limit that is in force, which leaves the reserve free
\* for the next StackOverflowError.
ReserveKept ==
    \A k \in DOMAIN frames : SAVEAREA_FROM_FP(frames[k].fp) >= interpStackEnd

\* A method that is hooked while frames of it are on the stack, with other sizes then, does
\* not spoil them nor those of its later calls.
StackSound == FramesKept /\ HandlerSeesArguments /\ ReserveKept
=============================================================================
