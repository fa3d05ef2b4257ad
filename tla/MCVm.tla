-------------------------------- MODULE MCVm --------------------------------
(***************************************************************************)
(* Parts of the virtual machine that the hook is compiled with, which      *)
(* share no state here, each checked for itself on a small instance: a     *)
(* behaviour is a behaviour of one of them, named by part, while the       *)
(* others stay as they begin.                                              *)
(***************************************************************************)
EXTENDS MCGC, InterpStack, Packets, FieldAccess, TLC

VARIABLE part

\* A method whose registers are its arguments, and one that has a local and calls others.
TestMethods == [registers |-> 1 :> 1 @@ 2 :> 2, ins |-> 1 :> 1 @@ 2 :> 1, outs |-> 1 :> 0 @@ 2 :> 1]
TwoRegisters == TestMethods.registers
TwoIns == TestMethods.ins
TwoOuts == TestMethods.outs

\* Fields of each width next to each other.
TestObject == [instance |-> 8 :> "z" @@ 12 :> "b" @@ 16 :> "j" @@ 24 :> "c" @@ 28 :> "i" @@ 32 :> "d",
               static |-> 1 :> "s"]
InstanceFields == TestObject.instance
StaticFields == TestObject.static

VmInit ==
    /\ part \in {"gc", "stack", "packets", "fields"}
    /\ GCInit
    /\ StackInit
    /\ PacketsInit
    /\ FieldInit

VmNext ==
    \/ part = "gc" /\ GCNext
       /\ UNCHANGED <<part, stackVars, packetVars, fieldVars>>
    \/ part = "stack" /\ StackNext
       /\ UNCHANGED <<part, gcVars, packetVars, fieldVars>>
    \/ part = "packets" /\ PacketsNext
       /\ UNCHANGED <<part, gcVars, stackVars, fieldVars>>
    \/ part = "fields" /\ FieldNext
       /\ UNCHANGED <<part, gcVars, stackVars, packetVars>>

VmSpec == VmInit /\ [][VmNext]_<<part, gcVars, stackVars, packetVars, fieldVars>>

\* Each part keeps to its types: ranges of indices, counters and addresses.
VmTypeOK == GCTypeOK /\ StackTypeOK /\ PacketsTypeOK /\ FieldTypeOK
=============================================================================
