---------------------------- MODULE MCInvokeDex ----------------------------
(***************************************************************************)
(* Small instances of InvokeDex for TLC.                                   *)
(***************************************************************************)
EXTENDS InvokeDex, TLC

\* Places on the stack and class objects are interchangeable.
Symmetry == Permutations(Addresses) \cup Permutations(Classes)

\* Callers do not touch the table: they run only while it cannot be overrun.  At rest
\* they leave no trace, so both halves of the state space are complete.
CallersOrOverrun ==
    Cardinality(Places) > SIZE => \A c \in Callers : callerPc[c] = "idle"
=============================================================================
