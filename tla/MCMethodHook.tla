---------------------------- MODULE MCMethodHook ----------------------------
(***************************************************************************)
(* Small instances of MethodHook for TLC.                                  *)
(***************************************************************************)
EXTENDS MethodHook, TLC
CONSTANTS t1, t2, g1, g2

\* One injected dex: both installers go through the same HookManager class.
OneManager == t1 :> g1 @@ t2 :> g1
=============================================================================
