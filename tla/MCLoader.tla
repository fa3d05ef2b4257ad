------------------------------ MODULE MCLoader ------------------------------
(***************************************************************************)
(* Small instances of Loader for TLC.                                      *)
(***************************************************************************)
EXTENDS Loader, TLC
CONSTANTS d1, d2, d3, d4, d5

\* A complete apk, one without a class for the chain, one whose class for the
\* chain has another constructor, one without the class to call and one without
\* its method.
ApkContents ==
    d1 :> Parts @@ d2 :> Parts \ {"proxy"} @@ d3 :> Parts \ {"constructor"}
        @@ d4 :> Parts \ {"target"} @@ d5 :> Parts \ {"method"}
Apks == ApkContents
=============================================================================
