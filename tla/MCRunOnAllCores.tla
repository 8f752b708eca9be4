--------------------------- MODULE MCRunOnAllCores ---------------------------
(****************************************************************************)
(* Small instances of RunOnAllCores.                                        *)
(****************************************************************************)
EXTENDS RunOnAllCores, TLC

CONSTANTS o1, o2, t1, t2

\* The threads of an application run on its main core, or on another one.
MCHome == t1 :> 1 @@ t2 :> 0

BlockSymmetry == Permutations(Blocks)
==============================================================================
