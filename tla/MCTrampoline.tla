----------------------------- MODULE MCTrampoline -----------------------------
(****************************************************************************)
(* Instances of Trampoline: functions and replacements on both sides of the *)
(* border of what a branch reaches, and at it.                              *)
(****************************************************************************)
EXTENDS Trampoline

Functions == {Reach - 4096, Reach - 8, Reach - 4, Reach + 65532, 3 * 2^26 + 4}
Replacements == {Reach - 512, Reach + 16, 7 * 2^25 + 65536}

PatchesWith(rs) ==
  [real : Functions, replacement : Replacements, targetProcess : {0, 2, 5, 15, 16},
   sets : rs]

\* An instruction that computes in the registers a long jump uses is replaced
\* only where the original is near.
SafePatches ==
  {p \in PatchesWith(Registers) : KeepsLinkage(p)}

LinkagePatches == PatchesWith({"r11"})

MCjumpData == 2^23 + 4096
MCjumpToOriginal == 2^23 + 8192
MCUpidWord == 2^28 + 65536 + 32
==============================================================================
