-------------------------- MODULE MCFunctionPatcher --------------------------
(****************************************************************************)
(* Small instances of FunctionPatcher.  coreinit is resident; gx2 and       *)
(* nsysnet come and go, with their applications and in them.                *)
(****************************************************************************)
EXTENDS FunctionPatcher, TLC

CONSTANTS coreinit, gx2, nsysnet, low, high, mid, menu, app

LibraryTarget(m) == [kind |-> "library", module |-> m, titles |-> {}, addr |-> NULL]
ExecutableTarget(m, ts) == [kind |-> "executable", module |-> m, titles |-> ts, addr |-> NULL]
AddressTarget(a) == [kind |-> "address", module |-> NULL, titles |-> {}, addr |-> a]

MCResident == coreinit :> low
NoResident == [m \in {} |-> NULL]

Gx2Only == {LibraryTarget(gx2)}
TwoLibraries == {LibraryTarget(gx2), LibraryTarget(nsysnet)}

\* No replacement for some titles only of a function that is always in memory.
SeparateTargets ==
  {LibraryTarget(coreinit), AddressTarget(low), LibraryTarget(gx2),
   ExecutableTarget(gx2, {app})}

\* Such a replacement, and one for every title.
MixedTargets == {LibraryTarget(coreinit), ExecutableTarget(coreinit, {app})}

CoreinitOnly == {LibraryTarget(coreinit)}
Gx2Targets == {LibraryTarget(gx2), ExecutableTarget(gx2, {app})}

ObjectSymmetry == Permutations(Objects)
Symmetry == Permutations(Objects) \union Permutations(Threads)
\* Where no module is resident, addresses are alike, and so are two libraries:
\* the row GetTypeForHandle chooses is the only one while notify holds.
FullSymmetry == Symmetry \union Permutations(Addrs) \union Permutations(Libraries)
==============================================================================
