----------------------- MODULE FunctionAddressProvider -----------------------
(****************************************************************************)
(* The RPL handle cache of src/source/FunctionAddressProvider.cpp, together *)
(* with the view the code has of the operating system's loader.             *)
(*                                                                          *)
(* A module (RPL or RPX) has one function that can be patched.  The address *)
(* of that function stands for the load address of the module, and so for   *)
(* the handle OSDynLoad gives of it: two modules have different handles     *)
(* while both are loaded, and a handle may be given again later.            *)
(****************************************************************************)
CONSTANTS
  Modules,     \* the RPLs and RPXs the loader may place in memory
  Libraries,   \* the modules that have a row in the table rpl_handles
  Addrs,       \* the addresses where the function of a module may be
  NULL         \* nullptr, address 0

ASSUME LibrariesAssumption == Libraries \subseteq Modules
ASSUME NullAddressAssumption == NULL \notin Addrs \union Modules

VARIABLES
  place,       \* place[m]: the address of m's function, NULL if m is not loaded
  handle       \* handle[l]: the column "handle" of l's row in rpl_handles
------------------------------------------------------------------------------
(* OSDynLoad, external.                                                     *)

\* OSDynLoad_IsModuleLoaded: the handle of a loaded module.
IsModuleLoaded(l) == place[l]

\* OSDynLoad_FindExport finds the function only through a handle that is l's
\* now: no other module exports it.
FindExport(h, l) == IF h # NULL /\ h = place[l] THEN h ELSE NULL

------------------------------------------------------------------------------
\* The table at first: a row for every library, with no handle.
RplHandles == [l \in Libraries |-> NULL]

\* The handle the lookup of l uses: the cached one, or the loader's.
RplHandle(l) == IF handle[l] = NULL THEN IsModuleLoaded(l) ELSE handle[l]

\* The address of l's function, NULL when it cannot be told.
GetEffectiveAddressOfFunction(l) == FindExport(RplHandle(l), l)

\* The lookup has the loader write the handle straight into the table.
CacheHandle(l) == [handle EXCEPT ![l] = RplHandle(l)]

\* The rows that hold handle h.  (The code takes the first one.)
RowsOf(h) == {l \in Libraries : handle[l] = h}

\* The library whose row holds h, NULL (LIBRARY_OTHER) if there is none.
GetTypeForHandle(h) ==
  IF RowsOf(h) = {} THEN NULL ELSE CHOOSE l \in Libraries : handle[l] = h

\* Slips a run has to notice: a table that is not cleared.
ResetHandleForgotten(h) == handle
ResetHandlesForgotten == handle

\* The table after the row that holds h was cleared.
ResetHandle(h) ==
  [l \in Libraries |-> IF l = GetTypeForHandle(h) THEN NULL ELSE handle[l]]

\* The table after every row was cleared.
ResetHandles == [l \in Libraries |-> NULL]
==============================================================================
