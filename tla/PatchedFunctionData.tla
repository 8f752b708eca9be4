------------------------- MODULE PatchedFunctionData -------------------------
(****************************************************************************)
(* The objects of src/source/PatchedFunctionData.cpp: one per registered    *)
(* function replacement.                                                    *)
(*                                                                          *)
(* An object is named by its address, which is also the handle the client   *)
(* gets (getHandle) and, in memory, the word that jumps to its replacement  *)
(* (replaceWithInstruction): an object that was freed may be allocated      *)
(* again under the same name.  Effective and physical address are one.      *)
(****************************************************************************)
EXTENDS FunctionAddressProvider

CONSTANTS
  Objects,     \* the memory for objects and their jump code
  Titles,      \* the applications
  Targets      \* the replacements a client may ask for

(* A target: which function, for whom.                                      *)
(*   "library"     by name in a module of the table (module)                *)
(*   "executable"  by name or offset in any module, for some titles only    *)
(*   "address"     LIBRARY_OTHER, at an address the client gives (addr)     *)
TargetKinds == {"library", "executable", "address"}

ASSUME TargetsAssumption ==
  \A tg \in Targets :
    /\ tg \in [kind : TargetKinds, module : Modules \union {NULL},
               titles : SUBSET Titles, addr : Addrs \union {NULL}]
    /\ tg.kind = "library" => tg.module \in Libraries
    /\ tg.kind = "executable" => tg.module \in Modules
    /\ (tg.kind = "address") <=> (tg.addr # NULL)

ASSUME NullObjectAssumption == NULL \notin Objects \union Titles
ASSUME WordsAssumption == Objects \intersect Modules = {}

\* What the word at the start of a function can be: the jump of an object, the
\* first instruction the loader put there for a module, or nothing (0).
Words == Objects \union Modules \union {NULL}

VARIABLES
  data,        \* data[o]: the object o, NULL while it is not allocated
  title        \* the running application (OSGetTitleID), NULL between two

ObjectRecords ==
  [target : Targets, isPatched : BOOLEAN, address : Addrs \union {NULL},
   replaced : Words]

ASSUME NullRecordAssumption == NULL \notin ObjectRecords
------------------------------------------------------------------------------
Allocated == {o \in Objects : data[o] # NULL}

\* make_shared_v2 and make_shared_v3: a new object, not patched.
MakeShared(tg) ==
  [target |-> tg, isPatched |-> FALSE, address |-> tg.addr, replaced |-> NULL]

\* shouldBePatched: a replacement for an executable is for given titles.
ShouldBePatched(o) ==
  data[o].target.kind = "executable" => title \in data[o].target.titles

\* Where the target of o is now, NULL if that cannot be told.
\* (getAddressForExecutable, getEffectiveAddressOfFunction, given address)
CurrentAddress(o) ==
  LET tg == data[o].target
  IN  CASE tg.kind = "executable" -> place[tg.module]
        [] tg.kind = "library"    -> GetEffectiveAddressOfFunction(tg.module)
        [] tg.kind = "address"    -> tg.addr

\* updateFunctionAddresses when it finds the function ...
UpdateFunctionAddresses(o) == [data EXCEPT ![o].address = CurrentAddress(o)]

\* ... and what it does to the handle table, whether it finds it or not.
HandlesAfterUpdate(o) ==
  IF data[o].target.kind = "library" THEN CacheHandle(data[o].target.module)
                                     ELSE handle

\* The destructor: the object and its jump code are free.
Destroy(o) == [data EXCEPT ![o] = NULL]
==============================================================================
