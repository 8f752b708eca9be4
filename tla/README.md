# FunctionPatcherModule, specified in TLA+

FunctionPatcherModule is a module of the Aroma environment for the Wii U. Its
clients (plugins, other modules) register replacements for functions of system
libraries and of applications; it overwrites the first instruction of such a
function with a jump to the replacement, keeps the registrations over changes of
application, and takes them back. This directory holds a model of it, the model
checking runs, and machine-checked proofs. Line numbers are those of `src/`.

## 1. The system

### Components, their state and operations

| component | state | operations | code |
|---|---|---|---|
| registry and client calls | `gPatchedFunctions` (vector of shared pointers), `gPatchedFunctionsMutex` | `FPAddFunctionPatch`, `FPRemoveFunctionPatch`, `FPIsFunctionPatched`, `FPGetVersion` | `export.cpp`, `utils/globals.cpp` |
| patching | code memory | `PatchFunction`, `RestoreFunction`, `writeDataAndFlushIC` | `function_patcher.cpp` |
| callback and hooks | callback registered with the loader | `notify_callback`, application start and end, `CheckIfPatchedFunctionsAreStillInMemory`, module initialisation | `main.cpp` |
| patched function objects | target, flag `isPatched`, addresses, replaced word, jump code | `make_shared_v2/v3`, `updateFunctionAddresses`, `shouldBePatched`, code generation, destructor | `PatchedFunctionData.*` |
| RPL handle cache | `rpl_handles` | `getEffectiveAddressOfFunction`, `resetHandles`, `getTypeForHandle`, `resetHandle` | `FunctionAddressProvider.*` |
| symbol lookup | none (kernel tables) | `KernelFindExport` | `utils/KernelFindExport.*` |
| threads on every core | an OS thread and its stack | `runOnAllCores`, `resumeThread`, `shutdownThread` | `utils/CThread.h` |
| physical memory access, logging | - | `ReadFromPhysicalAddress`, log macros | `utils/utils.cpp`, `utils/logger.*` |

### How they interact

A client's thread calls the exports. `FPAddFunctionPatch` makes an object, calls
`PatchFunction` **without the mutex**, and appends the object under the mutex.
`FPRemoveFunctionPatch` holds the mutex throughout: it finds the object, undoes
the patches of the same address that were listed later (last to first), undoes
the one to remove, erases it, and calls `PatchFunction` for the others again.
The operating system calls `notify_callback`, in the thread that loads or
releases a module; on LOADED it calls `PatchFunction` for the whole list, on
UNLOADED it clears the flags of that library's patches, clears its cached
handle, and compares memory with the registry. When an application starts the
hook compares memory with the registry, calls `PatchFunction` for the whole list
and registers the callback; when it ends the handle cache is cleared. Modules of
an application that ends leave with no notice.

Patches of one function form a chain: each object keeps the word it replaced
(`jumpToOriginal` executes it), and that word may be the jump of an earlier patch.

### What is hard, and what makes each component correct

* *Chains and order.* The registry's order stands for the order of the patches.
  A removal is right only if that is so: from every function the original must
  stay reachable (`OriginalReachable`), and the replacement that runs first must
  be the one listed last (`LaterPatchesOnTop`).
* *Modules that come and go.* The flag `isPatched`, the handle cache and memory
  are three views of the loader's state, updated at different moments
  (`FlagsTellTruth`, `AllApplied`, `HandlesFresh`).
* *Threads.* Calls and callbacks interleave at every access to memory that is
  not under the mutex; a removal frees an object and its jump code
  (`NoUseAfterFree`, `RegistryExact`).
* *Blocking.* The callback takes the same mutex as the clients, in their
  threads, and patching joins threads that may never have been created
  (`EveryCallReturns`).
* *Generated code.* Two short programs, whose length depends on addresses, must lead
  to the right function and leave the original what its first instruction
  computed (`RightFunctionRuns`, `RunsAsUnpatched`, `FitsBuffer`).
* *Instruction caches.* Each core has its own, and invalidates only that. A jump is
  written through a thread on every core, one after the other, and leads into a
  piece of heap that another patch may have used (`PatchedOnEveryCore`,
  `ServedCoresRunRight`).
* *Memory that runs out.* A patch takes up to two pieces of the jump heap, and its
  threads two pieces each of the application's heap; any of them may fail
  (`JumpHeapExact`, `ThreadMemoryGivenBack`). A core without memory for its thread is
  passed over in silence; where no core writes, the patch is marked applied all the
  same (`OriginalReachable`).
* *Lookup.* Names end alike, tables hold imports, data and sections that are not
  in memory, branches go backwards, modules come and go between two calls
  (`BranchFollowed`, `FoundByName`, `FoundByOffset`, `StopsOnlyAfterUnload`,
  `LookupEnds`).
* *All of it together.* What a client is promised is a stack of replacements over
  each function (`ImplementsPatchStack`).

`PROJECT.json` lists the hazards line by line with the property for each.

## 2. Modules

| module | models |
|---|---|
| `FunctionAddressProvider` | the handle cache, and the loader as the code sees it |
| `PatchedFunctionData` | the objects: creation, selection, address update, destruction |
| `FunctionPatcher` | composes both: registry, mutex, memory, threads, client calls, callback and hooks; the properties; the inductive invariant |
| `PatchStack` | the abstract specification: a stack of replacements over the function of each module |
| `SerialUse` | no code of its own: `FunctionPatcher` under the discipline it is meant for (`Discipline`), and the invariant that holds then (`SerialInv`) |
| `RunOnAllCores` | below `FunctionPatcher`: jump heap, threads on every core and their memory, instruction caches |
| `AddressLookup` | one lookup: title and version, branch of an export, modules by offset, the loader's tables by name |
| `Trampoline` | the words `generateJumpToOriginal` and `generateReplacementJump` emit, and the processor that runs them |
| `MCFunctionPatcher`, `MCSerial`, `MCTrampoline`, `MCRunOnAllCores`, `MCAddressLookup` | small instances for TLC |
| `FunctionPatcherProofs`, `HandleCacheProofs`, `ReplacementChains`, `SerialUseProofs`, `PatchStackProofs`, `RunOnAllCoresProofs`, `AddressLookupProofs`, `TrampolineProofs` | the theorems and their proofs |

`FunctionPatcher` takes three things as given: the address, or none, that a lookup
finds; that a word some core has written is what every core sees; and a jump that leads
to the replacement. `AddressLookup`, `RunOnAllCores` and `Trampoline` each look into one
of them. Whether any core writes the word is not given: `SkipCore`.

### State of `FunctionPatcher`

| variable | code |
|---|---|
| `handle[l]` | column `handle` of `rpl_handles` (`FunctionAddressProvider.h`) |
| `place[m]` | where the loader has module `m` (external) |
| `data[o]` | the fields of the object at `o`; `NULL` while not allocated |
| `title` | `OSGetTitleID()`; `NULL` between two applications |
| `list` | `gPatchedFunctions` |
| `text[a]` | the word in memory at `a` |
| `notify` | `notify_callback` is registered |
| `lock` | the owner of `gPatchedFunctionsMutex` |
| `th[t]` | the call a thread is in, how far it is, its locals |

### Steps of the calls

Between two steps every other thread may run. One action is one access to shared
memory (`ReadInstruction`, `WriteOnCore`, `SetPatched`, `RestoreInstruction`), one
section that nothing the properties depend on can disturb, or one acquisition of the
mutex.

* `FPAddFunctionPatch` → `PatchFunction` (`SkipPatch` | `Unresolved` | `Resolve`,
  `ReadInstruction`, per core `WriteOnCore` | `SkipCore` | `JoinNeverReturns`,
  `SetPatched`) → `PushBack`. `SkipCore` is a core whose thread gets no memory
  (`CThread.h:37-45`); nobody is told, and the object is marked whatever the cores did
  (`function_patcher.cpp:89`). `served` is history: a core has written.
  `JoinNeverReturns` is memory for the thread and none for its stack
  (`CThread.h:121-126`): the thread stays there (`stuck`), with the mutex if it has it.
* `FPRemoveFunctionPatch` → `PatchNotFound` | `FindToBeRemoved` →
  (`SkipRestore` | `CheckInstruction`, `RestoreInstruction`) per object → `Erase`
  → (`PatchNext`, `PatchFunction`) per object → `FinishRemove`.
* `OSLoad` → `NotifyLoaded` → (`PatchNext`, `PatchFunction`) per object → `FinishLoaded`.
* `OSUnload` → `NotifyUnloaded`, one step: the callback is under the mutex from its
  first line to its last. `FPAddFunctionPatch` writes words and rows of the handle
  table without the mutex, so with two threads the real callback may see some of them
  before and some after such a write. The properties checked with two threads
  (`concurrent`, `liveness`) do not depend on which: they are about references, the
  registry, handles of modules and calls. Properties of words are checked with one.
* A removal counts `erasePosition` while it searches, before the restores, and uses it
  after them: it is a local of the thread (`position`).
* `ApplicationStarts` → (`PatchNext`, `PatchFunction`) per object → `FinishStart`;
  `ApplicationEnds`.

### Generated code

`Trampoline` stands beside `FunctionPatcher`, where a jump and the code it leads to
are one word: it says what that word does. A patch is a record of the function's
address, the replacement's, the process it is for, and the register its first
instruction sets. `GenerateJumpToOriginal` and `GenerateReplacementJump` are the
sequences of words, with numeric addresses, halves and branch distances as in the
code; the words are executed one per step, from a call of the function or from
the replacement's call of the original, until control leaves the generated code.
The `OSFatal` checks are the assumptions: the buffer is where a branch reaches it
(`PatchedFunctionData.cpp:307`), the buffers exist. Addresses are aligned, and the
parts of a patch do not overlap. The processes that run have the numbers 0 to 15
(`UpidsAssumption`), so none has the number that stands for two of them. r11, CTR and CR carry nothing into a call, so an
instruction that only reads them is not considered.

### The stack of replacements

`PatchStack` has three variables: `registered`, the replacements of all clients in
order; `present`, the modules in memory; `stack[m]`, the replacements over the
function of `m`, top first. A replacement is pushed over those registered before it,
popped from the top, and unregistered only when it is on no stack; modules come
with an empty stack and take theirs along. `FunctionPatcher` implements it under

    registered <- list,  present <- Loaded,  stack <- Stacks

where `Stacks[m]` is read off memory: the replacements a call of `m`'s function
runs, word after word through the jumps to the original. `WriteOnCore` is a push
(on the first core that gets a thread; the others stutter), `RestoreInstruction` a pop, `PushBack` and
`Erase` register and unregister, loading, unloading and the start and end of
applications change the modules, and everything else stutters.

### Patching through every core

`RunOnAllCores` has the state `FunctionPatcher` leaves out: the pieces of the jump
heap (`used`, `jumpData`, `jumpToOriginal`), whose code is in them (`code`), which
core may have older code cached (`old`), the word each core executes (`seen`), and
the memory of the threads (`threadMemory`). `skipped` and `served` are history: the
cores left out when a patch was written, and those that invalidated the present
word. Each object patches a function of its own.

* `FPAddFunctionPatch` → `AllocateJumpData`, `AllocateJumpToOriginal` (or
  `AllocationFails`) → `Generate` → per core, from the last to 0: `StartThread`, which
  gets both, one or none of the thread's two pieces of memory, `InvalidateCode`,
  `CopyWord`, `InvalidateWord`, `ShutdownThread` → `PushBack`.
* `FPRemoveFunctionPatch` → `RefuseRestore` | `RestoreWord`, `InvalidateRestored` →
  `Erase` → `FreeJumpToOriginal` → `FreeJumpData`; a failed creation ends in the last
  two as well.
* `DropWord`: a cache drops a line at any time.
* `JoinNeverReturns`: the constructor got `pThread` and no stack. `shutdownThread`
  tests `pThread` alone (`CThread.h:121`), so it asks about, and joins, a thread that
  was never created; what it finds in that memory is not known.

### One lookup

`AddressLookup` follows one `PatchFunction` from its start to an address, or to the
reason why there is none. The loops of `FindExportKernel` are taken one iteration a
step: `NextLoadedRpl`, `FindTextSection`, `NextSection`, `NextSymbol`. The loader works
between the calls (`Load`, `Unload`). `patch` is the description, `word` the instruction
at the export, `loaded` the loader's list; `rpl`, `section`, `symbol` are the loops'
variables. It ends `found`, `notFound`, `skipped` (another title or version), `unread`
(the loader's view was refused) or `stopped` (`OSFatal`).

* Names are sequences of parts, as the code compares ends of names; addresses and
  displacements are counted in words of four bytes.
* Section `i` of the model is section `i` of the file; the null section, which is
  never in memory, is left out. The string tables of what is in memory are in memory.
* A function's address is not 0, which is how the code tells that there is none.

### Abstractions

* A module has one function that can be patched, and its address stands for the
  load address and for the handle. Chains only form on one function, and handles
  are only compared.
* A word in memory is named by what it is: the jump of object `o`, the first
  instruction of module `m`, or 0. Two live objects have different jumps, as
  theirs lead to jump code of their own. This leaves out replacements of low
  addresses for every process, whose jump depends on the replacement alone:
  two patches with the same replacement then write the same word.
* The object, its handle and its jump code are one name, reused after it was
  freed, as the allocator does.
* Effective and physical addresses are one. In `FunctionPatcher` following a relative
  branch at the start of an export is part of where the function is, and the set
  `titles` of a target stands for title ids and version range; `AddressLookup` has
  both in full.
* `RunOnAllCores` takes data caches for coherent and what is flushed for written, and
  the operations of the jump heap for atomic (it is created without a lock,
  `main.cpp:116`). An allocation may fail at any time, as the heap may be in pieces.
* `OSFatal` paths end the program and are left out, as is a failing
  `ReadFromPhysicalAddress` (its own stack variable has no physical address).
* The mutex is recursive; it is entered twice only in
  `CheckIfPatchedFunctionsAreStillInMemory`, so an owner is enough.

### The environment

These assumptions are about code outside the repository, modelled from how it is
used; each one that is a choice is a constant.

* Hooks run while no thread of the application is in a call; an application ends
  when its threads are done (`Quiescent`, `MayCall`).
* `Resident`: modules that are always in memory at one place, as coreinit is.
* `TextLingers`: whether memory that was released may keep its contents. If so the check
  of `main.cpp:67` may take the leftovers of a module that is gone for a patch that is
  still applied; `serial` has such memory cleared.
* `LoaderInTurn`: whether the loader ends a notification before its next work.
  `HandlesFresh` needs it: otherwise a module may be loaded at an address whose
  UNLOADED callback still waits, two rows hold one handle, and `resetHandle`
  clears the first.
* `RemovalOrder`: whether a client may remove any patch or takes back the latest
  first. The code promises the first; `serial` checks the second because the
  first fails (`reapply`).
* `OSDynLoad_GetRPLInfo` is refused when fewer modules are loaded than asked for; where
  the loader puts a new module in its list is not known; the application's own module
  stays. The loader does not change its list while the system call that walks it
  runs (`LoaderRuns`): the code takes no lock.
* A lookup is one step, with the mutex or without (`FunctionAddressProvider.cpp:11-31`):
  the row of the table and what the loader knows are read, and the row written, at one
  moment. The table itself has no lock; this takes it that the loader does not load or
  unload the module between `OSDynLoad_IsModuleLoaded` and the write of the row.
  `HandlesFresh` rests on it.
* A lookup made under the mutex does not wait for the loader. If the loader held a lock
  of its own around its callbacks, which take the mutex, a removal that applies patches
  again (`export.cpp:113`) and a callback could wait for each other; what the loader
  locks is not in the repository. `EveryCallReturns` rests on this one.
* `SomeCoreServed`: whether one core at least gets memory for its thread whenever a
  function is patched. The code does not check it; `serial` assumes it, `concurrent` and
  `liveness` do not, and `thread_memory` shows what happens without it.
* `JoinsReturn`: whether to join a thread that was never created returns. Where it does,
  that core is one that was passed over (`SkipCore`). Only `liveness` lets it not return: a
  thread that stops takes no further step, so it adds nothing to the safety runs.
* The start hook works for two processes only (`main.cpp:157`): `upidMatches`.

## 3. Runs

| run | instance | properties | distinct states |
|---|---|---|---|
| `serial` | 1 thread, 3 objects, 2 modules, 3 addresses, 2 titles, 3 cores, one served at least, lifo | `OriginalReachable` `LaterPatchesOnTop` `FlagsTellTruth` `AllApplied` `WordsAreStacks` `ImplementsPatchStack` | 498 000 |
| `concurrent` | 2 threads, 2 objects, 2 modules, 2 addresses, 1 core, any order, loader in turn | `TypeOK` `NoUseAfterFree` `HandlesFresh` `RegistryExact` | 1 983 000 |
| `liveness` | 2 threads, 2 objects, 1 module, 2 cores, any order, joins that do not return, contents that stay | `EveryCallReturns` | 268 000 |
| `trampoline` | 5 functions, 3 replacements, 5 choices of process, 4 processes, 4 registers | `RightFunctionRuns` `RunsAsUnpatched` `FitsBuffer` | 10 800 |
| `cores` | 2 threads on 2 cores, 2 objects (one that needs no `jumpData`), 3 pieces of heap | `TypeOK` `PatchedOnEveryCore` `ServedCoresRunRight` `ThreadMemoryGivenBack` `JumpHeapExact` | 1 880 000 |
| `lookup` | 4 modules, at most 3 loaded, 2 titles, versions 0 to 2, 8 patches of executables, 80 of library functions | `TypeOK` `BranchFollowed` `FoundByName` `FoundByOffset` `StopsOnlyAfterUnload` `LookupEnds` | 622 000 |

**Bounds.** Three objects give a chain of three, so that the latest is removed from
above two and the next one from above the last; with three addresses a module can come back elsewhere while the
resident one stays. Two threads are enough for every pair of calls to
overlap, and two objects for one to be removed while another is added. The
number of cores only repeats the same write or its absence, so `concurrent` uses one,
which may write or not; `serial` has three, so that the first, the last or the one
between may be the only one to write. No
counter is cut off: the state is finite by itself. The addresses of `trampoline` lie on
both sides of the reach of a branch (0x02000000) and at it, where the function is
within reach and its second instruction is not.

In `cores`, three pieces of heap are what both objects need together, so each piece is
reused by the other object. Two cores give one that had its turn and one that did
not; three make the instance too large, and the proofs are for any number. In
`lookup` the names end alike ("game.rpx", "biggame.rpx", also as .rpl). One set of tables
has the function only in the last of three symbol tables, behind one that is not in
memory, an import and data of that name; another has two text sections and a third
that is not in memory; one module has no section names. Branches have the
displacements 0, 1, the two at the sign bit and -1, at both ends of the address space.
`MaxLoaded` and `MaxVersion` bound the loader's list and the versions.

**Symmetry** is used where all properties are safety properties: over objects and
threads, and in `concurrent`, where nothing is resident, over addresses and
libraries; in `cores` over the pieces of heap. `liveness` and `lookup`, which check
liveness, use none.

**Fairness** (`FairSpec`): a thread inside a call goes on (weak, on the steps that
need no lock), and a thread that waits for the mutex gets it if it is free again
and again (strong). The first is the scheduling of the system, where patching
threads have ordinary priority and nothing spins; the second is an assumption on
OSMutex, which queues its waiters. No client has to call anything. A thread that is
stuck in a join takes no step, and the liveness run may therefore stop
(`CHECK_DEADLOCK FALSE`): `EveryCallReturns` says that a call returns or is stuck itself,
or the owner of the mutex is. It does not say that every call returns, for in this code
one may not, with the mutex held.
`LookupEnds` assumes that the thread of the lookup goes on (weak, on `Lookup` as a
whole): the system calls of an attempt return. Nothing is assumed of the loader.

### Runs that refute what the code says of itself

| run | property | what it shows |
|---|---|---|
| `reapply` | `AllApplied` | `export.cpp:112` "Apply the other patches again" is never reached after a successful restore: `isPatched` was cleared at `function_patcher.cpp:140`. Patches above a removed one stay restored until the next module is loaded or the next application starts. |
| `title_order` | `OriginalReachable` | A patch for one title, registered first, is applied over a later one when its title starts. Removing the last listed is refused by `RestoreFunction`, but the object is erased and freed (`export.cpp:106-109`), and the other patch jumps into it. |
| `add_race` | `LaterPatchesOnTop` | Two threads adding patches of one function: the list has them in the other order (`export.cpp:46`, `:57`, relied on at `:85`). |
| `missed_load` | `AllApplied` | The module is loaded between the failed patch (`export.cpp:46`) and the `push_back` (`:57`): its notification does not see the patch. |
| `thread_memory` | `OriginalReachable` | No core gets memory for its thread (`CThread.h:37-45`), the patch is marked applied without having been written (`function_patcher.cpp:89`). The next check clears its flag and those of the patches below (`main.cpp:51-72`); the one below is applied again and keeps its own jump as the word it replaced: `jumpToOriginal` leads to itself. |
| `linkage` | `RunsAsUnpatched` | In a process that is not to run the replacement, the long jump to the original (`PatchedFunctionData.cpp:283`) overwrites r11 after the replaced instruction computed in it. |

Each is a serial or two-thread instance as small as shows it; the passing runs
check the same properties where these causes are excluded: `trampoline` replaces
instructions that compute in r11 or CTR only where the original is near.

## 4. Proofs

`FunctionPatcherProofs` proves, for any constants that satisfy the named
assumptions (any number of threads, objects, modules, addresses, titles, cores):

| theorem | statement |
|---|---|
| `Inductive` | `Spec => []IndInv` |
| `TypeCorrect` | `Spec => []TypeOK` |
| `MemorySafe` | `Spec => []NoUseAfterFree` |
| `MutualExclusion` | a thread is inside a locked function iff it owns the mutex; two never are |
| `RegistryChangesExactly` | `Spec => RegistryExact` |

*Argument.* `NoUseAfterFree` is not inductive: that `FinishRemove` frees nothing in
use depends on who may hold the object. `IndInv` adds it: the mutex is owned
exactly by the thread that is inside a function that took it (`MutexOwned`); each
thread's locals fit its step (`StepOfOp`); the owner works on listed objects only,
and the object it removes is listed until it is erased (`WorksOnOwn`); an object
that is being added is allocated, not listed, and in no other thread's hands
(`AddersApart`); the registry lists allocated objects once (`ListedOnce`). There is
one lemma per action; `OneThreadStep` reduces the steps of a thread that leave the
registry alone to what they change in its own state. `RegistryChangesExactly`
rests on `ErasePositionFinds`, the scan's count is the index of the object, and on
`RemoveAtProperties`. The assumptions are the shapes of constants (`NULL` is no
object, address or thread; resident modules do not overlap; targets are well
formed), evaluated by TLC in every run.

`HandleCacheProofs` proves what the loader, the hooks and the table of handles agree on:

| theorem | statement | hypothesis |
|---|---|---|
| `LoaderFollowed` | `Spec => []LoaderInv` | |
| `CacheFollowed` | `Spec => []CacheInv` | `InTurn` |
| `HandlesStayFresh` | `Spec => []HandlesFresh` | `InTurn` |

*Argument.* `HandlesFresh` looks only at moments when no callback is under way, so it
says nothing of the steps between. `LoaderInv` keeps who may be where: residents stay,
a callback under way means that the callback is registered, a hook runs alone.
`CacheInv` then says of every row, at every step, that its handle is none, or that of
the module loaded under the name, or the one a callback under way will clear. That
callback finds its row because no two rows hold one handle and nothing was loaded at
its address meanwhile; this is where `InTurn` is needed: the loader ends a notification
before its next work, or there is one thread only.

`SerialUseProofs`, on `ReplacementChains`, proves the properties of `serial` for any
number of objects, modules, addresses, titles and cores. Each theorem assumes
`Discipline`: one thread; the latest removed first; no contents left in released memory;
memory for a thread on one core at least whenever a function is patched (any others may
be passed over); patches by address only for functions that stay where they are; and
patches of such functions not for some titles only. Runs refute a property where one of
these is dropped (`add_race`, `missed_load`; `reapply`; `thread_memory`; `title_order`),
except two: with contents left in released memory `FlagsTellTruth` fails as section 2
says (`TextLingers`), and a patch by address of a function that is not always there is
written by the code to whatever is there. `MCSerial` evaluates `Discipline` for the instance of
`serial`.

| theorem | statement |
|---|---|
| `StackDiscipline` | `Spec => []WordsAreStacks` |
| `OriginalStaysReachable` | `Spec => []OriginalReachable` |
| `LaterStaysOnTop` | `Spec => []LaterPatchesOnTop` |
| `FlagsStayTrue` | `Spec => []FlagsTellTruth` |
| `AllStayApplied` | `Spec => []AllApplied` |
| `PatchStackImplemented` | `Spec => ImplementsPatchStack` |

*Argument.* Two of the invariants follow words through memory, the other two speak only
of moments when nothing is under way; none is inductive. `SerialInv(stk)` is: the words in memory
are the stacks `stk`, in the order of registration (`MemoryIs`); what is on a stack is
marked and what is marked is on a stack, but for the object in work (`FlagsFollow`);
what should be applied and is not is still to come, over all that is there
(`NoneForgotten`); where `PatchFunction` and `FPRemoveFunctionPatch` are
(`PatchingInOrder`, `RemovingLatest`). A replacement gets on its stack at the first core
that writes, which need not be the first core: `PatchingInOrder` tells by `served` whether
that was, and says that when no core is left one has written. It is stated for given stacks `stk`, so that a step
is an operation on sequences: one lemma per action shows that the stacks stay, get a
replacement on top, lose the top one, or go with their module (`Becomes`), and that
`SerialInv` holds of the new ones. That `stk` is what a call goes through (`StacksAre`)
is a fact about one state: `ChainIsStack` follows the words of a stack, and since the
chain is a recursive function that stops at the number of objects, a stack must not be
longer; it is not, as nothing is on it twice. With both, `WordsAreStacks` is `SerialInv`
of the stacks that are read off memory, and each of the four alternatives of `Becomes` is a
step of `PatchStack`, or a stutter (`BecomesIsStep`): the refinement.

`PatchStackProofs` proves `StacksInOrder`: in `PatchStack`, for any replacements and
modules, every replacement is registered once, every stack is in the order of
registration (so none is in it twice, and only the top may be one not registered
yet), and only modules in memory have one. It says what the refinement is worth.

`RunOnAllCoresProofs` proves all properties of `cores` for any number of cores,
threads, objects and pieces of heap:

| theorem | statement |
|---|---|
| `CoresInvariant`, `CoresTyped` | `Spec => []IInv`, `Spec => []TypeOK` |
| `PatchReachesCores` | `Spec => []PatchedOnEveryCore` |
| `ServedCoresAreRight` | `Spec => []ServedCoresRunRight` |
| `JumpHeapIsExact` | `Spec => []JumpHeapExact` |
| `ThreadMemoryIsGivenBack` | `Spec => []ThreadMemoryGivenBack` |

*Argument.* `IInv` says of each object in a thread's hands what it has at that
thread's step: its pieces of heap, its code in them, and for each core whether its
turn has come. A step works on one object and its pieces: `OtherObjectsKeep` and
`OtherCallsKeep` show once that what holds of the others stays, given that the pieces
of two objects are apart; each action's lemma is then about its own object. That a
core which was served does not run old code of a reused piece needs two facts: it
invalidated the piece before the word was copied, and the piece is not given out
again while a word in memory leads to it.

`AddressLookupProofs` proves all safety properties of `lookup` for any modules, tables
and patches: `LookupInvariant`, `LookupTyped`, `LibraryFunctionIsFound`, `NameIsFound`,
`OffsetIsFound`, `StopIsExplained`.

*Argument.* `BranchArithmetic` is the arithmetic of the branch, for every address and
displacement: adding the extended displacement without sign, in 32 bits, is adding
the signed one. The walk has one invariant per loop: the modules before `rpl` have
other names; `textSection` is the last text section before `section`, or 0 if there is
none; the symbol tables before `section`, and the symbols before `symbol` of the one it
is at, hold no function of the name. At the end of the loops these say that there is
none. For the offset, either `number` is what is loaded still, or `changed` says why not.

`TrampolineProofs` proves all properties of `trampoline` for any addresses and processes:

| theorem | statement | hypothesis |
|---|---|---|
| `BufferSuffices` | `Spec => []FitsBuffer` | |
| `CallsFollowed` | `Spec => []CallInv` | `LinkageKept` |
| `RightFunctionAlwaysRuns` | `Spec => []RightFunctionRuns` | `LinkageKept` |
| `AlwaysRunsAsUnpatched` | `Spec => []RunsAsUnpatched` | `LinkageKept` |

`LinkageKept` excludes instructions that compute in r11 or CTR where a branch does not
reach the original; `linkage` shows that the code is wrong for them.

*Argument.* The choice of the process takes six words at most, a jump four, and
6 + 1 + 4 + 4 are the 15 words of `jumpData`: the check that follows the writes
(`PatchedFunctionData.cpp:301`) never fails. `CallInv` says where a call can be, word by
word, and what the registers hold there: comparing (`Choosing`), on its way to the
original or the replacement (`Declining`, `Replacing`), in `jumpToOriginal`, or out
(`Arrived`). `ChoiceWords` gives the distance of each branch as the number of words it
has to skip, whatever is near or far; `JumpGoesOn` is one lemma for every jump.

*Only model-checked* are the liveness properties `EveryCallReturns` and `LookupEnds`:
liveness under fairness is beyond the proof system. Every other property of a passing
run is a theorem.

## 5. Not modelled

* Locks of the loader: it is not in the repository (section 2, the environment).
* Logging, the version call, and the argument checks that return before anything
  changes.
* `OSFatal` paths, which end the program, except the two in `AddressLookup` that depend on
  what other threads or the system do.
* The module's initialisation (`main.cpp:20-43`, `76-127`): it runs once, on one
  thread, before anything else, and is a sequence of system calls with an `OSFatal`
  after each.
* Targets by address (`LIBRARY_OTHER`) in `AddressLookup`: nothing is looked up.
  `FunctionPatcher` has them.
* Handles of MCP. `shouldBePatched` closes its handle twice (`PatchedFunctionData.cpp:351`
  and `:358`).
* The members of `CThread` that nothing calls.
* Two patches of one function in `RunOnAllCores`: chains are the subject of
  `FunctionPatcher`, caches and heap of this module; together they have too many
  states.
* A promise for a core before its turn: memory changes for all cores at the first
  copy, and a core that has old code of a reused piece cached may execute it. The code
  does nothing against it, the model shows such states, and no property excludes them.

## 6. Running

    tlc -workers 2 -config Serial.cfg MCSerial
    tlc -workers 2 -config AllCores.cfg MCRunOnAllCores
    tlc -workers 2 -config Lookup.cfg MCAddressLookup
    tlc -workers 2 -config Trampoline.cfg MCTrampoline
    tlapm FunctionPatcherProofs.tla

and in the same way for the other configurations and proof modules.
