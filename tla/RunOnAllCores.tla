---------------------------- MODULE RunOnAllCores ----------------------------
(****************************************************************************)
(* How the jump of one patch gets to every core, below what FunctionPatcher *)
(* sees: the code of an object in the jump heap (allocateDataForJumps, the  *)
(* destructor), a thread on each core that writes and invalidates           *)
(* (CThread::runOnAllCores, writeDataAndFlushIC), the memory of that thread *)
(* in the heap of the running application, and the instruction caches.      *)
(*                                                                          *)
(* Each object patches a function of its own.  Data caches are coherent and *)
(* what is flushed is in memory; an instruction cache keeps what it has     *)
(* until the core invalidates it or drops the line: ICInvalidateRange acts  *)
(* on the core that executes it, which is why the code runs it on each.     *)
(****************************************************************************)
EXTENDS Integers

CONSTANTS
  Objects,       \* the memory for objects, each with its function
  Near,          \* objects that need no jumpData: the replacement is in the first
                 \* 32 MB and for all processes
  Blocks,        \* the pieces of the jump heap
  Threads,       \* the threads that call the module
  LastCore,      \* cores are numbered from 0
  Home,          \* Home[t]: the core t runs on
  NULL

Cores == 0 .. LastCore

ASSUME LastCoreAssumption == LastCore \in Nat
ASSUME NearAssumption == Near \subseteq Objects
ASSUME HomeAssumption == Home \in [Threads -> Cores]
ASSUME NullAssumption == NULL \notin Objects \union Blocks \union Threads

\* The first word of a function: its own, the branch to a replacement close by,
\* or the branch to the jump code in a block.
Words == {"original", "direct"} \union Blocks

ASSUME WordsAssumption == {"original", "direct"} \intersect Blocks = {}

VARIABLES
  used,           \* the blocks of the jump heap that are given out
  jumpData, jumpToOriginal,   \* of each object, NULL if not allocated
  alive,          \* the objects that are allocated
  listed,         \* gPatchedFunctions, as a set
  patched,        \* the objects with isPatched
  mutex,          \* the thread that owns gPatchedFunctionsMutex, or NULL
  code,           \* code[b]: whose code is in memory at b
  text,           \* text[o]: the first word of o's function in memory
  old,            \* <<c, b>>: core c may have older code cached at b
  seen,           \* seen[c][o]: the first word core c executes
  threadMemory,   \* what CThread took from the application's heap
  th,             \* th[t]: the local state of t
  skipped,        \* history: cores left out when o was patched
  served          \* history: cores that invalidated o's present word

heapVars == <<used, jumpData, jumpToOriginal, alive>>
codeVars == <<code, text, old, seen>>
historyVars == <<skipped, served>>
vars == <<heapVars, listed, patched, mutex, codeVars, threadMemory, th, historyVars>>

(* "jumpData" "jumpToOriginal"  in allocateDataForJumps                     *)
(* "generate"      to emit the code                                         *)
(* "thread"        in the constructor of CThread for core                   *)
(* "code" "copy" "word"  in writeDataAndFlushIC on core                     *)
(* "join"          in shutdownThread                                        *)
(* "push"          to set isPatched and append to the registry              *)
(* "restore" "invalidate" "erase"  in FPRemoveFunctionPatch                 *)
(* "freeOriginal" "freeData"  in the destructor                             *)
(* "stuck"         in shutdownThread, for a thread that was never created   *)
Steps == {"idle", "jumpData", "jumpToOriginal", "generate", "thread",
          "code", "copy", "word", "join", "push", "restore", "invalidate",
          "erase", "freeOriginal", "freeData", "stuck"}

LocalStates == [pc : Steps, cur : Objects \union {NULL}, core : Cores]

Idle == [pc |-> "idle", cur |-> NULL, core |-> LastCore]

Cur(t) == th[t].cur

Goto(t, from, to) == th[t].pc = from /\ th' = [th EXCEPT ![t].pc = to]

\* The code of o: what is flushed and invalidated with the word.
CodeOf(o) == {jumpData[o], jumpToOriginal[o]} \ {NULL}

\* The branch generateReplacementJump chooses.
JumpWord(o) == IF o \in Near THEN "direct" ELSE jumpData[o]
------------------------------------------------------------------------------
(* Creation and destruction (PatchedFunctionData.cpp).                      *)

FPAddFunctionPatch(t, o) ==
  /\ th[t] = Idle
  /\ o \notin alive
  /\ alive' = alive \union {o}
  /\ th' = [th EXCEPT ![t].cur = o,
                      ![t].pc = IF o \in Near THEN "jumpToOriginal" ELSE "jumpData"]
  /\ UNCHANGED <<used, jumpData, jumpToOriginal, listed, patched, mutex, codeVars,
                 threadMemory, historyVars>>

AllocateJumpData(t) ==
  /\ Goto(t, "jumpData", "jumpToOriginal")
  /\ \E b \in Blocks \ used :
       /\ used' = used \union {b}
       /\ jumpData' = [jumpData EXCEPT ![Cur(t)] = b]
  /\ UNCHANGED <<jumpToOriginal, alive, listed, patched, mutex, codeVars, threadMemory,
                 historyVars>>

AllocateJumpToOriginal(t) ==
  /\ Goto(t, "jumpToOriginal", "generate")
  /\ \E b \in Blocks \ used :
       /\ used' = used \union {b}
       /\ jumpToOriginal' = [jumpToOriginal EXCEPT ![Cur(t)] = b]
  /\ UNCHANGED <<jumpData, alive, listed, patched, mutex, codeVars, threadMemory,
                 historyVars>>

\* No piece is large enough: the call fails and drops the object.
AllocationFails(t) ==
  /\ \/ Goto(t, "jumpData", "freeOriginal")
     \/ Goto(t, "jumpToOriginal", "freeOriginal")
  /\ UNCHANGED <<heapVars, listed, patched, mutex, codeVars, threadMemory, historyVars>>

FreeJumpToOriginal(t) ==
  /\ Goto(t, "freeOriginal", "freeData")
  /\ used' = used \ {jumpToOriginal[Cur(t)]}
  /\ jumpToOriginal' = [jumpToOriginal EXCEPT ![Cur(t)] = NULL]
  /\ UNCHANGED <<jumpData, alive, listed, patched, mutex, codeVars, threadMemory,
                 historyVars>>

Unlock(t) == mutex' = IF mutex = t THEN NULL ELSE mutex

\* Slip: the destructor takes an object without its second block for one that
\* has none.
FreeJumpDataIfComplete(t) ==
  /\ th[t].pc = "freeData"
  /\ th' = [th EXCEPT ![t] = Idle]
  /\ alive' = alive \ {Cur(t)}
  /\ IF mutex = t
     THEN /\ used' = used \ {jumpData[Cur(t)]}
          /\ jumpData' = [jumpData EXCEPT ![Cur(t)] = NULL]
     ELSE UNCHANGED <<used, jumpData>>
  /\ Unlock(t)
  /\ skipped' = [skipped EXCEPT ![Cur(t)] = {}]
  /\ UNCHANGED <<jumpToOriginal, listed, patched, codeVars, threadMemory, served>>

FreeJumpData(t) ==
  /\ th[t].pc = "freeData"
  /\ th' = [th EXCEPT ![t] = Idle]
  /\ used' = used \ {jumpData[Cur(t)]}
  /\ jumpData' = [jumpData EXCEPT ![Cur(t)] = NULL]
  /\ alive' = alive \ {Cur(t)}
  /\ Unlock(t)
  /\ skipped' = [skipped EXCEPT ![Cur(t)] = {}]
  /\ UNCHANGED <<jumpToOriginal, listed, patched, codeVars, threadMemory, served>>
------------------------------------------------------------------------------
(* PatchFunction, and the threads of runOnAllCores (utils/CThread.h).       *)

\* generateJumpToOriginal and generateReplacementJump.  The other cores may
\* have cached what was in the blocks before.
Generate(t) ==
  /\ Goto(t, "generate", "thread")
  /\ code' = [b \in Blocks |-> IF b \in CodeOf(Cur(t)) THEN Cur(t) ELSE code[b]]
  /\ old' = (old \union (Cores \X CodeOf(Cur(t)))) \ ({Home[t]} \X CodeOf(Cur(t)))
  /\ UNCHANGED <<heapVars, listed, patched, mutex, text, seen, threadMemory, historyVars>>

Has(t, what) == <<t, what>> \in threadMemory

\* The constructor takes pThread and pThreadStack from the heap of the running
\* application, whatever the first gave; the thread is created if it got both,
\* and resumeThread starts it.
StartThread(t) ==
  /\ th[t].pc = "thread"
  /\ \E got \in SUBSET {"thread", "stack"} :
       /\ threadMemory' = threadMemory \union ({t} \X got)
       /\ IF got = {"thread", "stack"}
          THEN th' = [th EXCEPT ![t].pc = "code"] /\ UNCHANGED skipped
          ELSE /\ th' = [th EXCEPT ![t].pc = "join"]
               /\ skipped' = [skipped EXCEPT ![Cur(t)] = @ \union {th[t].core}]
  /\ UNCHANGED <<heapVars, listed, patched, mutex, codeVars, served>>

\* Slip: the way to the original is left to the core that emitted it.
InvalidateJumpData(t) ==
  /\ Goto(t, "code", "copy")
  /\ old' = old \ {<<th[t].core, jumpData[Cur(t)]>>}
  /\ UNCHANGED <<heapVars, listed, patched, mutex, code, text, seen, threadMemory,
                 historyVars>>

\* writeDataAndFlushIC: first the code the word will lead to ...
InvalidateCode(t) ==
  /\ Goto(t, "code", "copy")
  /\ old' = old \ ({th[t].core} \X CodeOf(Cur(t)))
  /\ UNCHANGED <<heapVars, listed, patched, mutex, code, text, seen, threadMemory,
                 historyVars>>

\* ... then the word, in memory that all cores share (KernelCopyData) ...
CopyWord(t) ==
  /\ Goto(t, "copy", "word")
  /\ text' = [text EXCEPT ![Cur(t)] = JumpWord(Cur(t))]
  /\ served' = IF text'[Cur(t)] = text[Cur(t)] THEN served
               ELSE [served EXCEPT ![Cur(t)] = {}]
  /\ UNCHANGED <<heapVars, listed, patched, mutex, code, old, seen, threadMemory, skipped>>

\* ... and what this core executes there.
InvalidateWord(t) ==
  /\ Goto(t, "word", "join")
  /\ seen' = [seen EXCEPT ![th[t].core][Cur(t)] = text[Cur(t)]]
  /\ served' = [served EXCEPT ![Cur(t)] = @ \union {th[t].core}]
  /\ UNCHANGED <<heapVars, listed, patched, mutex, code, text, old, threadMemory, skipped>>

\* Slip: one core too many.
NextCoreAndOneMore(t) ==
  IF th[t].core >= 0 THEN [th[t] EXCEPT !.pc = "thread", !.core = @ - 1]
                     ELSE [th[t] EXCEPT !.pc = "push"]

\* The next core of runOnAllCores, which goes down from the last.
NextCore(t) ==
  IF th[t].core > 0 THEN [th[t] EXCEPT !.pc = "thread", !.core = @ - 1]
                    ELSE [th[t] EXCEPT !.pc = "push"]

\* Slip: only a thread that was created is cleaned up.
ShutdownCreatedThread(t) ==
  /\ th[t].pc = "join"
  /\ threadMemory' = IF Has(t, "thread") /\ Has(t, "stack")
                     THEN threadMemory \ ({t} \X {"thread", "stack"})
                     ELSE threadMemory
  /\ th' = [th EXCEPT ![t] = NextCore(t)]
  /\ UNCHANGED <<heapVars, listed, patched, mutex, codeVars, historyVars>>

\* shutdownThread: the thread has ended, or was never created; both pieces of
\* memory are given back.
ShutdownThread(t) ==
  /\ th[t].pc = "join"
  /\ threadMemory' = threadMemory \ ({t} \X {"thread", "stack"})
  /\ th' = [th EXCEPT ![t] = NextCore(t)]
  /\ UNCHANGED <<heapVars, listed, patched, mutex, codeVars, historyVars>>

\* With pThread but no stack the code asks the system about, and joins, a thread
\* that OSCreateThread never saw, in memory nobody wrote: it may wait for ever.
JoinNeverReturns(t) ==
  /\ Goto(t, "join", "stuck")
  /\ Has(t, "thread") /\ ~Has(t, "stack")
  /\ UNCHANGED <<heapVars, listed, patched, mutex, codeVars, threadMemory, historyVars>>

\* isPatched is set whatever the threads did; the object is appended.
PushBack(t) ==
  /\ th[t].pc = "push"
  /\ mutex = NULL
  /\ patched' = patched \union {Cur(t)}
  /\ listed' = listed \union {Cur(t)}
  /\ th' = [th EXCEPT ![t] = Idle]
  /\ UNCHANGED <<heapVars, mutex, codeVars, threadMemory, historyVars>>
------------------------------------------------------------------------------
(* FPRemoveFunctionPatch, with RestoreFunction on the calling core.         *)

FPRemoveFunctionPatch(t, o) ==
  /\ th[t] = Idle
  /\ mutex = NULL
  /\ o \in listed
  /\ mutex' = t
  /\ th' = [th EXCEPT ![t] = [Idle EXCEPT !.cur = o, !.pc = "restore"]]
  /\ UNCHANGED <<heapVars, listed, patched, codeVars, threadMemory, historyVars>>

\* RestoreFunction refuses when the word in memory is not this patch's jump: so
\* it is when no core had memory for its thread.
RefuseRestore(t) ==
  /\ Goto(t, "restore", "erase")
  /\ text[Cur(t)] # JumpWord(Cur(t))
  /\ UNCHANGED <<heapVars, listed, patched, mutex, codeVars, threadMemory, historyVars>>

RestoreWord(t) ==
  /\ Goto(t, "restore", "invalidate")
  /\ text[Cur(t)] = JumpWord(Cur(t))
  /\ text' = [text EXCEPT ![Cur(t)] = "original"]
  /\ served' = [served EXCEPT ![Cur(t)] = {}]
  /\ UNCHANGED <<heapVars, listed, patched, mutex, code, old, seen, threadMemory, skipped>>

\* Slip: the data cache is flushed, the instruction cache forgotten.
FlushRestored(t) ==
  /\ Goto(t, "invalidate", "erase")
  /\ patched' = patched \ {Cur(t)}
  /\ served' = [served EXCEPT ![Cur(t)] = {Home[t]}]
  /\ UNCHANGED <<heapVars, listed, mutex, codeVars, threadMemory, skipped>>

InvalidateRestored(t) ==
  /\ Goto(t, "invalidate", "erase")
  /\ seen' = [seen EXCEPT ![Home[t]][Cur(t)] = text[Cur(t)]]
  /\ patched' = patched \ {Cur(t)}
  /\ served' = [served EXCEPT ![Cur(t)] = {Home[t]}]
  /\ UNCHANGED <<heapVars, listed, mutex, code, text, old, threadMemory, skipped>>

Erase(t) ==
  /\ Goto(t, "erase", "freeOriginal")
  /\ listed' = listed \ {Cur(t)}
  /\ patched' = patched \ {Cur(t)}
  /\ UNCHANGED <<heapVars, mutex, codeVars, threadMemory, historyVars>>
------------------------------------------------------------------------------
(* An instruction cache drops a line when it likes and reads the word anew.  *)

DropWord(c, o) ==
  /\ seen[c][o] # text[o]
  /\ seen' = [seen EXCEPT ![c][o] = text[o]]
  /\ UNCHANGED <<heapVars, listed, patched, mutex, code, text, old, threadMemory, th,
                 historyVars>>

------------------------------------------------------------------------------
Init ==
  /\ used = {}
  /\ jumpData = [o \in Objects |-> NULL]
  /\ jumpToOriginal = [o \in Objects |-> NULL]
  /\ alive = {} /\ listed = {} /\ patched = {}
  /\ mutex = NULL
  /\ code = [b \in Blocks |-> NULL]
  /\ text = [o \in Objects |-> "original"]
  /\ old = {}
  /\ seen = [c \in Cores |-> [o \in Objects |-> "original"]]
  /\ threadMemory = {}
  /\ th = [t \in Threads |-> Idle]
  /\ skipped = [o \in Objects |-> {}]
  /\ served = [o \in Objects |-> Cores]

Calls(t) == \E o \in Objects : FPAddFunctionPatch(t, o) \/ FPRemoveFunctionPatch(t, o)

Create(t) ==
  \/ AllocateJumpData(t) \/ AllocateJumpToOriginal(t) \/ AllocationFails(t)
  \/ FreeJumpToOriginal(t) \/ FreeJumpData(t)

Patch(t) ==
  \/ Generate(t) \/ StartThread(t)
  \/ InvalidateCode(t) \/ CopyWord(t) \/ InvalidateWord(t)
  \/ ShutdownThread(t) \/ JoinNeverReturns(t) \/ PushBack(t)

Restore(t) ==
  RefuseRestore(t) \/ RestoreWord(t) \/ InvalidateRestored(t) \/ Erase(t)

Next ==
  \/ \E t \in Threads : Calls(t) \/ Create(t) \/ Patch(t) \/ Restore(t)
  \/ \E c \in Cores, o \in Objects : DropWord(c, o)

Spec == Init /\ [][Next]_vars
------------------------------------------------------------------------------
\* What a call of o's function on core c executes: the function, o's
\* replacement, or words that are not, or no more, o's jump code.
Executes(c, o) ==
  LET w == seen[c][o]
  IN  CASE w = "original" -> "original"
        [] w = "direct"   -> "replacement"
        [] OTHER -> IF w \in used /\ code[w] = o /\ <<c, w>> \notin old
                    THEN "replacement" ELSE "garbage"

TypeOK ==
  /\ used \subseteq Blocks
  /\ jumpData \in [Objects -> Blocks \union {NULL}]
  /\ jumpToOriginal \in [Objects -> Blocks \union {NULL}]
  /\ alive \subseteq Objects /\ listed \subseteq Objects /\ patched \subseteq Objects
  /\ mutex \in Threads \union {NULL}
  /\ code \in [Blocks -> Objects \union {NULL}]
  /\ text \in [Objects -> Words]
  /\ old \subseteq Cores \X Blocks
  /\ seen \in [Cores -> [Objects -> Words]]
  /\ threadMemory \subseteq Threads \X {"thread", "stack"}
  /\ th \in [Threads -> LocalStates]
  /\ skipped \in [Objects -> SUBSET Cores]
  /\ served \in [Objects -> SUBSET Cores]

\* RestoreFunction has written the word of o and not yet reset isPatched.
Restoring(o) == \E t \in Threads : th[t].pc = "invalidate" /\ Cur(t) = o

\* When PatchFunction is through, every core it had memory for runs the
\* replacement through the code of this patch, and the replacement's call of the
\* original too, though the block held another patch's code that the core has
\* cached (function_patcher.cpp:27-34, 49 on every core).
PatchedOnEveryCore ==
  \A o \in {p \in patched : ~Restoring(p)} : \A c \in Cores \ skipped[o] :
    /\ Executes(c, o) = "replacement"
    /\ code[jumpToOriginal[o]] = o /\ <<c, jumpToOriginal[o]>> \notin old

\* A core that had its turn, or restored the function, runs what memory says,
\* never jump code that is stale, freed or given to another patch.  The others
\* may: function_patcher.cpp:137 invalidates the calling core only, and memory
\* changes for all cores at the first copy.
ServedCoresRunRight ==
  \A o \in Objects : \A c \in served[o] :
    Executes(c, o) = IF text[o] = "original" THEN "original" ELSE "replacement"

\* "Some games (e.g. Minecraft) expect the default heap to be empty. Make sure to
\* clean up the memory after using it" (CThread.h:137): whichever allocation
\* failed, memory is held only by a thread inside runOnAllCores.
ThreadMemoryGivenBack ==
  \A x \in threadMemory :
    th[x[1]].pc \in {"code", "copy", "word", "join", "stuck"}

\* The blocks given out are those of the objects in use, each of one object; a
\* call that failed between the two allocations kept none, and every registered
\* object has all it needs.
JumpHeapExact ==
  /\ used = UNION {CodeOf(o) : o \in alive}
  /\ \A o, p \in Objects : o # p => CodeOf(o) \intersect CodeOf(p) = {}
  /\ \A o \in Objects : jumpData[o] = jumpToOriginal[o] => jumpData[o] = NULL
  /\ \A o \in Objects \ alive : CodeOf(o) = {}
  /\ \A o \in listed : jumpToOriginal[o] # NULL /\ (o \in Near \/ jumpData[o] # NULL)
==============================================================================
