--------------------------- MODULE FunctionPatcher ---------------------------
(****************************************************************************)
(* The module at work: the registry gPatchedFunctions with its mutex, the   *)
(* memory it patches (src/source/function_patcher.cpp), the calls of its    *)
(* clients (src/source/export.cpp) and the hooks and callbacks the system   *)
(* runs in it (src/source/main.cpp), by several threads at a time.          *)
(*                                                                          *)
(* A thread is one record of local state: what it does (op), how far it is  *)
(* (pc), and the locals of the function it runs.  FPAddFunctionPatch holds  *)
(* no lock while it patches: each read and each write of memory is a step.  *)
(****************************************************************************)
EXTENDS PatchedFunctionData, Integers, Sequences, SequencesExt

CONSTANTS
  Threads,       \* the threads of the running application, and the system's
  Resident,      \* modules that stay in memory for good, and where they are
  Cores,         \* the number of cores that write a patch
  SomeCoreServed, \* TRUE: there is memory for a thread on one core at least
  JoinsReturn,   \* TRUE: to join a thread that was never created returns
  TextLingers,   \* TRUE: memory a module left may keep its contents
  LoaderInTurn,  \* TRUE: the loader ends a notification before its next work
  RemovalOrder   \* which patch a client removes: "any", "lifo" (the latest)

ASSUME ResidentAssumption ==
  /\ DOMAIN Resident \subseteq Modules
  /\ \A m \in DOMAIN Resident : Resident[m] \in Addrs
  /\ \A m, n \in DOMAIN Resident : Resident[m] = Resident[n] => m = n
ASSUME ThreadsAssumption == NULL \notin Threads
ASSUME ObjectsAssumption == IsFiniteSet(Objects)
ASSUME CoresAssumption == Cores \in Nat \ {0}
ASSUME SwitchesAssumption ==
  /\ {TextLingers, LoaderInTurn, SomeCoreServed, JoinsReturn} \subseteq BOOLEAN
  /\ RemovalOrder \in {"any", "lifo"}

VARIABLES
  list,          \* gPatchedFunctions
  text,          \* text[a]: the word in memory at a
  notify,        \* notify_callback is registered with the loader
  lock,          \* the thread that owns gPatchedFunctionsMutex, or NULL
  th             \* th[t]: the local state of t

vars == <<place, handle, data, title, list, text, notify, lock, th>>
system == <<place, title, notify>>

(* The steps of a thread.                                                   *)
(*   "wait"    to enter a function that first takes the mutex               *)
(*   "patch" "read" "write"  in PatchFunction(cur)                          *)
(*   "push"    to append cur to the registry                                *)
(*   "next"    at the head of a loop that calls PatchFunction               *)
(*   "undo"    at the head of the loop that calls RestoreFunction           *)
(*   "unwrite" in RestoreFunction(cur), the word in memory found expected   *)
Steps == {"idle", "wait", "patch", "read", "write", "push", "next", "undo", "unwrite"}
Ops == {"none", "add", "remove", "loaded", "unloaded", "start"}

LocalStates ==
  [op : Ops, pc : Steps,
   cur : Objects \union {NULL},       \* functionData, cur, the handle given
   removed : Objects \union {NULL},   \* toBeRemoved
   later : SUBSET Objects,            \* toBeTempRestored
   todo : SUBSET Objects,             \* what the loop has not visited yet
   position : Nat,                    \* erasePosition
   core : 0 .. Cores,                 \* the cores that still have their turn
   served : BOOLEAN,                  \* a core has written
   stuck : BOOLEAN,                   \* it joins a thread that does not end
   module : Addrs \union {NULL}]      \* the module notify_callback is told of

Idle == [op |-> "none", pc |-> "idle", cur |-> NULL, removed |-> NULL,
         later |-> {}, todo |-> {}, position |-> 0, core |-> 0,
         served |-> FALSE, stuck |-> FALSE, module |-> NULL]

TypeOK ==
  /\ place \in [Modules -> Addrs \union {NULL}]
  /\ handle \in [Libraries -> Addrs \union {NULL}]
  /\ data \in [Objects -> ObjectRecords \union {NULL}]
  /\ title \in Titles \union {NULL}
  /\ list \in Seq(Objects)
  /\ text \in [Addrs -> Words]
  /\ notify \in BOOLEAN
  /\ lock \in Threads \union {NULL}
  /\ th \in [Threads -> LocalStates]
------------------------------------------------------------------------------
Listed == Range(list)

\* o does not come after p in the registry.
Before(o, p) == \E i, j \in DOMAIN list : i <= j /\ list[i] = o /\ list[j] = p

Current(t) == data[th[t].cur]

\* Where PatchFunction returns to.
Return(t) ==
  [th EXCEPT ![t].pc = IF th[t].op = "add" THEN "push" ELSE "next",
             ![t].served = FALSE]

Acquire(t) == lock = NULL /\ lock' = t
Release(t) == lock = t /\ lock' = NULL

\* The hooks run alone in an application that starts; then its threads, and
\* the modules loaded with it, call.
MayCall(t) ==
  /\ title # NULL
  /\ th[t] = Idle
  /\ \A u \in Threads : th[u].op # "start"

Quiescent == \A t \in Threads : th[t] = Idle
------------------------------------------------------------------------------
(* PatchFunction, of src/source/function_patcher.cpp.                       *)

\* It returns at once for an object that is patched, or not for this title.
SkipPatch(t) ==
  /\ th[t].pc = "patch"
  /\ Current(t).isPatched \/ ~ShouldBePatched(th[t].cur)
  /\ th' = Return(t)
  /\ UNCHANGED <<system, handle, data, list, text, lock>>

\* Slip: a patch is applied over itself.
NeedsPatchAgain(t) == th[t].pc = "patch" /\ ShouldBePatched(th[t].cur)

NeedsPatch(t) ==
  th[t].pc = "patch" /\ ~Current(t).isPatched /\ ShouldBePatched(th[t].cur)

\* It returns for an object whose function is not in memory.  The lookup is one
\* step, with the mutex or without: the row of the table is read and written by
\* FunctionAddressProvider and the loader, taken to do so under the loader's lock.
Unresolved(t) ==
  /\ NeedsPatch(t)
  /\ CurrentAddress(th[t].cur) = NULL
  /\ handle' = HandlesAfterUpdate(th[t].cur)
  /\ th' = Return(t)
  /\ UNCHANGED <<system, data, list, text, lock>>

Resolve(t) ==
  /\ NeedsPatch(t)
  /\ CurrentAddress(th[t].cur) # NULL
  /\ data' = UpdateFunctionAddresses(th[t].cur)
  /\ handle' = HandlesAfterUpdate(th[t].cur)
  /\ th' = [th EXCEPT ![t].pc = "read"]
  /\ UNCHANGED <<system, list, text, lock>>

\* Slip: the word is read the first time only.
ReadInstructionOnce(t) ==
  /\ th[t].pc = "read"
  /\ data' = [data EXCEPT ![th[t].cur].replaced =
                IF @ = NULL THEN text[Current(t).address] ELSE @]
  /\ th' = [th EXCEPT ![t].pc = "write", ![t].core = Cores, ![t].served = FALSE]
  /\ UNCHANGED <<system, handle, list, text, lock>>

\* The word read is the one jumpToOriginal executes, now and until the next
\* time the object is patched.
ReadInstruction(t) ==
  /\ th[t].pc = "read"
  /\ data' = [data EXCEPT ![th[t].cur].replaced = text[Current(t).address]]
  /\ th' = [th EXCEPT ![t].pc = "write", ![t].core = Cores, ![t].served = FALSE]
  /\ UNCHANGED <<system, handle, list, text, lock>>

Writing(t) == th[t].pc = "write" /\ ~th[t].stuck

\* Slip: one core too many.
WriteOnCoreAndOneMore(t) ==
  /\ Writing(t)
  /\ text' = [text EXCEPT ![Current(t).address] = th[t].cur]
  /\ th' = [th EXCEPT ![t].core = @ - 1, ![t].served = TRUE]
  /\ UNCHANGED <<system, handle, data, list, lock>>

\* writeDataAndFlushIC, on one core after the other (runOnAllCores).
WriteOnCore(t) ==
  /\ Writing(t)
  /\ th[t].core > 0
  /\ text' = [text EXCEPT ![Current(t).address] = th[t].cur]
  /\ th' = [th EXCEPT ![t].core = @ - 1, ![t].served = TRUE]
  /\ UNCHANGED <<system, handle, data, list, lock>>

\* There is no memory for the thread or for its stack: no thread is created.
NoThread(t) ==
  /\ Writing(t)
  /\ th[t].core > 0
  /\ SomeCoreServed /\ th[t].core = 1 => th[t].served

\* The core is passed over, and nobody is told.
SkipCore(t) ==
  /\ NoThread(t)
  /\ th' = [th EXCEPT ![t].core = @ - 1]
  /\ UNCHANGED <<system, handle, data, list, text, lock>>

\* With memory for the thread and none for its stack, shutdownThread waits for a
\* thread that was never created, in memory that nobody wrote.
JoinNeverReturns(t) ==
  /\ ~JoinsReturn
  /\ NoThread(t)
  /\ th' = [th EXCEPT ![t].stuck = TRUE]
  /\ UNCHANGED <<system, handle, data, list, text, lock>>

\* The object is marked whatever the cores did.
SetPatched(t) ==
  /\ Writing(t)
  /\ th[t].core = 0
  /\ data' = [data EXCEPT ![th[t].cur].isPatched = TRUE]
  /\ th' = Return(t)
  /\ UNCHANGED <<system, handle, list, text, lock>>
------------------------------------------------------------------------------
(* The loops "for (auto &cur : ...) PatchFunction(cur)".                    *)

\* Slip: the loop runs from the last to the first.
PatchNextFromLast(t) ==
  /\ th[t].pc = "next"
  /\ \E o \in th[t].todo :
       /\ \A p \in th[t].todo : Before(p, o)
       /\ th' = [th EXCEPT ![t].cur = o, ![t].todo = @ \ {o}, ![t].pc = "patch"]
  /\ UNCHANGED <<system, handle, data, list, text, lock>>

PatchNext(t) ==
  /\ th[t].pc = "next"
  /\ \E o \in th[t].todo :
       /\ \A p \in th[t].todo : Before(o, p)
       /\ th' = [th EXCEPT ![t].cur = o, ![t].todo = @ \ {o}, ![t].pc = "patch"]
  /\ UNCHANGED <<system, handle, data, list, text, lock>>

LoopDone(t, op) == th[t].pc = "next" /\ th[t].op = op /\ th[t].todo = {}
------------------------------------------------------------------------------
(* The calls of a client, of src/source/export.cpp.                         *)

\* When no memory is left the call fails (UNKNOWN_ERROR) and changes nothing.
FPAddFunctionPatch(t, tg) ==
  /\ MayCall(t)
  /\ \E o \in Objects \ Allocated :
       /\ data' = [data EXCEPT ![o] = MakeShared(tg)]
       /\ th' = [th EXCEPT ![t] = [Idle EXCEPT !.op = "add", !.pc = "patch", !.cur = o]]
  /\ UNCHANGED <<system, handle, list, text, lock>>

PushBack(t) ==
  /\ th[t].pc = "push"
  /\ lock = NULL
  /\ list' = Append(list, th[t].cur)
  /\ th' = [th EXCEPT ![t] = Idle]
  /\ UNCHANGED <<system, handle, data, text, lock>>

\* What a client with the discipline RemovalOrder passes for a handle.
MayRemove(o) ==
  RemovalOrder = "lifo" => list # <<>> /\ o = Last(list)

FPRemoveFunctionPatch(t, o) ==
  /\ MayCall(t)
  /\ MayRemove(o)
  /\ th' = [th EXCEPT ![t] = [Idle EXCEPT !.op = "remove", !.pc = "wait", !.cur = o]]
  /\ UNCHANGED <<system, handle, data, list, text, lock>>

Enter(t, op) == th[t].pc = "wait" /\ th[t].op = op

PatchNotFound(t) ==
  /\ Enter(t, "remove")
  /\ lock = NULL
  /\ th[t].cur \notin Listed
  /\ th' = [th EXCEPT ![t] = Idle]
  /\ UNCHANGED <<system, handle, data, list, text, lock>>

\* The objects listed after o with the same address.
ToBeTempRestored(o) ==
  {p \in Listed \ {o} : Before(o, p) /\ data[p].address = data[o].address}

\* Slip: the objects after the one found are counted as well.
ErasePositionCountingAll(o) == Len(list) - 1

\* erasePosition: how many objects the scan passes before it finds o.
ErasePosition(o) ==
  CHOOSE n \in 0 .. Len(list) - 1 :
    list[n + 1] = o /\ \A i \in 1 .. n : list[i] # o

\* The scan stops at an object that is not patched: nothing is restored then.
FindToBeRemoved(t) ==
  LET o     == th[t].cur
      later == IF data[o].isPatched THEN ToBeTempRestored(o) ELSE {}
      todo  == IF data[o].isPatched THEN later \union {o} ELSE {}
  IN  /\ Enter(t, "remove")
      /\ o \in Listed
      /\ Acquire(t)
      /\ th' = [th EXCEPT ![t].pc = "undo", ![t].removed = o,
                          ![t].position = ErasePosition(o),
                          ![t].later = later, ![t].todo = todo]
      /\ UNCHANGED <<system, handle, data, list, text>>

\* The restoring goes from the last to the first.
RestoreNext(t, o) ==
  /\ th[t].pc = "undo"
  /\ o \in th[t].todo
  /\ \A p \in th[t].todo : Before(p, o)

\* RestoreFunction writes only over its own jump, and only a known word.
CanRestore(o) ==
  /\ data[o].isPatched
  /\ data[o].replaced # NULL
  /\ text[data[o].address] = o

SkipRestore(t) ==
  /\ \E o \in Objects :
       /\ RestoreNext(t, o)
       /\ ~CanRestore(o)
       /\ th' = [th EXCEPT ![t].todo = @ \ {o}]
  /\ UNCHANGED <<system, handle, data, list, text, lock>>

CheckInstruction(t) ==
  /\ \E o \in Objects :
       /\ RestoreNext(t, o)
       /\ CanRestore(o)
       /\ th' = [th EXCEPT ![t].todo = @ \ {o}, ![t].cur = o, ![t].pc = "unwrite"]
  /\ UNCHANGED <<system, handle, data, list, text, lock>>

RestoreInstruction(t) ==
  /\ th[t].pc = "unwrite"
  /\ text' = [text EXCEPT ![Current(t).address] = Current(t).replaced]
  /\ data' = [data EXCEPT ![th[t].cur].isPatched = FALSE]
  /\ th' = [th EXCEPT ![t].pc = "undo"]
  /\ UNCHANGED <<system, handle, list, lock>>

\* The objects that PatchFunction is called for again; isPatched is read when
\* toBeRemoved has been restored.
ToBeReapplied(t) ==
  IF data[th[t].removed].isPatched THEN th[t].later ELSE {}

\* Slip: toBeRemoved refers to the element of the vector, and goes with it.
EraseLastReference(t) ==
  /\ th[t].pc = "undo"
  /\ th[t].todo = {}
  /\ list' = RemoveAt(list, th[t].position + 1)
  /\ data' = Destroy(th[t].removed)
  /\ th' = [th EXCEPT ![t].pc = "next", ![t].todo = ToBeReapplied(t), ![t].position = 0]
  /\ UNCHANGED <<system, handle, text, lock>>

Erase(t) ==
  /\ th[t].pc = "undo"
  /\ th[t].todo = {}
  /\ list' = RemoveAt(list, th[t].position + 1)
  /\ th' = [th EXCEPT ![t].pc = "next", ![t].todo = ToBeReapplied(t), ![t].position = 0]
  /\ UNCHANGED <<system, handle, data, text, lock>>

\* toBeRemoved holds the last reference: the object and its jump code go.
FinishRemove(t) ==
  /\ LoopDone(t, "remove")
  /\ data' = Destroy(th[t].removed)
  /\ Release(t)
  /\ th' = [th EXCEPT ![t] = Idle]
  /\ UNCHANGED <<system, handle, list, text>>

\* FPIsFunctionPatched: what the call answers (it reads under the mutex).
FPIsFunctionPatched(o) ==
  IF o \notin Listed THEN "not found"
  ELSE IF data[o].isPatched THEN "patched" ELSE "not patched"
------------------------------------------------------------------------------
(* The loader, and the callback and hooks of src/source/main.cpp.           *)

\* CheckIfPatchedFunctionsAreStillInMemory compares, for every address, the
\* word of the last patched object listed for it with the word in memory ...
IsUnchanged(d, a, word) ==
  \E o \in Listed :
    /\ d[o].isPatched /\ d[o].address = a /\ word = o
    /\ \A p \in Listed : d[p].isPatched /\ d[p].address = a => Before(p, o)

\* Slip: only the last of them is reset, not those below it.
StillInMemoryLastOnly(d, txt) ==
  [o \in Objects |->
     IF /\ o \in Listed /\ d[o].isPatched
        /\ ~IsUnchanged(d, d[o].address, txt[d[o].address])
        /\ \A p \in Listed : d[p].isPatched /\ d[p].address = d[o].address => Before(p, o)
     THEN [d[o] EXCEPT !.isPatched = FALSE] ELSE d[o]]

\* ... and if they differ every object listed for that address is not patched.
StillInMemory(d, txt) ==
  [o \in Objects |->
     IF /\ o \in Listed /\ d[o].isPatched
        /\ ~IsUnchanged(d, d[o].address, txt[d[o].address])
     THEN [d[o] EXCEPT !.isPatched = FALSE] ELSE d[o]]

\* The objects for library l are not patched when l has left (l # LIBRARY_OTHER).
LibraryUnloaded(l) ==
  [o \in Objects |->
     IF o \in Listed /\ data[o].target.kind = "library" /\ data[o].target.module = l
     THEN [data[o] EXCEPT !.isPatched = FALSE] ELSE data[o]]

Occupied == {place[m] : m \in Modules}

\* t is in notify_callback.
Notified(t) == th[t].op \in {"loaded", "unloaded"}

LoaderReady == LoaderInTurn => \A t \in Threads : ~Notified(t)

\* A thread has the loader bring in a module; the loader calls notify_callback
\* in that thread when the module is in place.
OSLoad(t, m, a) ==
  /\ MayCall(t)
  /\ LoaderReady
  /\ place[m] = NULL
  /\ a \notin Occupied
  /\ place' = [place EXCEPT ![m] = a]
  /\ text' = [text EXCEPT ![a] = m]
  /\ th' = IF notify
           THEN [th EXCEPT ![t] = [Idle EXCEPT !.op = "loaded", !.pc = "wait"]]
           ELSE th
  /\ UNCHANGED <<title, notify, handle, data, list, lock>>

NotifyLoaded(t) ==
  /\ Enter(t, "loaded")
  /\ Acquire(t)
  /\ th' = [th EXCEPT ![t].pc = "next", ![t].todo = Listed]
  /\ UNCHANGED <<system, handle, data, list, text>>

\* Slip: the callback returns and keeps the mutex.
FinishLoadedKeepingMutex(t) ==
  /\ LoopDone(t, "loaded")
  /\ th' = [th EXCEPT ![t] = Idle]
  /\ UNCHANGED <<system, handle, data, list, text, lock>>

FinishLoaded(t) ==
  /\ LoopDone(t, "loaded")
  /\ Release(t)
  /\ th' = [th EXCEPT ![t] = Idle]
  /\ UNCHANGED <<system, handle, data, list, text>>

\* What may be in memory at a once the module there has left.
LeftBehind(a) == {NULL} \union (IF TextLingers THEN {text[a]} ELSE {})

OSUnload(t, m) ==
  /\ MayCall(t)
  /\ LoaderReady
  /\ m \notin DOMAIN Resident
  /\ place[m] # NULL
  /\ place' = [place EXCEPT ![m] = NULL]
  /\ \E w \in LeftBehind(place[m]) : text' = [text EXCEPT ![place[m]] = w]
  /\ th' = IF notify
           THEN [th EXCEPT ![t] = [Idle EXCEPT !.op = "unloaded", !.pc = "wait",
                                               !.module = place[m]]]
           ELSE th
  /\ UNCHANGED <<title, notify, handle, data, list, lock>>

\* One step, for all that it reads.  FPAddFunctionPatch may write a word and a row
\* of the table meanwhile, without the mutex: the flags are then those of words
\* read at different moments, on which nothing said of several threads depends.
NotifyUnloaded(t) ==
  LET l == GetTypeForHandle(th[t].module)
  IN  /\ Enter(t, "unloaded")
      /\ lock = NULL
      /\ data' = StillInMemory(IF l # NULL THEN LibraryUnloaded(l) ELSE data, text)
      /\ handle' = ResetHandle(th[t].module)
      /\ th' = [th EXCEPT ![t] = Idle]
      /\ UNCHANGED <<system, list, text, lock>>

\* The modules of an application that starts, each at an address of its own;
\* the resident ones are where they always are.
Placements ==
  {p \in [Modules -> Addrs \union {NULL}] :
     /\ \A m \in DOMAIN Resident : p[m] = Resident[m]
     /\ \A m, n \in Modules : p[m] = p[n] /\ p[m] # NULL => m = n}

\* Memory once the modules are placed.  What the resident ones had stays.
TextFor(p) ==
  [a \in Addrs |->
     IF \E m \in Modules \ DOMAIN Resident : p[m] = a
     THEN CHOOSE m \in Modules : p[m] = a ELSE text[a]]

\* An application starts; the hook works for two processes (upid) only.
ApplicationStarts(t, ti, upidMatches) ==
  /\ title = NULL
  /\ Quiescent
  /\ title' = ti
  /\ \E p \in Placements :
       /\ place' = p
       /\ text' = TextFor(p)
  /\ IF upidMatches
     THEN /\ Acquire(t)
          /\ data' = StillInMemory(data, text')
          /\ th' = [th EXCEPT ![t] = [Idle EXCEPT !.op = "start", !.pc = "next",
                                                  !.todo = Listed]]
     ELSE UNCHANGED <<lock, data, th>>
  /\ UNCHANGED <<notify, handle, list>>

FinishStart(t) ==
  /\ LoopDone(t, "start")
  /\ notify' = TRUE
  /\ Release(t)
  /\ th' = [th EXCEPT ![t] = Idle]
  /\ UNCHANGED <<place, title, handle, data, list, text>>

\* The application ends when its threads are done.  Its modules leave without
\* notice, and the callback with its process.
ApplicationEnds ==
  /\ title # NULL
  /\ Quiescent
  /\ title' = NULL
  /\ notify' = FALSE
  /\ handle' = ResetHandles
  /\ place' = [m \in Modules |-> IF m \in DOMAIN Resident THEN Resident[m] ELSE NULL]
  /\ text' \in {w \in [Addrs -> Words] : \A a \in Addrs :
                  IF \E m \in DOMAIN Resident : Resident[m] = a
                  THEN w[a] = text[a] ELSE w[a] \in LeftBehind(a)}
  /\ UNCHANGED <<data, list, lock, th>>
------------------------------------------------------------------------------
Init ==
  /\ place = [m \in Modules |-> IF m \in DOMAIN Resident THEN Resident[m] ELSE NULL]
  /\ handle = RplHandles
  /\ data = [o \in Objects |-> NULL]
  /\ title = NULL
  /\ list = <<>>
  /\ text = [a \in Addrs |-> IF \E m \in DOMAIN Resident : Resident[m] = a
                             THEN CHOOSE m \in DOMAIN Resident : Resident[m] = a
                             ELSE NULL]
  /\ notify = FALSE
  /\ lock = NULL
  /\ th = [t \in Threads |-> Idle]

\* The steps inside a call, callback or hook that need no lock, or hold it.
Proceed(t) ==
  \/ SkipPatch(t) \/ Unresolved(t) \/ Resolve(t)
  \/ ReadInstruction(t) \/ WriteOnCore(t) \/ SkipCore(t) \/ JoinNeverReturns(t)
  \/ SetPatched(t) \/ PatchNext(t)
  \/ SkipRestore(t) \/ CheckInstruction(t) \/ RestoreInstruction(t) \/ Erase(t)
  \/ FinishRemove(t) \/ FinishLoaded(t) \/ FinishStart(t)

\* The steps that wait for the mutex.
Locking(t) ==
  \/ PushBack(t) \/ PatchNotFound(t) \/ FindToBeRemoved(t)
  \/ NotifyLoaded(t) \/ NotifyUnloaded(t)

Calls(t) ==
  \/ \E tg \in Targets : FPAddFunctionPatch(t, tg)
  \/ \E o \in Objects : FPRemoveFunctionPatch(t, o)
  \/ \E m \in Modules, a \in Addrs : OSLoad(t, m, a)
  \/ \E m \in Modules : OSUnload(t, m)
  \/ \E ti \in Titles, upidMatches \in BOOLEAN : ApplicationStarts(t, ti, upidMatches)

Next ==
  \/ \E t \in Threads : Proceed(t) \/ Locking(t) \/ Calls(t)
  \/ ApplicationEnds

Spec == Init /\ [][Next]_vars

\* A thread inside a call goes on, and OSMutex hands the mutex to its waiters
\* in turn.  Nobody has to make a call.
FairSpec ==
  /\ Spec
  /\ \A t \in Threads : WF_vars(Proceed(t)) /\ SF_vars(Locking(t))
------------------------------------------------------------------------------
(* What a call of a patched function executes.                              *)

\* Where the unpatched function is called from the replacement o, the word
\* generateJumpToOriginal kept is executed.  Freed memory leads nowhere.
Hop(w) == IF w \in Objects /\ data[w] # NULL THEN data[w].replaced ELSE w

\* The words executed, in order, by a call of the function at a when every
\* replacement calls on.
CallChain(a) ==
  LET chain[n \in 1 .. Cardinality(Objects) + 1] ==
        IF n = 1 THEN text[a] ELSE Hop(chain[n - 1])
  IN  chain

Loaded == {m \in Modules : place[m] # NULL}

\* The objects whose replacement a call of m's function runs.
RunsFor(m) == {o \in Objects : o \in Range(CallChain(place[m]))}

\* The replacements such a call runs.  Behind a word that is not the jump of an
\* object the chain stays at that word: the objects come first.
StackOver(m) ==
  LET chain == CallChain(place[m])
  IN  IF m \in Loaded
      THEN SubSeq(chain, 1, Cardinality({n \in DOMAIN chain : chain[n] \in Objects}))
      ELSE <<>>

Stacks == [m \in Modules |-> StackOver(m)]

PatchStacks == INSTANCE PatchStack
  WITH registered <- list, present <- Loaded,
       stack <- Stacks
------------------------------------------------------------------------------
(* Safety.                                                                  *)

\* Every object that the registry or a thread refers to is allocated, nothing
\* is listed twice, and an object that is being added is not listed yet and is
\* known to no other call: nobody uses memory that FPRemoveFunctionPatch freed.
InWork(t) == IF th[t].pc \in {"patch", "read", "write", "push", "unwrite"}
             THEN {th[t].cur} ELSE {}
References(t) == InWork(t) \union th[t].later \union th[t].todo
                   \union ({th[t].removed} \ {NULL})
NoUseAfterFree ==
  /\ \A i, j \in DOMAIN list : list[i] = list[j] => i = j
  /\ Listed \subseteq Allocated
  /\ \A t \in Threads : References(t) \subseteq Allocated
  /\ \A t, u \in Threads :
       t # u /\ th[t].op = "add" => th[t].cur \notin Listed \union References(u)

\* The registry changes by an append of the object just added or by the loss of
\* exactly the object whose handle was given (erasePosition), by the thread
\* that owns the mutex; the order of the others stays.
ListKeeps(kept) ==
  /\ Range(list') = kept
  /\ \A o, p \in kept \intersect Listed : Before(o, p) <=> Before(o, p)'
RegistryStep ==
  \/ list' = list
  \/ \E t \in Threads : /\ th[t].pc = "push" /\ lock = NULL
                        /\ ListKeeps(Listed \union {th[t].cur})
                        /\ Last(list') = th[t].cur
  \/ \E t \in Threads : /\ th[t].op = "remove" /\ lock = t
                        /\ ListKeeps(Listed \ {th[t].removed})
RegistryExact == [][RegistryStep]_vars

\* A cached handle is the one the loader has for the module, or a callback that
\* will clear it is under way: the lookup by a stale handle fails for ever.
HandlesFresh ==
  notify => \A l \in Libraries :
    handle[l] \in {NULL, place[l]}
      \/ \E t \in Threads : th[t].op = "unloaded" /\ th[t].module = handle[l]

\* "so the unpatched function can still be called" (function_patcher.cpp:78):
\* from every loaded function, replacements that all call on end in the
\* original, through objects that are alive and are meant for that function.
OriginalReachable ==
  \A m \in Loaded :
    /\ Last(CallChain(place[m])) = m
    /\ \A o \in RunsFor(m) :
         \/ data[o].target.module = m
         \/ data[o].target.addr = place[m]

\* What FPRemoveFunctionPatch relies on when it looks for "something else
\* patched the same function afterwards" (export.cpp:85): the replacement
\* that runs first is the one listed last.
LaterPatchesOnTop ==
  \A m \in Loaded :
    LET chain == CallChain(place[m])
    IN  \A i, j \in DOMAIN chain :
          i < j /\ {chain[i], chain[j]} \subseteq Listed => Before(chain[j], chain[i])

\* Patching, restoring, loading and registering are steps of PatchStack: whatever
\* step is taken, calls go through whole stacks in the order of registration, one
\* replacement comes or goes at a time and at the top, and FPRemoveFunctionPatch
\* (export.cpp:99-109) gives an object up only when it is on no stack.
ImplementsPatchStack == PatchStacks!StackSpec

\* While the callback is registered and nothing is under way, FPIsFunctionPatched
\* answers whether the replacement would run.
FlagsTellTruth ==
  Quiescent /\ notify =>
    \A o \in Listed :
      FPIsFunctionPatched(o) = "patched" <=> \E m \in Loaded : o \in RunsFor(m)

\* While the callback is registered and nothing is under way, every registered
\* replacement for this title whose module is in memory is applied.
AllApplied ==
  Quiescent /\ notify =>
    \A o \in Listed :
      ShouldBePatched(o) /\ data[o].target.module \in Loaded => data[o].isPatched
------------------------------------------------------------------------------
(* What the threads do with the mutex, and with what it protects.           *)

\* t is inside a function that took the mutex at its start.
Holds(t) == th[t].op \in {"remove", "loaded", "start"} /\ th[t].pc # "wait"

MutexOwned == \A t \in Threads : lock = t <=> Holds(t)

\* How far an operation can be.
StepsOf(op) ==
  CASE op = "none"     -> {"idle"}
    [] op = "add"      -> {"patch", "read", "write", "push"}
    [] op = "remove"   -> {"wait", "undo", "unwrite", "next", "patch", "read", "write"}
    [] op = "loaded"   -> {"wait", "next", "patch", "read", "write"}
    [] op = "unloaded" -> {"wait"}
    [] op = "start"    -> {"next", "patch", "read", "write"}

StepOfOp(t) ==
  /\ th[t].pc \in StepsOf(th[t].op)
  /\ th[t].pc = "idle" => th[t] = Idle
  /\ th[t].op # "remove" => th[t].removed = NULL
  /\ ~Holds(t) => th[t].removed = NULL /\ th[t].later = {} /\ th[t].todo = {}

\* The object a thread adds is its own; what the owner of the mutex goes
\* through is listed; what it removes is listed until it is erased.
WorksOnOwn(t) ==
  /\ th[t].op = "add" => th[t].cur \in Allocated \ Listed
  /\ th[t].later \union th[t].todo \subseteq Listed
  /\ Holds(t) /\ th[t].pc \in {"patch", "read", "write", "unwrite"} => th[t].cur \in Listed
  /\ Holds(t) /\ th[t].op = "remove" =>
       /\ th[t].removed \in Allocated \ th[t].later
       /\ th[t].removed \in Listed <=> th[t].pc \in {"undo", "unwrite"}
       /\ th[t].removed \in Listed =>
            /\ th[t].position + 1 \in DOMAIN list
            /\ list[th[t].position + 1] = th[t].removed
  /\ th[t].pc \in {"read", "write"} => Current(t).address \in Addrs

AddersApart ==
  \A t, u \in Threads : t # u /\ th[t].op = "add" =>
    /\ th[u].op = "add" => th[t].cur # th[u].cur
    /\ th[t].cur # th[u].removed

ListedOnce ==
  /\ \A i, j \in DOMAIN list : list[i] = list[j] => i = j
  /\ Listed \subseteq Allocated

\* The invariant that the steps of the program preserve by themselves.
IndInv ==
  /\ TypeOK
  /\ ListedOnce
  /\ MutexOwned
  /\ AddersApart
  /\ \A t \in Threads : StepOfOp(t) /\ WorksOnOwn(t)

\* The system and the callback: two modules in memory are apart, and resident
\* ones are where they always are; without an application nothing is cached and
\* nobody is notified; the start hook is alone, before there are notifications.
LoaderInv ==
  /\ \A m, n \in Modules : place[m] = place[n] /\ place[m] # NULL => m = n
  /\ \A m \in DOMAIN Resident : place[m] = Resident[m]
  /\ title = NULL =>
       /\ ~notify
       /\ handle = ResetHandles
       /\ \A m \in Modules \ DOMAIN Resident : place[m] = NULL
       /\ Quiescent
  /\ \A t \in Threads : Notified(t) => notify
  /\ \A t \in Threads : th[t].op = "start" =>
       ~notify /\ \A u \in Threads \ {t} : th[u] = Idle

\* The module attends to the loader: what it caches is fresh.
Attended == notify \/ \E t \in Threads : th[t].op = "start"

\* The callback for a module that has left will find its row: no module is at
\* its address yet, no two rows hold one handle, and no other callback is under
\* way (that one needs the loader to work in turn, or a single thread).
CacheInv ==
  /\ \A l \in Libraries \intersect DOMAIN Resident : handle[l] \in {NULL, place[l]}
  /\ \A t, u \in Threads : Notified(t) /\ Notified(u) => t = u
  /\ \A t \in Threads : th[t].op = "unloaded" => th[t].module \in Addrs \ Occupied
  /\ Attended =>
       /\ \A l \in Libraries :
            \/ handle[l] \in {NULL, place[l]}
            \/ \E t \in Threads : /\ th[t].op = "unloaded"
                                 /\ th[t].module = handle[l]
                                 /\ place[l] = NULL
       /\ \A k, l \in Libraries : handle[k] = handle[l] /\ handle[k] # NULL => k = l
------------------------------------------------------------------------------
(* Liveness.                                                                *)

\* Every call, callback and hook returns: the loops end and the mutex is
\* released on every path.  But a call may wait for ever for a thread that was
\* never created (CThread.h:125), and then so do those that wait for the mutex it
\* owns; nobody else does.
EveryCallReturns ==
  \A t \in Threads :
    th[t] # Idle ~> th[t] = Idle \/ \E u \in {t, lock} \intersect Threads : th[u].stuck
==============================================================================
