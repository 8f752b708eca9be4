-------------------------- MODULE HandleCacheProofs --------------------------
(****************************************************************************)
(* Theorems about the handle cache in FunctionPatcher: while the callback   *)
(* is registered no row of rpl_handles holds the handle of a module that is *)
(* gone, but for the one a callback under way will clear.                   *)
(****************************************************************************)
EXTENDS FunctionPatcherProofs

USE DEF system
------------------------------------------------------------------------------
(* The kinds of steps.                                                      *)

\* t goes on inside a call, or returns from it; what it is told stays.
GoesOn(t) ==
  /\ th[t] # Idle
  /\ th' \in [Threads -> LocalStates]
  /\ \A u \in Threads \ {t} : th'[u] = th[u]
  /\ \/ th'[t] = Idle /\ th[t].op # "start"
     \/ th'[t].op = th[t].op /\ th'[t].module = th[t].module

\* t calls one of the exports.
Calling(t) ==
  /\ MayCall(t)
  /\ th' \in [Threads -> LocalStates]
  /\ \A u \in Threads \ {t} : th'[u] = th[u]
  /\ th'[t].op \in {"add", "remove"}

\* PatchFunction returns to its caller and goes on there.
LEMMA ReturnGoesOn ==
  ASSUME IndInv, NEW t \in Threads, th[t].pc \in {"patch", "write"}, th' = Return(t)
  PROVE  GoesOn(t)
<1> DEFINE s == IF th[t].op = "add" THEN "push" ELSE "next"
           r == [th[t] EXCEPT !.pc = s, !.served = FALSE]
<1>1. th[t] \in LocalStates /\ s \in Steps /\ th' = [th EXCEPT ![t] = r]
  BY DEF IndInv, TypeOK, Steps, Return
<1>2. r \in LocalStates /\ r.op = th[t].op /\ r.module = th[t].module
  <2> HIDE DEF s
  <2> QED
    BY <1>1 DEF LocalStates
<1>3. /\ th' \in [Threads -> LocalStates]
      /\ \A u \in Threads \ {t} : th'[u] = th[u]
      /\ th'[t] = r
  BY <1>1, <1>2, LocalUpdate DEF IndInv
<1>4. th[t] # Idle
  BY DEF Idle
<1> QED
  BY <1>2, <1>3, <1>4 DEF GoesOn

\* A new local state of t with the call and what t was told in place goes on.
LEMMA UpdateGoesOn ==
  ASSUME IndInv, NEW t \in Threads, th[t] # Idle, NEW r \in LocalStates,
         th' = [th EXCEPT ![t] = r],
         \/ r = Idle /\ th[t].op # "start"
         \/ r.op = th[t].op /\ r.module = th[t].module
  PROVE  GoesOn(t)
<1>1. /\ th' \in [Threads -> LocalStates]
      /\ th'[t] = r
      /\ \A u \in Threads \ {t} : th'[u] = th[u]
  BY LocalUpdate DEF IndInv
<1> QED
  BY <1>1 DEF GoesOn

\* A thread that is at some step of a call is in one.
LEMMA InCall ==
  ASSUME IndInv, NEW t \in Threads, th[t].pc # "idle"
  PROVE  th[t] # Idle /\ th[t] \in LocalStates /\ th \in [Threads -> LocalStates]
BY DEF Idle, IndInv, TypeOK

\* Every step inside a call but the two that end the callback for a module that
\* has left and the start hook: the call goes on.
LEMMA ProceedGoesOn ==
  ASSUME IndInv, NEW t \in Threads, Proceed(t), ~FinishStart(t)
  PROVE  GoesOn(t)
<1>1. CASE SkipPatch(t)
  BY <1>1, ReturnGoesOn DEF SkipPatch
<1>2. CASE Unresolved(t)
  BY <1>2, ReturnGoesOn DEF Unresolved, NeedsPatch
<1>3. CASE SetPatched(t)
  BY <1>3, ReturnGoesOn DEF SetPatched, Writing
<1>4. CASE Resolve(t)
  <2> DEFINE r == [th[t] EXCEPT !.pc = "read"]
  <2>1. th[t] # Idle /\ th[t] \in LocalStates
    BY <1>4, InCall DEF Resolve, NeedsPatch
  <2>2. r \in LocalStates /\ r.op = th[t].op /\ r.module = th[t].module
    BY <2>1 DEF LocalStates, Steps
  <2>3. th' = [th EXCEPT ![t] = r]
    BY <1>4 DEF Resolve
  <2> QED
    BY <2>1, <2>2, <2>3, UpdateGoesOn
<1>5. CASE ReadInstruction(t)
  <2> DEFINE r == [th[t] EXCEPT !.pc = "write", !.core = Cores, !.served = FALSE]
  <2>1. th[t] # Idle /\ th[t] \in LocalStates /\ th \in [Threads -> LocalStates]
    BY <1>5, InCall DEF ReadInstruction
  <2>2. Cores \in 0 .. Cores /\ "write" \in Steps
    BY CoresAssumption DEF Steps
  <2>3. r \in LocalStates /\ r.op = th[t].op /\ r.module = th[t].module
    BY <2>1, <2>2 DEF LocalStates
  <2>4. th' = [th EXCEPT ![t] = r]
    BY <1>5, <2>1 DEF ReadInstruction
  <2> QED
    BY <2>1, <2>3, <2>4, UpdateGoesOn
<1>6. CASE WriteOnCore(t)
  <2> DEFINE r == [th[t] EXCEPT !.core = @ - 1, !.served = TRUE]
  <2>1. th[t] # Idle /\ th[t] \in LocalStates
    BY <1>6, InCall DEF WriteOnCore, Writing
  <2>2. th[t].core - 1 \in 0 .. Cores
    <3>1. th[t].core \in 0 .. Cores /\ th[t].core > 0
      BY <1>6, <2>1 DEF WriteOnCore, LocalStates
    <3> QED
      BY <3>1, CoresAssumption
  <2>3. r \in LocalStates /\ r.op = th[t].op /\ r.module = th[t].module
    BY <2>1, <2>2 DEF LocalStates
  <2>4. th' = [th EXCEPT ![t] = r]
    BY <1>6 DEF WriteOnCore
  <2> QED
    BY <2>1, <2>3, <2>4, UpdateGoesOn
<1>7. CASE PatchNext(t)
  <2>1. th[t] # Idle /\ th[t] \in LocalStates /\ th \in [Threads -> LocalStates]
    BY <1>7, InCall DEF PatchNext
  <2>2. PICK o \in th[t].todo :
          th' = [th EXCEPT ![t].cur = o, ![t].todo = @ \ {o}, ![t].pc = "patch"]
    BY <1>7 DEF PatchNext
  <2> DEFINE r == [th[t] EXCEPT !.cur = o, !.todo = @ \ {o}, !.pc = "patch"]
  <2>3. "patch" \in Steps /\ o \in Objects \union {NULL} /\ th[t].todo \ {o} \subseteq Objects
    BY <2>1, <2>2 DEF LocalStates, Steps
  <2>4. r \in LocalStates /\ r.op = th[t].op /\ r.module = th[t].module
    BY <2>1, <2>3 DEF LocalStates
  <2>5. th' = [th EXCEPT ![t] = r]
    BY <2>1, <2>2
  <2> QED
    BY <2>1, <2>4, <2>5, UpdateGoesOn
<1>8. CASE SkipRestore(t)
  <2>1. th[t] # Idle /\ th[t] \in LocalStates /\ th \in [Threads -> LocalStates]
    BY <1>8, InCall DEF SkipRestore, RestoreNext
  <2>2. PICK o \in Objects : th' = [th EXCEPT ![t].todo = @ \ {o}]
    BY <1>8 DEF SkipRestore
  <2> DEFINE r == [th[t] EXCEPT !.todo = @ \ {o}]
  <2>3. r \in LocalStates /\ r.op = th[t].op /\ r.module = th[t].module
    BY <2>1 DEF LocalStates
  <2>4. th' = [th EXCEPT ![t] = r]
    BY <2>2
  <2> QED
    BY <2>1, <2>3, <2>4, UpdateGoesOn
<1>9. CASE CheckInstruction(t)
  <2>1. th[t] # Idle /\ th[t] \in LocalStates /\ th \in [Threads -> LocalStates]
    BY <1>9, InCall DEF CheckInstruction, RestoreNext
  <2>2. PICK o \in Objects :
          th' = [th EXCEPT ![t].todo = @ \ {o}, ![t].cur = o, ![t].pc = "unwrite"]
    BY <1>9 DEF CheckInstruction
  <2> DEFINE r == [th[t] EXCEPT !.todo = @ \ {o}, !.cur = o, !.pc = "unwrite"]
  <2>3. "unwrite" \in Steps /\ th[t].todo \ {o} \subseteq Objects
    BY <2>1 DEF LocalStates, Steps
  <2>4. r \in LocalStates /\ r.op = th[t].op /\ r.module = th[t].module
    BY <2>1, <2>3 DEF LocalStates
  <2>5. th' = [th EXCEPT ![t] = r]
    BY <2>1, <2>2
  <2> QED
    BY <2>1, <2>4, <2>5, UpdateGoesOn
<1>10. CASE RestoreInstruction(t)
  <2> DEFINE r == [th[t] EXCEPT !.pc = "undo"]
  <2>1. th[t] # Idle /\ th[t] \in LocalStates
    BY <1>10, InCall DEF RestoreInstruction
  <2>2. r \in LocalStates /\ r.op = th[t].op /\ r.module = th[t].module
    BY <2>1 DEF LocalStates, Steps
  <2>3. th' = [th EXCEPT ![t] = r]
    BY <1>10 DEF RestoreInstruction
  <2> QED
    BY <2>1, <2>2, <2>3, UpdateGoesOn
<1>11. CASE Erase(t)
  <2> DEFINE todo == ToBeReapplied(t)
             r == [th[t] EXCEPT !.pc = "next", !.todo = todo, !.position = 0]
  <2>1. th[t] # Idle /\ th[t] \in LocalStates /\ th \in [Threads -> LocalStates]
    BY <1>11, InCall DEF Erase
  <2>2. "next" \in Steps /\ todo \subseteq Objects
    BY <2>1 DEF LocalStates, Steps, ToBeReapplied
  <2>3. r \in LocalStates /\ r.op = th[t].op /\ r.module = th[t].module
    <3> HIDE DEF todo
    <3> QED
      BY <2>1, <2>2 DEF LocalStates
  <2>4. th' = [th EXCEPT ![t] = r]
    BY <1>11, <2>1 DEF Erase
  <2> QED
    BY <2>1, <2>3, <2>4, UpdateGoesOn
<1>12. CASE FinishRemove(t) \/ FinishLoaded(t)
  <2>1. th[t] # Idle /\ th[t].op # "start" /\ th' = [th EXCEPT ![t] = Idle]
    BY <1>12, InCall DEF FinishRemove, FinishLoaded, LoopDone
  <2> QED
    BY <2>1, IdleType, UpdateGoesOn
<1>13. CASE SkipCore(t)
  <2> DEFINE r == [th[t] EXCEPT !.core = @ - 1]
  <2>1. th[t] # Idle /\ th[t] \in LocalStates /\ th[t].core > 0
    BY <1>13, InCall DEF SkipCore, NoThread, Writing
  <2>2. th[t].core - 1 \in 0 .. Cores
    BY <2>1, CoresAssumption DEF LocalStates
  <2>3. r \in LocalStates /\ r.op = th[t].op /\ r.module = th[t].module
    BY <2>1, <2>2 DEF LocalStates
  <2>4. th' = [th EXCEPT ![t] = r]
    BY <1>13 DEF SkipCore
  <2> QED
    BY <2>1, <2>3, <2>4, UpdateGoesOn
<1>14. CASE JoinNeverReturns(t)
  <2> DEFINE r == [th[t] EXCEPT !.stuck = TRUE]
  <2>1. th[t] # Idle /\ th[t] \in LocalStates
    BY <1>14, InCall DEF JoinNeverReturns, NoThread, Writing
  <2>2. r \in LocalStates /\ r.op = th[t].op /\ r.module = th[t].module
    BY <2>1 DEF LocalStates
  <2>3. th' = [th EXCEPT ![t] = r]
    BY <1>14 DEF JoinNeverReturns
  <2> QED
    BY <2>1, <2>2, <2>3, UpdateGoesOn
<1> QED
  BY <1>1, <1>2, <1>3, <1>4, <1>5, <1>6, <1>7, <1>8, <1>9, <1>10, <1>11, <1>12, <1>13,
     <1>14
     DEF Proceed

\* The same for the steps that wait for the mutex.
LEMMA LockingGoesOn ==
  ASSUME IndInv, NEW t \in Threads, Locking(t)
  PROVE  GoesOn(t)
<1>1. CASE PushBack(t) \/ PatchNotFound(t) \/ NotifyUnloaded(t)
  <2>1. th[t] # Idle /\ th[t].op # "start" /\ th' = [th EXCEPT ![t] = Idle]
    BY <1>1, InCall
       DEF PushBack, PatchNotFound, NotifyUnloaded, Enter, IndInv, StepOfOp, StepsOf
  <2> QED
    BY <2>1, IdleType, UpdateGoesOn
<1>2. CASE FindToBeRemoved(t)
  <2>1. th[t] # Idle /\ th[t] \in LocalStates /\ th \in [Threads -> LocalStates]
    BY <1>2, InCall DEF FindToBeRemoved, Enter
  <2> DEFINE o     == th[t].cur
             later == IF data[o].isPatched THEN ToBeTempRestored(o) ELSE {}
             todo  == IF data[o].isPatched THEN later \union {o} ELSE {}
             position == ErasePosition(o)
             r     == [th[t] EXCEPT !.pc = "undo", !.removed = o, !.position = position,
                                    !.later = later, !.todo = todo]
  <2>2. o \in Objects /\ Listed \subseteq Objects
    BY <1>2 DEF FindToBeRemoved, IndInv, ListedOnce, Allocated
  <2>3. "undo" \in Steps /\ later \subseteq Objects /\ todo \subseteq Objects
    BY <2>2 DEF ToBeTempRestored, Steps
  <2>4. th' = [th EXCEPT ![t] = r]
    BY <1>2, <2>1, Zenon DEF FindToBeRemoved
  <2>6. position \in Nat
    <3>1. o \in Listed /\ Len(list) \in Nat
      BY <1>2 DEF FindToBeRemoved, IndInv, TypeOK
    <3>2. position \in 0 .. Len(list) - 1
      BY <3>1, ErasePositionFinds DEF IndInv
    <3> HIDE DEF position
    <3> QED
      BY <3>1, <3>2
  <2>5. r \in LocalStates /\ r.op = th[t].op /\ r.module = th[t].module
    <3> HIDE DEF o, later, todo, position
    <3> QED
      BY <2>1, <2>2, <2>3, <2>6 DEF LocalStates
  <2> QED
    BY <2>1, <2>4, <2>5, UpdateGoesOn
<1>3. CASE NotifyLoaded(t)
  <2> DEFINE todo == Listed
             r == [th[t] EXCEPT !.pc = "next", !.todo = todo]
  <2>1. th[t] # Idle /\ th[t] \in LocalStates /\ th \in [Threads -> LocalStates]
    BY <1>3, InCall DEF NotifyLoaded, Enter
  <2>2. "next" \in Steps /\ todo \subseteq Objects
    BY DEF IndInv, ListedOnce, Allocated, Steps
  <2>3. r \in LocalStates /\ r.op = th[t].op /\ r.module = th[t].module
    <3> HIDE DEF todo
    <3> QED
      BY <2>1, <2>2 DEF LocalStates
  <2>4. th' = [th EXCEPT ![t] = r]
    BY <1>3, <2>1 DEF NotifyLoaded
  <2> QED
    BY <2>1, <2>3, <2>4, UpdateGoesOn
<1> QED
  BY <1>1, <1>2, <1>3 DEF Locking
------------------------------------------------------------------------------
(* LoaderInv.                                                               *)

\* A thread is in a call while an application runs, alone if that is its start.
LEMMA Awake ==
  ASSUME LoaderInv, NEW t \in Threads, th[t] # Idle
  PROVE  /\ title # NULL
         /\ \A u \in Threads \ {t} : th[u].op # "start"
BY DEF LoaderInv, Quiescent, Idle

\* A thread that goes on by itself starts no callback.
LEMMA GoesOnKeepsLoader ==
  ASSUME LoaderInv, NEW t \in Threads, GoesOn(t), UNCHANGED system
  PROVE  LoaderInv'
<1>1. title # NULL /\ \A u \in Threads \ {t} : th[u].op # "start"
  BY Awake DEF GoesOn
<1>2. \A u \in Threads : th'[u].op \in {"none", th[u].op}
  BY DEF GoesOn, Idle
<1>3. ASSUME NEW u \in Threads, Notified(u)' PROVE notify'
  BY <1>2, <1>3 DEF LoaderInv, Notified
<1>4. ASSUME NEW u \in Threads, th'[u].op = "start"
      PROVE  ~notify' /\ \A v \in Threads \ {u} : th'[v] = Idle
  <2>1. u = t /\ th[t].op = "start"
    BY <1>1, <1>2, <1>4
  <2> QED
    BY <2>1 DEF LoaderInv, GoesOn
<1> QED
  BY <1>1, <1>3, <1>4 DEF LoaderInv

\* A client's call starts no callback.
LEMMA CallingKeepsLoader ==
  ASSUME LoaderInv, NEW t \in Threads, Calling(t), UNCHANGED <<system, handle>>
  PROVE  LoaderInv'
<1>1. title # NULL /\ \A u \in Threads : th[u].op # "start"
  BY DEF Calling, MayCall
<1>2. \A u \in Threads : th'[u].op \in {"add", "remove", th[u].op}
  BY DEF Calling
<1>3. \A u \in Threads : Notified(u)' => notify'
  BY <1>2 DEF LoaderInv, Notified
<1>4. \A u \in Threads : th'[u].op # "start"
  BY <1>1, <1>2
<1> QED
  BY <1>1, <1>3, <1>4 DEF LoaderInv

\* With the callback registered nobody is in the start hook any more.
LEMMA FinishStartKeepsLoader ==
  ASSUME IndInv, LoaderInv, NEW t \in Threads, FinishStart(t)
  PROVE  LoaderInv'
<1>1. th[t].op = "start" /\ th[t] # Idle
  BY DEF FinishStart, LoopDone, Idle
<1>2. title # NULL /\ \A u \in Threads : th'[u] = Idle
  <2>1. \A u \in Threads \ {t} : th[u] = Idle
    BY <1>1 DEF LoaderInv
  <2>2. th' = [th EXCEPT ![t] = Idle] /\ th \in [Threads -> LocalStates]
    BY DEF FinishStart, IndInv, TypeOK
  <2> QED
    BY <1>1, <2>1, <2>2, Awake
<1>3. \A u \in Threads : ~Notified(u)' /\ th'[u].op # "start"
  BY <1>2 DEF Idle, Notified
<1> QED
  BY <1>2, <1>3 DEF LoaderInv, FinishStart

\* What a thread that calls the loader is in afterwards.
LEMMA LoaderCall ==
  ASSUME IndInv, NEW t \in Threads, NEW r \in LocalStates,
         th' = IF notify THEN [th EXCEPT ![t] = r] ELSE th
  PROVE  /\ \A u \in Threads \ {t} : th'[u] = th[u]
         /\ th'[t] = IF notify THEN r ELSE th[t]
BY DEF IndInv, TypeOK

\* The loader puts a module where none is.
LEMMA OSLoadKeepsLoader ==
  ASSUME IndInv, LoaderInv, NEW t \in Threads, NEW m \in Modules, NEW a \in Addrs,
         OSLoad(t, m, a)
  PROVE  LoaderInv'
<1> DEFINE r == [Idle EXCEPT !.op = "loaded", !.pc = "wait"]
<1>1. r \in LocalStates /\ r.op = "loaded"
  BY IdleType DEF Idle, LocalStates, Ops, Steps
<1>2. /\ \A u \in Threads \ {t} : th'[u] = th[u]
      /\ th'[t] = IF notify THEN r ELSE th[t]
  BY <1>1, LoaderCall DEF OSLoad
<1>3. /\ title # NULL /\ title' = title /\ notify' = notify
      /\ \A u \in Threads : th[u].op # "start"
  BY DEF OSLoad, MayCall
<1> HIDE DEF r
<1>4. \A u \in Threads : Notified(u)' => notify'
  BY <1>1, <1>2, <1>3 DEF LoaderInv, Notified
<1>5. \A u \in Threads : th'[u].op # "start"
  BY <1>1, <1>2, <1>3
<1>6. /\ place' = [place EXCEPT ![m] = a]
      /\ place \in [Modules -> Addrs \union {NULL}]
      /\ place[m] = NULL
      /\ \A n \in Modules : place[n] # a
  BY DEF OSLoad, Occupied, IndInv, TypeOK
<1>7. \A k, n \in Modules : place'[k] = place'[n] /\ place'[k] # NULL => k = n
  BY <1>6 DEF LoaderInv
<1>8. \A n \in DOMAIN Resident : place'[n] = Resident[n]
  BY <1>6, ResidentAssumption, NullAddressAssumption DEF LoaderInv
<1> QED
  BY <1>3, <1>4, <1>5, <1>7, <1>8 DEF LoaderInv

\* Resident modules stay.
LEMMA OSUnloadKeepsLoader ==
  ASSUME IndInv, LoaderInv, NEW t \in Threads, NEW m \in Modules, OSUnload(t, m)
  PROVE  LoaderInv'
<1> DEFINE a == place[m]
           r == [Idle EXCEPT !.op = "unloaded", !.pc = "wait", !.module = a]
<1>0. a \in Addrs
  BY DEF OSUnload, IndInv, TypeOK
<1>1. r \in LocalStates /\ r.op = "unloaded"
  BY <1>0, IdleType DEF Idle, LocalStates, Ops, Steps
<1>2. /\ \A u \in Threads \ {t} : th'[u] = th[u]
      /\ th'[t] = IF notify THEN r ELSE th[t]
  BY <1>1, LoaderCall DEF OSUnload
<1>3. /\ title # NULL /\ title' = title /\ notify' = notify
      /\ \A u \in Threads : th[u].op # "start"
  BY DEF OSUnload, MayCall
<1> HIDE DEF r
<1>4. \A u \in Threads : Notified(u)' => notify'
  BY <1>1, <1>2, <1>3 DEF LoaderInv, Notified
<1>5. \A u \in Threads : th'[u].op # "start"
  BY <1>1, <1>2, <1>3
<1>6. /\ place' = [place EXCEPT ![m] = NULL]
      /\ place \in [Modules -> Addrs \union {NULL}]
      /\ m \notin DOMAIN Resident
  BY DEF OSUnload, IndInv, TypeOK
<1>7. \A k, n \in Modules : place'[k] = place'[n] /\ place'[k] # NULL => k = n
  BY <1>6 DEF LoaderInv
<1>8. \A n \in DOMAIN Resident : place'[n] = Resident[n]
  BY <1>6, ResidentAssumption DEF LoaderInv
<1> QED
  BY <1>3, <1>4, <1>5, <1>7, <1>8 DEF LoaderInv

\* An application starts with its modules apart, and its hook alone.
LEMMA ApplicationStartsKeepsLoader ==
  ASSUME IndInv, LoaderInv, NEW t \in Threads, NEW ti \in Titles,
         NEW upidMatches \in BOOLEAN, ApplicationStarts(t, ti, upidMatches)
  PROVE  LoaderInv'
<1>1. title = NULL /\ ~notify /\ notify' = notify /\ title' # NULL
  BY NullObjectAssumption DEF ApplicationStarts, LoaderInv
<1>2. place' \in Placements
  BY DEF ApplicationStarts
<1>3. /\ \A k, n \in Modules : place'[k] = place'[n] /\ place'[k] # NULL => k = n
      /\ \A n \in DOMAIN Resident : place'[n] = Resident[n]
  BY <1>2 DEF Placements
<1>4. /\ \A u \in Threads \ {t} : th'[u] = Idle
      /\ th'[t].op \in {"none", "start"}
  <2>1. \A u \in Threads : th[u] = Idle
    BY DEF ApplicationStarts, Quiescent
  <2>4. Idle.op = "none"
    BY DEF Idle
  <2>2. CASE th' = th
    BY <2>1, <2>2, <2>4
  <2>3. CASE th' = [th EXCEPT ![t] = [Idle EXCEPT !.op = "start", !.pc = "next",
                                                   !.todo = Listed]]
    <3>1. th \in [Threads -> LocalStates]
      BY DEF IndInv, TypeOK
    <3> QED
      BY <2>1, <2>3, <3>1 DEF Idle
  <2> QED
    BY <2>2, <2>3 DEF ApplicationStarts
<1>5. \A u \in Threads : ~Notified(u)'
  BY <1>4 DEF Notified, Idle
<1>6. \A u \in Threads : th'[u].op = "start" => u = t
  BY <1>4 DEF Idle
<1> QED
  BY <1>1, <1>3, <1>4, <1>5, <1>6 DEF LoaderInv

\* An application that ends takes its modules, handles and the callback along.
LEMMA ApplicationEndsKeepsLoader ==
  ASSUME IndInv, LoaderInv, ApplicationEnds
  PROVE  LoaderInv'
<1>1. /\ ~notify' /\ handle' = ResetHandles /\ Quiescent /\ th' = th
      /\ place' = [m \in Modules |-> IF m \in DOMAIN Resident THEN Resident[m] ELSE NULL]
  BY DEF ApplicationEnds
<1>2. Quiescent' /\ ResetHandles' = ResetHandles
  BY <1>1 DEF Quiescent, ResetHandles
<1>3. \A t \in Threads : ~Notified(t)' /\ th'[t].op # "start"
  BY <1>1 DEF Quiescent, Notified, Idle
<1>4. /\ \A k, n \in Modules : place'[k] = place'[n] /\ place'[k] # NULL => k = n
      /\ \A n \in DOMAIN Resident : place'[n] = Resident[n]
      /\ \A n \in Modules \ DOMAIN Resident : place'[n] = NULL
  BY <1>1, ResidentAssumption, NullAddressAssumption
<1> QED
  BY <1>1, <1>2, <1>3, <1>4 DEF LoaderInv

\* Nothing is under way at the start.
LEMMA InitLoader == Init => LoaderInv
<1> SUFFICES ASSUME Init PROVE LoaderInv
  OBVIOUS
<1>1. /\ ~notify /\ handle = ResetHandles /\ \A t \in Threads : th[t] = Idle
      /\ place = [m \in Modules |-> IF m \in DOMAIN Resident THEN Resident[m] ELSE NULL]
  BY DEF Init, RplHandles, ResetHandles
<1>2. \A t \in Threads : ~Notified(t) /\ th[t].op # "start"
  BY <1>1 DEF Notified, Idle
<1>3. /\ \A k, n \in Modules : place[k] = place[n] /\ place[k] # NULL => k = n
      /\ \A n \in DOMAIN Resident : place[n] = Resident[n]
      /\ \A n \in Modules \ DOMAIN Resident : place[n] = NULL
  BY <1>1, ResidentAssumption, NullAddressAssumption
<1> QED
  BY <1>1, <1>2, <1>3 DEF LoaderInv, Quiescent
------------------------------------------------------------------------------
(* CacheInv, when notifications come one after the other.                   *)

\* The loader works in turn, or one thread does all the calls.
InTurn == LoaderInTurn \/ \A t, u \in Threads : t = u

\* No callback is under way when a thread calls the loader.
LEMMA LoaderIdle ==
  ASSUME InTurn, NEW t \in Threads, MayCall(t), LoaderReady
  PROVE  \A u \in Threads : ~Notified(u)
BY DEF InTurn, MayCall, LoaderReady, Notified, Idle

\* A lookup caches the handle the loader has, or leaves the one that is there.
LEMMA CacheHandleRows ==
  ASSUME IndInv, NEW l \in Libraries, handle' = CacheHandle(l)
  PROVE  /\ handle' \in [Libraries -> Addrs \union {NULL}]
         /\ \A k \in Libraries :
              \/ handle'[k] = handle[k]
              \/ handle[k] = NULL /\ handle'[k] = place[k]
BY LibrariesAssumption DEF CacheHandle, RplHandle, IsModuleLoaded, IndInv, TypeOK

\* What a step inside a call may do to the rows keeps them fresh.
LEMMA GoesOnKeepsCache ==
  ASSUME IndInv, LoaderInv, CacheInv, NEW t \in Threads, GoesOn(t),
         th[t].op # "unloaded", UNCHANGED system,
         \A k \in Libraries :
           \/ handle'[k] = handle[k]
           \/ handle[k] = NULL /\ handle'[k] = place[k]
  PROVE  CacheInv'
<1>1. \A u \in Threads : th'[u].op \in {"none", th[u].op}
  BY DEF GoesOn, Idle
<1>2. \A u \in Threads : /\ th'[u].op = "unloaded" <=> th[u].op = "unloaded"
                         /\ th[u].op = "unloaded" => th'[u].module = th[u].module
  BY <1>1 DEF GoesOn, Idle
<1>3. \A u \in Threads : Notified(u)' => Notified(u)
  BY <1>1 DEF Notified
<1>4. Attended' => Attended
  BY <1>1 DEF Attended
<1>5. place' = place /\ Occupied' = Occupied
  BY DEF Occupied
<1>6. \A l \in Libraries \intersect DOMAIN Resident : handle'[l] \in {NULL, place'[l]}
  BY <1>5 DEF CacheInv
<1>7. \A u \in Threads : th'[u].op = "unloaded" => th'[u].module \in (Addrs \ Occupied)'
  BY <1>2, <1>5 DEF CacheInv
<1>8. ASSUME Attended, NEW l \in Libraries
      PROVE  \/ handle'[l] \in {NULL, place'[l]}
             \/ \E u \in Threads : /\ th'[u].op = "unloaded"
                                   /\ th'[u].module = handle'[l]
                                   /\ place'[l] = NULL
  <2>1. CASE handle'[l] = handle[l]
    <3>1. CASE handle[l] \in {NULL, place[l]}
      BY <2>1, <3>1, <1>5
    <3>2. CASE handle[l] \notin {NULL, place[l]}
      <4>1. PICK u \in Threads : /\ th[u].op = "unloaded" /\ th[u].module = handle[l]
                                 /\ place[l] = NULL
        BY <1>8, <3>2 DEF CacheInv
      <4> QED
        BY <4>1, <1>2, <1>5, <2>1
    <3> QED
      BY <3>1, <3>2
  <2>2. CASE handle'[l] = place[l]
    BY <2>2, <1>5
  <2> QED
    BY <2>1, <2>2
<1>9. ASSUME Attended, NEW k \in Libraries, NEW l \in Libraries,
             handle'[k] = handle'[l], handle'[k] # NULL
      PROVE  k = l
  <2>0. k \in Modules /\ l \in Modules
    BY LibrariesAssumption
  <2>1. CASE handle'[k] = handle[k] /\ handle'[l] = handle[l]
    BY <1>9, <2>1 DEF CacheInv
  <2>2. CASE handle'[k] = place[k] /\ handle'[l] = place[l]
    BY <1>9, <2>0, <2>2 DEF LoaderInv
  <2>3. ASSUME NEW i \in Libraries, NEW j \in Libraries, i \in Modules, j \in Modules,
               handle'[i] = handle'[j], handle'[i] # NULL,
               handle'[i] = handle[i], handle'[j] = place[j]
        PROVE  i = j
    <3>1. CASE handle[i] = place[i]
      <4>1. place[i] = place[j] /\ place[i] # NULL
        BY <2>3, <3>1
      <4> QED
        BY <2>3, <4>1 DEF LoaderInv
    <3>2. CASE handle[i] # place[i]
      <4>1. PICK u \in Threads : th[u].op = "unloaded" /\ th[u].module = handle[i]
        BY <1>9, <2>3, <3>2 DEF CacheInv
      <4>2. handle[i] \notin Occupied
        BY <4>1 DEF CacheInv
      <4> QED
        BY <2>3, <4>2 DEF Occupied
    <3> QED
      BY <3>1, <3>2
  <2> QED
    BY <1>9, <2>0, <2>1, <2>2, <2>3
<1> QED
  BY <1>3, <1>4, <1>6, <1>7, <1>8, <1>9 DEF CacheInv

\* A call of an export begins, and changes nothing here.
LEMMA CallingKeepsCache ==
  ASSUME CacheInv, NEW t \in Threads, Calling(t), UNCHANGED <<system, handle>>
  PROVE  CacheInv'
<1>1. \A u \in Threads \ {t} : th'[u] = th[u]
  BY DEF Calling
<1>2. ~Notified(t) /\ ~Notified(t)' /\ th[t].op # "start" /\ th'[t].op # "start"
  BY DEF Calling, MayCall, Notified, Idle
<1>3. Attended' = Attended
  BY <1>1, <1>2 DEF Attended
<1>4. \A u \in Threads : /\ Notified(u)' = Notified(u)
                         /\ th'[u].op = "unloaded" <=> th[u].op = "unloaded"
                         /\ th'[u].op = "unloaded" => th'[u].module = th[u].module
  BY <1>1, <1>2 DEF Notified
<1>5. Occupied' = Occupied /\ place' = place /\ handle' = handle
  BY DEF Occupied
<1> QED
  BY <1>3, <1>4, <1>5 DEF CacheInv

\* The start hook leaves with a fresh cache.
LEMMA FinishStartKeepsCache ==
  ASSUME IndInv, LoaderInv, CacheInv, NEW t \in Threads, FinishStart(t)
  PROVE  CacheInv'
<1>1. th[t].op = "start" /\ Attended
  BY DEF FinishStart, LoopDone, Attended
<1>2. \A u \in Threads : ~Notified(u)
  BY <1>1 DEF LoaderInv, Notified, Idle
<1>3. \A u \in Threads : ~Notified(u)' /\ th'[u].op # "unloaded"
  <2>1. th' = [th EXCEPT ![t] = Idle] /\ th \in [Threads -> LocalStates]
    BY DEF FinishStart, IndInv, TypeOK
  <2> QED
    BY <1>2, <2>1 DEF Notified, Idle
<1>4. handle' = handle /\ place' = place
  BY DEF FinishStart
<1>5. \A l \in Libraries : handle[l] \in {NULL, place[l]}
  BY <1>1, <1>2 DEF CacheInv, Notified
<1> QED
  BY <1>1, <1>3, <1>4, <1>5 DEF CacheInv

\* The rows before the loader works: nothing is stale.
LEMMA RowsBeforeLoader ==
  ASSUME CacheInv, \A u \in Threads : ~Notified(u), Attended
  PROVE  \A l \in Libraries : handle[l] \in {NULL, place[l]}
BY DEF CacheInv, Notified

\* A module comes: its row is empty, the others stay fresh.
LEMMA OSLoadKeepsCache ==
  ASSUME InTurn, IndInv, LoaderInv, CacheInv, NEW t \in Threads, NEW m \in Modules,
         NEW a \in Addrs, OSLoad(t, m, a)
  PROVE  CacheInv'
<1> DEFINE r == [Idle EXCEPT !.op = "loaded", !.pc = "wait"]
<1>1. r \in LocalStates /\ r.op = "loaded"
  BY IdleType DEF Idle, LocalStates, Ops, Steps
<1>2. /\ \A u \in Threads \ {t} : th'[u] = th[u]
      /\ th'[t] = IF notify THEN r ELSE th[t]
  BY <1>1, LoaderCall DEF OSLoad
<1> HIDE DEF r
<1>3. /\ \A u \in Threads : ~Notified(u) /\ th[u].op # "start"
      /\ notify' = notify /\ handle' = handle
  BY LoaderIdle DEF OSLoad, MayCall
<1>4. \A u \in Threads : th'[u].op # "unloaded" /\ th'[u].op # "start"
  BY <1>1, <1>2, <1>3 DEF Notified
<1>5. Attended' = Attended
  BY <1>3, <1>4 DEF Attended
<1>6. /\ place' = [place EXCEPT ![m] = a]
      /\ place \in [Modules -> Addrs \union {NULL}]
      /\ place[m] = NULL
  BY DEF OSLoad, IndInv, TypeOK
<1>7. \A l \in Libraries : handle[l] \in {NULL, place[l]} => handle[l] \in {NULL, place'[l]}
  BY <1>6, LibrariesAssumption
<1>8. \A l \in Libraries \intersect DOMAIN Resident : handle'[l] \in {NULL, place'[l]}
  BY <1>3, <1>7 DEF CacheInv
<1>9. \A u, v \in Threads : Notified(u)' /\ Notified(v)' => u = v
  BY <1>2, <1>3 DEF Notified
<1>10. Attended => \A l \in Libraries : handle'[l] \in {NULL, place'[l]}
  BY <1>3, <1>7, RowsBeforeLoader
<1>11. Attended => \A k, l \in Libraries :
                     handle'[k] = handle'[l] /\ handle'[k] # NULL => k = l
  BY <1>3 DEF CacheInv
<1> QED
  BY <1>4, <1>5, <1>8, <1>9, <1>10, <1>11 DEF CacheInv

\* A module leaves: its row, if it has one, is the callback's.
LEMMA OSUnloadKeepsCache ==
  ASSUME InTurn, IndInv, LoaderInv, CacheInv, NEW t \in Threads, NEW m \in Modules,
         OSUnload(t, m)
  PROVE  CacheInv'
<1> DEFINE a == place[m]
           r == [Idle EXCEPT !.op = "unloaded", !.pc = "wait", !.module = a]
<1>0. a \in Addrs
  BY DEF OSUnload, IndInv, TypeOK
<1>1. r \in LocalStates /\ r.op = "unloaded" /\ r.module = a
  BY <1>0, IdleType DEF Idle, LocalStates, Ops, Steps
<1>2. /\ \A u \in Threads \ {t} : th'[u] = th[u]
      /\ th'[t] = IF notify THEN r ELSE th[t]
  BY <1>1, LoaderCall DEF OSUnload
<1> HIDE DEF r
<1>3. /\ \A u \in Threads : ~Notified(u) /\ th[u].op # "start"
      /\ notify' = notify /\ handle' = handle
  BY LoaderIdle DEF OSUnload, MayCall
<1>4. \A u \in Threads : th'[u].op # "start"
  BY <1>1, <1>2, <1>3 DEF Notified
<1>5. Attended' <=> notify
  BY <1>3, <1>4 DEF Attended
<1>6. /\ place' = [place EXCEPT ![m] = NULL]
      /\ place \in [Modules -> Addrs \union {NULL}]
      /\ m \notin DOMAIN Resident
  BY DEF OSUnload, IndInv, TypeOK
<1>7. a \notin Occupied'
  <2>1. \A n \in Modules : place'[n] # a
    BY <1>0, <1>6, NullAddressAssumption DEF LoaderInv
  <2> QED
    BY <2>1 DEF Occupied
<1>8. \A l \in Libraries \intersect DOMAIN Resident : handle'[l] \in {NULL, place'[l]}
  BY <1>3, <1>6, LibrariesAssumption DEF CacheInv
<1>9. \A u \in Threads : Notified(u)' => u = t /\ notify
  BY <1>2, <1>3 DEF Notified
<1>10. \A u \in Threads : th'[u].op = "unloaded" => th'[u].module \in (Addrs \ Occupied)'
  BY <1>0, <1>1, <1>2, <1>7, <1>9 DEF Notified
<1>11. ASSUME notify, NEW l \in Libraries
       PROVE  \/ handle'[l] \in {NULL, place'[l]}
              \/ /\ th'[t].op = "unloaded"
                 /\ th'[t].module = handle'[l]
                 /\ place'[l] = NULL
  <2>1. handle[l] \in {NULL, place[l]} /\ l \in Modules
    BY <1>3, <1>11, RowsBeforeLoader, LibrariesAssumption DEF Attended
  <2> QED
    BY <1>1, <1>2, <1>3, <1>6, <1>11, <2>1
<1>12. notify => \A k, l \in Libraries :
                   handle'[k] = handle'[l] /\ handle'[k] # NULL => k = l
  BY <1>3 DEF CacheInv, Attended
<1> QED
  BY <1>5, <1>8, <1>9, <1>10, <1>11, <1>12 DEF CacheInv

\* The row that resetHandle clears is the one of the module that has left.
LEMMA NotifyUnloadedKeepsCache ==
  ASSUME IndInv, LoaderInv, CacheInv, NEW t \in Threads, NotifyUnloaded(t)
  PROVE  CacheInv'
<1> DEFINE h == th[t].module
<1>1. th[t].op = "unloaded" /\ Notified(t) /\ h \in Addrs \ Occupied
  BY DEF NotifyUnloaded, Enter, Notified, CacheInv
<1>2. GoesOn(t)
  BY LockingGoesOn DEF Locking
<1>3. th'[t] = Idle /\ \A u \in Threads \ {t} : th'[u] = th[u] /\ ~Notified(u)
  <2>1. th' = [th EXCEPT ![t] = Idle] /\ th \in [Threads -> LocalStates]
    BY DEF NotifyUnloaded, IndInv, TypeOK
  <2> QED
    BY <1>1, <2>1 DEF CacheInv
<1>4. \A u \in Threads : ~Notified(u)' /\ th'[u].op # "unloaded"
  BY <1>3 DEF Notified, Idle
<1>5. Attended' => Attended
  BY <1>3, <1>4 DEF Attended, Idle, NotifyUnloaded
<1>6. place' = place /\ handle' = ResetHandle(h)
  BY DEF NotifyUnloaded
<1>7. \A l \in Libraries : handle'[l] \in {NULL, handle[l]}
  BY <1>6 DEF ResetHandle
<1>8. ASSUME Attended, NEW l \in Libraries PROVE handle'[l] \in {NULL, place[l]}
  <2>1. CASE handle[l] \in {NULL, place[l]}
    BY <1>7, <2>1
  <2>2. CASE handle[l] \notin {NULL, place[l]}
    <3>1. handle[l] = h
      <4>1. PICK u \in Threads : th[u].op = "unloaded" /\ th[u].module = handle[l]
        BY <1>8, <2>2 DEF CacheInv
      <4> QED
        BY <1>3, <4>1 DEF Notified
    <3>2. \A k \in Libraries : handle[k] = h => k = l
      BY <1>8, <2>2, <3>1 DEF CacheInv
    <3>3. GetTypeForHandle(h) = l
      BY <3>1, <3>2 DEF GetTypeForHandle, RowsOf
    <3> QED
      BY <1>6, <3>3 DEF ResetHandle
  <2> QED
    BY <2>1, <2>2
<1>9. Attended => \A k, l \in Libraries :
                    handle'[k] = handle'[l] /\ handle'[k] # NULL => k = l
  BY <1>7 DEF CacheInv
<1>10. \A l \in Libraries \intersect DOMAIN Resident : handle'[l] \in {NULL, place'[l]}
  BY <1>6, <1>7 DEF CacheInv
<1> QED
  BY <1>4, <1>5, <1>6, <1>8, <1>9, <1>10 DEF CacheInv

\* Without an application no row holds a handle, and so none does when one
\* starts, nor when one has ended.
LEMMA EmptyCache ==
  ASSUME handle' = ResetHandles, \A u \in Threads : ~Notified(u)'
  PROVE  CacheInv'
<1>1. \A l \in Libraries : handle'[l] = NULL
  BY DEF ResetHandles
<1> QED
  BY <1>1 DEF CacheInv, Notified

\* A new application starts with an empty table of handles.
LEMMA ApplicationStartsKeepsCache ==
  ASSUME IndInv, LoaderInv, NEW t \in Threads, NEW ti \in Titles,
         NEW upidMatches \in BOOLEAN, ApplicationStarts(t, ti, upidMatches)
  PROVE  CacheInv'
<1>1. handle' = ResetHandles
  BY DEF ApplicationStarts, LoaderInv
<1>2. ~notify' /\ LoaderInv'
  BY ApplicationStartsKeepsLoader DEF ApplicationStarts, LoaderInv
<1>3. \A u \in Threads : ~Notified(u)'
  BY <1>2 DEF LoaderInv
<1> QED
  BY <1>1, <1>3, EmptyCache

\* The end of an application empties the table of handles.
LEMMA ApplicationEndsKeepsCache ==
  ASSUME IndInv, LoaderInv, ApplicationEnds
  PROVE  CacheInv'
<1>1. handle' = ResetHandles /\ ~notify' /\ LoaderInv'
  BY ApplicationEndsKeepsLoader DEF ApplicationEnds
<1>2. \A u \in Threads : ~Notified(u)'
  BY <1>1 DEF LoaderInv
<1> QED
  BY <1>1, <1>2, EmptyCache

\* The table of handles is empty at the start.
LEMMA InitCache == Init => CacheInv
<1> SUFFICES ASSUME Init PROVE CacheInv
  OBVIOUS
<1>1. \A l \in Libraries : handle[l] = NULL
  BY DEF Init, RplHandles
<1>2. \A u \in Threads : ~Notified(u) /\ th[u].op # "unloaded"
  BY DEF Init, Notified, Idle
<1> QED
  BY <1>1, <1>2 DEF CacheInv
------------------------------------------------------------------------------
(* The theorems.                                                            *)

\* What a step inside a call does to the rows.
LEMMA ProceedRows ==
  ASSUME IndInv, NEW t \in Threads, Proceed(t)
  PROVE  \A k \in Libraries :
           \/ handle'[k] = handle[k]
           \/ handle[k] = NULL /\ handle'[k] = place[k]
<1>1. CASE Unresolved(t) \/ Resolve(t)
  <2> DEFINE o == th[t].cur
             l == data[o].target.module
  <2>1. th[t].pc = "patch" /\ handle' = HandlesAfterUpdate(o)
    BY <1>1 DEF Unresolved, Resolve, NeedsPatch
  <2>2. data[o].target \in Targets
    BY <2>1, PatchesAllocated DEF ObjectRecords
  <2>3. CASE data[o].target.kind = "library"
    <3>1. l \in Libraries /\ handle' = CacheHandle(l)
      BY <2>1, <2>2, <2>3, TargetsAssumption DEF HandlesAfterUpdate
    <3> QED
      BY <3>1, CacheHandleRows
  <2>4. CASE data[o].target.kind # "library"
    BY <2>1, <2>4 DEF HandlesAfterUpdate
  <2> QED
    BY <2>3, <2>4
<1>2. CASE ~(Unresolved(t) \/ Resolve(t))
  <2>1. handle' = handle
    BY <1>2
       DEF Proceed, SkipPatch, ReadInstruction, WriteOnCore, SkipCore, JoinNeverReturns,
           SetPatched, PatchNext, SkipRestore, CheckInstruction, RestoreInstruction, Erase, FinishRemove,
           FinishLoaded, FinishStart
  <2> QED
    BY <2>1
<1> QED
  BY <1>1, <1>2

\* The system is left alone inside a call, but for the end of the start hook.
LEMMA ProceedSystem ==
  ASSUME IndInv, NEW t \in Threads, Proceed(t), ~FinishStart(t)
  PROVE  UNCHANGED system /\ th[t].op # "unloaded"
<1>1. th[t].pc # "wait"
  BY DEF Proceed, SkipPatch, Unresolved, Resolve, NeedsPatch, ReadInstruction, WriteOnCore,
         SkipCore, JoinNeverReturns, NoThread, Writing, SetPatched, PatchNext, SkipRestore, CheckInstruction, RestoreNext,
         RestoreInstruction, Erase, FinishRemove, FinishLoaded, LoopDone
<1>2. th[t].op # "unloaded"
  BY <1>1 DEF IndInv, StepOfOp, StepsOf
<1>3. UNCHANGED system
  BY DEF Proceed, SkipPatch, Unresolved, Resolve, ReadInstruction, WriteOnCore,
         SkipCore, JoinNeverReturns, SetPatched, PatchNext, SkipRestore, CheckInstruction,
         RestoreInstruction, Erase, FinishRemove, FinishLoaded
<1> QED
  BY <1>2, <1>3

\* A client's call begins.
LEMMA ExportIsCalling ==
  ASSUME IndInv, NEW t \in Threads,
         \/ \E tg \in Targets : FPAddFunctionPatch(t, tg)
         \/ \E o \in Objects : FPRemoveFunctionPatch(t, o)
  PROVE  Calling(t) /\ UNCHANGED <<system, handle>>
<1>1. CASE \E tg \in Targets : FPAddFunctionPatch(t, tg)
  <2>1. PICK tg \in Targets : FPAddFunctionPatch(t, tg)
    BY <1>1
  <2>2. PICK o \in Objects \ Allocated :
          th' = [th EXCEPT ![t] = [Idle EXCEPT !.op = "add", !.pc = "patch", !.cur = o]]
    BY <2>1 DEF FPAddFunctionPatch
  <2> DEFINE r == [Idle EXCEPT !.op = "add", !.pc = "patch", !.cur = o]
  <2>3. r \in LocalStates /\ r.op = "add"
    BY IdleType DEF Idle, LocalStates, Ops, Steps
  <2>4. /\ th' \in [Threads -> LocalStates]
        /\ th'[t] = r
        /\ \A u \in Threads \ {t} : th'[u] = th[u]
    BY <2>2, <2>3, LocalUpdate DEF IndInv
  <2> QED
    BY <2>1, <2>3, <2>4 DEF FPAddFunctionPatch, Calling
<1>2. CASE \E o \in Objects : FPRemoveFunctionPatch(t, o)
  <2>1. PICK o \in Objects : FPRemoveFunctionPatch(t, o)
    BY <1>2
  <2> DEFINE r == [Idle EXCEPT !.op = "remove", !.pc = "wait", !.cur = o]
  <2>2. r \in LocalStates /\ r.op = "remove"
    BY IdleType DEF Idle, LocalStates, Ops, Steps
  <2>3. th' = [th EXCEPT ![t] = r]
    BY <2>1 DEF FPRemoveFunctionPatch
  <2>4. /\ th' \in [Threads -> LocalStates]
        /\ th'[t] = r
        /\ \A u \in Threads \ {t} : th'[u] = th[u]
    BY <2>2, <2>3, LocalUpdate DEF IndInv
  <2> QED
    BY <2>1, <2>2, <2>4 DEF FPRemoveFunctionPatch, Calling
<1> QED
  BY <1>1, <1>2

\* Every step keeps what is known of the loader's work.
LEMMA NextKeepsLoader ==
  ASSUME IndInv, LoaderInv, [Next]_vars
  PROVE  LoaderInv'
<1>1. CASE UNCHANGED vars
  BY <1>1 DEF vars, LoaderInv, Quiescent, Notified, ResetHandles
<1>2. CASE ApplicationEnds
  BY <1>2, ApplicationEndsKeepsLoader
<1>3. ASSUME NEW t \in Threads, Proceed(t) PROVE LoaderInv'
  <2>1. CASE FinishStart(t)
    BY <2>1, FinishStartKeepsLoader
  <2>2. CASE ~FinishStart(t)
    BY <1>3, <2>2, ProceedGoesOn, ProceedSystem, GoesOnKeepsLoader
  <2> QED
    BY <2>1, <2>2
<1>4. ASSUME NEW t \in Threads, Locking(t) PROVE LoaderInv'
  <2>1. UNCHANGED system
    BY <1>4 DEF Locking, PushBack, PatchNotFound, FindToBeRemoved, NotifyLoaded,
                NotifyUnloaded
  <2> QED
    BY <1>4, <2>1, LockingGoesOn, GoesOnKeepsLoader
<1>5. ASSUME NEW t \in Threads, Calls(t) PROVE LoaderInv'
  <2>1. CASE \/ \E tg \in Targets : FPAddFunctionPatch(t, tg)
             \/ \E o \in Objects : FPRemoveFunctionPatch(t, o)
    BY <2>1, ExportIsCalling, CallingKeepsLoader
  <2> QED
    BY <1>5, <2>1, OSLoadKeepsLoader, OSUnloadKeepsLoader, ApplicationStartsKeepsLoader
       DEF Calls
<1> QED
  BY <1>1, <1>2, <1>3, <1>4, <1>5 DEF Next

\* Every step keeps what is known of the table of handles.
LEMMA NextKeepsCache ==
  ASSUME InTurn, IndInv, LoaderInv, CacheInv, [Next]_vars
  PROVE  CacheInv'
<1>1. CASE UNCHANGED vars
  BY <1>1 DEF vars, CacheInv, Notified, Occupied, Attended
<1>2. CASE ApplicationEnds
  BY <1>2, ApplicationEndsKeepsCache
<1>3. ASSUME NEW t \in Threads, Proceed(t) PROVE CacheInv'
  <2>1. CASE FinishStart(t)
    BY <2>1, FinishStartKeepsCache
  <2>2. CASE ~FinishStart(t)
    BY <1>3, <2>2, ProceedGoesOn, ProceedSystem, ProceedRows, GoesOnKeepsCache
  <2> QED
    BY <2>1, <2>2
<1>4. ASSUME NEW t \in Threads, Locking(t) PROVE CacheInv'
  <2>1. CASE NotifyUnloaded(t)
    BY <2>1, NotifyUnloadedKeepsCache
  <2>2. CASE ~NotifyUnloaded(t)
    <3>1. UNCHANGED system /\ handle' = handle
      BY <1>4, <2>2 DEF Locking, PushBack, PatchNotFound, FindToBeRemoved, NotifyLoaded
    <3>2. th[t].op # "unloaded"
      BY <1>4, <2>2
         DEF Locking, PushBack, PatchNotFound, FindToBeRemoved, NotifyLoaded, Enter,
             IndInv, StepOfOp, StepsOf
    <3> QED
      BY <1>4, <3>1, <3>2, LockingGoesOn, GoesOnKeepsCache
  <2> QED
    BY <2>1, <2>2
<1>5. ASSUME NEW t \in Threads, Calls(t) PROVE CacheInv'
  <2>1. CASE \/ \E tg \in Targets : FPAddFunctionPatch(t, tg)
             \/ \E o \in Objects : FPRemoveFunctionPatch(t, o)
    BY <2>1, ExportIsCalling, CallingKeepsCache
  <2> QED
    BY <1>5, <2>1, OSLoadKeepsCache, OSUnloadKeepsCache, ApplicationStartsKeepsCache
       DEF Calls
<1> QED
  BY <1>1, <1>2, <1>3, <1>4, <1>5 DEF Next

\* Modules are apart and resident ones in their place; without an application
\* nothing is cached; the start hook is alone.  No assumption on the loader.
THEOREM LoaderFollowed == Spec => []LoaderInv
<1>1. LoaderInv /\ IndInv /\ [Next]_vars => LoaderInv'
  BY NextKeepsLoader
<1> QED
  BY <1>1, InitLoader, Inductive, PTL DEF Spec

\* The rows of rpl_handles and the callbacks under way, as the loader works in
\* turn or one thread makes all the calls.
THEOREM CacheFollowed ==
  ASSUME InTurn
  PROVE  Spec => []CacheInv
<1>1. CacheInv /\ LoaderInv /\ IndInv /\ [Next]_vars => CacheInv'
  BY NextKeepsCache
<1> QED
  BY <1>1, InitCache, LoaderFollowed, Inductive, PTL DEF Spec

\* While notify_callback is registered, a lookup by name uses a handle that is
\* the loader's own, or one that a callback under way is about to clear.
THEOREM HandlesStayFresh ==
  ASSUME InTurn
  PROVE  Spec => []HandlesFresh
<1>1. CacheInv => HandlesFresh
  BY DEF CacheInv, HandlesFresh, Attended
<1> QED
  BY <1>1, CacheFollowed, PTL
==============================================================================
