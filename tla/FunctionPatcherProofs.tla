------------------------ MODULE FunctionPatcherProofs ------------------------
(****************************************************************************)
(* Theorems about FunctionPatcher, for every set of threads, modules,       *)
(* objects and targets, every number of cores and every order of removals.  *)
(****************************************************************************)
EXTENDS FunctionPatcher, TLAPS, SequenceTheorems

USE DEF system
------------------------------------------------------------------------------
(* The operators the steps are built from.                                  *)

\* vector::erase leaves the elements before the position where they are and
\* moves those behind it one place forward.
LEMMA RemoveAtProperties ==
  ASSUME NEW S, NEW s \in Seq(S), NEW k \in 1 .. Len(s)
  PROVE  /\ RemoveAt(s, k) \in Seq(S)
         /\ Len(RemoveAt(s, k)) = Len(s) - 1
         /\ \A i \in 1 .. Len(s) - 1 :
              RemoveAt(s, k)[i] = IF i < k THEN s[i] ELSE s[i + 1]
<1> DEFINE a == SubSeq(s, 1, k - 1)
           b == SubSeq(s, k + 1, Len(s))
<1>0. Len(s) \in Nat /\ \A i \in 1 .. Len(s) : s[i] \in S
  BY LenProperties, ElementOfSeq
<1>1. /\ a \in Seq(S)
      /\ Len(a) = k - 1
      /\ \A i \in 1 .. k - 1 : a[i] = s[i]
  <2>1. \A i \in 1 .. k - 1 : s[i] \in S
    BY <1>0
  <2>2. /\ a \in Seq(S)
        /\ Len(a) = IF 1 <= k - 1 THEN k - 1 - 1 + 1 ELSE 0
        /\ \A i \in 1 .. k - 1 - 1 + 1 : a[i] = s[1 + i - 1]
    BY <2>1, <1>0, SubSeqProperties
  <2> QED
    BY <2>2, <1>0
<1>2. /\ b \in Seq(S)
      /\ Len(b) = Len(s) - k
      /\ \A i \in 1 .. Len(s) - k : b[i] = s[k + i]
  <2>1. \A i \in k + 1 .. Len(s) : s[i] \in S
    BY <1>0
  <2>2. /\ b \in Seq(S)
        /\ Len(b) = IF k + 1 <= Len(s) THEN Len(s) - (k + 1) + 1 ELSE 0
        /\ \A i \in 1 .. Len(s) - (k + 1) + 1 : b[i] = s[k + 1 + i - 1]
    BY <2>1, <1>0, SubSeqProperties
  <2> QED
    BY <2>2, <1>0
<1>3. /\ a \o b \in Seq(S)
      /\ Len(a \o b) = Len(a) + Len(b)
      /\ \A i \in 1 .. Len(a) + Len(b) :
           (a \o b)[i] = IF i <= Len(a) THEN a[i] ELSE b[i - Len(a)]
  BY <1>1, <1>2, ConcatProperties
<1>4. RemoveAt(s, k) = a \o b
  BY DEF RemoveAt
<1> HIDE DEF a, b
<1>5. Len(a \o b) = Len(s) - 1
  BY <1>0, <1>1, <1>2, <1>3
<1>6. ASSUME NEW i \in 1 .. Len(s) - 1
      PROVE  (a \o b)[i] = IF i < k THEN s[i] ELSE s[i + 1]
  <2>1. (a \o b)[i] = IF i <= k - 1 THEN a[i] ELSE b[i - (k - 1)]
    BY <1>0, <1>1, <1>2, <1>3
  <2>2. CASE i < k
    BY <2>1, <2>2, <1>0, <1>1
  <2>3. CASE ~(i < k)
    <3>1. i - (k - 1) \in 1 .. Len(s) - k
      BY <2>3, <1>0
    <3>2. b[i - (k - 1)] = s[k + (i - (k - 1))]
      BY <3>1, <1>2
    <3>3. k + (i - (k - 1)) = i + 1
      BY <1>0
    <3> QED
      BY <2>1, <2>3, <3>2, <3>3, <1>0
  <2> QED
    BY <2>2, <2>3
<1> QED
  BY <1>3, <1>4, <1>5, <1>6

\* The scan stops at the place of the object, which is listed once.
LEMMA ErasePositionFinds ==
  ASSUME TypeOK, ListedOnce, NEW o \in Listed
  PROVE  /\ ErasePosition(o) \in 0 .. Len(list) - 1
         /\ list[ErasePosition(o) + 1] = o
<1>1. PICK k \in DOMAIN list : list[k] = o
  BY DEF Listed, Range
<1>2. DOMAIN list = 1 .. Len(list) /\ Len(list) \in Nat
  BY DEF TypeOK
<1>3. k - 1 \in 0 .. Len(list) - 1
  BY <1>1, <1>2
<1>4. list[k - 1 + 1] = o /\ \A i \in 1 .. k - 1 : list[i] # o
  BY <1>1, <1>2 DEF ListedOnce
<1> QED
  BY <1>3, <1>4 DEF ErasePosition

\* Where a target is, is an address or unknown.
LEMMA CurrentAddressType ==
  ASSUME TypeOK, NEW o \in Allocated
  PROVE  /\ CurrentAddress(o) \in Addrs \union {NULL}
         /\ HandlesAfterUpdate(o) \in [Libraries -> Addrs \union {NULL}]
<1> USE LibrariesAssumption, TargetsAssumption
<1>1. data[o] \in ObjectRecords /\ o \in Objects
  BY DEF Allocated, TypeOK
<1> DEFINE tg == data[o].target
<1>2. /\ tg \in Targets
      /\ tg.kind \in TargetKinds
      /\ tg.kind = "library" => tg.module \in Libraries
      /\ tg.kind = "executable" => tg.module \in Modules
      /\ tg.addr \in Addrs \union {NULL}
  BY <1>1 DEF ObjectRecords
<1>3. \A l \in Libraries : RplHandle(l) \in Addrs \union {NULL}
  BY DEF TypeOK, RplHandle, IsModuleLoaded
<1>4. \A l \in Libraries : GetEffectiveAddressOfFunction(l) \in Addrs \union {NULL}
  BY <1>3 DEF GetEffectiveAddressOfFunction, FindExport
<1>5. HandlesAfterUpdate(o) \in [Libraries -> Addrs \union {NULL}]
  BY <1>2, <1>3 DEF HandlesAfterUpdate, CacheHandle, TypeOK
<1>6. CASE tg.kind = "library"
  BY <1>2, <1>4, <1>5, <1>6 DEF CurrentAddress
<1>7. CASE tg.kind = "executable"
  BY <1>2, <1>5, <1>7 DEF CurrentAddress, TypeOK
<1>8. CASE tg.kind = "address"
  BY <1>2, <1>5, <1>8 DEF CurrentAddress
<1> QED
  BY <1>2, <1>6, <1>7, <1>8 DEF TargetKinds

------------------------------------------------------------------------------
(* How a step of one thread shows in the local states.                      *)

\* A step of t puts its new local state in place and leaves the others alone.
LEMMA LocalUpdate ==
  ASSUME TypeOK, NEW t \in Threads, NEW r \in LocalStates, th' = [th EXCEPT ![t] = r]
  PROVE  /\ th' \in [Threads -> LocalStates]
         /\ th'[t] = r
         /\ \A u \in Threads \ {t} : th'[u] = th[u]
BY DEF TypeOK

\* The local state of a thread outside every call is one.
LEMMA IdleType == Idle \in LocalStates
BY CoresAssumption DEF Idle, LocalStates, Ops, Steps

\* The object a thread patches is in use.
LEMMA PatchesAllocated ==
  ASSUME IndInv, NEW t \in Threads,
         th[t].pc \in {"patch", "read", "write", "push", "unwrite"}
  PROVE  /\ th[t].cur \in Allocated
         /\ data[th[t].cur] \in ObjectRecords
BY DEF IndInv, StepOfOp, StepsOf, Holds, WorksOnOwn, ListedOnce, TypeOK, LocalStates,
       Ops, Allocated

\* A step of t that leaves the registry, the objects in use and their having an
\* address, and that keeps the invariant for t, keeps it for all.
LEMMA OneThreadStep ==
  ASSUME IndInv, TypeOK', NEW t \in Threads,
         list' = list,
         \A o \in Objects : data'[o] # NULL <=> data[o] # NULL,
         \A o \in Allocated : data[o].address \in Addrs => data'[o].address \in Addrs,
         \A u \in Threads \ {t} : th'[u] = th[u] /\ (lock' = u <=> lock = u),
         StepOfOp(t)', WorksOnOwn(t)', lock' = t <=> Holds(t)',
         th'[t].op = "add" => th[t].op = "add" /\ th'[t].cur = th[t].cur,
         th'[t].removed \in {NULL, th[t].removed} \union Listed
  PROVE  IndInv'
<1>1. Listed' = Listed /\ Allocated' = Allocated
  BY DEF Listed, Allocated
<1>2. ListedOnce'
  BY <1>1 DEF IndInv, ListedOnce
<1>3. MutexOwned'
  BY DEF IndInv, MutexOwned, Holds
<1>4. AddersApart'
  <2> SUFFICES ASSUME NEW u \in Threads, NEW v \in Threads, u # v, th'[u].op = "add"
               PROVE  /\ th'[v].op = "add" => th'[u].cur # th'[v].cur
                      /\ th'[u].cur # th'[v].removed
    BY DEF AddersApart
  <2>1. th[u].op = "add" /\ th'[u].cur = th[u].cur
    OBVIOUS
  <2>2. th[u].cur \in Allocated \ Listed /\ th[u].cur # NULL
    BY <2>1, NullObjectAssumption DEF IndInv, WorksOnOwn, Allocated
  <2>3. th'[v].op = "add" => th'[u].cur # th'[v].cur
    BY <2>1 DEF IndInv, AddersApart
  <2>4. th[u].cur # th[v].removed
    BY <2>1 DEF IndInv, AddersApart
  <2> QED
    BY <2>1, <2>2, <2>3, <2>4
<1>5. ASSUME NEW u \in Threads \ {t} PROVE StepOfOp(u)' /\ WorksOnOwn(u)'
  <2>1. StepOfOp(u)'
    BY DEF IndInv, StepOfOp, Holds
  <2>2. th[u].pc \in {"read", "write"} => th[u].cur \in Allocated
    BY PatchesAllocated
  <2>3. WorksOnOwn(u)'
    BY <1>1, <2>2 DEF IndInv, WorksOnOwn, Holds, Current
  <2> QED
    BY <2>1, <2>3
<1> QED
  BY <1>2, <1>3, <1>4, <1>5 DEF IndInv
------------------------------------------------------------------------------
(* The steps of PatchFunction.                                              *)

\* PatchFunction returns to the push_back of the call, or to its loop.
LEMMA ReturnKeeps ==
  ASSUME IndInv, NEW t \in Threads, th[t].pc \in {"patch", "write"}, th' = Return(t),
         list' = list, Allocated' = Allocated
  PROVE  /\ th' \in [Threads -> LocalStates]
         /\ \A u \in Threads \ {t} : th'[u] = th[u]
         /\ StepOfOp(t)' /\ WorksOnOwn(t)' /\ (Holds(t)' <=> Holds(t))
         /\ \A f \in {"op", "cur", "removed"} : th'[t][f] = th[t][f]
<1> DEFINE s == IF th[t].op = "add" THEN "push" ELSE "next"
           r == [th[t] EXCEPT !.pc = s, !.served = FALSE]
<1>1. th[t] \in LocalStates /\ s \in Steps /\ th' = [th EXCEPT ![t] = r]
  BY DEF IndInv, TypeOK, Steps, Return
<1>2. r \in LocalStates
  <2> HIDE DEF s
  <2> QED
    BY <1>1 DEF LocalStates
<1>3. /\ th' \in [Threads -> LocalStates]
      /\ \A u \in Threads \ {t} : th'[u] = th[u]
      /\ th'[t] = r
  BY <1>1, <1>2, LocalUpdate DEF IndInv
<1>4. /\ th'[t].op = th[t].op
      /\ th'[t].pc = s
      /\ th'[t].cur = th[t].cur
      /\ th'[t].removed = th[t].removed
      /\ th'[t].later = th[t].later
      /\ th'[t].todo = th[t].todo
  BY <1>1, <1>3 DEF LocalStates
<1>5. Holds(t)' <=> Holds(t)
  BY <1>4 DEF Holds
<1>6. StepOfOp(t)'
  BY <1>1, <1>4, <1>5 DEF IndInv, StepOfOp, StepsOf, Ops, LocalStates, Holds
<1>7. WorksOnOwn(t)'
  BY <1>4, <1>5 DEF IndInv, WorksOnOwn, Holds, Listed, StepOfOp, StepsOf
<1> QED
  BY <1>3, <1>4, <1>5, <1>6, <1>7

\* PatchFunction that returns at once changes only where the thread is.
LEMMA SkipPatchKeeps ==
  ASSUME IndInv, NEW t \in Threads, SkipPatch(t)
  PROVE  IndInv'
<1>1. th[t].pc = "patch" /\ th' = Return(t) /\ list' = list /\ Allocated' = Allocated
  BY DEF SkipPatch, Allocated
<1>2. TypeOK'
  BY <1>1, ReturnKeeps DEF SkipPatch, IndInv, TypeOK
<1> QED
  BY <1>1, <1>2, ReturnKeeps, OneThreadStep DEF SkipPatch, IndInv, MutexOwned

\* A lookup that fails may fill the handle table, with addresses only.
LEMMA UnresolvedKeeps ==
  ASSUME IndInv, NEW t \in Threads, Unresolved(t)
  PROVE  IndInv'
<1>1. th[t].pc = "patch" /\ th' = Return(t) /\ list' = list /\ Allocated' = Allocated
  BY DEF Unresolved, NeedsPatch, Allocated
<1>2. handle' \in [Libraries -> Addrs \union {NULL}]
  BY <1>1, PatchesAllocated, CurrentAddressType DEF Unresolved, IndInv
<1>3. TypeOK'
  BY <1>1, <1>2, ReturnKeeps DEF Unresolved, IndInv, TypeOK
<1> QED
  BY <1>1, <1>3, ReturnKeeps, OneThreadStep DEF Unresolved, IndInv, MutexOwned

\* The flag is set in an object that the thread has in hand.
LEMMA SetPatchedKeeps ==
  ASSUME IndInv, NEW t \in Threads, SetPatched(t)
  PROVE  IndInv'
<1> DEFINE o == th[t].cur
<1>1. th[t].pc = "write" /\ th' = Return(t) /\ list' = list
  BY DEF SetPatched, Writing
<1>2. o \in Allocated /\ data[o] \in ObjectRecords
  BY <1>1, PatchesAllocated
<1>3. /\ [data[o] EXCEPT !.isPatched = TRUE] \in ObjectRecords
      /\ [data[o] EXCEPT !.isPatched = TRUE].address = data[o].address
  BY <1>2 DEF ObjectRecords
<1>4. /\ data' \in [Objects -> ObjectRecords \union {NULL}]
      /\ \A p \in Objects : data'[p] # NULL <=> data[p] # NULL
      /\ \A p \in Allocated : data'[p].address = data[p].address
  BY <1>2, <1>3, NullRecordAssumption DEF SetPatched, IndInv, TypeOK, Allocated
<1>5. Allocated' = Allocated
  BY <1>4 DEF Allocated
<1>6. TypeOK'
  BY <1>1, <1>4, <1>5, ReturnKeeps DEF SetPatched, IndInv, TypeOK
<1> QED
  BY <1>1, <1>4, <1>5, <1>6, ReturnKeeps, OneThreadStep DEF SetPatched, IndInv, MutexOwned

\* The address found is a real one: what is read and written next exists.
LEMMA ResolveKeeps ==
  ASSUME IndInv, NEW t \in Threads, Resolve(t)
  PROVE  IndInv'
<1> DEFINE o == th[t].cur
           r == [th[t] EXCEPT !.pc = "read"]
<1>1. th[t].pc = "patch" /\ list' = list
  BY DEF Resolve, NeedsPatch
<1>2. o \in Allocated /\ data[o] \in ObjectRecords
  BY <1>1, PatchesAllocated
<1>3. /\ CurrentAddress(o) \in Addrs
      /\ handle' \in [Libraries -> Addrs \union {NULL}]
  BY <1>2, CurrentAddressType DEF Resolve, IndInv
<1>4. /\ [data[o] EXCEPT !.address = CurrentAddress(o)] \in ObjectRecords
      /\ [data[o] EXCEPT !.address = CurrentAddress(o)].address = CurrentAddress(o)
  BY <1>2, <1>3 DEF ObjectRecords
<1>5. /\ data' \in [Objects -> ObjectRecords \union {NULL}]
      /\ \A p \in Objects : data'[p] # NULL <=> data[p] # NULL
      /\ \A p \in Allocated : data[p].address \in Addrs => data'[p].address \in Addrs
      /\ data'[o].address \in Addrs
  BY <1>2, <1>3, <1>4, NullRecordAssumption
     DEF Resolve, UpdateFunctionAddresses, IndInv, TypeOK, Allocated
<1>6. Allocated' = Allocated
  BY <1>5 DEF Allocated
<1>7. /\ r \in LocalStates
      /\ r.op = th[t].op /\ r.pc = "read" /\ r.cur = o
      /\ r.removed = th[t].removed /\ r.later = th[t].later /\ r.todo = th[t].todo
  <2>1. th[t] \in LocalStates /\ "read" \in Steps
    BY DEF IndInv, TypeOK, Steps
  <2>2. r \in LocalStates
    BY <2>1 DEF LocalStates
  <2> QED
    BY <2>1, <2>2 DEF LocalStates
<1>8. /\ th' \in [Threads -> LocalStates]
      /\ th'[t] = r
      /\ \A u \in Threads \ {t} : th'[u] = th[u]
  <2>1. TypeOK
    BY DEF IndInv
  <2> QED
    BY <1>7, <2>1, LocalUpdate DEF Resolve
<1> HIDE DEF r
<1>9. TypeOK'
  BY <1>1, <1>3, <1>5, <1>8 DEF Resolve, IndInv, TypeOK
<1>10. Holds(t)' <=> Holds(t)
  BY <1>1, <1>7, <1>8 DEF Holds
<1>11. StepOfOp(t)'
  BY <1>1, <1>7, <1>8, <1>10 DEF IndInv, StepOfOp, StepsOf, Ops, TypeOK, LocalStates, Holds
<1>12. WorksOnOwn(t)'
  BY <1>1, <1>5, <1>6, <1>7, <1>8, <1>10 DEF IndInv, WorksOnOwn, Holds, Listed, Current
<1> QED
  BY <1>1, <1>5, <1>7, <1>8, <1>9, <1>10, <1>11, <1>12, OneThreadStep
     DEF Resolve, IndInv, MutexOwned

\* The word kept for jumpToOriginal is one that can be in memory.
LEMMA ReadInstructionKeeps ==
  ASSUME IndInv, NEW t \in Threads, ReadInstruction(t)
  PROVE  IndInv'
<1> DEFINE o == th[t].cur
           w == text[data[o].address]
           r == [th[t] EXCEPT !.pc = "write", !.core = Cores, !.served = FALSE]
<1>1. th[t].pc = "read" /\ list' = list
  BY DEF ReadInstruction
<1>2. o \in Allocated /\ data[o] \in ObjectRecords /\ data[o].address \in Addrs
  BY <1>1, PatchesAllocated DEF IndInv, WorksOnOwn, Current
<1>3. /\ [data[o] EXCEPT !.replaced = w] \in ObjectRecords
      /\ [data[o] EXCEPT !.replaced = w].address = data[o].address
  BY <1>2 DEF ObjectRecords, IndInv, TypeOK
<1>4. /\ data' \in [Objects -> ObjectRecords \union {NULL}]
      /\ \A p \in Objects : data'[p] # NULL <=> data[p] # NULL
      /\ \A p \in Allocated : data'[p].address = data[p].address
  BY <1>2, <1>3, NullRecordAssumption DEF ReadInstruction, Current, IndInv, TypeOK, Allocated
<1>5. Allocated' = Allocated
  BY <1>4 DEF Allocated
<1>6. /\ r \in LocalStates
      /\ r.op = th[t].op /\ r.pc = "write" /\ r.cur = o
      /\ r.removed = th[t].removed /\ r.later = th[t].later /\ r.todo = th[t].todo
  <2>1. th[t] \in LocalStates /\ Cores \in 0 .. Cores /\ "write" \in Steps
    BY CoresAssumption DEF IndInv, TypeOK, Steps
  <2> QED
    BY <2>1 DEF LocalStates
<1>7. /\ th' \in [Threads -> LocalStates]
      /\ th'[t] = r
      /\ \A u \in Threads \ {t} : th'[u] = th[u]
  <2>1. TypeOK /\ th \in [Threads -> LocalStates]
    BY DEF IndInv, TypeOK
  <2>2. th' = [th EXCEPT ![t] = r]
    BY <2>1 DEF ReadInstruction
  <2> QED
    BY <1>6, <2>1, <2>2, LocalUpdate
<1> HIDE DEF r, w
<1>8. TypeOK'
  BY <1>1, <1>4, <1>7 DEF ReadInstruction, IndInv, TypeOK
<1>9. Holds(t)' <=> Holds(t)
  BY <1>1, <1>6, <1>7 DEF Holds
<1>10. StepOfOp(t)'
  BY <1>1, <1>6, <1>7, <1>9 DEF IndInv, StepOfOp, StepsOf, Ops, TypeOK, LocalStates, Holds
<1>11. WorksOnOwn(t)'
  BY <1>1, <1>2, <1>4, <1>5, <1>6, <1>7, <1>9 DEF IndInv, WorksOnOwn, Holds, Listed, Current
<1> QED
  BY <1>1, <1>4, <1>6, <1>7, <1>8, <1>9, <1>10, <1>11, OneThreadStep
     DEF ReadInstruction, IndInv, MutexOwned

\* The jump is written at the address found, by as many cores as there are.
LEMMA WriteOnCoreKeeps ==
  ASSUME IndInv, NEW t \in Threads, WriteOnCore(t)
  PROVE  IndInv'
<1> DEFINE o == th[t].cur
           r == [th[t] EXCEPT !.core = @ - 1, !.served = TRUE]
<1>1. th[t].pc = "write" /\ list' = list /\ data' = data
  BY DEF WriteOnCore, Writing
<1>2. o \in Allocated /\ Allocated' = Allocated
  BY <1>1, PatchesAllocated DEF Allocated
<1>3. text' \in [Addrs -> Words]
  BY <1>2 DEF WriteOnCore, IndInv, TypeOK, Allocated, Words
<1>4. /\ r \in LocalStates
      /\ r.op = th[t].op /\ r.pc = "write" /\ r.cur = o
      /\ r.removed = th[t].removed /\ r.later = th[t].later /\ r.todo = th[t].todo
  <2>1. th[t] \in LocalStates
    BY DEF IndInv, TypeOK
  <2>2. th[t].core \in 0 .. Cores /\ th[t].core > 0
    BY <2>1 DEF WriteOnCore, LocalStates
  <2>3. th[t].core - 1 \in 0 .. Cores
    BY <2>2, CoresAssumption
  <2> QED
    BY <1>1, <2>1, <2>3 DEF LocalStates
<1>5. /\ th' \in [Threads -> LocalStates]
      /\ th'[t] = r
      /\ \A u \in Threads \ {t} : th'[u] = th[u]
  <2>1. TypeOK
    BY DEF IndInv
  <2> QED
    BY <1>4, <2>1, LocalUpdate DEF WriteOnCore
<1> HIDE DEF r
<1>6. TypeOK'
  BY <1>1, <1>3, <1>5 DEF WriteOnCore, IndInv, TypeOK
<1>7. Holds(t)' <=> Holds(t)
  BY <1>1, <1>4, <1>5 DEF Holds
<1>8. StepOfOp(t)' /\ WorksOnOwn(t)'
  BY <1>1, <1>2, <1>4, <1>5, <1>7 DEF IndInv, StepOfOp, WorksOnOwn, Holds, Listed, Current
<1> QED
  BY <1>1, <1>4, <1>5, <1>6, <1>7, <1>8, OneThreadStep DEF WriteOnCore, IndInv, MutexOwned

\* A core that is passed over, and a thread that waits for ever, change nothing
\* that another thread sees.
LEMMA NoThreadKeeps ==
  ASSUME IndInv, NEW t \in Threads, SkipCore(t) \/ JoinNeverReturns(t)
  PROVE  IndInv'
<1>1. /\ th[t].pc = "write" /\ th[t].core > 0
      /\ list' = list /\ data' = data /\ lock' = lock /\ text' = text
      /\ handle' = handle /\ place' = place /\ title' = title /\ notify' = notify
  BY DEF SkipCore, JoinNeverReturns, NoThread, Writing
<1>2. th[t] \in LocalStates /\ th[t].cur \in Allocated /\ Allocated' = Allocated
  BY <1>1, PatchesAllocated DEF Allocated, IndInv, TypeOK
<1>3. th[t].core - 1 \in 0 .. Cores
  BY <1>1, <1>2, CoresAssumption DEF LocalStates
<1>4. PICK r \in LocalStates :
        /\ th' = [th EXCEPT ![t] = r]
        /\ r.op = th[t].op /\ r.pc = "write" /\ r.cur = th[t].cur
        /\ r.removed = th[t].removed /\ r.later = th[t].later /\ r.todo = th[t].todo
  <2>1. CASE SkipCore(t)
    <3> DEFINE r == [th[t] EXCEPT !.core = @ - 1]
    <3>1. r \in LocalStates /\ th' = [th EXCEPT ![t] = r]
      BY <2>1, <1>2, <1>3 DEF SkipCore, LocalStates
    <3> QED
      BY <3>1, <1>1, <1>2 DEF LocalStates
  <2>2. CASE JoinNeverReturns(t)
    <3> DEFINE r == [th[t] EXCEPT !.stuck = TRUE]
    <3>1. r \in LocalStates /\ th' = [th EXCEPT ![t] = r]
      BY <2>2, <1>2 DEF JoinNeverReturns, LocalStates
    <3> QED
      BY <3>1, <1>1, <1>2 DEF LocalStates
  <2> QED
    BY <2>1, <2>2
<1>5. /\ th' \in [Threads -> LocalStates]
      /\ th'[t] = r
      /\ \A u \in Threads \ {t} : th'[u] = th[u]
  BY <1>4, LocalUpdate DEF IndInv
<1>6. TypeOK'
  BY <1>1, <1>5 DEF IndInv, TypeOK
<1>7. Holds(t)' <=> Holds(t)
  BY <1>1, <1>4, <1>5 DEF Holds
<1>8. StepOfOp(t)' /\ WorksOnOwn(t)'
  BY <1>1, <1>2, <1>4, <1>5, <1>7 DEF IndInv, StepOfOp, WorksOnOwn, Holds, Listed, Current
<1> QED
  BY <1>1, <1>4, <1>5, <1>6, <1>7, <1>8, OneThreadStep DEF IndInv, MutexOwned

\* A loop that calls PatchFunction takes up listed objects only.
LEMMA PatchNextKeeps ==
  ASSUME IndInv, NEW t \in Threads, PatchNext(t)
  PROVE  IndInv'
<1>1. PICK o \in th[t].todo :
        th' = [th EXCEPT ![t].cur = o, ![t].todo = @ \ {o}, ![t].pc = "patch"]
  BY DEF PatchNext
<1> DEFINE r == [th[t] EXCEPT !.cur = o, !.todo = @ \ {o}, !.pc = "patch"]
<1>2. th[t].pc = "next" /\ list' = list /\ data' = data /\ Allocated' = Allocated
  BY DEF PatchNext, Allocated
<1>3. o \in Objects /\ o \in Listed
  BY DEF IndInv, WorksOnOwn, TypeOK, LocalStates
<1>4. /\ r \in LocalStates
      /\ r.op = th[t].op /\ r.pc = "patch" /\ r.cur = o
      /\ r.removed = th[t].removed /\ r.later = th[t].later /\ r.todo = th[t].todo \ {o}
  <2>1. th[t] \in LocalStates /\ "patch" \in Steps
    BY DEF IndInv, TypeOK, Steps
  <2>2. r \in LocalStates
    BY <1>3, <2>1 DEF LocalStates
  <2> QED
    BY <2>1, <2>2 DEF LocalStates
<1>5. /\ th' \in [Threads -> LocalStates]
      /\ th'[t] = r
      /\ \A u \in Threads \ {t} : th'[u] = th[u]
  <2>1. th' = [th EXCEPT ![t] = r]
    BY <1>1, Zenon
  <2> QED
    BY <1>4, <2>1, LocalUpdate DEF IndInv
<1> HIDE DEF r
<1>6. TypeOK'
  BY <1>5 DEF PatchNext, IndInv, TypeOK
<1>7. (Holds(t)' <=> Holds(t)) /\ th[t].op # "add"
  BY <1>2, <1>4, <1>5 DEF Holds, IndInv, StepOfOp, StepsOf
<1>8. StepOfOp(t)'
  BY <1>2, <1>4, <1>5, <1>7 DEF IndInv, StepOfOp, StepsOf, Ops, TypeOK, LocalStates, Holds
<1>9. WorksOnOwn(t)'
  BY <1>2, <1>3, <1>4, <1>5, <1>7 DEF IndInv, WorksOnOwn, Holds, Listed
<1> QED
  BY <1>2, <1>4, <1>5, <1>6, <1>7, <1>8, <1>9, OneThreadStep DEF PatchNext, IndInv, MutexOwned
------------------------------------------------------------------------------
(* The steps of FPAddFunctionPatch.                                         *)

\* A new object is one nobody had in hand: the others keep theirs.
LEMMA FPAddFunctionPatchKeeps ==
  ASSUME IndInv, NEW t \in Threads, NEW tg \in Targets, FPAddFunctionPatch(t, tg)
  PROVE  IndInv'
<1>1. PICK o \in Objects \ Allocated :
        /\ data' = [data EXCEPT ![o] = MakeShared(tg)]
        /\ th' = [th EXCEPT ![t] = [Idle EXCEPT !.op = "add", !.pc = "patch", !.cur = o]]
  BY DEF FPAddFunctionPatch
<1> DEFINE r == [Idle EXCEPT !.op = "add", !.pc = "patch", !.cur = o]
<1>2. MakeShared(tg) \in ObjectRecords
  <2>1. tg.addr \in Addrs \union {NULL}
    BY TargetsAssumption
  <2> QED
    BY <2>1 DEF MakeShared, ObjectRecords, Words
<1>3. /\ data' \in [Objects -> ObjectRecords \union {NULL}]
      /\ Allocated' = Allocated \union {o}
      /\ \A p \in Allocated : data'[p] = data[p]
  BY <1>1, <1>2, NullRecordAssumption DEF IndInv, TypeOK, Allocated
<1>4. list' = list /\ Listed' = Listed /\ lock' = lock /\ Listed \subseteq Allocated
  BY DEF FPAddFunctionPatch, Listed, IndInv, ListedOnce
<1>5. /\ r \in LocalStates
      /\ r.op = "add" /\ r.pc = "patch" /\ r.cur = o
      /\ r.removed = NULL /\ r.later = {} /\ r.todo = {}
  BY IdleType DEF Idle, LocalStates, Ops, Steps
<1>6. /\ th' \in [Threads -> LocalStates]
      /\ th'[t] = r
      /\ \A u \in Threads \ {t} : th'[u] = th[u]
  BY <1>1, <1>5, LocalUpdate DEF IndInv
<1> HIDE DEF r
<1>7. TypeOK'
  BY <1>3, <1>6 DEF FPAddFunctionPatch, IndInv, TypeOK
<1>8. ListedOnce'
  BY <1>3, <1>4 DEF IndInv, ListedOnce
<1>9. ~Holds(t)' /\ ~Holds(t) /\ \A u \in Threads \ {t} : Holds(u)' <=> Holds(u)
  BY <1>5, <1>6 DEF Holds, FPAddFunctionPatch, MayCall, Idle
<1>10. MutexOwned'
  BY <1>4, <1>9 DEF IndInv, MutexOwned
<1>11. \A u \in Threads \ {t} : th[u].op = "add" => th[u].cur # o
  BY <1>1 DEF IndInv, WorksOnOwn
<1>12. \A u \in Threads : th[u].removed # o
  <2> SUFFICES ASSUME NEW u \in Threads, th[u].removed = o PROVE FALSE
    OBVIOUS
  <2>1. th[u].removed # NULL
    BY NullObjectAssumption
  <2>2. Holds(u) /\ th[u].op = "remove"
    BY <2>1 DEF IndInv, StepOfOp
  <2> QED
    BY <2>2, <1>1 DEF IndInv, WorksOnOwn
<1>13. AddersApart'
  <2> SUFFICES ASSUME NEW u \in Threads, NEW v \in Threads, u # v, th'[u].op = "add"
               PROVE  /\ th'[v].op = "add" => th'[u].cur # th'[v].cur
                      /\ th'[u].cur # th'[v].removed
    BY DEF AddersApart
  <2>1. CASE u = t
    BY <2>1, <1>5, <1>6, <1>11, <1>12
  <2>2. CASE v = t
    <3>1. th[u].op = "add" /\ th[u].cur \in Objects
      BY <2>2, <1>6 DEF IndInv, WorksOnOwn, Allocated
    <3> QED
      BY <2>2, <3>1, <1>5, <1>6, <1>11, NullObjectAssumption
  <2>3. CASE u # t /\ v # t
    BY <2>3, <1>6 DEF IndInv, AddersApart
  <2> QED
    BY <2>1, <2>2, <2>3
<1>14. StepOfOp(t)' /\ WorksOnOwn(t)'
  <2>1. StepOfOp(t)'
    BY <1>5, <1>6, <1>9 DEF StepOfOp, StepsOf
  <2>2. o \in Allocated' \ Listed'
    BY <1>1, <1>3, <1>4
  <2>3. WorksOnOwn(t)'
    BY <1>5, <1>6, <1>9, <2>2 DEF WorksOnOwn
  <2> QED
    BY <2>1, <2>3
<1>15. ASSUME NEW u \in Threads \ {t} PROVE StepOfOp(u)' /\ WorksOnOwn(u)'
  <2>1. StepOfOp(u)'
    BY <1>6, <1>9 DEF IndInv, StepOfOp
  <2>2. th[u].pc \in {"read", "write"} => Current(u)' = Current(u)
    BY <1>3, <1>6, PatchesAllocated DEF Current
  <2>3. WorksOnOwn(u)'
    BY <1>3, <1>4, <1>6, <1>9, <2>2 DEF IndInv, WorksOnOwn
  <2> QED
    BY <2>1, <2>3
<1> QED
  BY <1>7, <1>8, <1>10, <1>13, <1>14, <1>15 DEF IndInv

\* What push_back does to the registry.
LEMMA PushBackAppends ==
  ASSUME IndInv, NEW t \in Threads, PushBack(t)
  PROVE  /\ th[t].op = "add" /\ th[t].cur \in Allocated \ Listed
         /\ list' \in Seq(Objects)
         /\ Len(list') = Len(list) + 1
         /\ \A i \in 1 .. Len(list) : list'[i] = list[i]
         /\ list'[Len(list) + 1] = th[t].cur
         /\ Listed' = Listed \union {th[t].cur}
<1> DEFINE o == th[t].cur
<1>1. list \in Seq(Objects) /\ Len(list) \in Nat /\ DOMAIN list = 1 .. Len(list)
  BY DEF IndInv, TypeOK
<1>2. th[t].op = "add" /\ o \in Allocated \ Listed /\ o \in Objects
  BY DEF PushBack, IndInv, StepOfOp, StepsOf, WorksOnOwn, TypeOK, LocalStates, Ops, Allocated
<1>3. /\ list' \in Seq(Objects)
      /\ Len(list') = Len(list) + 1
      /\ \A i \in 1 .. Len(list) : list'[i] = list[i]
      /\ list'[Len(list) + 1] = o
  BY <1>1, <1>2, AppendProperties DEF PushBack
<1>4. DOMAIN list' = 1 .. Len(list) + 1
  BY <1>3
<1>5. \A p : p \in Listed' => p \in Listed \union {o}
  BY <1>1, <1>3, <1>4 DEF Listed, Range
<1>6. \A p : p \in Listed \union {o} => p \in Listed'
  BY <1>1, <1>3, <1>4 DEF Listed, Range
<1> QED
  BY <1>2, <1>3, <1>5, <1>6

\* The registry takes an object that is allocated and was not listed.
LEMMA PushBackKeeps ==
  ASSUME IndInv, NEW t \in Threads, PushBack(t)
  PROVE  IndInv'
<1> DEFINE o == th[t].cur
<1>1. /\ th[t].op = "add" /\ o \in Allocated \ Listed
      /\ list' \in Seq(Objects)
      /\ Len(list') = Len(list) + 1
      /\ \A i \in 1 .. Len(list) : list'[i] = list[i]
      /\ list'[Len(list) + 1] = o
      /\ Listed' = Listed \union {o}
  BY PushBackAppends
<1>2. Allocated' = Allocated /\ data' = data /\ lock = NULL /\ lock' = NULL
  BY DEF PushBack, Allocated
<1>3. /\ th' \in [Threads -> LocalStates]
      /\ th'[t] = Idle
      /\ \A u \in Threads \ {t} : th'[u] = th[u]
  <2>1. TypeOK
    BY DEF IndInv
  <2> QED
    BY IdleType, <2>1, LocalUpdate DEF PushBack
<1>4. TypeOK'
  BY <1>1, <1>3 DEF PushBack, IndInv, TypeOK
<1>5. ListedOnce'
  <2>1. DOMAIN list = 1 .. Len(list) /\ DOMAIN list' = 1 .. Len(list) + 1 /\ Len(list) \in Nat
    BY <1>1 DEF IndInv, TypeOK
  <2>2. \A i \in 1 .. Len(list) : list[i] # o
    BY <1>1, <2>1 DEF Listed, Range
  <2>3. ASSUME NEW i \in DOMAIN list', NEW j \in DOMAIN list', list'[i] = list'[j]
        PROVE  i = j
    BY <2>1, <2>2, <2>3, <1>1 DEF IndInv, ListedOnce
  <2> QED
    BY <1>1, <1>2, <2>3 DEF IndInv, ListedOnce
<1>6. \A u \in Threads : ~Holds(u)
  BY <1>2, ThreadsAssumption DEF IndInv, MutexOwned
<1>7. \A u \in Threads : ~Holds(u)'
  BY <1>3, <1>6 DEF Holds, Idle
<1>8. MutexOwned'
  BY <1>2, <1>7, ThreadsAssumption DEF MutexOwned
<1>9. AddersApart'
  <2> SUFFICES ASSUME NEW u \in Threads, NEW v \in Threads, u # v, th'[u].op = "add"
               PROVE  /\ th'[v].op = "add" => th'[u].cur # th'[v].cur
                      /\ th'[u].cur # th'[v].removed
    BY DEF AddersApart
  <2>1. u # t /\ th[u].op = "add" /\ th[u].cur \in Objects
    BY <1>3 DEF Idle, IndInv, WorksOnOwn, Allocated
  <2>2. CASE v = t
    BY <2>1, <2>2, <1>3, NullObjectAssumption DEF Idle
  <2>3. CASE v # t
    BY <2>1, <2>3, <1>3 DEF IndInv, AddersApart
  <2> QED
    BY <2>2, <2>3
<1>10. StepOfOp(t)' /\ WorksOnOwn(t)'
  BY <1>3, <1>7 DEF StepOfOp, StepsOf, WorksOnOwn, Idle
<1>11. ASSUME NEW u \in Threads \ {t} PROVE StepOfOp(u)' /\ WorksOnOwn(u)'
  <2>1. StepOfOp(u)'
    BY <1>3, <1>6, <1>7 DEF IndInv, StepOfOp
  <2>2. th[u].op = "add" => th[u].cur # o
    BY <1>1 DEF IndInv, AddersApart
  <2>3. WorksOnOwn(u)'
    BY <1>1, <1>2, <1>3, <1>6, <1>7, <2>2 DEF IndInv, WorksOnOwn, Current
  <2> QED
    BY <2>1, <2>3
<1> QED
  BY <1>4, <1>5, <1>8, <1>9, <1>10, <1>11 DEF IndInv
------------------------------------------------------------------------------
(* The steps of FPRemoveFunctionPatch.                                      *)

\* A caller that waits for the mutex has no claim to the object of its handle.
LEMMA FPRemoveFunctionPatchKeeps ==
  ASSUME IndInv, NEW t \in Threads, NEW o \in Objects, FPRemoveFunctionPatch(t, o)
  PROVE  IndInv'
<1> DEFINE r == [Idle EXCEPT !.op = "remove", !.pc = "wait", !.cur = o]
<1>1. list' = list /\ data' = data /\ lock' = lock /\ th[t] = Idle
  BY DEF FPRemoveFunctionPatch, MayCall
<1>2. /\ r \in LocalStates
      /\ r.op = "remove" /\ r.pc = "wait"
      /\ r.removed = NULL /\ r.later = {} /\ r.todo = {}
  BY IdleType DEF Idle, LocalStates, Ops, Steps
<1>3. /\ th' \in [Threads -> LocalStates]
      /\ th'[t] = r
      /\ \A u \in Threads \ {t} : th'[u] = th[u]
  <2>1. TypeOK
    BY DEF IndInv
  <2> QED
    BY <1>2, <2>1, LocalUpdate DEF FPRemoveFunctionPatch
<1> HIDE DEF r
<1>4. TypeOK'
  BY <1>1, <1>3 DEF FPRemoveFunctionPatch, IndInv, TypeOK
<1>5. ~Holds(t) /\ ~Holds(t)'
  BY <1>1, <1>2, <1>3 DEF Holds, Idle
<1>6. StepOfOp(t)' /\ WorksOnOwn(t)'
  BY <1>2, <1>3, <1>5 DEF StepOfOp, StepsOf, WorksOnOwn
<1> QED
  BY <1>1, <1>2, <1>3, <1>4, <1>5, <1>6, OneThreadStep DEF IndInv, MutexOwned

\* A handle that is not in the registry leaves everything as it was.
LEMMA PatchNotFoundKeeps ==
  ASSUME IndInv, NEW t \in Threads, PatchNotFound(t)
  PROVE  IndInv'
<1>1. list' = list /\ data' = data /\ lock' = lock
  BY DEF PatchNotFound
<1>2. /\ th' \in [Threads -> LocalStates]
      /\ th'[t] = Idle
      /\ \A u \in Threads \ {t} : th'[u] = th[u]
  <2>1. TypeOK
    BY DEF IndInv
  <2> QED
    BY IdleType, <2>1, LocalUpdate DEF PatchNotFound
<1>3. TypeOK'
  BY <1>1, <1>2 DEF PatchNotFound, IndInv, TypeOK
<1>4. ~Holds(t) /\ ~Holds(t)'
  BY <1>2 DEF Holds, Idle, PatchNotFound, Enter
<1>5. StepOfOp(t)' /\ WorksOnOwn(t)'
  BY <1>2, <1>4 DEF StepOfOp, StepsOf, WorksOnOwn, Idle
<1> QED
  BY <1>1, <1>2, <1>3, <1>4, <1>5, OneThreadStep DEF IndInv, MutexOwned, Idle

\* What the scan collects is listed, and toBeRemoved is not in toBeTempRestored.
LEMMA FindToBeRemovedKeeps ==
  ASSUME IndInv, NEW t \in Threads, FindToBeRemoved(t)
  PROVE  IndInv'
<1> DEFINE o     == th[t].cur
           later == IF data[o].isPatched THEN ToBeTempRestored(o) ELSE {}
           todo  == IF data[o].isPatched THEN later \union {o} ELSE {}
           position == ErasePosition(o)
           r     == [th[t] EXCEPT !.pc = "undo", !.removed = o, !.position = position,
                                  !.later = later, !.todo = todo]
<1>1. /\ list' = list /\ data' = data /\ lock = NULL /\ lock' = t
      /\ o \in Listed /\ o \in Objects
      /\ th[t].pc = "wait" /\ th[t].op = "remove"
  BY NullObjectAssumption
     DEF FindToBeRemoved, Acquire, Enter, IndInv, ListedOnce, Allocated
<1>2. later \subseteq Listed \ {o} /\ todo \subseteq Listed
  BY <1>1 DEF ToBeTempRestored
<1>3. Listed \subseteq Objects /\ Listed \subseteq Allocated
  BY DEF IndInv, ListedOnce, Allocated
<1>4. th' = [th EXCEPT ![t] = r]
  BY Zenon DEF FindToBeRemoved
<1>13. /\ position \in Nat /\ position + 1 \in DOMAIN list
       /\ list[position + 1] = o
  <2>1. list \in Seq(Objects) /\ Len(list) \in Nat /\ DOMAIN list = 1 .. Len(list)
    BY DEF IndInv, TypeOK
  <2>2. position \in 0 .. Len(list) - 1 /\ list[position + 1] = o
    BY <1>1, ErasePositionFinds DEF IndInv
  <2> HIDE DEF position
  <2> QED
    BY <2>1, <2>2
<1> HIDE DEF later, todo, position
<1>5. /\ r \in LocalStates
      /\ r.op = "remove" /\ r.pc = "undo" /\ r.cur = o
      /\ r.removed = o /\ r.later = later /\ r.todo = todo /\ r.position = position
  <2>1. th[t] \in LocalStates /\ "undo" \in Steps
    BY DEF IndInv, TypeOK, Steps
  <2>2. /\ later \in SUBSET Objects /\ todo \in SUBSET Objects /\ o \in Objects
        /\ position \in Nat
    BY <1>1, <1>2, <1>3, <1>13
  <2> QED
    BY <1>1, <2>1, <2>2 DEF LocalStates
<1>6. /\ th' \in [Threads -> LocalStates]
      /\ th'[t] = r
      /\ \A u \in Threads \ {t} : th'[u] = th[u]
  BY <1>4, <1>5, LocalUpdate DEF IndInv
<1> HIDE DEF r
<1>7. TypeOK'
  BY <1>1, <1>6 DEF FindToBeRemoved, IndInv, TypeOK
<1>8. Holds(t)'
  BY <1>5, <1>6 DEF Holds
<1>9. StepOfOp(t)'
  BY <1>5, <1>6, <1>8 DEF StepOfOp, StepsOf
<1>10. Listed' = Listed /\ Allocated' = Allocated
  BY <1>1 DEF Listed, Allocated
<1>11. WorksOnOwn(t)'
  <2>1. th'[t].position + 1 \in DOMAIN list' /\ list'[th'[t].position + 1] = o
    BY <1>1, <1>5, <1>6, <1>13
  <2>2. th'[t].removed \in Allocated' \ th'[t].later
    BY <1>1, <1>2, <1>3, <1>5, <1>6, <1>10
  <2>3. th'[t].later \union th'[t].todo \subseteq Listed'
    BY <1>2, <1>5, <1>6, <1>10
  <2> QED
    BY <2>1, <2>2, <2>3, <1>1, <1>5, <1>6, <1>10 DEF WorksOnOwn
<1>12. \A u \in Threads \ {t} : lock' = u <=> lock = u
  BY <1>1, ThreadsAssumption
<1> QED
  BY <1>1, <1>5, <1>6, <1>7, <1>8, <1>9, <1>11, <1>12, OneThreadStep

\* RestoreFunction that refuses leaves one object less to restore.
LEMMA SkipRestoreKeeps ==
  ASSUME IndInv, NEW t \in Threads, SkipRestore(t)
  PROVE  IndInv'
<1>1. PICK o \in Objects : th' = [th EXCEPT ![t].todo = @ \ {o}]
  BY DEF SkipRestore
<1> DEFINE r == [th[t] EXCEPT !.todo = @ \ {o}]
<1>2. list' = list /\ data' = data /\ lock' = lock /\ th[t].pc = "undo"
  BY DEF SkipRestore, RestoreNext
<1>3. /\ r \in LocalStates
      /\ r.op = th[t].op /\ r.pc = th[t].pc /\ r.cur = th[t].cur
      /\ r.removed = th[t].removed /\ r.later = th[t].later /\ r.todo = th[t].todo \ {o}
      /\ r.position = th[t].position
  <2>1. th[t] \in LocalStates
    BY DEF IndInv, TypeOK
  <2> QED
    BY <2>1 DEF LocalStates
<1>4. /\ th' \in [Threads -> LocalStates]
      /\ th'[t] = r
      /\ \A u \in Threads \ {t} : th'[u] = th[u]
  <2>1. th' = [th EXCEPT ![t] = r]
    BY <1>1, Zenon
  <2> QED
    BY <1>3, <2>1, LocalUpdate DEF IndInv
<1> HIDE DEF r
<1>5. TypeOK'
  BY <1>2, <1>4 DEF SkipRestore, IndInv, TypeOK
<1>6. Holds(t)' <=> Holds(t)
  BY <1>3, <1>4 DEF Holds
<1>7. StepOfOp(t)' /\ WorksOnOwn(t)'
  BY <1>2, <1>3, <1>4, <1>6 DEF IndInv, StepOfOp, WorksOnOwn, Listed, Allocated
<1> QED
  BY <1>2, <1>3, <1>4, <1>5, <1>6, <1>7, OneThreadStep DEF IndInv, MutexOwned

\* RestoreFunction writes for a listed object with a known address.
LEMMA CheckInstructionKeeps ==
  ASSUME IndInv, NEW t \in Threads, CheckInstruction(t)
  PROVE  IndInv'
<1>1. PICK o \in Objects :
        /\ o \in th[t].todo
        /\ th' = [th EXCEPT ![t].todo = @ \ {o}, ![t].cur = o, ![t].pc = "unwrite"]
  BY DEF CheckInstruction, RestoreNext
<1> DEFINE r == [th[t] EXCEPT !.todo = @ \ {o}, !.cur = o, !.pc = "unwrite"]
<1>2. list' = list /\ data' = data /\ lock' = lock /\ th[t].pc = "undo"
  BY DEF CheckInstruction, RestoreNext
<1>3. th[t].op = "remove" /\ Holds(t) /\ o \in Listed
  BY <1>1, <1>2 DEF IndInv, StepOfOp, StepsOf, WorksOnOwn, Holds, TypeOK, LocalStates, Ops
<1>4. /\ r \in LocalStates
      /\ r.op = "remove" /\ r.pc = "unwrite" /\ r.cur = o
      /\ r.removed = th[t].removed /\ r.later = th[t].later /\ r.todo = th[t].todo \ {o}
      /\ r.position = th[t].position
  <2>1. th[t] \in LocalStates /\ "unwrite" \in Steps
    BY DEF IndInv, TypeOK, Steps
  <2>2. r \in LocalStates
    BY <2>1 DEF LocalStates
  <2> QED
    BY <1>3, <2>1, <2>2 DEF LocalStates
<1>5. /\ th' \in [Threads -> LocalStates]
      /\ th'[t] = r
      /\ \A u \in Threads \ {t} : th'[u] = th[u]
  <2>1. th' = [th EXCEPT ![t] = r]
    BY <1>1, Zenon
  <2> QED
    BY <1>4, <2>1, LocalUpdate DEF IndInv
<1> HIDE DEF r
<1>6. TypeOK'
  BY <1>2, <1>5 DEF CheckInstruction, IndInv, TypeOK
<1>7. Holds(t)'
  BY <1>4, <1>5 DEF Holds
<1>8. StepOfOp(t)' /\ WorksOnOwn(t)'
  BY <1>2, <1>3, <1>4, <1>5, <1>7 DEF IndInv, StepOfOp, StepsOf, WorksOnOwn, Listed, Allocated
<1> QED
  BY <1>2, <1>3, <1>4, <1>5, <1>6, <1>7, <1>8, OneThreadStep DEF IndInv, MutexOwned

\* The word written back is one that was read from memory.
LEMMA RestoreInstructionKeeps ==
  ASSUME IndInv, NEW t \in Threads, RestoreInstruction(t)
  PROVE  IndInv'
<1> DEFINE o == th[t].cur
           r == [th[t] EXCEPT !.pc = "undo"]
<1>1. list' = list /\ lock' = lock /\ th[t].pc = "unwrite"
  BY DEF RestoreInstruction
<1>2. o \in Allocated /\ data[o] \in ObjectRecords
  BY <1>1, PatchesAllocated
<1>3. /\ [data[o] EXCEPT !.isPatched = FALSE] \in ObjectRecords
      /\ [data[o] EXCEPT !.isPatched = FALSE].address = data[o].address
      /\ data[o].replaced \in Words
  BY <1>2 DEF ObjectRecords
<1>4. /\ data' \in [Objects -> ObjectRecords \union {NULL}]
      /\ \A p \in Objects : data'[p] # NULL <=> data[p] # NULL
      /\ \A p \in Allocated : data'[p].address = data[p].address
  BY <1>2, <1>3, NullRecordAssumption DEF RestoreInstruction, IndInv, TypeOK, Allocated
<1>5. text' \in [Addrs -> Words]
  BY <1>3 DEF RestoreInstruction, Current, IndInv, TypeOK
<1>6. Allocated' = Allocated /\ Listed' = Listed
  BY <1>1, <1>4 DEF Allocated, Listed
<1>7. th[t].op = "remove" /\ Holds(t)
  BY <1>1 DEF IndInv, StepOfOp, StepsOf, Holds, TypeOK, LocalStates, Ops
<1>8. /\ r \in LocalStates
      /\ r.op = "remove" /\ r.pc = "undo" /\ r.cur = o
      /\ r.removed = th[t].removed /\ r.later = th[t].later /\ r.todo = th[t].todo
      /\ r.position = th[t].position
  <2>1. th[t] \in LocalStates /\ "undo" \in Steps
    BY DEF IndInv, TypeOK, Steps
  <2>2. r \in LocalStates
    BY <2>1 DEF LocalStates
  <2> QED
    BY <1>7, <2>1, <2>2 DEF LocalStates
<1>9. /\ th' \in [Threads -> LocalStates]
      /\ th'[t] = r
      /\ \A u \in Threads \ {t} : th'[u] = th[u]
  <2>1. TypeOK
    BY DEF IndInv
  <2> QED
    BY <1>8, <2>1, LocalUpdate DEF RestoreInstruction
<1> HIDE DEF r
<1>10. TypeOK'
  BY <1>1, <1>4, <1>5, <1>9 DEF RestoreInstruction, IndInv, TypeOK
<1>11. Holds(t)'
  BY <1>8, <1>9 DEF Holds
<1>12. StepOfOp(t)' /\ WorksOnOwn(t)'
  BY <1>1, <1>6, <1>7, <1>8, <1>9, <1>11 DEF IndInv, StepOfOp, StepsOf, WorksOnOwn
<1> QED
  BY <1>1, <1>4, <1>7, <1>8, <1>9, <1>10, <1>11, <1>12, OneThreadStep DEF IndInv, MutexOwned

\* What the erase in FPRemoveFunctionPatch does to the registry: the place of
\* toBeRemoved is k, and only that element goes.
LEMMA EraseRemoves ==
  ASSUME IndInv, NEW t \in Threads, Erase(t)
  PROVE  /\ th[t].op = "remove" /\ Holds(t) /\ th[t].removed \in Listed
         /\ list' \in Seq(Objects)
         /\ Len(list') = Len(list) - 1
         /\ \E k \in DOMAIN list :
              /\ list[k] = th[t].removed
              /\ \A i \in 1 .. Len(list) - 1 :
                   list'[i] = IF i < k THEN list[i] ELSE list[i + 1]
         /\ Listed' = Listed \ {th[t].removed}
<1> DEFINE o == th[t].removed
           k == th[t].position + 1
<1>1. list \in Seq(Objects) /\ Len(list) \in Nat /\ DOMAIN list = 1 .. Len(list)
  BY DEF IndInv, TypeOK
<1>2. th[t].op = "remove" /\ Holds(t) /\ o \in Listed
  BY DEF Erase, IndInv, StepOfOp, StepsOf, WorksOnOwn, Holds, TypeOK, LocalStates, Ops
<1>3. k \in 1 .. Len(list) /\ list[k] = o
  BY <1>1, <1>2 DEF IndInv, WorksOnOwn
<1> HIDE DEF k
<1>4. /\ list' \in Seq(Objects)
      /\ Len(list') = Len(list) - 1
      /\ \A i \in 1 .. Len(list) - 1 : list'[i] = IF i < k THEN list[i] ELSE list[i + 1]
  BY <1>1, <1>3, RemoveAtProperties DEF Erase, k
<1>5. DOMAIN list' = 1 .. Len(list) - 1
  BY <1>1, <1>4
<1>6. ASSUME NEW p \in Listed' PROVE p \in Listed \ {o}
  <2>1. PICK i \in 1 .. Len(list) - 1 : list'[i] = p
    BY <1>5 DEF Listed, Range
  <2>2. CASE i < k
    <3>1. i \in 1 .. Len(list) /\ i # k /\ list[i] = p
      BY <1>1, <1>3, <1>4, <2>1, <2>2
    <3> QED
      BY <3>1, <1>1, <1>3 DEF IndInv, ListedOnce, Listed, Range
  <2>3. CASE ~(i < k)
    <3>1. i + 1 \in 1 .. Len(list) /\ i + 1 # k /\ list[i + 1] = p
      BY <1>1, <1>3, <1>4, <2>1, <2>3
    <3> QED
      BY <3>1, <1>1, <1>3 DEF IndInv, ListedOnce, Listed, Range
  <2> QED
    BY <2>2, <2>3
<1>7. ASSUME NEW p \in Listed \ {o} PROVE p \in Listed'
  <2>1. PICK i \in 1 .. Len(list) : list[i] = p
    BY <1>1 DEF Listed, Range
  <2>2. CASE i < k
    <3>1. i \in 1 .. Len(list) - 1 /\ list'[i] = p
      BY <1>1, <1>3, <1>4, <2>1, <2>2
    <3> QED
      BY <3>1, <1>5 DEF Listed, Range
  <2>3. CASE ~(i < k)
    <3>1. i # k
      BY <1>3, <2>1
    <3>2. i - 1 \in 1 .. Len(list) - 1 /\ ~(i - 1 < k) /\ i - 1 + 1 = i
      BY <1>1, <1>3, <2>3, <3>1
    <3>3. list'[i - 1] = p
      BY <1>4, <2>1, <3>2
    <3> QED
      BY <3>2, <3>3, <1>5 DEF Listed, Range
  <2> QED
    BY <2>2, <2>3
<1> QED
  BY <1>1, <1>2, <1>3, <1>4, <1>6, <1>7

\* After the erase the loops hold no object that is not listed.
LEMMA EraseKeeps ==
  ASSUME IndInv, NEW t \in Threads, Erase(t)
  PROVE  IndInv'
<1> DEFINE o == th[t].removed
           todo == ToBeReapplied(t)
           r == [th[t] EXCEPT !.pc = "next", !.todo = todo, !.position = 0]
<1>1. /\ th[t].op = "remove" /\ Holds(t) /\ o \in Listed
      /\ list' \in Seq(Objects) /\ Len(list') = Len(list) - 1
      /\ Listed' = Listed \ {o}
  BY EraseRemoves
<1>2. PICK k \in DOMAIN list :
        /\ list[k] = o
        /\ \A i \in 1 .. Len(list) - 1 :
             list'[i] = IF i < k THEN list[i] ELSE list[i + 1]
  BY EraseRemoves
<1>3. Allocated' = Allocated /\ data' = data /\ lock' = lock /\ th[t].pc = "undo"
  BY DEF Erase, Allocated
<1>4. todo \subseteq th[t].later /\ th[t].later \subseteq Listed \ {o} /\ o \in Allocated
  BY <1>1 DEF ToBeReapplied, IndInv, WorksOnOwn
<1> HIDE DEF todo
<1>5. /\ r \in LocalStates
      /\ r.op = "remove" /\ r.pc = "next" /\ r.cur = th[t].cur
      /\ r.removed = o /\ r.later = th[t].later /\ r.todo = todo
  <2>1. th[t] \in LocalStates /\ "next" \in Steps
    BY DEF IndInv, TypeOK, Steps
  <2>2. todo \in SUBSET Objects
    BY <1>4, <2>1 DEF LocalStates
  <2> QED
    BY <1>1, <2>1, <2>2 DEF LocalStates
<1>6. /\ th' \in [Threads -> LocalStates]
      /\ th'[t] = r
      /\ \A u \in Threads \ {t} : th'[u] = th[u]
  <2>1. TypeOK /\ th \in [Threads -> LocalStates]
    BY DEF IndInv, TypeOK
  <2>2. th' = [th EXCEPT ![t] = r]
    BY <2>1 DEF Erase, todo
  <2> QED
    BY <1>5, <2>1, <2>2, LocalUpdate
<1> HIDE DEF r
<1>7. TypeOK'
  BY <1>1, <1>6 DEF Erase, IndInv, TypeOK
<1>8. ListedOnce'
  <2>1. /\ DOMAIN list = 1 .. Len(list) /\ Len(list) \in Nat
        /\ DOMAIN list' = 1 .. Len(list) - 1
    BY <1>1 DEF IndInv, TypeOK
  <2>2. ASSUME NEW i \in DOMAIN list', NEW j \in DOMAIN list', list'[i] = list'[j]
        PROVE  i = j
    <3> DEFINE at(n) == IF n < k THEN n ELSE n + 1
    <3>1. at(i) \in DOMAIN list /\ at(j) \in DOMAIN list
      BY <2>1, <1>2
    <3>2. list[at(i)] = list[at(j)]
      BY <2>1, <2>2, <1>2
    <3>3. at(i) = at(j)
      BY <3>1, <3>2 DEF IndInv, ListedOnce
    <3> QED
      BY <3>3, <2>1, <1>2
  <2> QED
    BY <1>1, <1>3, <2>2 DEF IndInv, ListedOnce
<1>9. \A u \in Threads : Holds(u)' <=> Holds(u)
  BY <1>1, <1>5, <1>6 DEF Holds
<1>10. MutexOwned'
  BY <1>3, <1>9 DEF IndInv, MutexOwned
<1>11. AddersApart'
  BY <1>1, <1>5, <1>6 DEF IndInv, AddersApart
<1>12. StepOfOp(t)' /\ WorksOnOwn(t)'
  <2>1. StepOfOp(t)'
    BY <1>1, <1>5, <1>6, <1>9 DEF StepOfOp, StepsOf
  <2>2. WorksOnOwn(t)'
    BY <1>1, <1>3, <1>4, <1>5, <1>6, <1>9 DEF WorksOnOwn
  <2> QED
    BY <2>1, <2>2
<1>13. \A u \in Threads \ {t} : ~Holds(u)
  BY <1>1 DEF IndInv, MutexOwned
<1>14. ASSUME NEW u \in Threads \ {t} PROVE StepOfOp(u)' /\ WorksOnOwn(u)'
  BY <1>1, <1>3, <1>6, <1>9, <1>13 DEF IndInv, StepOfOp, WorksOnOwn, Current
<1> QED
  BY <1>7, <1>8, <1>10, <1>11, <1>12, <1>14 DEF IndInv

\* The object that is freed is in nobody's hands but the remover's.
LEMMA FinishRemoveKeeps ==
  ASSUME IndInv, NEW t \in Threads, FinishRemove(t)
  PROVE  IndInv'
<1> DEFINE o == th[t].removed
<1>1. /\ th[t].op = "remove" /\ Holds(t) /\ th[t].pc = "next"
      /\ list' = list /\ lock = t /\ lock' = NULL
  BY DEF FinishRemove, LoopDone, Release, Holds
<1>2. o \in Allocated \ Listed /\ Listed' = Listed /\ Listed \subseteq Allocated
  BY <1>1 DEF IndInv, WorksOnOwn, Listed, ListedOnce
<1>3. /\ data' \in [Objects -> ObjectRecords \union {NULL}]
      /\ Allocated' = Allocated \ {o}
      /\ \A p \in Objects \ {o} : data'[p] = data[p]
  BY <1>2 DEF FinishRemove, Destroy, IndInv, TypeOK, Allocated
<1>4. /\ th' \in [Threads -> LocalStates]
      /\ th'[t] = Idle
      /\ \A u \in Threads \ {t} : th'[u] = th[u]
  <2>1. TypeOK
    BY DEF IndInv
  <2> QED
    BY IdleType, <2>1, LocalUpdate DEF FinishRemove
<1>5. TypeOK'
  BY <1>1, <1>3, <1>4 DEF FinishRemove, IndInv, TypeOK
<1>6. ListedOnce'
  BY <1>1, <1>2, <1>3 DEF IndInv, ListedOnce
<1>7. \A u \in Threads \ {t} : ~Holds(u) /\ ~Holds(u)'
  BY <1>1, <1>4 DEF IndInv, MutexOwned, Holds
<1>8. MutexOwned'
  BY <1>1, <1>4, <1>7, ThreadsAssumption DEF MutexOwned, Holds, Idle
<1>9. AddersApart'
  <2> SUFFICES ASSUME NEW u \in Threads, NEW v \in Threads, u # v, th'[u].op = "add"
               PROVE  /\ th'[v].op = "add" => th'[u].cur # th'[v].cur
                      /\ th'[u].cur # th'[v].removed
    BY DEF AddersApart
  <2>1. u # t /\ th[u].op = "add" /\ th[u].cur \in Objects
    BY <1>4 DEF Idle, IndInv, WorksOnOwn, Allocated
  <2>2. CASE v = t
    BY <2>1, <2>2, <1>4, NullObjectAssumption DEF Idle
  <2>3. CASE v # t
    BY <2>1, <2>3, <1>4 DEF IndInv, AddersApart
  <2> QED
    BY <2>2, <2>3
<1>10. StepOfOp(t)' /\ WorksOnOwn(t)'
  BY <1>4 DEF StepOfOp, StepsOf, WorksOnOwn, Holds, Idle
<1>11. ASSUME NEW u \in Threads \ {t} PROVE StepOfOp(u)' /\ WorksOnOwn(u)'
  <2>1. StepOfOp(u)'
    BY <1>4, <1>7 DEF IndInv, StepOfOp
  <2>2. th[u].op = "add" => th[u].cur # o
    BY <1>1 DEF IndInv, AddersApart
  <2>3. th[u].pc \in {"read", "write"} => th[u].op = "add" /\ th[u].cur \in Objects
    BY <1>7 DEF IndInv, StepOfOp, StepsOf, WorksOnOwn, Holds, TypeOK, LocalStates, Ops, Allocated
  <2>4. th[u].pc \in {"read", "write"} => Current(u)' = Current(u)
    BY <1>3, <1>4, <2>2, <2>3 DEF Current
  <2>5. WorksOnOwn(u)'
    BY <1>2, <1>3, <1>4, <1>7, <2>2, <2>4 DEF IndInv, WorksOnOwn
  <2> QED
    BY <2>1, <2>5
<1> QED
  BY <1>5, <1>6, <1>8, <1>9, <1>10, <1>11 DEF IndInv
------------------------------------------------------------------------------
(* The steps of the loader's callback, and of the hooks.                    *)

\* A thread that comes out of a callback or a hook gives the mutex back.
LEMMA LeavingKeeps ==
  ASSUME IndInv, TypeOK', NEW t \in Threads, lock = t, lock' = NULL,
         th' = [th EXCEPT ![t] = Idle], list' = list, data' = data
  PROVE  IndInv'
<1>1. th'[t] = Idle /\ \A u \in Threads \ {t} : th'[u] = th[u]
  BY IdleType, LocalUpdate DEF IndInv
<1>2. StepOfOp(t)' /\ WorksOnOwn(t)' /\ ~Holds(t)'
  BY <1>1 DEF StepOfOp, StepsOf, WorksOnOwn, Holds, Idle
<1>3. lock' # t /\ \A u \in Threads \ {t} : lock' = u <=> lock = u
  BY ThreadsAssumption
<1> QED
  BY <1>1, <1>2, <1>3, OneThreadStep DEF Idle

\* A thread that waits outside the mutex, with nothing in hand.
LEMMA WaitingKeeps ==
  ASSUME IndInv, TypeOK', NEW t \in Threads, NEW r \in LocalStates,
         th[t] = Idle, th' = [th EXCEPT ![t] = r],
         r.op \in {"loaded", "unloaded"}, r.pc = "wait",
         r.removed = NULL, r.later = {}, r.todo = {},
         list' = list, data' = data, lock' = lock
  PROVE  IndInv'
<1>1. th'[t] = r /\ \A u \in Threads \ {t} : th'[u] = th[u]
  BY LocalUpdate DEF IndInv
<1>2. StepOfOp(t)' /\ WorksOnOwn(t)' /\ ~Holds(t)' /\ ~Holds(t)
  BY <1>1 DEF StepOfOp, StepsOf, WorksOnOwn, Holds, Idle
<1> QED
  BY <1>1, <1>2, OneThreadStep DEF IndInv, MutexOwned

\* The loader places a module and starts a callback outside the mutex.
LEMMA OSLoadKeeps ==
  ASSUME IndInv, NEW t \in Threads, NEW m \in Modules, NEW a \in Addrs, OSLoad(t, m, a)
  PROVE  IndInv'
<1> DEFINE r == [Idle EXCEPT !.op = "loaded", !.pc = "wait"]
<1>1. /\ r \in LocalStates
      /\ r.op = "loaded" /\ r.pc = "wait" /\ r.removed = NULL /\ r.later = {} /\ r.todo = {}
  BY IdleType DEF Idle, LocalStates, Ops, Steps
<1>2. th[t] = Idle /\ list' = list /\ data' = data /\ lock' = lock
  BY DEF OSLoad, MayCall
<1>3. /\ place' \in [Modules -> Addrs \union {NULL}]
      /\ text' \in [Addrs -> Words]
  BY DEF OSLoad, IndInv, TypeOK, Words
<1>4. th' = [th EXCEPT ![t] = IF notify THEN r ELSE Idle]
  BY <1>2 DEF OSLoad, IndInv, TypeOK
<1>5. th' \in [Threads -> LocalStates]
  BY <1>1, <1>4, IdleType, LocalUpdate DEF IndInv
<1>6. TypeOK'
  BY <1>3, <1>5 DEF OSLoad, IndInv, TypeOK
<1> HIDE DEF r
<1>7. CASE notify
  BY <1>1, <1>2, <1>4, <1>6, <1>7, WaitingKeeps
<1>8. CASE ~notify
  <2>1. th' = th
    BY <1>8 DEF OSLoad
  <2> QED
    BY <1>2, <1>6, <2>1 DEF IndInv, ListedOnce, Listed, Allocated, MutexOwned, AddersApart,
                            StepOfOp, WorksOnOwn, Holds, Current
<1> QED
  BY <1>7, <1>8

\* The loader takes a module away and starts a callback outside the mutex.
LEMMA OSUnloadKeeps ==
  ASSUME IndInv, NEW t \in Threads, NEW m \in Modules, OSUnload(t, m)
  PROVE  IndInv'
<1> DEFINE a == place[m]
           r == [Idle EXCEPT !.op = "unloaded", !.pc = "wait", !.module = a]
<1>1. a \in Addrs
  BY DEF OSUnload, IndInv, TypeOK
<1>2. /\ r \in LocalStates
      /\ r.op = "unloaded" /\ r.pc = "wait" /\ r.removed = NULL /\ r.later = {} /\ r.todo = {}
  BY <1>1, IdleType DEF Idle, LocalStates, Ops, Steps
<1>3. th[t] = Idle /\ list' = list /\ data' = data /\ lock' = lock
  BY DEF OSUnload, MayCall
<1>4. LeftBehind(a) \subseteq Words
  BY <1>1 DEF LeftBehind, IndInv, TypeOK, Words
<1>5. /\ place' \in [Modules -> Addrs \union {NULL}]
      /\ text' \in [Addrs -> Words]
  BY <1>4 DEF OSUnload, IndInv, TypeOK
<1>6. CASE notify
  <2>1. th' = [th EXCEPT ![t] = r]
    BY <1>6 DEF OSUnload
  <2>2. th' \in [Threads -> LocalStates]
    BY <1>2, <2>1, LocalUpdate DEF IndInv
  <2>3. TypeOK'
    BY <1>5, <2>2 DEF OSUnload, IndInv, TypeOK
  <2> HIDE DEF r
  <2> QED
    BY <1>2, <1>3, <2>1, <2>3, WaitingKeeps
<1>7. CASE ~notify
  <2>1. th' = th
    BY <1>7 DEF OSUnload
  <2>2. TypeOK'
    BY <1>5, <2>1 DEF OSUnload, IndInv, TypeOK
  <2> QED
    BY <1>3, <2>1, <2>2 DEF IndInv, ListedOnce, Listed, Allocated, MutexOwned, AddersApart,
                            StepOfOp, WorksOnOwn, Holds, Current
<1> QED
  BY <1>6, <1>7

\* The callback that takes the mutex goes through the registry.
LEMMA NotifyLoadedKeeps ==
  ASSUME IndInv, NEW t \in Threads, NotifyLoaded(t)
  PROVE  IndInv'
<1> DEFINE r == [th[t] EXCEPT !.pc = "next", !.todo = Listed]
<1>1. /\ list' = list /\ data' = data /\ lock = NULL /\ lock' = t
      /\ th[t].op = "loaded" /\ th[t].pc = "wait"
  BY DEF NotifyLoaded, Acquire, Enter
<1>2. th[t].removed = NULL /\ th[t].later = {} /\ Listed \subseteq Objects
  BY <1>1 DEF IndInv, StepOfOp, Holds, ListedOnce, Allocated
<1>3. /\ r \in LocalStates
      /\ r.op = "loaded" /\ r.pc = "next"
      /\ r.removed = NULL /\ r.later = {} /\ r.todo = Listed
  <2>1. th[t] \in LocalStates /\ "next" \in Steps /\ Listed \in SUBSET Objects
    BY <1>2 DEF IndInv, TypeOK, Steps
  <2> QED
    BY <1>1, <1>2, <2>1 DEF LocalStates
<1>4. /\ th' \in [Threads -> LocalStates]
      /\ th'[t] = r
      /\ \A u \in Threads \ {t} : th'[u] = th[u]
  <2>1. TypeOK /\ th \in [Threads -> LocalStates]
    BY DEF IndInv, TypeOK
  <2>2. th' = [th EXCEPT ![t] = r]
    BY <2>1 DEF NotifyLoaded
  <2> QED
    BY <1>3, <2>1, <2>2, LocalUpdate
<1> HIDE DEF r
<1>5. TypeOK'
  BY <1>1, <1>4 DEF NotifyLoaded, IndInv, TypeOK
<1>6. Holds(t)' /\ StepOfOp(t)' /\ WorksOnOwn(t)'
  BY <1>1, <1>3, <1>4 DEF Holds, StepOfOp, StepsOf, WorksOnOwn, Listed
<1>7. \A u \in Threads \ {t} : lock' = u <=> lock = u
  BY <1>1, ThreadsAssumption
<1> QED
  BY <1>1, <1>3, <1>4, <1>5, <1>6, <1>7, OneThreadStep

\* The callback returns and gives the mutex back.
LEMMA FinishLoadedKeeps ==
  ASSUME IndInv, NEW t \in Threads, FinishLoaded(t)
  PROVE  IndInv'
<1>1. th' \in [Threads -> LocalStates]
  <2>1. TypeOK
    BY DEF IndInv
  <2> QED
    BY IdleType, <2>1, LocalUpdate DEF FinishLoaded
<1>2. TypeOK'
  BY <1>1 DEF FinishLoaded, Release, IndInv, TypeOK
<1> QED
  BY <1>2, LeavingKeeps DEF FinishLoaded, Release

\* The hook returns and gives the mutex back.
LEMMA FinishStartKeeps ==
  ASSUME IndInv, NEW t \in Threads, FinishStart(t)
  PROVE  IndInv'
<1>1. th' \in [Threads -> LocalStates]
  <2>1. TypeOK
    BY DEF IndInv
  <2> QED
    BY IdleType, <2>1, LocalUpdate DEF FinishStart
<1>2. TypeOK'
  BY <1>1 DEF FinishStart, Release, IndInv, TypeOK
<1> QED
  BY <1>2, LeavingKeeps DEF FinishStart, Release

\* d has the objects of data, at the same addresses.
SameObjects(d) ==
  /\ d \in [Objects -> ObjectRecords \union {NULL}]
  /\ \A o \in Objects : d[o] # NULL <=> data[o] # NULL
  /\ \A o \in Allocated : d[o].address = data[o].address

\* An object that is marked as not patched is still an object.
LEMMA UnpatchedType ==
  ASSUME NEW r \in ObjectRecords
  PROVE  /\ [r EXCEPT !.isPatched = FALSE] \in ObjectRecords
         /\ [r EXCEPT !.isPatched = FALSE].address = r.address
BY DEF ObjectRecords

\* Marking some of the listed objects as not patched.
LEMMA UnpatchingKeepsObjects ==
  ASSUME IndInv, NEW d, SameObjects(d), NEW S \in SUBSET Listed,
         NEW e, e = [o \in Objects |-> IF o \in S THEN [d[o] EXCEPT !.isPatched = FALSE]
                                                  ELSE d[o]]
  PROVE  SameObjects(e)
<1>1. S \subseteq Allocated /\ Allocated \subseteq Objects
  BY DEF IndInv, ListedOnce, Allocated
<1>2. ASSUME NEW o \in S
      PROVE  /\ d[o] \in ObjectRecords
             /\ e[o] = [d[o] EXCEPT !.isPatched = FALSE]
             /\ data[o] # NULL
  BY <1>1 DEF SameObjects, Allocated
<1>3. ASSUME NEW o \in S
      PROVE  e[o] \in ObjectRecords /\ e[o] # NULL /\ e[o].address = data[o].address
  <2>1. e[o] \in ObjectRecords /\ e[o].address = d[o].address
    BY <1>2, UnpatchedType
  <2>2. d[o].address = data[o].address
    BY <1>1 DEF SameObjects
  <2> QED
    BY <2>1, <2>2, NullRecordAssumption
<1>4. ASSUME NEW o \in Objects \ S PROVE e[o] = d[o]
  OBVIOUS
<1>5. \A o \in Objects : e[o] \in ObjectRecords \union {NULL}
  BY <1>3, <1>4 DEF SameObjects
<1>6. \A o \in Objects : e[o] # NULL <=> data[o] # NULL
  BY <1>2, <1>3, <1>4 DEF SameObjects
<1>7. \A o \in Allocated : e[o].address = data[o].address
  BY <1>1, <1>3, <1>4 DEF SameObjects
<1> QED
  BY <1>5, <1>6, <1>7 DEF SameObjects

\* CheckIfPatchedFunctionsAreStillInMemory only clears flags of listed objects.
LEMMA StillInMemoryKeepsObjects ==
  ASSUME IndInv, NEW d, SameObjects(d), NEW txt
  PROVE  SameObjects(StillInMemory(d, txt))
<1> DEFINE S == {o \in Listed : d[o].isPatched
                                  /\ ~IsUnchanged(d, d[o].address, txt[d[o].address])}
<1>1. StillInMemory(d, txt) =
        [o \in Objects |-> IF o \in S THEN [d[o] EXCEPT !.isPatched = FALSE] ELSE d[o]]
  BY DEF StillInMemory
<1>2. S \in SUBSET Listed
  OBVIOUS
<1> HIDE DEF S
<1> QED
  BY <1>1, <1>2, UnpatchingKeepsObjects

\* So does the loop over the objects of a library that has left.
LEMMA LibraryUnloadedKeepsObjects ==
  ASSUME IndInv, NEW l
  PROVE  SameObjects(LibraryUnloaded(l)) /\ SameObjects(data)
<1> DEFINE S == {o \in Listed : data[o].target.kind = "library"
                                  /\ data[o].target.module = l}
<1>1. LibraryUnloaded(l) =
        [o \in Objects |-> IF o \in S THEN [data[o] EXCEPT !.isPatched = FALSE] ELSE data[o]]
  BY DEF LibraryUnloaded
<1>2. S \in SUBSET Listed
  OBVIOUS
<1>3. SameObjects(data)
  BY DEF SameObjects, IndInv, TypeOK
<1> HIDE DEF S
<1> QED
  BY <1>1, <1>2, <1>3, UnpatchingKeepsObjects

\* The callback for a module that has left clears flags and a handle.
LEMMA NotifyUnloadedKeeps ==
  ASSUME IndInv, NEW t \in Threads, NotifyUnloaded(t)
  PROVE  IndInv'
<1> DEFINE l == GetTypeForHandle(th[t].module)
<1>1. list' = list /\ lock = NULL /\ lock' = NULL
  BY DEF NotifyUnloaded
<1>2. SameObjects(data')
  <2>1. CASE l # NULL
    BY <2>1, LibraryUnloadedKeepsObjects, StillInMemoryKeepsObjects DEF NotifyUnloaded
  <2>2. CASE l = NULL
    BY <2>2, LibraryUnloadedKeepsObjects, StillInMemoryKeepsObjects DEF NotifyUnloaded
  <2> QED
    BY <2>1, <2>2
<1>3. handle' \in [Libraries -> Addrs \union {NULL}]
  BY DEF NotifyUnloaded, ResetHandle, IndInv, TypeOK
<1>4. /\ th' \in [Threads -> LocalStates]
      /\ th'[t] = Idle
      /\ \A u \in Threads \ {t} : th'[u] = th[u]
  <2>1. TypeOK
    BY DEF IndInv
  <2> QED
    BY IdleType, <2>1, LocalUpdate DEF NotifyUnloaded
<1>5. TypeOK'
  BY <1>1, <1>2, <1>3, <1>4 DEF NotifyUnloaded, SameObjects, IndInv, TypeOK
<1>6. StepOfOp(t)' /\ WorksOnOwn(t)' /\ ~Holds(t)'
  BY <1>4 DEF StepOfOp, StepsOf, WorksOnOwn, Holds, Idle
<1>7. lock' # t /\ \A u \in Threads : lock' = u <=> lock = u
  BY <1>1, ThreadsAssumption
<1>8. th'[t].op # "add" /\ th'[t].removed = NULL
  BY <1>4 DEF Idle
<1> QED
  BY <1>1, <1>2, <1>4, <1>5, <1>6, <1>7, <1>8, OneThreadStep DEF SameObjects

\* The loader puts words in memory that can be there.
LEMMA TextForType ==
  ASSUME TypeOK, NEW p \in Placements
  PROVE  p \in [Modules -> Addrs \union {NULL}] /\ TextFor(p) \in [Addrs -> Words]
<1>1. ASSUME NEW a \in Addrs, \E m \in Modules \ DOMAIN Resident : p[m] = a
      PROVE  (CHOOSE m \in Modules : p[m] = a) \in Modules
  BY <1>1
<1> QED
  BY <1>1 DEF TextFor, Placements, TypeOK, Words

\* The hook starts when no thread is in a call, and owns the mutex.
LEMMA ApplicationStartsKeeps ==
  ASSUME IndInv, NEW t \in Threads, NEW ti \in Titles, NEW upidMatches \in BOOLEAN,
         ApplicationStarts(t, ti, upidMatches)
  PROVE  IndInv'
<1> DEFINE r == [Idle EXCEPT !.op = "start", !.pc = "next", !.todo = Listed]
<1>1. list' = list /\ th[t] = Idle /\ ~Holds(t)
  <2>1. list' = list /\ th[t] = Idle
    BY DEF ApplicationStarts, Quiescent
  <2>2. th[t].op = "none"
    BY <2>1 DEF Idle
  <2> QED
    BY <2>1, <2>2 DEF Holds
<1>2. /\ place' \in [Modules -> Addrs \union {NULL}]
      /\ text' \in [Addrs -> Words]
      /\ title' \in Titles \union {NULL}
  BY TextForType DEF ApplicationStarts, IndInv
<1>3. CASE upidMatches
  <2>1. lock = NULL /\ lock' = t
    BY <1>3 DEF ApplicationStarts, Acquire
  <2>2. SameObjects(data')
    BY <1>3, LibraryUnloadedKeepsObjects, StillInMemoryKeepsObjects DEF ApplicationStarts
  <2>3. Listed \subseteq Objects
    BY DEF IndInv, ListedOnce, Allocated
  <2>4. /\ r \in LocalStates
        /\ r.op = "start" /\ r.pc = "next"
        /\ r.removed = NULL /\ r.later = {} /\ r.todo = Listed
    BY <2>3, IdleType DEF Idle, LocalStates, Ops, Steps
  <2>5. /\ th' \in [Threads -> LocalStates]
        /\ th'[t] = r
        /\ \A u \in Threads \ {t} : th'[u] = th[u]
    <3>1. TypeOK
      BY DEF IndInv
    <3> QED
      BY <1>3, <2>4, <3>1, LocalUpdate DEF ApplicationStarts
  <2> HIDE DEF r
  <2>6. TypeOK'
    BY <1>1, <1>2, <2>1, <2>2, <2>5 DEF ApplicationStarts, SameObjects, IndInv, TypeOK
  <2>7. Holds(t)' /\ StepOfOp(t)' /\ WorksOnOwn(t)'
    BY <1>1, <2>4, <2>5 DEF Holds, StepOfOp, StepsOf, WorksOnOwn, Listed
  <2>8. \A u \in Threads \ {t} : lock' = u <=> lock = u
    BY <2>1, ThreadsAssumption
  <2> QED
    BY <1>1, <2>1, <2>2, <2>4, <2>5, <2>6, <2>7, <2>8, OneThreadStep DEF SameObjects
<1>4. CASE ~upidMatches
  <2>1. lock' = lock /\ data' = data /\ th' = th
    BY <1>4 DEF ApplicationStarts
  <2>2. TypeOK'
    BY <1>1, <1>2, <2>1 DEF ApplicationStarts, IndInv, TypeOK
  <2> QED
    BY <1>1, <2>1, <2>2 DEF IndInv, ListedOnce, Listed, Allocated, MutexOwned, AddersApart,
                            StepOfOp, WorksOnOwn, Holds, Current
<1> QED
  BY <1>3, <1>4

\* An application ends when no thread is in a call.
LEMMA ApplicationEndsKeeps ==
  ASSUME IndInv, ApplicationEnds
  PROVE  IndInv'
<1>1. list' = list /\ lock' = lock /\ data' = data /\ th' = th
  BY DEF ApplicationEnds
<1>2. place' \in [Modules -> Addrs \union {NULL}]
  BY ResidentAssumption DEF ApplicationEnds
<1>3. TypeOK'
  BY <1>1, <1>2 DEF ApplicationEnds, ResetHandles, IndInv, TypeOK
<1> QED
  BY <1>1, <1>3 DEF IndInv, ListedOnce, Listed, Allocated, MutexOwned, AddersApart,
                    StepOfOp, WorksOnOwn, Holds, Current
------------------------------------------------------------------------------
(* The theorems.                                                            *)

\* The module as it is loaded satisfies the invariant.
LEMMA InitInd == Init => IndInv
<1> SUFFICES ASSUME Init PROVE IndInv
  OBVIOUS
<1>1. TypeOK
  <2>1. place \in [Modules -> Addrs \union {NULL}]
    BY ResidentAssumption DEF Init
  <2>2. text \in [Addrs -> Words]
    <3>1. ASSUME NEW a \in Addrs, \E m \in DOMAIN Resident : Resident[m] = a
          PROVE  (CHOOSE m \in DOMAIN Resident : Resident[m] = a) \in Modules
      BY <3>1, ResidentAssumption
    <3> QED
      BY <3>1 DEF Init, Words
  <2>3. <<>> \in Seq(Objects)
    OBVIOUS
  <2>4. th \in [Threads -> LocalStates]
    BY IdleType DEF Init
  <2>5. handle \in [Libraries -> Addrs \union {NULL}]
    BY DEF Init, RplHandles
  <2>6. data \in [Objects -> ObjectRecords \union {NULL}]
    BY DEF Init
  <2> QED
    BY <2>1, <2>2, <2>3, <2>4, <2>5, <2>6 DEF Init, TypeOK
<1>2. list = <<>> /\ Listed = {}
  BY DEF Init, Listed, Range
<1> QED
  BY <1>1, <1>2, ThreadsAssumption
     DEF Init, IndInv, ListedOnce, MutexOwned, AddersApart, StepOfOp, StepsOf, WorksOnOwn,
         Holds, Idle

\* Every step preserves the invariant: one case per action.
LEMMA NextKeepsInd == IndInv /\ [Next]_vars => IndInv'
<1> SUFFICES ASSUME IndInv, [Next]_vars PROVE IndInv'
  OBVIOUS
<1>1. CASE UNCHANGED vars
  BY <1>1 DEF vars, IndInv, TypeOK, ListedOnce, Listed, Allocated, MutexOwned, AddersApart,
              StepOfOp, WorksOnOwn, Holds, Current
<1>2. CASE ApplicationEnds
  BY <1>2, ApplicationEndsKeeps
<1>3. ASSUME NEW t \in Threads, Proceed(t) PROVE IndInv'
  BY <1>3, SkipPatchKeeps, UnresolvedKeeps, ResolveKeeps, ReadInstructionKeeps,
     WriteOnCoreKeeps, NoThreadKeeps, SetPatchedKeeps, PatchNextKeeps, SkipRestoreKeeps,
     CheckInstructionKeeps, RestoreInstructionKeeps, EraseKeeps, FinishRemoveKeeps,
     FinishLoadedKeeps, FinishStartKeeps
     DEF Proceed
<1>4. ASSUME NEW t \in Threads, Locking(t) PROVE IndInv'
  BY <1>4, PushBackKeeps, PatchNotFoundKeeps, FindToBeRemovedKeeps, NotifyLoadedKeeps,
     NotifyUnloadedKeeps
     DEF Locking
<1>5. ASSUME NEW t \in Threads, Calls(t) PROVE IndInv'
  BY <1>5, FPAddFunctionPatchKeeps, FPRemoveFunctionPatchKeeps, OSLoadKeeps, OSUnloadKeeps,
     ApplicationStartsKeeps
     DEF Calls
<1> QED
  BY <1>1, <1>2, <1>3, <1>4, <1>5 DEF Next

\* IndInv is an invariant of the program.
THEOREM Inductive == Spec => []IndInv
  BY InitInd, NextKeepsInd, PTL DEF Spec

\* Every variable keeps its type: no step reads a field of an object that was
\* freed, or writes to memory that is not code.
THEOREM TypeCorrect == Spec => []TypeOK
<1>1. IndInv => TypeOK
  BY DEF IndInv
<1> QED
  BY <1>1, Inductive, PTL

\* The objects of the registry and those that calls work on are allocated, and
\* an object that is being added belongs to its call: FPRemoveFunctionPatch
\* frees nothing that PatchFunction or RestoreFunction is still to read.
THEOREM MemorySafe == Spec => []NoUseAfterFree
<1>1. ASSUME IndInv PROVE NoUseAfterFree
  <2>1. ASSUME NEW t \in Threads PROVE References(t) \subseteq Allocated
    <3>1. InWork(t) \subseteq Allocated
      BY <1>1, PatchesAllocated DEF InWork
    <3>2. th[t].later \union th[t].todo \subseteq Allocated
      BY <1>1 DEF IndInv, WorksOnOwn, ListedOnce
    <3>3. th[t].removed # NULL => th[t].removed \in Allocated
      BY <1>1 DEF IndInv, StepOfOp, WorksOnOwn
    <3> QED
      BY <3>1, <3>2, <3>3 DEF References
  <2>2. ASSUME NEW t \in Threads, NEW u \in Threads, t # u, th[t].op = "add"
        PROVE  th[t].cur \notin Listed \union References(u)
    <3>1. th[t].cur \notin Listed /\ th[t].cur # th[u].removed
      BY <1>1, <2>2 DEF IndInv, WorksOnOwn, AddersApart
    <3>2. th[u].later \union th[u].todo \subseteq Listed
      BY <1>1 DEF IndInv, WorksOnOwn
    <3>3. th[t].cur \notin InWork(u)
      BY <1>1, <2>2, <3>1
         DEF InWork, IndInv, AddersApart, WorksOnOwn, StepOfOp, StepsOf, Holds, TypeOK,
             LocalStates, Ops
    <3> QED
      BY <3>1, <3>2, <3>3 DEF References
  <2> QED
    BY <1>1, <2>1, <2>2 DEF NoUseAfterFree, IndInv, ListedOnce
<1> QED
  BY <1>1, Inductive, PTL

\* gPatchedFunctionsMutex is owned by the thread that is inside a function that
\* takes it, and so there is one such thread at most.
THEOREM MutualExclusion ==
  Spec => [](MutexOwned /\ \A t, u \in Threads : Holds(t) /\ Holds(u) => t = u)
<1>1. IndInv => MutexOwned /\ \A t, u \in Threads : Holds(t) /\ Holds(u) => t = u
  BY DEF IndInv, MutexOwned
<1> QED
  BY <1>1, Inductive, PTL
------------------------------------------------------------------------------
(* The registry changes as the calls promise.                               *)

\* push_back is a step RegistryExact allows.
LEMMA PushBackIsRegistryStep ==
  ASSUME IndInv, NEW t \in Threads, PushBack(t)
  PROVE  RegistryStep
<1> DEFINE o == th[t].cur
<1>1. /\ o \notin Listed
      /\ list' \in Seq(Objects) /\ Len(list') = Len(list) + 1
      /\ \A i \in 1 .. Len(list) : list'[i] = list[i]
      /\ list'[Len(list) + 1] = o
      /\ Listed' = Listed \union {o}
  BY PushBackAppends
<1>2. /\ DOMAIN list = 1 .. Len(list) /\ Len(list) \in Nat
      /\ DOMAIN list' = 1 .. Len(list) + 1
  BY <1>1 DEF IndInv, TypeOK
<1>3. ASSUME NEW p \in Listed, NEW q \in Listed PROVE Before(p, q) <=> Before(p, q)'
  <2>1. ASSUME NEW i \in DOMAIN list, NEW j \in DOMAIN list, i <= j, list[i] = p, list[j] = q
        PROVE  Before(p, q)'
    BY <1>1, <1>2, <2>1 DEF Before
  <2>2. ASSUME NEW i \in DOMAIN list', NEW j \in DOMAIN list', i <= j,
               list'[i] = p, list'[j] = q
        PROVE  Before(p, q)
    <3>1. i \in DOMAIN list /\ j \in DOMAIN list
      BY <1>1, <1>2, <2>2
    <3> QED
      BY <1>1, <1>2, <2>2, <3>1 DEF Before
  <2> QED
    BY <2>1, <2>2 DEF Before
<1>4. ListKeeps(Listed \union {o})
  BY <1>1, <1>3 DEF ListKeeps, Listed
<1>5. Last(list') = o
  BY <1>1 DEF Last
<1> QED
  BY <1>4, <1>5 DEF RegistryStep, PushBack

\* The erase is a step RegistryExact allows.
LEMMA EraseIsRegistryStep ==
  ASSUME IndInv, NEW t \in Threads, Erase(t)
  PROVE  RegistryStep
<1> DEFINE o == th[t].removed
<1>1. /\ th[t].op = "remove" /\ Holds(t)
      /\ list' \in Seq(Objects) /\ Len(list') = Len(list) - 1
      /\ Listed' = Listed \ {o}
  BY EraseRemoves
<1>2. PICK k \in DOMAIN list :
        /\ list[k] = o
        /\ \A i \in 1 .. Len(list) - 1 :
             list'[i] = IF i < k THEN list[i] ELSE list[i + 1]
  BY EraseRemoves
<1>3. /\ DOMAIN list = 1 .. Len(list) /\ Len(list) \in Nat
      /\ DOMAIN list' = 1 .. Len(list) - 1
  BY <1>1 DEF IndInv, TypeOK
<1>4. ASSUME NEW p \in Listed \ {o}, NEW q \in Listed \ {o}
      PROVE  Before(p, q) <=> Before(p, q)'
  <2>1. ASSUME NEW i \in DOMAIN list, NEW j \in DOMAIN list, i <= j, list[i] = p, list[j] = q
        PROVE  Before(p, q)'
    <3> DEFINE to(n) == IF n < k THEN n ELSE n - 1
    <3>1. i # k /\ j # k
      BY <1>2, <2>1
    <3>2. to(i) \in DOMAIN list' /\ to(j) \in DOMAIN list' /\ to(i) <= to(j)
      BY <1>2, <1>3, <2>1, <3>1
    <3>3. list'[to(i)] = p /\ list'[to(j)] = q
      BY <1>2, <1>3, <2>1, <3>1, <3>2
    <3> HIDE DEF to
    <3> QED
      BY <3>2, <3>3 DEF Before
  <2>2. ASSUME NEW i \in DOMAIN list', NEW j \in DOMAIN list', i <= j,
               list'[i] = p, list'[j] = q
        PROVE  Before(p, q)
    <3> DEFINE at(n) == IF n < k THEN n ELSE n + 1
    <3>1. at(i) \in DOMAIN list /\ at(j) \in DOMAIN list /\ at(i) <= at(j)
      BY <1>2, <1>3, <2>2
    <3>2. list[at(i)] = p /\ list[at(j)] = q
      BY <1>2, <1>3, <2>2
    <3> HIDE DEF at
    <3> QED
      BY <3>1, <3>2 DEF Before
  <2> QED
    BY <2>1, <2>2 DEF Before
<1>5. ListKeeps(Listed \ {o})
  BY <1>1, <1>4 DEF ListKeeps, Listed
<1>6. lock = t
  BY <1>1 DEF IndInv, MutexOwned
<1> QED
  BY <1>1, <1>5, <1>6 DEF RegistryStep

\* An append by push_back, and the loss of exactly the object whose handle was
\* given by erase, are all that ever happens to gPatchedFunctions.
THEOREM RegistryChangesExactly == Spec => RegistryExact
<1>1. IndInv /\ [Next]_vars => [RegistryStep]_vars
  <2> SUFFICES ASSUME IndInv, Next PROVE RegistryStep
    OBVIOUS
  <2>1. CASE ApplicationEnds
    BY <2>1 DEF ApplicationEnds, RegistryStep
  <2>2. ASSUME NEW t \in Threads, Proceed(t) PROVE RegistryStep
    <3>1. CASE Erase(t)
      BY <3>1, EraseIsRegistryStep
    <3>2. CASE ~Erase(t)
      BY <2>2, <3>2
         DEF Proceed, SkipPatch, Unresolved, Resolve, ReadInstruction, WriteOnCore,
             SkipCore, JoinNeverReturns,
             SetPatched, PatchNext, SkipRestore, CheckInstruction, RestoreInstruction,
             FinishRemove, FinishLoaded, FinishStart, RegistryStep
    <3> QED
      BY <3>1, <3>2
  <2>3. ASSUME NEW t \in Threads, Locking(t) PROVE RegistryStep
    <3>1. CASE PushBack(t)
      BY <3>1, PushBackIsRegistryStep
    <3>2. CASE ~PushBack(t)
      BY <2>3, <3>2
         DEF Locking, PatchNotFound, FindToBeRemoved, NotifyLoaded, NotifyUnloaded,
             RegistryStep
    <3> QED
      BY <3>1, <3>2
  <2>4. ASSUME NEW t \in Threads, Calls(t) PROVE RegistryStep
    BY <2>4
       DEF Calls, FPAddFunctionPatch, FPRemoveFunctionPatch, OSLoad, OSUnload,
           ApplicationStarts, RegistryStep
  <2> QED
    BY <2>1, <2>2, <2>3, <2>4 DEF Next
<1> QED
  BY <1>1, Inductive, PTL DEF Spec, RegistryExact
==============================================================================
