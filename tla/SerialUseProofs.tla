---------------------------- MODULE SerialUseProofs ----------------------------
(****************************************************************************)
(* Theorems about FunctionPatcher used as SerialUse says: the words in      *)
(* memory are stacks of replacements at every step, and so the flags tell   *)
(* the truth, the original stays reachable, nothing that should be applied  *)
(* is forgotten, and the steps of the program are steps of PatchStack.      *)
(****************************************************************************)
EXTENDS HandleCacheProofs, ReplacementChains

USE DEF system

\* One thread t follows the discipline, and the words in memory are stk.
Working(stk, t) ==
  /\ Discipline /\ Threads = {t} /\ t \in Threads
  /\ IndInv /\ LoaderInv /\ CacheInv
  /\ TypeOK /\ ListedOnce /\ StepOfOp(t) /\ WorksOnOwn(t)
  /\ th[t] \in LocalStates /\ th \in [Threads -> LocalStates]
  /\ MemoryIs(stk) /\ AddressesApart
  /\ FlagsFollow(stk, t) /\ NoneForgotten(stk, t)
  /\ PatchingInOrder(stk, t) /\ RemovingLatest(stk, t)
  /\ Attended <=> notify \/ th[t].op = "start"
  /\ \A o : OnStack(stk, o) => o \in Allocated
------------------------------------------------------------------------------
(* Where objects want to be, and where they are found.                      *)

\* Allocated objects are objects, with a target a client may ask for.
LEMMA RecordOf ==
  ASSUME IndInv, NEW o \in Allocated
  PROVE  o \in Objects /\ data[o] \in ObjectRecords /\ data[o].target \in Targets
BY DEF IndInv, TypeOK, Allocated, ObjectRecords

\* Resident modules are in memory.
LEMMA ResidentLoaded ==
  ASSUME LoaderInv
  PROVE  /\ DOMAIN Resident \subseteq Loaded
         /\ \A m \in DOMAIN Resident : place[m] = Resident[m] /\ Resident[m] \in Addrs
BY ResidentAssumption, NullAddressAssumption DEF LoaderInv, Loaded

\* A replacement is for the function of a module in memory, or of one that is not.
LEMMA WantsWhere ==
  ASSUME Discipline, IndInv, LoaderInv, NEW o \in Allocated
  PROVE  /\ Wants(o) \in Addrs \union {NULL}
         /\ Wants(o) # NULL => \E m \in Loaded : Wants(o) = place[m]
         /\ ForResident(o) => \E m \in DOMAIN Resident : Wants(o) = Resident[m]
         /\ \A m \in DOMAIN Resident : Wants(o) = Resident[m] => ForResident(o)
<1> DEFINE tg == data[o].target
<1>1. tg \in Targets
  BY RecordOf
<1>2. CASE tg.kind = "address"
  <2>1. PICK m \in DOMAIN Resident : Resident[m] = tg.addr
    BY <1>1, <1>2 DEF Discipline, SeparateFunctions
  <2>2. Wants(o) = tg.addr /\ ForResident(o)
    BY <1>2 DEF Wants, ForResident
  <2> QED
    BY <2>1, <2>2, ResidentLoaded
<1>3. CASE tg.kind # "address"
  <2>1. tg.module \in Modules
    BY <1>1, <1>3, TargetsAssumption, LibrariesAssumption DEF TargetKinds
  <2>2. Wants(o) = place[tg.module] /\ (ForResident(o) <=> tg.module \in DOMAIN Resident)
    BY <1>3 DEF Wants, ForResident
  <2>3. place[tg.module] \in Addrs \union {NULL}
    BY <2>1 DEF IndInv, TypeOK
  <2>4. ASSUME NEW m \in DOMAIN Resident, place[tg.module] = Resident[m]
        PROVE  tg.module \in DOMAIN Resident
    <3>1. m \in Modules /\ place[m] = place[tg.module] /\ place[m] # NULL
      BY <2>4, ResidentLoaded, NullAddressAssumption DEF Loaded
    <3>2. m = tg.module
      BY <2>1, <3>1 DEF LoaderInv
    <3> QED
      BY <2>4, <3>2
  <2> QED
    BY <2>1, <2>2, <2>3, <2>4, ResidentLoaded DEF Loaded
<1> QED
  BY <1>2, <1>3

\* A replacement of a resident function is for every title.
LEMMA ResidentForAll ==
  ASSUME Discipline, IndInv, NEW o \in Allocated, ForResident(o), title # NULL
  PROVE  ShouldBePatched(o)
<1>1. data[o].target \in Targets
  BY RecordOf
<1>2. title \in Titles
  BY DEF IndInv, TypeOK
<1> QED
  BY <1>1, <1>2 DEF Discipline, SeparateFunctions, ForResident, ShouldBePatched

\* Where the function is found it is the right one; it is found while the
\* module attends to the loader and nothing has just left, or when it is resident.
LEMMA FoundIsWanted ==
  ASSUME Discipline, IndInv, LoaderInv, CacheInv, NEW o \in Allocated
  PROVE  /\ CurrentAddress(o) \in {NULL, Wants(o)}
         /\ ForResident(o) => CurrentAddress(o) = Wants(o)
         /\ Attended /\ (\A t \in Threads : th[t].op # "unloaded") =>
              CurrentAddress(o) = Wants(o)
<1> DEFINE tg == data[o].target
<1>1. tg \in Targets /\ tg.kind \in TargetKinds
  BY RecordOf, TargetsAssumption
<1>2. CASE tg.kind = "address"
  <2>1. CurrentAddress(o) = tg.addr
    BY <1>2 DEF CurrentAddress
  <2> QED
    BY <1>2, <2>1 DEF Wants
<1>3. CASE tg.kind = "executable"
  <2>1. CurrentAddress(o) = place[tg.module]
    BY <1>3 DEF CurrentAddress
  <2> QED
    BY <1>3, <2>1 DEF Wants
<1>4. CASE tg.kind = "library"
  <2> DEFINE l == tg.module
  <2>1. l \in Libraries /\ l \in Modules /\ Wants(o) = place[l]
    BY <1>1, <1>4, TargetsAssumption, LibrariesAssumption DEF Wants
  <2>2. CurrentAddress(o) = GetEffectiveAddressOfFunction(l)
    BY <1>4 DEF CurrentAddress
  <2>3. GetEffectiveAddressOfFunction(l) \in {NULL, place[l]}
    BY DEF GetEffectiveAddressOfFunction, FindExport
  <2>4. handle[l] \in {NULL, place[l]} => GetEffectiveAddressOfFunction(l) = place[l]
    BY DEF GetEffectiveAddressOfFunction, FindExport, RplHandle, IsModuleLoaded
  <2>5. ForResident(o) => handle[l] \in {NULL, place[l]}
    BY <1>4, <2>1 DEF ForResident, CacheInv
  <2>6. Attended /\ (\A t \in Threads : th[t].op # "unloaded") =>
          handle[l] \in {NULL, place[l]}
    BY <2>1 DEF CacheInv
  <2> QED
    BY <2>1, <2>2, <2>3, <2>4, <2>5, <2>6
<1> QED
  BY <1>1, <1>2, <1>3, <1>4 DEF TargetKinds
------------------------------------------------------------------------------
(* The order of registration.                                               *)

\* The two ways to say that an object is registered before another agree.
LEMMA BeforeEarlier ==
  ASSUME TypeOK, ListedOnce, NEW o, NEW p, Before(o, p), o # p
  PROVE  Earlier(o, p)
<1>1. PICK i \in DOMAIN list, j \in DOMAIN list : i <= j /\ list[i] = o /\ list[j] = p
  BY DEF Before
<1>2. ASSUME NEW k \in DOMAIN list, list[k] = p PROVE i < k
  <2>1. k = j
    BY <1>1, <1>2 DEF ListedOnce
  <2>2. i # j /\ i \in Nat /\ j \in Nat
    BY <1>1 DEF TypeOK
  <2> QED
    BY <1>1, <2>1, <2>2
<1> QED
  BY <1>1, <1>2 DEF Earlier

\* The two ways to say that an object is registered before another agree.
LEMMA EarlierBefore ==
  ASSUME TypeOK, NEW o, NEW p \in Listed, Earlier(o, p)
  PROVE  Before(o, p) /\ o \in Listed
<1>1. PICK i \in DOMAIN list : list[i] = o /\ \A j \in DOMAIN list : list[j] = p => i < j
  BY DEF Earlier
<1>2. PICK j \in DOMAIN list : list[j] = p
  BY DEF Listed, Range
<1>3. i \in Nat /\ j \in Nat
  BY DEF TypeOK
<1> QED
  BY <1>1, <1>2, <1>3 DEF Before, Listed, Range

\* What is listed last comes before nothing.
LEMMA LastListed ==
  ASSUME TypeOK, ListedOnce, list # <<>>
  PROVE  /\ Last(list) \in Listed
         /\ \A o \in Listed : o # Last(list) => Earlier(o, Last(list))
         /\ \A o \in Listed : ~Earlier(Last(list), o)
<1> DEFINE n == Len(list)
<1>1. list \in Seq(Objects) /\ n \in Nat /\ DOMAIN list = 1 .. n /\ n # 0
  BY EmptySeq DEF TypeOK
<1>2. n \in DOMAIN list /\ list[n] = Last(list)
  BY <1>1 DEF Last
<1>3. ASSUME NEW o \in Listed, o # Last(list) PROVE Earlier(o, Last(list))
  <2>1. PICK i \in DOMAIN list : list[i] = o
    BY DEF Listed, Range
  <2>2. i < n
    BY <1>1, <1>2, <1>3, <2>1
  <2>3. \A j \in DOMAIN list : list[j] = Last(list) => j = n
    BY <1>2 DEF ListedOnce
  <2> QED
    BY <2>1, <2>2, <2>3 DEF Earlier
<1>4. ASSUME NEW o \in Listed PROVE ~Earlier(Last(list), o)
  <2>1. PICK i \in DOMAIN list : list[i] = o
    BY DEF Listed, Range
  <2>2. \A j \in DOMAIN list : list[j] = Last(list) => j = n
    BY <1>2 DEF ListedOnce
  <2> QED
    BY <1>1, <2>1, <2>2 DEF Earlier
<1> QED
  BY <1>2, <1>3, <1>4 DEF Listed, Range
------------------------------------------------------------------------------
(* The stacks.                                                              *)

\* What is on a stack is allocated, and is where it wants to be.
LEMMA Stacked ==
  ASSUME IndInv, LoaderInv, NEW stk, MemoryIs(stk), NEW o, OnStack(stk, o)
  PROVE  \E m \in Loaded : \E i \in DOMAIN stk[m] :
           /\ stk[m][i] = o /\ o \in Allocated
           /\ Wants(o) = place[m] /\ data[o].address = place[m]
           /\ data[o].replaced = Below(stk[m], i, m)
           /\ place[m] \in Addrs /\ place[m] \in Occupied
<1>1. PICK m \in Modules : \E i \in DOMAIN stk[m] : stk[m][i] = o
  BY DEF OnStack
<1>2. PICK i \in DOMAIN stk[m] : stk[m][i] = o
  BY <1>1
<1>3. m \in Loaded
  BY <1>2 DEF MemoryIs
<1>4. place[m] \in Addrs /\ place[m] \in Occupied
  BY <1>3 DEF Loaded, Occupied, IndInv, TypeOK
<1> QED
  BY <1>2, <1>3, <1>4 DEF MemoryIs

\* It is on the stack of that module only.
LEMMA StackedOnce ==
  ASSUME LoaderInv, NEW stk, MemoryIs(stk), NEW o, OnStack(stk, o),
         NEW m \in Loaded, Wants(o) = place[m]
  PROVE  \E i \in DOMAIN stk[m] : stk[m][i] = o
<1>1. PICK k \in Modules : \E i \in DOMAIN stk[k] : stk[k][i] = o
  BY DEF OnStack
<1>2. k \in Loaded
  BY <1>1 DEF MemoryIs
<1>3. place[k] = place[m]
  BY <1>1, <1>2 DEF MemoryIs
<1>4. k = m
  BY <1>3 DEF LoaderInv, Loaded
<1> QED
  BY <1>1, <1>4

\* What is listed last lies on top, if it lies on a stack.
LEMMA LatestOnTop ==
  ASSUME IndInv, LoaderInv, NEW stk, MemoryIs(stk), list # <<>>, OnStack(stk, Last(list)),
         \A p : OnStack(stk, p) => p \in Listed
  PROVE  \E m \in Loaded :
           /\ stk[m] # <<>> /\ stk[m][1] = Last(list)
           /\ text[place[m]] = Last(list)
           /\ place[m] = data[Last(list)].address
<1> DEFINE o == Last(list)
<1>1. PICK m \in Loaded : \E i \in DOMAIN stk[m] : stk[m][i] = o /\ data[o].address = place[m]
  BY Stacked
<1>2. PICK i \in DOMAIN stk[m] : stk[m][i] = o
  BY <1>1
<1>3. /\ Len(stk[m]) \in Nat /\ DOMAIN stk[m] = 1 .. Len(stk[m])
  BY StackFits
<1>4. 1 \in DOMAIN stk[m]
  BY <1>2, <1>3
<1>5. i = 1
  <2> SUFFICES ASSUME i # 1 PROVE FALSE
    OBVIOUS
  <2>1. 1 < i
    BY <1>2, <1>3
  <2>2. Earlier(o, stk[m][1])
    BY <1>2, <1>4, <2>1 DEF MemoryIs
  <2>3. stk[m][1] \in Listed
    BY <1>4 DEF OnStack, Loaded
  <2> QED
    BY <2>2, <2>3, LastListed DEF IndInv
<1>6. stk[m] # <<>>
  BY <1>3, <1>4
<1> QED
  BY <1>1, <1>2, <1>5, <1>6 DEF MemoryIs, Top

\* Whose jump is in memory is on top of a stack.
LEMMA JumpOnTop ==
  ASSUME IndInv, NEW stk, MemoryIs(stk), NEW a \in Addrs, NEW o \in Objects, text[a] = o
  PROVE  \E m \in Loaded : /\ place[m] = a /\ stk[m] # <<>> /\ stk[m][1] = o
                          /\ 1 \in DOMAIN stk[m]
<1>1. a \in Occupied
  BY NullObjectAssumption DEF MemoryIs
<1>2. PICK m \in Modules : place[m] = a
  BY <1>1 DEF Occupied
<1>3. m \in Loaded
  BY <1>2, NullAddressAssumption DEF Loaded
<1>4. text[a] = Top(stk[m], m)
  BY <1>2, <1>3 DEF MemoryIs
<1>5. stk[m] # <<>> /\ stk[m][1] = o
  BY <1>4, WordsAssumption DEF Top
<1>6. stk[m] \in Seq(Objects)
  BY DEF MemoryIs
<1>7. Len(stk[m]) \in Nat /\ Len(stk[m]) # 0 /\ DOMAIN stk[m] = 1 .. Len(stk[m])
  BY <1>5, <1>6, EmptySeq
<1> QED
  BY <1>2, <1>3, <1>5, <1>7
------------------------------------------------------------------------------
(* What does not disturb the words in memory.                               *)

\* The stacks stay while memory does, and what is on them.
LEMMA MemoryKeeps ==
  ASSUME NEW stk, MemoryIs(stk), place' = place, text' = text,
         \A o : OnStack(stk, o) =>
           /\ o \in Allocated'
           /\ data'[o].target = data[o].target
           /\ data'[o].address = data[o].address
           /\ data'[o].replaced = data[o].replaced,
         \A o, p : OnStack(stk, o) /\ OnStack(stk, p) /\ Earlier(o, p) => Earlier(o, p)'
  PROVE  MemoryIs(stk)'
<1>1. Loaded' = Loaded /\ Occupied' = Occupied /\ Loaded \subseteq Modules
  BY DEF Loaded, Occupied
<1>2. \A m \in Loaded : \A i \in DOMAIN stk[m] : OnStack(stk, stk[m][i])
  BY <1>1 DEF OnStack
<1>3. \A m \in Loaded : \A i \in DOMAIN stk[m] :
        /\ stk[m][i] \in Allocated'
        /\ Wants(stk[m][i])' = place[m]
        /\ data'[stk[m][i]].address = place[m]
        /\ data'[stk[m][i]].replaced = Below(stk[m], i, m)
  BY <1>2 DEF MemoryIs, Wants
<1>4. \A m \in Loaded : \A i, j \in DOMAIN stk[m] : i < j => Earlier(stk[m][j], stk[m][i])'
  BY <1>2 DEF MemoryIs
<1> HIDE DEF Wants, Earlier
<1> QED
  BY <1>1, <1>3, <1>4 DEF MemoryIs

\* The addresses of objects stay apart from those of resident modules.
LEMMA ApartKeeps ==
  ASSUME AddressesApart, place' = place,
         \A o \in Allocated' :
           \/ /\ o \in Allocated
              /\ data'[o].target = data[o].target
              /\ data'[o].address \in {data[o].address, Wants(o)}
           \/ data'[o].address \in {NULL, Wants(o)'},
         LoaderInv
  PROVE  AddressesApart'
<1> SUFFICES ASSUME NEW o \in Allocated', NEW m \in DOMAIN Resident,
                    data'[o].address = Resident[m]
             PROVE  Wants(o)' = Resident[m]
  BY DEF AddressesApart
<1>1. Resident[m] # NULL
  BY ResidentAssumption, NullAddressAssumption
<1>2. CASE /\ o \in Allocated
           /\ data'[o].target = data[o].target
           /\ data'[o].address \in {data[o].address, Wants(o)}
  BY <1>2 DEF AddressesApart, Wants
<1>3. CASE data'[o].address \in {NULL, Wants(o)'}
  BY <1>1, <1>3
<1> QED
  BY <1>2, <1>3

\* Both, for a step that leaves the objects and the registry as they are.
LEMMA WordsStay ==
  ASSUME NEW stk, MemoryIs(stk), AddressesApart,
         UNCHANGED <<place, title, data, text, list>>
  PROVE  /\ MemoryIs(stk)' /\ AddressesApart'
         /\ Listed' = Listed /\ Loaded' = Loaded /\ Occupied' = Occupied
         /\ Allocated' = Allocated
         /\ \A o : /\ Wants(o)' = Wants(o) /\ ForResident(o)' = ForResident(o)
                  /\ ShouldBePatched(o)' = ShouldBePatched(o)
         /\ \A o, p : Earlier(o, p)' = Earlier(o, p)
BY DEF MemoryIs, AddressesApart, Listed, Loaded, Occupied, Allocated, Wants, ForResident,
       ShouldBePatched, Earlier

\* The parts of the invariant, for the only thread.
LEMMA PutTogether ==
  ASSUME NEW stk, NEW t, Threads = {t}, MemoryIs(stk)', AddressesApart',
         FlagsFollow(stk, t)', NoneForgotten(stk, t)',
         PatchingInOrder(stk, t)', RemovingLatest(stk, t)'
  PROVE  SerialInv(stk)'
BY DEF SerialInv
------------------------------------------------------------------------------
(* PatchFunction.                                                           *)

\* What a state of SerialInv says of the only thread.
LEMMA AtWork ==
  ASSUME NEW stk, NEW t, Discipline, Threads = {t}, IndInv, LoaderInv, CacheInv,
         SerialInv(stk)
  PROVE  Working(stk, t)
<1>1. t \in Threads
  OBVIOUS
<1>2. /\ MemoryIs(stk) /\ AddressesApart /\ FlagsFollow(stk, t) /\ NoneForgotten(stk, t)
      /\ PatchingInOrder(stk, t) /\ RemovingLatest(stk, t)
  BY <1>1 DEF SerialInv
<1>3. TypeOK /\ ListedOnce /\ StepOfOp(t) /\ WorksOnOwn(t)
  BY <1>1 DEF IndInv
<1>4. th[t] \in LocalStates /\ th \in [Threads -> LocalStates]
  BY <1>1, <1>3 DEF TypeOK
<1>5. Attended <=> notify \/ th[t].op = "start"
  BY <1>1 DEF Attended
<1>6. \A o : OnStack(stk, o) => o \in Allocated
  BY <1>2, Stacked
<1> QED
  BY <1>1, <1>2, <1>3, <1>4, <1>5, <1>6 DEF Working

\* PatchFunction returns to its caller.
LEMMA Returned ==
  ASSUME NEW t \in Threads, th \in [Threads -> LocalStates], th' = Return(t)
  PROVE  /\ th'[t].pc = IF th[t].op = "add" THEN "push" ELSE "next"
         /\ th'[t].op = th[t].op /\ th'[t].cur = th[t].cur /\ th'[t].removed = th[t].removed
         /\ th'[t].later = th[t].later /\ th'[t].todo = th[t].todo
         /\ th'[t].module = th[t].module /\ th'[t].core = th[t].core
BY DEF Return, LocalStates

\* Who is in PatchFunction: not a removal, as there is nothing to apply again.
LEMMA WhoPatches ==
  ASSUME NEW stk, NEW t, Working(stk, t), th[t].pc \in {"patch", "read", "write"}
  PROVE  /\ th[t].op \in {"add", "loaded", "start"}
         /\ th[t].cur \in Allocated /\ th[t].cur \in Objects
         /\ th[t].op = "add" => th[t].cur \notin Listed
         /\ th[t].op # "add" => th[t].cur \in Listed /\ Attended
         /\ title # NULL
         /\ \A u \in Threads : th[u].op # "unloaded"
<1> USE DEF Working
<1>1. th[t].op \in {"add", "remove", "loaded", "start"}
  BY DEF StepOfOp, StepsOf, LocalStates, Ops
<1>2. th[t].op # "remove"
  BY DEF RemovingLatest
<1>3. th[t].cur \in Allocated /\ th[t].cur \in Objects
  BY PatchesAllocated DEF Allocated
<1>4. th[t].op = "add" => th[t].cur \notin Listed
  BY DEF WorksOnOwn
<1>5. th[t].op # "add" => th[t].cur \in Listed
  BY <1>1, <1>2 DEF WorksOnOwn, Holds
<1>6. th[t].op # "add" => Attended
  BY <1>1, <1>2 DEF LoaderInv, Notified
<1>7. title # NULL
  BY Awake DEF Idle
<1> QED
  BY <1>1, <1>2, <1>3, <1>4, <1>5, <1>6, <1>7

\* PatchFunction finds nothing to do: the object is applied, or not to be.
LEMMA SkipPatchSerial ==
  ASSUME NEW stk, NEW t, Working(stk, t), SkipPatch(t)
  PROVE  SerialInv(stk)'
<1> USE DEF Working
<1> DEFINE o == th[t].cur
<1>1. /\ UNCHANGED <<place, title, data, text, list, notify>>
      /\ th[t].pc = "patch" /\ th' = Return(t)
      /\ data[o].isPatched \/ ~ShouldBePatched(o)
  BY DEF SkipPatch, Current
<1>2. /\ th'[t].pc = IF th[t].op = "add" THEN "push" ELSE "next"
      /\ th'[t].op = th[t].op /\ th'[t].cur = o /\ th'[t].removed = th[t].removed
      /\ th'[t].later = th[t].later /\ th'[t].todo = th[t].todo
      /\ th'[t].module = th[t].module /\ th'[t].core = th[t].core
  BY <1>1, Returned
<1>3. th[t].op \in {"add", "loaded", "start"}
  BY <1>1, WhoPatches
<1>4. /\ MemoryIs(stk)' /\ AddressesApart'
      /\ Listed' = Listed /\ Loaded' = Loaded /\ Occupied' = Occupied
      /\ Allocated' = Allocated
      /\ \A p : /\ Wants(p)' = Wants(p) /\ ForResident(p)' = ForResident(p)
               /\ ShouldBePatched(p)' = ShouldBePatched(p)
      /\ \A p, q : Earlier(p, q)' = Earlier(p, q)
  BY <1>1, WordsStay
<1>5. Attended' = Attended
  BY <1>1, <1>2 DEF Attended
<1>6. FlagsFollow(stk, t)'
  BY <1>1, <1>2, <1>4, <1>5 DEF FlagsFollow
<1>7. NoneForgotten(stk, t)'
  BY <1>1, <1>2, <1>4, <1>5 DEF NoneForgotten, Pending
<1>8. PatchingInOrder(stk, t)'
  BY <1>1, <1>2, <1>4, <1>5 DEF PatchingInOrder, Current
<1>9. RemovingLatest(stk, t)'
  BY <1>2, <1>3 DEF RemovingLatest
<1> QED
  BY <1>4, <1>6, <1>7, <1>8, <1>9, PutTogether

\* PatchFunction finds no function: the module is not in memory.
LEMMA UnresolvedSerial ==
  ASSUME NEW stk, NEW t, Working(stk, t), Unresolved(t)
  PROVE  SerialInv(stk)'
<1> USE DEF Working
<1> DEFINE o == th[t].cur
<1>1. /\ UNCHANGED <<place, title, data, text, list, notify>>
      /\ th[t].pc = "patch" /\ th' = Return(t) /\ CurrentAddress(o) = NULL
  BY DEF Unresolved, NeedsPatch
<1>2. /\ th'[t].pc = IF th[t].op = "add" THEN "push" ELSE "next"
      /\ th'[t].op = th[t].op /\ th'[t].cur = o /\ th'[t].removed = th[t].removed
      /\ th'[t].later = th[t].later /\ th'[t].todo = th[t].todo
      /\ th'[t].module = th[t].module /\ th'[t].core = th[t].core
  BY <1>1, Returned
<1>3. /\ th[t].op \in {"add", "loaded", "start"} /\ o \in Allocated
      /\ th[t].op # "add" => Attended
      /\ \A u \in Threads : th[u].op # "unloaded"
  BY <1>1, WhoPatches
<1>4. /\ MemoryIs(stk)' /\ AddressesApart'
      /\ Listed' = Listed /\ Loaded' = Loaded /\ Occupied' = Occupied
      /\ Allocated' = Allocated
      /\ \A p : /\ Wants(p)' = Wants(p) /\ ForResident(p)' = ForResident(p)
               /\ ShouldBePatched(p)' = ShouldBePatched(p)
      /\ \A p, q : Earlier(p, q)' = Earlier(p, q)
  BY <1>1, WordsStay
<1>5. Attended' = Attended
  BY <1>1, <1>2 DEF Attended
<1>6. FlagsFollow(stk, t)'
  BY <1>1, <1>2, <1>4, <1>5 DEF FlagsFollow
<1>7. Attended => Wants(o) = NULL
  BY <1>1, <1>3, FoundIsWanted
<1>8. NoneForgotten(stk, t)'
  BY <1>1, <1>2, <1>3, <1>4, <1>5, <1>7 DEF NoneForgotten, Pending
<1>9. Wants(o) = NULL \/ ~ForResident(o)
  BY <1>1, <1>3, FoundIsWanted
<1>10. PatchingInOrder(stk, t)'
  BY <1>1, <1>2, <1>4, <1>5, <1>7, <1>9 DEF PatchingInOrder, Current
<1>11. RemovingLatest(stk, t)'
  BY <1>2, <1>3 DEF RemovingLatest
<1> QED
  BY <1>4, <1>6, <1>8, <1>10, <1>11, PutTogether

\* What is in work is not on a stack before it has been written.
LEMMA NotStackedYet ==
  ASSUME NEW stk, NEW t, Working(stk, t), th[t].pc \in {"patch", "read"},
         ~Current(t).isPatched
  PROVE  ~OnStack(stk, th[t].cur)
<1> USE DEF Working
<1>1. th[t].cur \in Objects
  BY WhoPatches
<1> QED
  BY <1>1 DEF FlagsFollow, Current

\* PatchFunction finds the function where the loader has it now.
LEMMA ResolveSerial ==
  ASSUME NEW stk, NEW t, Working(stk, t), Resolve(t)
  PROVE  SerialInv(stk)'
<1> USE DEF Working
<1> DEFINE o == th[t].cur
           a == CurrentAddress(o)
<1>1. /\ UNCHANGED <<place, title, text, list, notify>>
      /\ th[t].pc = "patch" /\ a # NULL
      /\ data' = [data EXCEPT ![o].address = a]
      /\ th' = [th EXCEPT ![t].pc = "read"]
      /\ ~data[o].isPatched /\ ShouldBePatched(o)
  BY DEF Resolve, NeedsPatch, UpdateFunctionAddresses, Current
<1>2. /\ th'[t].pc = "read"
      /\ th'[t].op = th[t].op /\ th'[t].cur = o /\ th'[t].removed = th[t].removed
      /\ th'[t].later = th[t].later /\ th'[t].todo = th[t].todo
      /\ th'[t].module = th[t].module /\ th'[t].core = th[t].core
  BY <1>1 DEF LocalStates
<1>3. /\ th[t].op \in {"add", "loaded", "start"} /\ o \in Allocated /\ o \in Objects
      /\ ~OnStack(stk, o)
  BY <1>1, WhoPatches, NotStackedYet DEF Current
<1>4. a = Wants(o)
  BY <1>1, <1>3, FoundIsWanted
<1>5. /\ a \in Addrs /\ a \in Occupied
  BY <1>1, <1>3, <1>4, WantsWhere DEF Occupied, Loaded
<1>6. /\ data \in [Objects -> ObjectRecords \union {NULL}] /\ data[o] \in ObjectRecords
  BY <1>3, RecordOf DEF TypeOK
<1> HIDE DEF a
<1>7. /\ \A p \in Objects : p # o => data'[p] = data[p]
      /\ data'[o] = [data[o] EXCEPT !.address = a]
  BY <1>1, <1>3, <1>6
<1>8. /\ data'[o].address = a /\ data'[o].isPatched = FALSE
      /\ data'[o].target = data[o].target /\ data'[o].replaced = data[o].replaced
      /\ data'[o] # NULL
  BY <1>1, <1>5, <1>6, <1>7, NullRecordAssumption DEF ObjectRecords
<1>9. Allocated' = Allocated
  BY <1>3, <1>7, <1>8 DEF Allocated
<1>10. /\ Listed' = Listed /\ Loaded' = Loaded /\ Occupied' = Occupied
       /\ \A p, q : Earlier(p, q)' = Earlier(p, q)
  BY <1>1 DEF Listed, Loaded, Occupied, Earlier
<1>11. \A p \in Allocated : /\ data'[p].isPatched = data[p].isPatched
                            /\ data'[p].target = data[p].target
                            /\ p # o => data'[p].address = data[p].address
  BY <1>1, <1>7, <1>8 DEF Allocated
<1>12. \A p \in Allocated : /\ Wants(p)' = Wants(p) /\ ForResident(p)' = ForResident(p)
                            /\ ShouldBePatched(p)' = ShouldBePatched(p)
  BY <1>1, <1>11 DEF Wants, ForResident, ShouldBePatched
<1>13. MemoryIs(stk)'
  <2>1. \A p : OnStack(stk, p) => p \in Allocated /\ data'[p] = data[p]
    BY <1>3, <1>7 DEF Allocated
  <2> QED
    BY <1>1, <1>9, <1>10, <2>1, MemoryKeeps
<1>14. AddressesApart'
  BY <1>1, <1>4, <1>8, <1>9, <1>11, ApartKeeps
<1>15. Attended' = Attended /\ Listed \subseteq Allocated
  BY <1>1, <1>2 DEF Attended, ListedOnce
<1>16. FlagsFollow(stk, t)'
  <2>1. \A p \in Allocated' : data'[p].isPatched => data'[p].address \in Addrs
    BY <1>5, <1>8, <1>9, <1>11 DEF FlagsFollow
  <2>2. \A p \in Objects : OnStack(stk, p) =>
          /\ data'[p].isPatched
          /\ p \in Listed' \/ (th'[t].op = "add" /\ th'[t].cur = p)
    BY <1>1, <1>2, <1>3, <1>10, <1>11 DEF FlagsFollow
  <2>3. \A p \in Listed' : data'[p].isPatched /\ Attended' => OnStack(stk, p)
    <3>1. th[t].op # "unloaded"
      BY <1>3
    <3> QED
      BY <1>10, <1>11, <1>15, <3>1 DEF FlagsFollow
  <2>4. \A p \in Listed' : ForResident(p)' =>
          OnStack(stk, p) \/ (th'[t].op = "remove" /\ th'[t].removed = p)
    BY <1>2, <1>10, <1>12, <1>15 DEF FlagsFollow
  <2> QED
    BY <2>1, <2>2, <2>3, <2>4 DEF FlagsFollow
<1>17. NoneForgotten(stk, t)'
  BY <1>1, <1>2, <1>10, <1>11, <1>12, <1>15 DEF NoneForgotten, Pending
<1>18. PatchingInOrder(stk, t)'
  BY <1>1, <1>2, <1>3, <1>4, <1>5, <1>8, <1>10, <1>12 DEF PatchingInOrder, Current
<1>19. RemovingLatest(stk, t)'
  BY <1>2, <1>3 DEF RemovingLatest
<1> QED
  BY <1>13, <1>14, <1>16, <1>17, <1>18, <1>19, PutTogether

\* The instruction that is saved is the top of the stack.
LEMMA ReadInstructionSerial ==
  ASSUME NEW stk, NEW t, Working(stk, t), ReadInstruction(t)
  PROVE  SerialInv(stk)'
<1> USE DEF Working
<1> DEFINE o == th[t].cur
           w == text[data[o].address]
<1>1. /\ UNCHANGED <<place, title, text, list, notify>>
      /\ th[t].pc = "read"
      /\ data' = [data EXCEPT ![o].replaced = w]
      /\ th' = [th EXCEPT ![t].pc = "write", ![t].core = Cores, ![t].served = FALSE]
  BY DEF ReadInstruction, Current
<1>2. /\ th'[t].pc = "write" /\ th'[t].core # 0 /\ ~th'[t].served
      /\ th'[t].op = th[t].op /\ th'[t].cur = o /\ th'[t].removed = th[t].removed
      /\ th'[t].later = th[t].later /\ th'[t].todo = th[t].todo
      /\ th'[t].module = th[t].module
  BY <1>1, CoresAssumption DEF LocalStates
<1>3. /\ ~data[o].isPatched /\ ShouldBePatched(o) /\ data[o].address = Wants(o)
      /\ data[o].address \in Occupied
  BY <1>1 DEF PatchingInOrder, Current
<1>4. /\ th[t].op \in {"add", "loaded", "start"} /\ o \in Allocated /\ o \in Objects
      /\ ~OnStack(stk, o)
  BY <1>1, <1>3, WhoPatches, NotStackedYet DEF Current
<1>5. data \in [Objects -> ObjectRecords \union {NULL}] /\ data[o] \in ObjectRecords
  BY <1>4, RecordOf DEF TypeOK
<1> HIDE DEF w
<1>6. /\ \A p \in Objects : p # o => data'[p] = data[p]
      /\ data'[o] = [data[o] EXCEPT !.replaced = w]
  BY <1>1, <1>4, <1>5
<1>7. /\ data'[o].address = data[o].address /\ data'[o].isPatched = data[o].isPatched
      /\ data'[o].target = data[o].target /\ data'[o].replaced = w
  BY <1>5, <1>6 DEF ObjectRecords
<1>8. data'[o] # NULL
  <2>1. w \in Words
    BY <1>1, <1>3 DEF w, WorksOnOwn, Current, TypeOK
  <2>2. data'[o] \in ObjectRecords
    BY <1>5, <1>6, <2>1 DEF ObjectRecords
  <2> QED
    BY <2>2, NullRecordAssumption
<1>9. Allocated' = Allocated
  BY <1>4, <1>6, <1>8 DEF Allocated
<1>10. /\ Listed' = Listed /\ Loaded' = Loaded /\ Occupied' = Occupied
       /\ \A p, q : Earlier(p, q)' = Earlier(p, q)
  BY <1>1 DEF Listed, Loaded, Occupied, Earlier
<1>11. \A p \in Allocated : /\ data'[p].isPatched = data[p].isPatched
                            /\ data'[p].target = data[p].target
                            /\ data'[p].address = data[p].address
  BY <1>6, <1>7 DEF Allocated
<1>12. \A p \in Allocated : /\ Wants(p)' = Wants(p) /\ ForResident(p)' = ForResident(p)
                            /\ ShouldBePatched(p)' = ShouldBePatched(p)
  BY <1>1, <1>11 DEF Wants, ForResident, ShouldBePatched
<1>13. MemoryIs(stk)'
  <2>1. \A p : OnStack(stk, p) => p \in Allocated /\ data'[p] = data[p]
    BY <1>4, <1>6 DEF Allocated
  <2> QED
    BY <1>1, <1>9, <1>10, <2>1, MemoryKeeps
<1>14. AddressesApart'
  BY <1>1, <1>9, <1>11, ApartKeeps
<1>15. Attended' = Attended /\ Listed \subseteq Allocated
  BY <1>1, <1>2 DEF Attended, ListedOnce
<1>16. FlagsFollow(stk, t)'
  <2>1. \A p \in Objects : OnStack(stk, p) =>
          /\ data'[p].isPatched
          /\ p \in Listed' \/ (th'[t].op = "add" /\ th'[t].cur = p)
    BY <1>1, <1>2, <1>4, <1>10, <1>11 DEF FlagsFollow
  <2>2. \A p \in Listed' : data'[p].isPatched /\ Attended' => OnStack(stk, p)
    <3>1. th[t].op # "unloaded"
      BY <1>4
    <3> QED
      BY <1>10, <1>11, <1>15, <3>1 DEF FlagsFollow
  <2>3. \A p \in Listed' : ForResident(p)' =>
          OnStack(stk, p) \/ (th'[t].op = "remove" /\ th'[t].removed = p)
    BY <1>2, <1>10, <1>12, <1>15 DEF FlagsFollow
  <2>4. \A p \in Allocated' : data'[p].isPatched => data'[p].address \in Addrs
    BY <1>9, <1>11 DEF FlagsFollow
  <2> QED
    BY <2>1, <2>2, <2>3, <2>4 DEF FlagsFollow
<1>17. NoneForgotten(stk, t)'
  BY <1>1, <1>2, <1>10, <1>11, <1>12, <1>15 DEF NoneForgotten, Pending
<1>18. PatchingInOrder(stk, t)'
  BY <1>1, <1>2, <1>3, <1>4, <1>7, <1>10, <1>12 DEF PatchingInOrder, Current, w
<1>19. RemovingLatest(stk, t)'
  BY <1>2, <1>4 DEF RemovingLatest
<1> QED
  BY <1>13, <1>14, <1>16, <1>17, <1>18, <1>19, PutTogether

\* Once a core has written, another one only has the number of cores left changed.
LEMMA WriteAgainSerial ==
  ASSUME NEW stk, NEW t, Working(stk, t), WriteOnCore(t), th[t].served
  PROVE  SerialInv(stk)' /\ text' = text
<1> USE DEF Working
<1> DEFINE o == th[t].cur
<1>1. /\ UNCHANGED <<place, title, data, list, notify>>
      /\ th[t].pc = "write" /\ th[t].core > 0
      /\ text' = [text EXCEPT ![data[o].address] = o]
      /\ th' = [th EXCEPT ![t].core = @ - 1, ![t].served = TRUE]
  BY DEF WriteOnCore, Writing, Current
<1>2. /\ th'[t].pc = "write" /\ th'[t].served
      /\ th'[t].op = th[t].op /\ th'[t].cur = o /\ th'[t].removed = th[t].removed
      /\ th'[t].later = th[t].later /\ th'[t].todo = th[t].todo
      /\ th'[t].module = th[t].module
  BY <1>1 DEF LocalStates
<1>4. OnStack(stk, o) /\ text[data[o].address] = o
  BY <1>1 DEF PatchingInOrder, Current
<1>5. text' = text
  BY <1>1, <1>4 DEF TypeOK
<1>6. th[t].op \in {"add", "loaded", "start"}
  BY <1>1, WhoPatches
<1>7. /\ MemoryIs(stk)' /\ AddressesApart'
      /\ Listed' = Listed /\ Loaded' = Loaded /\ Occupied' = Occupied
      /\ Allocated' = Allocated
      /\ \A p : /\ Wants(p)' = Wants(p) /\ ForResident(p)' = ForResident(p)
               /\ ShouldBePatched(p)' = ShouldBePatched(p)
      /\ \A p, q : Earlier(p, q)' = Earlier(p, q)
  BY <1>1, <1>5, WordsStay
<1>8. Attended' = Attended
  BY <1>1, <1>2 DEF Attended
<1>9. FlagsFollow(stk, t)'
  BY <1>1, <1>2, <1>7, <1>8 DEF FlagsFollow
<1>10. NoneForgotten(stk, t)'
  BY <1>1, <1>2, <1>7, <1>8 DEF NoneForgotten, Pending
<1>11. PatchingInOrder(stk, t)'
  BY <1>1, <1>2, <1>4, <1>5, <1>7, <1>8 DEF PatchingInOrder, Current
<1>12. RemovingLatest(stk, t)'
  BY <1>2, <1>6 DEF RemovingLatest
<1> QED
  BY <1>5, <1>7, <1>9, <1>10, <1>11, <1>12, PutTogether

\* A core is passed over: some core has written, or one is left that will.
LEMMA NoThreadSerial ==
  ASSUME NEW stk, NEW t, Working(stk, t), SkipCore(t) \/ JoinNeverReturns(t)
  PROVE  SerialInv(stk)'
<1> USE DEF Working
<1> DEFINE o == th[t].cur
<1>1. /\ UNCHANGED <<place, title, data, text, list, notify>>
      /\ th[t].pc = "write" /\ th[t].core > 0
      /\ th[t].core = 1 => th[t].served
  BY DEF SkipCore, JoinNeverReturns, NoThread, Writing, Discipline
<1>2. /\ th'[t].pc = "write" /\ th'[t].served = th[t].served
      /\ th'[t].op = th[t].op /\ th'[t].cur = o /\ th'[t].removed = th[t].removed
      /\ th'[t].later = th[t].later /\ th'[t].todo = th[t].todo
      /\ th'[t].module = th[t].module
  BY <1>1 DEF SkipCore, JoinNeverReturns, LocalStates
<1>3. th'[t].core = 0 => th'[t].served
  <2>1. th[t].core \in 0 .. Cores /\ Cores \in Nat
    BY CoresAssumption DEF LocalStates
  <2>2. th'[t].core = th[t].core - 1 \/ th'[t].core = th[t].core
    BY DEF SkipCore, JoinNeverReturns, LocalStates
  <2> QED
    BY <1>1, <1>2, <2>1, <2>2
<1>4. th[t].op \in {"add", "loaded", "start"}
  BY <1>1, WhoPatches
<1>5. /\ MemoryIs(stk)' /\ AddressesApart'
      /\ Listed' = Listed /\ Loaded' = Loaded /\ Occupied' = Occupied
      /\ Allocated' = Allocated
      /\ \A p : /\ Wants(p)' = Wants(p) /\ ForResident(p)' = ForResident(p)
               /\ ShouldBePatched(p)' = ShouldBePatched(p)
      /\ \A p, q : Earlier(p, q)' = Earlier(p, q)
  BY <1>1, WordsStay
<1>6. Attended' = Attended
  BY <1>1, <1>2 DEF Attended
<1>7. FlagsFollow(stk, t)'
  BY <1>1, <1>2, <1>5, <1>6 DEF FlagsFollow
<1>8. NoneForgotten(stk, t)'
  BY <1>1, <1>2, <1>5, <1>6 DEF NoneForgotten, Pending
<1>9. PatchingInOrder(stk, t)'
  BY <1>1, <1>2, <1>3, <1>5, <1>6 DEF PatchingInOrder, Current
<1>10. RemovingLatest(stk, t)'
  BY <1>2, <1>4 DEF RemovingLatest
<1> QED
  BY <1>5, <1>7, <1>8, <1>9, <1>10, PutTogether

\* After the last core the flag is set: the object is on its stack.
LEMMA SetPatchedSerial ==
  ASSUME NEW stk, NEW t, Working(stk, t), SetPatched(t)
  PROVE  SerialInv(stk)'
<1> USE DEF Working
<1> DEFINE o == th[t].cur
<1>1. /\ UNCHANGED <<place, title, text, list, notify>>
      /\ th[t].pc = "write" /\ th[t].core = 0
      /\ data' = [data EXCEPT ![o].isPatched = TRUE]
      /\ th' = Return(t)
  BY DEF SetPatched, Writing
<1>2. /\ th'[t].pc = IF th[t].op = "add" THEN "push" ELSE "next"
      /\ th'[t].op = th[t].op /\ th'[t].cur = o /\ th'[t].removed = th[t].removed
      /\ th'[t].later = th[t].later /\ th'[t].todo = th[t].todo
      /\ th'[t].module = th[t].module /\ th'[t].core = th[t].core
  BY <1>1, Returned
<1>3. th[t].served
  BY <1>1 DEF PatchingInOrder
<1>4. OnStack(stk, o) /\ data[o].address \in Addrs
  BY <1>1, <1>3 DEF PatchingInOrder, WorksOnOwn, Current
<1>5. /\ th[t].op \in {"add", "loaded", "start"} /\ o \in Allocated /\ o \in Objects
  BY <1>1, WhoPatches DEF Current
<1>6. data \in [Objects -> ObjectRecords \union {NULL}] /\ data[o] \in ObjectRecords
  BY <1>5, RecordOf DEF TypeOK
<1>7. /\ \A p \in Objects : p # o => data'[p] = data[p]
      /\ data'[o] = [data[o] EXCEPT !.isPatched = TRUE]
  BY <1>1, <1>5, <1>6
<1>8. /\ data'[o].address = data[o].address /\ data'[o].isPatched = TRUE
      /\ data'[o].target = data[o].target /\ data'[o].replaced = data[o].replaced
      /\ data'[o] # NULL
  BY <1>6, <1>7, NullRecordAssumption DEF ObjectRecords
<1>9. Allocated' = Allocated
  BY <1>5, <1>7, <1>8 DEF Allocated
<1>10. /\ Listed' = Listed /\ Loaded' = Loaded /\ Occupied' = Occupied
       /\ \A p, q : Earlier(p, q)' = Earlier(p, q)
  BY <1>1 DEF Listed, Loaded, Occupied, Earlier
<1>11. \A p \in Allocated : /\ data'[p].isPatched = (data[p].isPatched \/ p = o)
                            /\ data'[p].target = data[p].target
                            /\ data'[p].address = data[p].address
                            /\ data'[p].replaced = data[p].replaced
  <2>1. \A p \in Allocated : p # o => data'[p] = data[p] /\ data[p].isPatched \in BOOLEAN
    BY <1>7, RecordOf DEF Allocated, ObjectRecords
  <2> QED
    BY <1>8, <2>1
<1>12. \A p \in Allocated : /\ Wants(p)' = Wants(p) /\ ForResident(p)' = ForResident(p)
                            /\ ShouldBePatched(p)' = ShouldBePatched(p)
  BY <1>1, <1>11 DEF Wants, ForResident, ShouldBePatched
<1>13. MemoryIs(stk)'
  BY <1>1, <1>9, <1>10, <1>11, MemoryKeeps
<1>14. AddressesApart'
  BY <1>1, <1>9, <1>11, ApartKeeps
<1>15. Attended' = Attended /\ Listed \subseteq Allocated
  BY <1>1, <1>2 DEF Attended, ListedOnce
<1>16. FlagsFollow(stk, t)'
  <2>1. \A p \in Objects : OnStack(stk, p) =>
          /\ data'[p].isPatched
          /\ p \in Listed' \/ (th'[t].op = "add" /\ th'[t].cur = p)
    BY <1>2, <1>10, <1>11 DEF FlagsFollow
  <2>2. \A p \in Listed' : data'[p].isPatched /\ Attended' => OnStack(stk, p)
    <3>1. th[t].op # "unloaded"
      BY <1>5
    <3> QED
      BY <1>4, <1>10, <1>11, <1>15, <3>1 DEF FlagsFollow
  <2>3. \A p \in Listed' : ForResident(p)' =>
          OnStack(stk, p) \/ (th'[t].op = "remove" /\ th'[t].removed = p)
    BY <1>2, <1>10, <1>12, <1>15 DEF FlagsFollow
  <2>4. \A p \in Allocated' : data'[p].isPatched => data'[p].address \in Addrs
    <3>1. \A p \in Allocated : data[p].isPatched => data[p].address \in Addrs
      BY DEF FlagsFollow
    <3> QED
      BY <1>4, <1>9, <1>11, <3>1
  <2> QED
    BY <2>1, <2>2, <2>3, <2>4 DEF FlagsFollow
<1>17. NoneForgotten(stk, t)'
  <2> SUFFICES ASSUME Attended, NEW p \in Listed, ShouldBePatched(p), Wants(p) # NULL,
                      ~data'[p].isPatched
               PROVE  /\ Pending(t, p)'
                      /\ \A m \in Loaded : Wants(p) = place[m] =>
                           \A i \in DOMAIN stk[m] : stk[m][i] = p \/ Earlier(stk[m][i], p)
    BY <1>1, <1>10, <1>12, <1>15 DEF NoneForgotten
  <2>1. p # o /\ ~data[p].isPatched
    BY <1>11, <1>15
  <2>2. /\ Pending(t, p)
        /\ \A m \in Loaded : Wants(p) = place[m] =>
             \A i \in DOMAIN stk[m] : stk[m][i] = p \/ Earlier(stk[m][i], p)
    BY <2>1 DEF NoneForgotten
  <2>3. Pending(t, p)'
    BY <1>1, <1>2, <1>5, <2>1, <2>2 DEF Pending
  <2> QED
    BY <2>2, <2>3
<1>18. PatchingInOrder(stk, t)'
  BY <1>1, <1>2, <1>4, <1>5, <1>8 DEF PatchingInOrder, Current
<1>19. RemovingLatest(stk, t)'
  BY <1>2, <1>5 DEF RemovingLatest
<1> QED
  BY <1>13, <1>14, <1>16, <1>17, <1>18, <1>19, PutTogether

\* The loop goes on with the one that was registered first.
LEMMA PatchNextSerial ==
  ASSUME NEW stk, NEW t, Working(stk, t), PatchNext(t)
  PROVE  SerialInv(stk)'
<1> USE DEF Working
<1>1. /\ UNCHANGED <<place, title, data, text, list, notify>>
      /\ th[t].pc = "next"
  BY DEF PatchNext
<1>2. PICK o \in th[t].todo :
        /\ \A p \in th[t].todo : Before(o, p)
        /\ th' = [th EXCEPT ![t].cur = o, ![t].todo = @ \ {o}, ![t].pc = "patch"]
  BY DEF PatchNext
<1>3. /\ th'[t].pc = "patch" /\ th'[t].cur = o /\ th'[t].todo = th[t].todo \ {o}
      /\ th'[t].op = th[t].op /\ th'[t].removed = th[t].removed
      /\ th'[t].later = th[t].later /\ th'[t].module = th[t].module
  BY <1>2 DEF LocalStates
<1>4. th[t].op \in {"loaded", "start"}
  BY <1>1, <1>2 DEF StepOfOp, StepsOf, LocalStates, Ops, RemovingLatest
<1>5. /\ MemoryIs(stk)' /\ AddressesApart'
      /\ Listed' = Listed /\ Loaded' = Loaded /\ Occupied' = Occupied
      /\ Allocated' = Allocated
      /\ \A p : /\ Wants(p)' = Wants(p) /\ ForResident(p)' = ForResident(p)
               /\ ShouldBePatched(p)' = ShouldBePatched(p)
      /\ \A p, q : Earlier(p, q)' = Earlier(p, q)
  BY <1>1, WordsStay
<1>6. Attended' = Attended
  BY <1>1, <1>3 DEF Attended
<1>7. FlagsFollow(stk, t)'
  BY <1>1, <1>3, <1>4, <1>5, <1>6 DEF FlagsFollow
<1>8. NoneForgotten(stk, t)'
  BY <1>1, <1>3, <1>4, <1>5, <1>6 DEF NoneForgotten, Pending
<1>9. \A p \in th[t].todo \ {o} : Earlier(o, p)
  BY <1>2, BeforeEarlier
<1>10. PatchingInOrder(stk, t)'
  BY <1>3, <1>4, <1>5, <1>9 DEF PatchingInOrder
<1>11. RemovingLatest(stk, t)'
  BY <1>3, <1>4 DEF RemovingLatest
<1> QED
  BY <1>5, <1>7, <1>8, <1>10, <1>11, PutTogether
------------------------------------------------------------------------------
(* A stack that grows by a replacement.                                     *)

\* s is stk with o on top over m.
IsPushed(stk, m, o, s) ==
  /\ s \in [Modules -> Seq(Objects)]
  /\ \A k \in Modules : k # m => s[k] = stk[k]
  /\ Len(stk[m]) \in Nat /\ DOMAIN stk[m] = 1 .. Len(stk[m])
  /\ DOMAIN s[m] = 1 .. Len(stk[m]) + 1
  /\ s[m][1] = o /\ \A i \in DOMAIN s[m] : i # 1 => s[m][i] = stk[m][i - 1]
  /\ Top(s[m], m) = o
  /\ Below(s[m], 1, m) = Top(stk[m], m)
  /\ \A i \in DOMAIN s[m] : i # 1 => Below(s[m], i, m) = Below(stk[m], i - 1, m)
  /\ \A p : OnStack(s, p) <=> p = o \/ OnStack(stk, p)

\* The stacks after a push.
LEMMA Pushed ==
  ASSUME NEW stk \in [Modules -> Seq(Objects)], NEW m \in Modules, NEW o \in Objects,
         NEW s, s = [stk EXCEPT ![m] = <<o>> \o @]
  PROVE  IsPushed(stk, m, o, s)
<1> DEFINE q == stk[m]
           r == <<o>> \o q
           n == Len(q)
<1>1. q \in Seq(Objects) /\ <<o>> \in Seq(Objects) /\ Len(<<o>>) = 1 /\ <<o>>[1] = o
  OBVIOUS
<1>2. n \in Nat /\ DOMAIN q = 1 .. n
  BY <1>1
<1>3. r \in Seq(Objects) /\ Len(r) = n + 1
  BY <1>1, <1>2
<1>4. r[1] = o
  BY <1>1, <1>2
<1>5. \A i \in 1 .. n + 1 : i # 1 => r[i] = q[i - 1]
  BY <1>1, <1>2
<1> HIDE DEF r
<1>6. s[m] = r /\ s \in [Modules -> Seq(Objects)] /\ \A k \in Modules : k # m => s[k] = stk[k]
  BY <1>3 DEF r
<1>7. DOMAIN r = 1 .. n + 1 /\ r # <<>>
  BY <1>2, <1>3
<1>8. Top(r, m) = o
  BY <1>4, <1>7 DEF Top
<1>9. Below(r, 1, m) = Top(q, m)
  <2>1. CASE n = 0
    <3>1. q = <<>>
      BY <1>1, <2>1, EmptySeq
    <3> QED
      BY <1>3, <2>1, <3>1 DEF Below, Top
  <2>2. CASE n # 0
    <3>1. q # <<>> /\ 2 \in 1 .. n + 1 /\ Len(r) # 1
      BY <1>1, <1>2, <1>3, <2>2
    <3>2. r[2] = q[1]
      BY <1>5, <3>1
    <3> QED
      BY <3>1, <3>2 DEF Below, Top
  <2> QED
    BY <2>1, <2>2
<1>10. ASSUME NEW i \in 1 .. n + 1, i # 1 PROVE Below(r, i, m) = Below(q, i - 1, m)
  <2>1. CASE i = n + 1
    BY <1>2, <1>3, <1>10, <2>1 DEF Below
  <2>2. CASE i # n + 1
    <3>1. i + 1 \in 1 .. n + 1 /\ i + 1 # 1 /\ i # Len(r) /\ i - 1 # n /\ i - 1 + 1 = i
      BY <1>2, <1>3, <1>10, <2>2
    <3>2. r[i + 1] = q[i]
      BY <1>2, <1>5, <1>10, <3>1
    <3> QED
      BY <3>1, <3>2 DEF Below
  <2> QED
    BY <2>1, <2>2
<1>11. ASSUME NEW p PROVE OnStack(s, p) <=> p = o \/ OnStack(stk, p)
  <2>1. CASE OnStack(s, p)
    <3>1. PICK k \in Modules : \E i \in DOMAIN s[k] : s[k][i] = p
      BY <2>1 DEF OnStack
    <3>2. PICK i \in DOMAIN s[k] : s[k][i] = p
      BY <3>1
    <3>3. CASE k # m
      BY <1>6, <2>1, <3>2, <3>3 DEF OnStack
    <3>4. CASE k = m /\ i # 1
      <4>1. i \in 1 .. n + 1 /\ r[i] = p
        BY <1>6, <1>7, <3>2, <3>4
      <4>2. i - 1 \in 1 .. n /\ q[i - 1] = p
        BY <1>2, <1>5, <3>4, <4>1
      <4> HIDE DEF q, n
      <4>3. \E j \in DOMAIN q : q[j] = p
        BY <1>2, <4>2
      <4> QED
        BY <2>1, <4>3 DEF OnStack, q
    <3>5. CASE k = m /\ i = 1
      BY <1>4, <1>6, <2>1, <3>2, <3>5
    <3> QED
      BY <3>3, <3>4, <3>5
  <2>2. CASE p = o
    <3>0. 1 \in 1 .. n + 1
      BY <1>2
    <3>1. 1 \in DOMAIN s[m] /\ s[m][1] = p
      BY <1>4, <1>6, <1>7, <2>2, <3>0
    <3> HIDE DEF r, q, n
    <3>2. \E i \in DOMAIN s[m] : s[m][i] = p
      BY <3>1
    <3>3. OnStack(s, p)
      BY <3>2 DEF OnStack
    <3> QED
      BY <2>2, <3>3
  <2>3. CASE OnStack(stk, p)
    <3>1. PICK k \in Modules : \E i \in DOMAIN stk[k] : stk[k][i] = p
      BY <2>3 DEF OnStack
    <3>2. PICK i \in DOMAIN stk[k] : stk[k][i] = p
      BY <3>1
    <3>3. CASE k # m
      BY <1>6, <3>2, <3>3 DEF OnStack
    <3>4. CASE k = m
      <4>1. i \in 1 .. n
        BY <1>2, <3>2, <3>4
      <4>2. i + 1 \in 1 .. n + 1 /\ i + 1 # 1 /\ i + 1 - 1 = i
        BY <1>2, <4>1
      <4>3. i + 1 \in DOMAIN s[m] /\ s[m][i + 1] = p
        BY <1>5, <1>6, <1>7, <3>2, <3>4, <4>2
      <4> QED
        BY <4>3 DEF OnStack
    <3> QED
      BY <3>3, <3>4
  <2> QED
    BY <2>1, <2>2, <2>3
<1> QED
  BY <1>2, <1>4, <1>5, <1>6, <1>7, <1>8, <1>9, <1>10, <1>11 DEF IsPushed

\* The jump is written over what the stack began with: everything on it was
\* registered before.
LEMMA PushSerial ==
  ASSUME NEW stk, NEW t, Working(stk, t), WriteOnCore(t), ~th[t].served
  PROVE  \E m \in Loaded, o \in Objects :
           /\ \A i \in DOMAIN stk[m] : Earlier(stk[m][i], o)
           /\ SerialInv([stk EXCEPT ![m] = <<o>> \o @])'
<1> USE DEF Working
<1>0. /\ th[t].pc = "write" /\ th[t].core > 0
      /\ UNCHANGED <<place, title, data, list, notify>>
  BY DEF WriteOnCore, Writing
<1>1. PICK o \in Objects : o = th[t].cur
  BY <1>0, WhoPatches
<1>2. /\ th[t].op \in {"add", "loaded", "start"} /\ o \in Allocated
      /\ th[t].op = "add" => o \notin Listed
      /\ th[t].op # "add" => o \in Listed /\ Attended
      /\ \A u \in Threads : th[u].op # "unloaded"
  BY <1>0, <1>1, WhoPatches
<1>3. /\ ~data[o].isPatched /\ ShouldBePatched(o) /\ data[o].address = Wants(o)
      /\ Wants(o) \in Occupied /\ ~OnStack(stk, o)
      /\ data[o].replaced = text[Wants(o)] /\ Wants(o) \in Addrs
  BY <1>0, <1>1 DEF PatchingInOrder, WorksOnOwn, Current
<1>4. PICK m \in Modules : place[m] = Wants(o)
  BY <1>3 DEF Occupied
<1>5. m \in Loaded
  BY <1>3, <1>4, NullAddressAssumption DEF Loaded
<1>6. /\ text' = [text EXCEPT ![place[m]] = o]
      /\ th' = [th EXCEPT ![t].core = @ - 1, ![t].served = TRUE]
  BY <1>1, <1>3, <1>4 DEF WriteOnCore, Current
<1>7. /\ th'[t].pc = "write" /\ th'[t].served
      /\ th'[t].op = th[t].op /\ th'[t].cur = o /\ th'[t].removed = th[t].removed
      /\ th'[t].later = th[t].later /\ th'[t].todo = th[t].todo
      /\ th'[t].module = th[t].module
  BY <1>0, <1>1, <1>6 DEF LocalStates
<1>9. stk \in [Modules -> Seq(Objects)]
  BY DEF MemoryIs
<1>s. PICK s : s = [stk EXCEPT ![m] = <<o>> \o @]
  OBVIOUS
<1>p. IsPushed(stk, m, o, s)
  BY <1>1, <1>4, <1>9, <1>s, Pushed
<1>10. /\ s \in [Modules -> Seq(Objects)]
       /\ \A k \in Modules : k # m => s[k] = stk[k]
       /\ Len(stk[m]) \in Nat /\ DOMAIN stk[m] = 1 .. Len(stk[m])
       /\ DOMAIN s[m] = 1 .. Len(stk[m]) + 1
       /\ s[m][1] = o /\ \A i \in DOMAIN s[m] : i # 1 => s[m][i] = stk[m][i - 1]
       /\ Top(s[m], m) = o
       /\ Below(s[m], 1, m) = Top(stk[m], m)
       /\ \A i \in DOMAIN s[m] : i # 1 => Below(s[m], i, m) = Below(stk[m], i - 1, m)
       /\ \A p : OnStack(s, p) <=> p = o \/ OnStack(stk, p)
  BY <1>p DEF IsPushed
<1>11. /\ Listed' = Listed /\ Loaded' = Loaded /\ Occupied' = Occupied
       /\ Allocated' = Allocated
       /\ \A p : /\ Wants(p)' = Wants(p) /\ ForResident(p)' = ForResident(p)
                /\ ShouldBePatched(p)' = ShouldBePatched(p)
       /\ \A p, q : Earlier(p, q)' = Earlier(p, q)
  BY <1>0 DEF Listed, Loaded, Occupied, Allocated, Wants, ForResident, ShouldBePatched, Earlier
<1>12. ASSUME NEW i \in DOMAIN stk[m] PROVE Earlier(stk[m][i], o)
  <2>1. OnStack(stk, stk[m][i]) /\ stk[m][i] # o
    BY <1>3 DEF OnStack
  <2>2. CASE th[t].op = "add"
    <3>1. stk[m][i] \in Listed
      BY <1>1, <2>1 DEF FlagsFollow, Allocated
    <3>2. \A j \in DOMAIN list : list[j] # o
      BY <1>2, <2>2 DEF Listed, Range
    <3> QED
      BY <3>1, <3>2 DEF Earlier, Listed, Range
  <2>3. CASE th[t].op # "add"
    <3>1. o \in Listed /\ Attended /\ Wants(o) # NULL
      BY <1>2, <1>3, <2>3, NullAddressAssumption
    <3>2. \A j \in DOMAIN stk[m] : stk[m][j] = o \/ Earlier(stk[m][j], o)
      BY <1>3, <1>4, <1>5, <3>1 DEF NoneForgotten
    <3> QED
      BY <2>1, <3>2
  <2> QED
    BY <2>2, <2>3
<1>13. MemoryIs(s)'
  <2>1. \A a \in Addrs \ Occupied : text'[a] = NULL
    BY <1>3, <1>4, <1>6 DEF MemoryIs
  <2>2. \A k \in Modules \ Loaded : s[k] = <<>>
    BY <1>5, <1>10 DEF MemoryIs
  <2>3. ASSUME NEW k \in Loaded PROVE text'[place[k]] = Top(s[k], k)
    <3>1. k \in Modules /\ text \in [Addrs -> Words] /\ place[m] \in Addrs
      BY <1>3, <1>4 DEF Loaded, TypeOK
    <3>2. CASE k = m
      BY <1>6, <1>10, <3>1, <3>2
    <3>3. CASE k # m
      <4>1. place[k] # place[m] /\ place[k] \in Addrs
        BY <3>1, <3>3 DEF LoaderInv, Loaded, TypeOK
      <4> QED
        BY <1>6, <1>10, <3>1, <3>3, <4>1 DEF MemoryIs
    <3> QED
      BY <3>2, <3>3
  <2>4. ASSUME NEW k \in Loaded, NEW i \in DOMAIN s[k]
        PROVE  /\ s[k][i] \in Allocated
               /\ Wants(s[k][i]) = place[k]
               /\ data[s[k][i]].address = place[k]
               /\ data[s[k][i]].replaced = Below(s[k], i, k)
    <3>1. CASE k # m
      <4>1. s[k] = stk[k]
        BY <1>10, <3>1 DEF Loaded
      <4> QED
        BY <4>1 DEF MemoryIs
    <3>2. CASE k = m /\ i = 1
      BY <1>2, <1>3, <1>4, <1>5, <1>10, <3>2 DEF MemoryIs
    <3>3. CASE k = m /\ i # 1
      <4>1. i - 1 \in DOMAIN stk[m]
        BY <1>10, <3>3
      <4> QED
        BY <1>5, <1>10, <3>3, <4>1 DEF MemoryIs
    <3> QED
      BY <3>1, <3>2, <3>3
  <2>5. ASSUME NEW k \in Loaded, NEW i \in DOMAIN s[k], NEW j \in DOMAIN s[k], i < j
        PROVE  Earlier(s[k][j], s[k][i])
    <3>1. CASE k # m
      <4>1. s[k] = stk[k]
        BY <1>10, <3>1 DEF Loaded
      <4> QED
        BY <2>5, <4>1 DEF MemoryIs
    <3>2. CASE k = m
      <4>1. j # 1 /\ j - 1 \in DOMAIN stk[m]
        BY <1>10, <2>5, <3>2
      <4>2. CASE i = 1
        BY <1>10, <1>12, <3>2, <4>1, <4>2
      <4>3. CASE i # 1
        <5>1. i - 1 \in DOMAIN stk[m] /\ i - 1 < j - 1
          BY <1>10, <2>5, <3>2, <4>3
        <5> QED
          BY <1>5, <1>10, <3>2, <4>1, <4>3, <5>1 DEF MemoryIs
      <4> QED
        BY <4>2, <4>3
    <3> QED
      BY <3>1, <3>2
  <2> QED
    BY <1>0, <1>10, <1>11, <2>1, <2>2, <2>3, <2>4, <2>5 DEF MemoryIs
<1>14. AddressesApart'
  BY <1>0, <1>11, ApartKeeps
<1>15. Attended' = Attended
  BY <1>0, <1>7 DEF Attended
<1>16. FlagsFollow(s, t)'
  <2>1. \A p \in Objects : OnStack(s, p) =>
          /\ data[p].isPatched \/ (th'[t].pc = "write" /\ th'[t].cur = p)
          /\ p \in Listed \/ (th'[t].op = "add" /\ th'[t].cur = p)
    BY <1>1, <1>2, <1>7, <1>10 DEF FlagsFollow
  <2>2. \A p \in Listed : data[p].isPatched /\ Attended => OnStack(s, p)
    <3>1. th[t].op # "unloaded"
      BY <1>2
    <3> QED
      BY <1>10, <3>1 DEF FlagsFollow
  <2>3. \A p \in Listed : ForResident(p) =>
          OnStack(s, p) \/ (th'[t].op = "remove" /\ th'[t].removed = p)
    BY <1>7, <1>10 DEF FlagsFollow
  <2>4. \A p \in Allocated : data[p].isPatched => data[p].address \in Addrs
    BY DEF FlagsFollow
  <2> QED
    BY <1>0, <1>11, <1>15, <2>1, <2>2, <2>3, <2>4 DEF FlagsFollow
<1>17. NoneForgotten(s, t)'
  <2> SUFFICES ASSUME Attended, NEW p \in Listed, ShouldBePatched(p), Wants(p) # NULL,
                      ~data[p].isPatched
               PROVE  /\ Pending(t, p)'
                      /\ \A k \in Loaded : Wants(p) = place[k] =>
                           \A i \in DOMAIN s[k] : s[k][i] = p \/ Earlier(s[k][i], p)
    BY <1>0, <1>11, <1>15 DEF NoneForgotten
  <2>1. /\ Pending(t, p)
        /\ \A k \in Loaded : Wants(p) = place[k] =>
             \A i \in DOMAIN stk[k] : stk[k][i] = p \/ Earlier(stk[k][i], p)
    BY DEF NoneForgotten
  <2>2. Pending(t, p)'
    BY <1>0, <1>1, <1>7, <2>1 DEF Pending
  <2>3. p = o \/ Earlier(o, p)
    <3>1. th[t].op \in {"loaded", "start"} /\ (p \in th[t].todo \/ p = o)
      BY <1>0, <1>1, <1>2, <2>1 DEF Pending
    <3> QED
      BY <1>0, <1>1, <3>1 DEF PatchingInOrder
  <2>4. ASSUME NEW k \in Loaded, Wants(p) = place[k], NEW i \in DOMAIN s[k]
        PROVE  s[k][i] = p \/ Earlier(s[k][i], p)
    <3>1. CASE k # m
      <4>1. s[k] = stk[k]
        BY <1>10, <3>1 DEF Loaded
      <4> QED
        BY <2>1, <2>4, <4>1
    <3>2. CASE k = m /\ i = 1
      BY <1>10, <2>3, <3>2
    <3>3. CASE k = m /\ i # 1
      <4>1. i - 1 \in DOMAIN stk[m]
        BY <1>10, <3>3
      <4> QED
        BY <1>10, <2>1, <2>4, <3>3, <4>1
    <3> QED
      BY <3>1, <3>2, <3>3
  <2> QED
    BY <2>2, <2>4
<1>18. PatchingInOrder(s, t)'
  <2>1. text'[place[m]] = o
    BY <1>3, <1>4, <1>6 DEF TypeOK
  <2>2. data'[o].address = place[m] /\ data' = data
    BY <1>0, <1>3, <1>4
  <2> QED
    BY <1>0, <1>1, <1>2, <1>3, <1>7, <1>10, <1>11, <1>15, <2>1, <2>2
       DEF PatchingInOrder, Current
<1>19. RemovingLatest(s, t)'
  BY <1>2, <1>7 DEF RemovingLatest
<1>20. SerialInv(s)'
  BY <1>13, <1>14, <1>16, <1>17, <1>18, <1>19, PutTogether
<1> QED
  BY <1>5, <1>12, <1>20, <1>s
------------------------------------------------------------------------------
(* FPRemoveFunctionPatch.                                                   *)

\* t calls, or is told of a module: nothing was pending.
LEMMA NothingPending ==
  ASSUME NEW stk, NEW t, Working(stk, t), th[t].op \notin {"remove", "loaded", "start"}, Attended
  PROVE  \A o \in Listed : ShouldBePatched(o) /\ Wants(o) # NULL => data[o].isPatched
BY DEF Working, NoneForgotten, Pending

\* A client takes back the latest.
LEMMA FPRemoveFunctionPatchSerial ==
  ASSUME NEW stk, NEW t, Working(stk, t), NEW o \in Objects, FPRemoveFunctionPatch(t, o)
  PROVE  SerialInv(stk)'
<1> USE DEF Working
<1>1. /\ UNCHANGED <<place, title, data, text, list, notify>>
      /\ th[t] = Idle /\ list # <<>> /\ o = Last(list)
      /\ th' = [th EXCEPT ![t] = [Idle EXCEPT !.op = "remove", !.pc = "wait", !.cur = o]]
  BY DEF FPRemoveFunctionPatch, MayCall, MayRemove, Discipline
<1>2. /\ th'[t].pc = "wait" /\ th'[t].op = "remove" /\ th'[t].cur = o
      /\ th'[t].removed = NULL /\ th'[t].later = {} /\ th'[t].todo = {}
      /\ th[t].op = "none" /\ th[t].pc = "idle"
  BY <1>1 DEF Idle
<1>3. /\ MemoryIs(stk)' /\ AddressesApart'
      /\ Listed' = Listed /\ Loaded' = Loaded /\ Occupied' = Occupied
      /\ Allocated' = Allocated
      /\ \A p : /\ Wants(p)' = Wants(p) /\ ForResident(p)' = ForResident(p)
               /\ ShouldBePatched(p)' = ShouldBePatched(p)
      /\ \A p, q : Earlier(p, q)' = Earlier(p, q)
  BY <1>1, WordsStay
<1>4. Attended' = Attended
  BY <1>1, <1>2 DEF Attended
<1>5. FlagsFollow(stk, t)'
  BY <1>1, <1>2, <1>3, <1>4 DEF FlagsFollow
<1>6. NoneForgotten(stk, t)'
  BY <1>1, <1>2, <1>3, <1>4 DEF NoneForgotten, Pending
<1>7. PatchingInOrder(stk, t)'
  BY <1>2 DEF PatchingInOrder
<1>8. RemovingLatest(stk, t)'
  BY <1>1, <1>2 DEF RemovingLatest
<1> QED
  BY <1>3, <1>5, <1>6, <1>7, <1>8, PutTogether

\* What a client gives back in this order is registered.
LEMMA PatchIsFound ==
  ASSUME NEW stk, NEW t, Working(stk, t), PatchNotFound(t)
  PROVE  FALSE
<1> USE DEF Working
<1>1. list # <<>> /\ th[t].cur = Last(list)
  BY DEF PatchNotFound, Enter, RemovingLatest
<1>2. Last(list) \in Listed
  BY <1>1, LastListed
<1> QED
  BY <1>1, <1>2 DEF PatchNotFound

\* Nothing was registered after it.
LEMMA FindToBeRemovedSerial ==
  ASSUME NEW stk, NEW t, Working(stk, t), FindToBeRemoved(t)
  PROVE  SerialInv(stk)'
<1> USE DEF Working
<1> DEFINE o == th[t].cur
           later == IF data[o].isPatched THEN ToBeTempRestored(o) ELSE {}
           todo  == IF data[o].isPatched THEN later \union {o} ELSE {}
<1>1. /\ UNCHANGED <<place, title, data, text, list, notify>>
      /\ th[t].pc = "wait" /\ th[t].op = "remove" /\ o \in Listed
      /\ th' = [th EXCEPT ![t].pc = "undo", ![t].removed = o,
                          ![t].position = ErasePosition(o),
                          ![t].later = later, ![t].todo = todo]
  BY DEF FindToBeRemoved, Enter
<1>2. list # <<>> /\ o = Last(list)
  BY <1>1 DEF RemovingLatest
<1>3. ToBeTempRestored(o) = {}
  <2> SUFFICES ASSUME NEW p \in Listed, p # o, Before(o, p) PROVE FALSE
    BY DEF ToBeTempRestored
  <2>1. Earlier(o, p)
    BY BeforeEarlier
  <2> QED
    BY <1>2, <2>1, LastListed
<1>4. later = {} /\ todo = IF data[o].isPatched THEN {o} ELSE {}
  BY <1>3
<1>5. /\ th'[t].pc = "undo" /\ th'[t].op = "remove" /\ th'[t].cur = o
      /\ th'[t].removed = o /\ th'[t].later = {}
      /\ th'[t].todo = IF data[o].isPatched THEN {o} ELSE {}
  <2> HIDE DEF later, todo
  <2> QED
    BY <1>1, <1>4 DEF LocalStates
<1> HIDE DEF later, todo
<1>6. /\ MemoryIs(stk)' /\ AddressesApart'
      /\ Listed' = Listed /\ Loaded' = Loaded /\ Occupied' = Occupied
      /\ Allocated' = Allocated
      /\ \A p : /\ Wants(p)' = Wants(p) /\ ForResident(p)' = ForResident(p)
               /\ ShouldBePatched(p)' = ShouldBePatched(p)
      /\ \A p, q : Earlier(p, q)' = Earlier(p, q)
  BY <1>1, WordsStay
<1>7. Attended' = Attended
  BY <1>1, <1>5 DEF Attended
<1>8. th[t].removed = NULL /\ NULL \notin Listed
  BY <1>1, NullObjectAssumption DEF StepOfOp, Holds, ListedOnce, Allocated
<1>9. FlagsFollow(stk, t)'
  BY <1>1, <1>5, <1>6, <1>7, <1>8 DEF FlagsFollow
<1>10. ASSUME NEW p \in Listed, Pending(t, p) PROVE FALSE
  BY <1>1, <1>8, <1>10 DEF Pending
<1>11. NoneForgotten(stk, t)'
  BY <1>1, <1>6, <1>7, <1>10 DEF NoneForgotten
<1>12. PatchingInOrder(stk, t)'
  BY <1>5 DEF PatchingInOrder
<1>13. RemovingLatest(stk, t)'
  <2>1. OnStack(stk, o) => data[o].isPatched
    <3>1. o \in Objects
      BY <1>1 DEF ListedOnce, Allocated
    <3> QED
      BY <1>1, <3>1 DEF FlagsFollow
  <2> QED
    BY <1>1, <1>2, <1>5, <2>1 DEF RemovingLatest
<1> QED
  BY <1>6, <1>9, <1>11, <1>12, <1>13, PutTogether

\* What holds while the latest is taken back.
LEMMA Removing ==
  ASSUME NEW stk, NEW t, Working(stk, t), th[t].op = "remove", th[t].pc \in {"undo", "unwrite"}
  PROVE  /\ list # <<>> /\ th[t].removed = Last(list) /\ th[t].removed \in Listed
         /\ th[t].removed \in Objects /\ th[t].removed \in Allocated
         /\ \A p : OnStack(stk, p) => p \in Listed /\ data[p].isPatched
<1> USE DEF Working
<1>1. list # <<>> /\ th[t].removed = Last(list)
  BY DEF RemovingLatest
<1>2. th[t].removed \in Listed
  BY <1>1, LastListed
<1>3. \A p : OnStack(stk, p) => p \in Listed /\ data[p].isPatched
  BY DEF FlagsFollow, Allocated
<1> QED
  BY <1>1, <1>2, <1>3 DEF ListedOnce, Allocated

\* RestoreFunction passes over an object only when its jump is not in memory.
LEMMA SkipRestoreSerial ==
  ASSUME NEW stk, NEW t, Working(stk, t), SkipRestore(t)
  PROVE  SerialInv(stk)'
<1> USE DEF Working
<1>1. PICK o \in Objects :
        /\ o \in th[t].todo /\ ~CanRestore(o)
        /\ th' = [th EXCEPT ![t].todo = @ \ {o}]
  BY DEF SkipRestore, RestoreNext
<1>2. /\ UNCHANGED <<place, title, data, text, list, notify>>
      /\ th[t].pc = "undo"
  BY DEF SkipRestore, RestoreNext
<1>3. th[t].op = "remove"
  BY <1>2 DEF StepOfOp, StepsOf, LocalStates, Ops
<1>4. o = th[t].removed /\ th[t].todo = {o}
  BY <1>1, <1>3 DEF RemovingLatest
<1>5. ~OnStack(stk, o)
  <2> SUFFICES ASSUME OnStack(stk, o) PROVE FALSE
    OBVIOUS
  <2>1. o = Last(list) /\ list # <<>> /\ \A p : OnStack(stk, p) => p \in Listed /\ data[p].isPatched
    BY <1>2, <1>3, <1>4, Removing
  <2>2. text[data[o].address] = o
    BY <2>1, LatestOnTop
  <2>3. data[o].replaced # NULL
    <3>1. PICK m \in Loaded : \E i \in DOMAIN stk[m] : data[o].replaced = Below(stk[m], i, m) /\ stk[m][i] = o
      BY Stacked
    <3>2. PICK i \in DOMAIN stk[m] : data[o].replaced = Below(stk[m], i, m)
      BY <3>1
    <3>3. Len(stk[m]) \in Nat /\ DOMAIN stk[m] = 1 .. Len(stk[m])
      BY StackFits
    <3>4. i # Len(stk[m]) => i + 1 \in DOMAIN stk[m]
      BY <3>2, <3>3
    <3>5. \A j \in DOMAIN stk[m] : stk[m][j] \in Objects
      BY DEF MemoryIs, Allocated
    <3>6. m # NULL /\ NULL \notin Objects
      BY NullAddressAssumption, NullObjectAssumption DEF Loaded
    <3> QED
      BY <3>2, <3>4, <3>5, <3>6 DEF Below
  <2> QED
    BY <1>1, <2>1, <2>2, <2>3 DEF CanRestore
<1>6. /\ th'[t].pc = "undo" /\ th'[t].op = "remove" /\ th'[t].cur = th[t].cur
      /\ th'[t].removed = o /\ th'[t].later = th[t].later /\ th'[t].todo = {}
  BY <1>1, <1>2, <1>3, <1>4 DEF LocalStates
<1>7. /\ MemoryIs(stk)' /\ AddressesApart'
      /\ Listed' = Listed /\ Loaded' = Loaded /\ Occupied' = Occupied
      /\ Allocated' = Allocated
      /\ \A p : /\ Wants(p)' = Wants(p) /\ ForResident(p)' = ForResident(p)
               /\ ShouldBePatched(p)' = ShouldBePatched(p)
      /\ \A p, q : Earlier(p, q)' = Earlier(p, q)
  BY <1>2, WordsStay
<1>8. Attended' = Attended
  BY <1>2, <1>3, <1>6 DEF Attended
<1>9. FlagsFollow(stk, t)'
  BY <1>2, <1>3, <1>4, <1>6, <1>7, <1>8 DEF FlagsFollow
<1>10. NoneForgotten(stk, t)'
  BY <1>2, <1>3, <1>4, <1>6, <1>7, <1>8 DEF NoneForgotten, Pending
<1>11. PatchingInOrder(stk, t)'
  BY <1>6 DEF PatchingInOrder
<1>12. RemovingLatest(stk, t)'
  BY <1>2, <1>3, <1>4, <1>5, <1>6 DEF RemovingLatest
<1> QED
  BY <1>7, <1>9, <1>10, <1>11, <1>12, PutTogether

\* The word it is about to write back is under its own jump.
LEMMA CheckInstructionSerial ==
  ASSUME NEW stk, NEW t, Working(stk, t), CheckInstruction(t)
  PROVE  SerialInv(stk)'
<1> USE DEF Working
<1>1. PICK o \in Objects :
        /\ o \in th[t].todo /\ CanRestore(o)
        /\ th' = [th EXCEPT ![t].todo = @ \ {o}, ![t].cur = o, ![t].pc = "unwrite"]
  BY DEF CheckInstruction, RestoreNext
<1>2. /\ UNCHANGED <<place, title, data, text, list, notify>>
      /\ th[t].pc = "undo"
  BY DEF CheckInstruction, RestoreNext
<1>3. th[t].op = "remove"
  BY <1>2 DEF StepOfOp, StepsOf, LocalStates, Ops
<1>4. o = th[t].removed /\ th[t].todo = {o} /\ o \in Allocated /\ o = Last(list) /\ list # <<>>
  BY <1>1, <1>2, <1>3, Removing DEF RemovingLatest
<1>5. OnStack(stk, o) /\ text[data[o].address] = o
  <2>1. data[o].address \in Addrs /\ text[data[o].address] = o
    BY <1>1, <1>4 DEF CanRestore, FlagsFollow
  <2>2. PICK m \in Loaded : stk[m][1] = o /\ 1 \in DOMAIN stk[m]
    BY <2>1, JumpOnTop
  <2> QED
    BY <2>1, <2>2 DEF OnStack, Loaded
<1>6. /\ th'[t].pc = "unwrite" /\ th'[t].op = "remove" /\ th'[t].cur = o
      /\ th'[t].removed = o /\ th'[t].later = th[t].later /\ th'[t].todo = {}
  BY <1>1, <1>2, <1>3, <1>4 DEF LocalStates
<1>7. /\ MemoryIs(stk)' /\ AddressesApart'
      /\ Listed' = Listed /\ Loaded' = Loaded /\ Occupied' = Occupied
      /\ Allocated' = Allocated
      /\ \A p : /\ Wants(p)' = Wants(p) /\ ForResident(p)' = ForResident(p)
               /\ ShouldBePatched(p)' = ShouldBePatched(p)
      /\ \A p, q : Earlier(p, q)' = Earlier(p, q)
  BY <1>2, WordsStay
<1>8. Attended' = Attended
  BY <1>2, <1>3, <1>6 DEF Attended
<1>9. FlagsFollow(stk, t)'
  BY <1>2, <1>3, <1>4, <1>6, <1>7, <1>8 DEF FlagsFollow
<1>10. NoneForgotten(stk, t)'
  BY <1>2, <1>3, <1>4, <1>6, <1>7, <1>8 DEF NoneForgotten, Pending
<1>11. PatchingInOrder(stk, t)'
  BY <1>6 DEF PatchingInOrder
<1>12. RemovingLatest(stk, t)'
  BY <1>2, <1>3, <1>4, <1>5, <1>6 DEF RemovingLatest, Current
<1> QED
  BY <1>7, <1>9, <1>10, <1>11, <1>12, PutTogether

\* s is stk without the top over m.
IsPopped(stk, m, s) ==
  /\ s \in [Modules -> Seq(Objects)]
  /\ \A k \in Modules : k # m => s[k] = stk[k]
  /\ Len(stk[m]) \in Nat /\ DOMAIN stk[m] = 1 .. Len(stk[m]) /\ 1 \in DOMAIN stk[m]
  /\ DOMAIN s[m] = 1 .. Len(stk[m]) - 1
  /\ \A i \in DOMAIN s[m] : /\ i + 1 \in DOMAIN stk[m]
                            /\ s[m][i] = stk[m][i + 1]
                            /\ Below(s[m], i, m) = Below(stk[m], i + 1, m)
  /\ Top(s[m], m) = Below(stk[m], 1, m)
  /\ \A p : OnStack(s, p) => OnStack(stk, p)
  /\ \A p : OnStack(stk, p) /\ p # stk[m][1] => OnStack(s, p)

\* The stacks after a pop.
LEMMA Popped ==
  ASSUME NEW stk \in [Modules -> Seq(Objects)], NEW m \in Modules, stk[m] # <<>>,
         NEW s, s = [stk EXCEPT ![m] = Tail(@)]
  PROVE  IsPopped(stk, m, s)
<1> DEFINE q == stk[m]
           r == Tail(q)
           n == Len(q)
<1>1. q \in Seq(Objects) /\ q # <<>>
  OBVIOUS
<1>2. n \in Nat /\ DOMAIN q = 1 .. n /\ n # 0
  BY <1>1, EmptySeq
<1>3. r \in Seq(Objects) /\ Len(r) = n - 1
  BY <1>1
<1>4. \A i \in 1 .. n - 1 : r[i] = q[i + 1]
  BY <1>1
<1> HIDE DEF r
<1>5. s[m] = r /\ s \in [Modules -> Seq(Objects)] /\ \A k \in Modules : k # m => s[k] = stk[k]
  BY <1>3 DEF r
<1>6. DOMAIN r = 1 .. n - 1
  BY <1>3
<1>7. 1 \in DOMAIN q
  BY <1>2
<1>8. Top(r, m) = Below(q, 1, m)
  <2>1. CASE n = 1
    <3>1. r = <<>>
      BY <1>3, <2>1, EmptySeq
    <3> QED
      BY <2>1, <3>1 DEF Below, Top
  <2>2. CASE n # 1
    <3>1. r # <<>> /\ 1 \in 1 .. n - 1
      BY <1>2, <1>3, <2>2
    <3>2. r[1] = q[2]
      BY <1>4, <3>1
    <3> QED
      BY <2>2, <3>1, <3>2 DEF Below, Top
  <2> QED
    BY <2>1, <2>2
<1>9. ASSUME NEW i \in 1 .. n - 1
      PROVE  /\ i + 1 \in DOMAIN q
             /\ r[i] = q[i + 1]
             /\ Below(r, i, m) = Below(q, i + 1, m)
  <2>1. i + 1 \in 1 .. n
    BY <1>2
  <2>2. CASE i = n - 1
    <3>1. i = Len(r) /\ i + 1 = n
      BY <1>2, <1>3, <2>2
    <3> QED
      BY <1>2, <1>4, <2>1, <3>1 DEF Below
  <2>3. CASE i # n - 1
    <3>1. i + 1 # n /\ i + 1 \in 1 .. n - 1
      <4> HIDE DEF n
      <4> QED
        BY <1>2, <2>3
    <3>2. i # Len(r)
      BY <1>3, <2>3
    <3> QED
      BY <1>2, <1>4, <2>1, <3>1, <3>2 DEF Below
  <2> QED
    BY <2>2, <2>3
<1>10. ASSUME NEW p, OnStack(s, p) PROVE OnStack(stk, p)
  <2>1. PICK k \in Modules : \E i \in DOMAIN s[k] : s[k][i] = p
    BY <1>10 DEF OnStack
  <2>2. PICK i \in DOMAIN s[k] : s[k][i] = p
    BY <2>1
  <2>3. CASE k # m
    BY <1>5, <2>2, <2>3 DEF OnStack
  <2>4. CASE k = m
    <3>1. i + 1 \in DOMAIN stk[m] /\ stk[m][i + 1] = p
      BY <1>5, <1>6, <1>9, <2>2, <2>4
    <3> QED
      BY <3>1 DEF OnStack
  <2> QED
    BY <2>3, <2>4
<1>11. ASSUME NEW p, OnStack(stk, p), p # q[1] PROVE OnStack(s, p)
  <2>1. PICK k \in Modules : \E i \in DOMAIN stk[k] : stk[k][i] = p
    BY <1>11 DEF OnStack
  <2>2. PICK i \in DOMAIN stk[k] : stk[k][i] = p
    BY <2>1
  <2>3. CASE k # m
    BY <1>5, <2>2, <2>3 DEF OnStack
  <2>4. CASE k = m
    <3>1. i \in 1 .. n /\ i # 1
      BY <1>2, <1>11, <2>2, <2>4
    <3>2. i - 1 \in 1 .. n - 1 /\ i - 1 + 1 = i
      BY <1>2, <3>1
    <3>3. i - 1 \in DOMAIN s[m] /\ s[m][i - 1] = p
      BY <1>4, <1>5, <1>6, <2>2, <2>4, <3>2
    <3> QED
      BY <3>3 DEF OnStack
  <2> QED
    BY <2>3, <2>4
<1> QED
  BY <1>2, <1>5, <1>6, <1>7, <1>8, <1>9, <1>10, <1>11 DEF IsPopped

\* The word under the jump comes back: the top of the stack goes.
LEMMA PopSerial ==
  ASSUME NEW stk, NEW t, Working(stk, t), RestoreInstruction(t)
  PROVE  \E m \in Loaded : stk[m] # <<>> /\ SerialInv([stk EXCEPT ![m] = Tail(@)])'
<1> USE DEF Working
<1>1. /\ UNCHANGED <<place, title, list, notify>>
      /\ th[t].pc = "unwrite"
      /\ th' = [th EXCEPT ![t].pc = "undo"]
  BY DEF RestoreInstruction
<1>2. th[t].op = "remove"
  BY <1>1 DEF StepOfOp, StepsOf, LocalStates, Ops
<1>3. /\ th[t].cur = th[t].removed /\ th[t].todo = {} /\ OnStack(stk, th[t].cur)
      /\ th[t].removed \in Objects /\ th[t].later = {}
  BY <1>1, <1>2, Removing DEF RemovingLatest
<1>4. PICK o \in Objects : o = th[t].cur
  BY <1>3
<1>5. /\ o = Last(list) /\ list # <<>> /\ o \in Listed /\ o \in Allocated
      /\ \A p : OnStack(stk, p) => p \in Listed /\ data[p].isPatched
  BY <1>1, <1>2, <1>3, <1>4, Removing
<1>6. PICK m \in Loaded :
        stk[m] # <<>> /\ stk[m][1] = o /\ text[place[m]] = o /\ place[m] = data[o].address
  BY <1>3, <1>4, <1>5, LatestOnTop
<1>7. /\ m \in Modules /\ stk \in [Modules -> Seq(Objects)] /\ place[m] \in Addrs
      /\ text \in [Addrs -> Words]
  BY DEF MemoryIs, Loaded, TypeOK
<1>s. PICK s : s = [stk EXCEPT ![m] = Tail(@)]
  OBVIOUS
<1>p. IsPopped(stk, m, s)
  BY <1>6, <1>7, <1>s, Popped
<1>8. /\ s \in [Modules -> Seq(Objects)]
      /\ \A k \in Modules : k # m => s[k] = stk[k]
      /\ Len(stk[m]) \in Nat /\ DOMAIN stk[m] = 1 .. Len(stk[m]) /\ 1 \in DOMAIN stk[m]
      /\ DOMAIN s[m] = 1 .. Len(stk[m]) - 1
      /\ \A i \in DOMAIN s[m] : /\ i + 1 \in DOMAIN stk[m]
                                /\ s[m][i] = stk[m][i + 1]
                                /\ Below(s[m], i, m) = Below(stk[m], i + 1, m)
      /\ Top(s[m], m) = Below(stk[m], 1, m)
      /\ \A p : OnStack(s, p) => OnStack(stk, p)
      /\ \A p : OnStack(stk, p) /\ p # o => OnStack(s, p)
  BY <1>6, <1>p DEF IsPopped
<1>9. Wants(o) = place[m] /\ data[o].replaced = Below(stk[m], 1, m)
  BY <1>6, <1>8 DEF MemoryIs
<1>10. ~OnStack(s, o)
  <2> SUFFICES ASSUME OnStack(s, o) PROVE FALSE
    OBVIOUS
  <2>1. PICK k \in Modules : \E i \in DOMAIN s[k] : s[k][i] = o
    BY DEF OnStack
  <2>2. PICK i \in DOMAIN s[k] : s[k][i] = o
    BY <2>1
  <2>3. CASE k # m
    <3>1. k \in Loaded /\ place[k] = place[m]
      BY <1>8, <1>9, <2>2, <2>3 DEF MemoryIs
    <3> QED
      BY <1>7, <2>3, <3>1 DEF LoaderInv, Loaded
  <2>4. CASE k = m
    <3>1. i + 1 \in DOMAIN stk[m] /\ stk[m][i + 1] = o /\ 1 < i + 1
      BY <1>8, <2>2, <2>4
    <3>2. Earlier(o, o)
      BY <1>6, <1>8, <3>1 DEF MemoryIs
    <3> QED
      BY <1>5, <3>2, EarlierIsOther
  <2> QED
    BY <2>3, <2>4
<1>11. /\ text' = [text EXCEPT ![place[m]] = Below(stk[m], 1, m)]
       /\ data' = [data EXCEPT ![o].isPatched = FALSE]
  BY <1>4, <1>6, <1>9 DEF RestoreInstruction, Current
<1>12. /\ th'[t].pc = "undo" /\ th'[t].op = "remove" /\ th'[t].cur = o
       /\ th'[t].removed = o /\ th'[t].later = {} /\ th'[t].todo = {}
  BY <1>1, <1>2, <1>3, <1>4 DEF LocalStates
<1>13. data \in [Objects -> ObjectRecords \union {NULL}] /\ data[o] \in ObjectRecords
  BY <1>5, RecordOf DEF TypeOK
<1>14. /\ \A p \in Objects : p # o => data'[p] = data[p]
       /\ data'[o] = [data[o] EXCEPT !.isPatched = FALSE]
  BY <1>11, <1>13
<1>15. /\ data'[o].address = data[o].address /\ data'[o].isPatched = FALSE
       /\ data'[o].target = data[o].target /\ data'[o].replaced = data[o].replaced
       /\ data'[o] # NULL
  BY <1>13, <1>14, NullRecordAssumption DEF ObjectRecords
<1>16. Allocated' = Allocated
  BY <1>5, <1>14, <1>15 DEF Allocated
<1>17. /\ Listed' = Listed /\ Loaded' = Loaded /\ Occupied' = Occupied
       /\ \A p, q : Earlier(p, q)' = Earlier(p, q)
  BY <1>1 DEF Listed, Loaded, Occupied, Earlier
<1>18. \A p \in Allocated : /\ p # o => data'[p].isPatched = data[p].isPatched
                            /\ data'[p].target = data[p].target
                            /\ data'[p].address = data[p].address
                            /\ data'[p].replaced = data[p].replaced
  BY <1>14, <1>15 DEF Allocated
<1>19. \A p \in Allocated : /\ Wants(p)' = Wants(p) /\ ForResident(p)' = ForResident(p)
                            /\ ShouldBePatched(p)' = ShouldBePatched(p)
  BY <1>1, <1>18 DEF Wants, ForResident, ShouldBePatched
<1>20. MemoryIs(s)'
  <2>1. \A a \in Addrs \ Occupied : text'[a] = NULL
    <3>1. place[m] \in Occupied
      BY <1>7 DEF Occupied
    <3> QED
      BY <1>7, <1>11, <3>1 DEF MemoryIs
  <2>2. \A k \in Modules \ Loaded : s[k] = <<>>
    BY <1>8 DEF MemoryIs
  <2>3. ASSUME NEW k \in Loaded PROVE text'[place[k]] = Top(s[k], k)
    <3>1. CASE k = m
      BY <1>7, <1>8, <1>11, <3>1
    <3>2. CASE k # m
      <4>1. k \in Modules /\ place[k] # place[m] /\ place[k] \in Addrs
        BY <1>7, <3>2 DEF LoaderInv, Loaded, TypeOK
      <4> QED
        BY <1>7, <1>8, <1>11, <3>2, <4>1 DEF MemoryIs
    <3> QED
      BY <3>1, <3>2
  <2>4. ASSUME NEW k \in Loaded, NEW i \in DOMAIN s[k]
        PROVE  /\ s[k][i] \in Allocated
               /\ Wants(s[k][i]) = place[k]
               /\ data[s[k][i]].address = place[k]
               /\ data[s[k][i]].replaced = Below(s[k], i, k)
    <3>1. CASE k # m
      <4>1. s[k] = stk[k]
        BY <1>8, <3>1 DEF Loaded
      <4> QED
        BY <4>1 DEF MemoryIs
    <3>2. CASE k = m
      <4>1. /\ i + 1 \in DOMAIN stk[m] /\ s[m][i] = stk[m][i + 1]
            /\ Below(s[m], i, m) = Below(stk[m], i + 1, m)
        BY <1>8, <3>2
      <4> QED
        BY <3>2, <4>1 DEF MemoryIs
    <3> QED
      BY <3>1, <3>2
  <2>5. ASSUME NEW k \in Loaded, NEW i \in DOMAIN s[k], NEW j \in DOMAIN s[k], i < j
        PROVE  Earlier(s[k][j], s[k][i])
    <3>1. CASE k # m
      <4>1. s[k] = stk[k]
        BY <1>8, <3>1 DEF Loaded
      <4> QED
        BY <2>5, <4>1 DEF MemoryIs
    <3>2. CASE k = m
      <4>1. /\ i + 1 \in DOMAIN stk[m] /\ s[m][i] = stk[m][i + 1]
            /\ j + 1 \in DOMAIN stk[m] /\ s[m][j] = stk[m][j + 1]
        BY <1>8, <3>2
      <4>2. i + 1 < j + 1
        BY <1>8, <2>5, <3>2
      <4> QED
        BY <3>2, <4>1, <4>2 DEF MemoryIs
    <3> QED
      BY <3>1, <3>2
  <2>6. ASSUME NEW k \in Loaded, NEW i \in DOMAIN s[k]
        PROVE  /\ s[k][i] \in Allocated'
               /\ Wants(s[k][i])' = place[k]
               /\ data'[s[k][i]].address = place[k]
               /\ data'[s[k][i]].replaced = Below(s[k], i, k)
    BY <1>16, <1>18, <1>19, <2>4
  <2> QED
    BY <1>1, <1>8, <1>17, <2>1, <2>2, <2>3, <2>5, <2>6 DEF MemoryIs
<1>21. AddressesApart'
  BY <1>1, <1>16, <1>18, ApartKeeps
<1>22. Attended' = Attended /\ Listed \subseteq Allocated
  BY <1>1, <1>2, <1>12 DEF Attended, ListedOnce
<1>23. FlagsFollow(s, t)'
  <2>1. \A p \in Objects : OnStack(s, p) => data'[p].isPatched /\ p \in Listed'
    BY <1>5, <1>8, <1>10, <1>17, <1>18
  <2>2. \A p \in Listed' : data'[p].isPatched /\ Attended' => OnStack(s, p)
    BY <1>2, <1>8, <1>15, <1>17, <1>18, <1>22 DEF FlagsFollow
  <2>3. \A p \in Listed' : ForResident(p)' =>
          OnStack(s, p) \/ (th'[t].op = "remove" /\ th'[t].removed = p)
    BY <1>3, <1>4, <1>8, <1>12, <1>17, <1>19, <1>22 DEF FlagsFollow
  <2>4. \A p \in Allocated' : data'[p].isPatched => data'[p].address \in Addrs
    BY <1>15, <1>16, <1>18 DEF FlagsFollow
  <2> QED
    BY <2>1, <2>2, <2>3, <2>4 DEF FlagsFollow
<1>24. NoneForgotten(s, t)'
  <2> SUFFICES ASSUME Attended, NEW p \in Listed, ShouldBePatched(p), Wants(p) # NULL,
                      ~data'[p].isPatched
               PROVE  /\ Pending(t, p)'
                      /\ \A k \in Loaded : Wants(p) = place[k] =>
                           \A i \in DOMAIN s[k] : s[k][i] = p \/ Earlier(s[k][i], p)
    BY <1>1, <1>17, <1>19, <1>22 DEF NoneForgotten
  <2>1. p = o
    <3>1. CASE ~data[p].isPatched
      <4>1. Pending(t, p)
        BY <3>1 DEF NoneForgotten
      <4> QED
        BY <1>2, <1>3, <1>4, <4>1 DEF Pending
    <3>2. CASE data[p].isPatched
      BY <1>18, <1>22, <3>2
    <3> QED
      BY <3>1, <3>2
  <2>2. Pending(t, p)'
    BY <1>12, <2>1 DEF Pending
  <2>3. ASSUME NEW k \in Loaded, NEW i \in DOMAIN s[k]
        PROVE  s[k][i] = p \/ Earlier(s[k][i], p)
    <3>1. OnStack(s, s[k][i])
      BY DEF OnStack, Loaded
    <3>2. s[k][i] \in Listed
      BY <1>5, <1>8, <3>1
    <3> QED
      BY <1>5, <2>1, <3>2, LastListed
  <2> QED
    BY <2>2, <2>3
<1>25. PatchingInOrder(s, t)'
  BY <1>12 DEF PatchingInOrder
<1>26. RemovingLatest(s, t)'
  BY <1>1, <1>5, <1>10, <1>12 DEF RemovingLatest
<1>27. SerialInv(s)'
  BY <1>20, <1>21, <1>23, <1>24, <1>25, <1>26, PutTogether
<1> QED
  BY <1>6, <1>s, <1>27

\* What comes earlier stays earlier when the latest goes.
LEMMA EraseKeepsOrder ==
  ASSUME IndInv, NEW t \in Threads, Erase(t), NEW p, NEW q, Earlier(p, q),
         p # th[t].removed
  PROVE  Earlier(p, q)'
<1>1. /\ list \in Seq(Objects) /\ Len(list) \in Nat /\ DOMAIN list = 1 .. Len(list)
      /\ list' \in Seq(Objects) /\ Len(list') = Len(list) - 1
      /\ DOMAIN list' = 1 .. Len(list) - 1
  BY EraseRemoves DEF IndInv, TypeOK
<1>2. PICK k \in DOMAIN list :
        /\ list[k] = th[t].removed
        /\ \A i \in 1 .. Len(list) - 1 : list'[i] = IF i < k THEN list[i] ELSE list[i + 1]
  BY EraseRemoves
<1>3. PICK n \in DOMAIN list : list[n] = p /\ \A j \in DOMAIN list : list[j] = q => n < j
  BY DEF Earlier
<1> DEFINE i == IF n < k THEN n ELSE n - 1
<1>4. n # k /\ n \in 1 .. Len(list) /\ k \in 1 .. Len(list)
  BY <1>1, <1>2, <1>3
<1>5. i \in 1 .. Len(list) - 1 /\ n = IF i < k THEN i ELSE i + 1
  BY <1>1, <1>4
<1>6. list'[i] = p
  BY <1>2, <1>3, <1>5
<1>7. ASSUME NEW j \in 1 .. Len(list) - 1, list'[j] = q PROVE i < j
  <2> DEFINE h == IF j < k THEN j ELSE j + 1
  <2>1. h \in DOMAIN list /\ list[h] = q
    BY <1>1, <1>2, <1>4, <1>7
  <2>2. n < h
    BY <1>3, <2>1
  <2> QED
    BY <1>1, <1>4, <2>2
<1> HIDE DEF i
<1> QED
  BY <1>1, <1>5, <1>6, <1>7 DEF Earlier

\* The object that is erased is on no stack.
LEMMA EraseSerial ==
  ASSUME NEW stk, NEW t, Working(stk, t), Erase(t)
  PROVE  SerialInv(stk)' /\ ~OnStack(stk, th[t].removed)
<1> USE DEF Working
<1> DEFINE o == th[t].removed
<1>1. /\ UNCHANGED <<place, title, data, text, notify>>
      /\ th[t].pc = "undo" /\ th[t].todo = {}
      /\ th' = [th EXCEPT ![t].pc = "next", ![t].todo = ToBeReapplied(t), ![t].position = 0]
  BY DEF Erase
<1>2. th[t].op = "remove" /\ Listed' = Listed \ {o} /\ o \in Listed
  BY EraseRemoves
<1>3. ~OnStack(stk, o) /\ th[t].later = {}
  BY <1>1, <1>2 DEF RemovingLatest
<1>4. /\ th'[t].pc = "next" /\ th'[t].op = "remove" /\ th'[t].cur = th[t].cur
      /\ th'[t].removed = o /\ th'[t].later = {} /\ th'[t].todo = {}
  <2>1. ToBeReapplied(t) = {}
    BY <1>3 DEF ToBeReapplied
  <2> QED
    BY <1>1, <1>2, <1>3, <2>1 DEF LocalStates
<1>5. /\ Loaded' = Loaded /\ Occupied' = Occupied /\ Allocated' = Allocated
      /\ \A p : /\ Wants(p)' = Wants(p) /\ ForResident(p)' = ForResident(p)
               /\ ShouldBePatched(p)' = ShouldBePatched(p)
  BY <1>1 DEF Loaded, Occupied, Allocated, Wants, ForResident, ShouldBePatched
<1>6. \A p, q : Earlier(p, q) /\ p # o => Earlier(p, q)'
  BY EraseKeepsOrder
<1>7. MemoryIs(stk)'
  BY <1>1, <1>3, <1>5, <1>6, MemoryKeeps
<1>8. AddressesApart'
  BY <1>1, <1>5, ApartKeeps
<1>9. Attended' = Attended
  BY <1>1, <1>2, <1>4 DEF Attended
<1>10. FlagsFollow(stk, t)'
  BY <1>1, <1>2, <1>3, <1>4, <1>5, <1>9 DEF FlagsFollow
<1>11. NoneForgotten(stk, t)'
  <2> SUFFICES ASSUME Attended, NEW p \in Listed, p # o, ShouldBePatched(p), Wants(p) # NULL,
                      ~data[p].isPatched
               PROVE  FALSE
    BY <1>1, <1>2, <1>5, <1>9 DEF NoneForgotten
  <2>1. Pending(t, p)
    BY DEF NoneForgotten
  <2> QED
    BY <1>2, <2>1 DEF Pending
<1>12. PatchingInOrder(stk, t)'
  BY <1>4 DEF PatchingInOrder
<1>13. RemovingLatest(stk, t)'
  BY <1>3, <1>4 DEF RemovingLatest
<1> QED
  BY <1>3, <1>7, <1>8, <1>10, <1>11, <1>12, <1>13, PutTogether

\* The object that is freed is on no stack and not registered.
LEMMA FinishRemoveSerial ==
  ASSUME NEW stk, NEW t, Working(stk, t), FinishRemove(t)
  PROVE  SerialInv(stk)'
<1> USE DEF Working
<1> DEFINE o == th[t].removed
<1>1. /\ UNCHANGED <<place, title, text, list, notify>>
      /\ th[t].pc = "next" /\ th[t].op = "remove"
      /\ data' = [data EXCEPT ![o] = NULL]
      /\ th' = [th EXCEPT ![t] = Idle]
  BY DEF FinishRemove, LoopDone, Destroy
<1>2. ~OnStack(stk, o)
  BY <1>1 DEF RemovingLatest
<1>3. o \notin Listed /\ o \in Objects
  <2>1. Holds(t)
    BY <1>1 DEF Holds
  <2> QED
    BY <1>1, <2>1 DEF WorksOnOwn, Allocated
<1>4. th'[t] = Idle /\ Idle.op = "none" /\ Idle.pc = "idle"
  BY <1>1 DEF Idle
<1>5. /\ \A p \in Objects : p # o => data'[p] = data[p]
      /\ data'[o] = NULL
  BY <1>1, <1>3 DEF TypeOK
<1>6. /\ Allocated' = Allocated \ {o}
      /\ \A p \in Allocated' : p \in Allocated /\ data'[p] = data[p]
      /\ \A p \in Listed : p \in Allocated /\ data'[p] = data[p]
  BY <1>3, <1>5 DEF Allocated, ListedOnce
<1>7. /\ Listed' = Listed /\ Loaded' = Loaded /\ Occupied' = Occupied
      /\ \A p, q : Earlier(p, q)' = Earlier(p, q)
  BY <1>1 DEF Listed, Loaded, Occupied, Earlier
<1>8. \A p \in Allocated' : /\ Wants(p)' = Wants(p) /\ ForResident(p)' = ForResident(p)
                            /\ ShouldBePatched(p)' = ShouldBePatched(p)
  BY <1>1, <1>6 DEF Wants, ForResident, ShouldBePatched
<1>9. \A p \in Listed : p \in Allocated'
  BY <1>3, <1>6
<1>10. \A p : OnStack(stk, p) => p \in Allocated' /\ data'[p] = data[p]
  BY <1>2, <1>6
<1>11. MemoryIs(stk)'
  BY <1>1, <1>7, <1>10, MemoryKeeps
<1>12. AddressesApart'
  BY <1>1, <1>6, ApartKeeps
<1>13. Attended' = Attended
  BY <1>1, <1>4 DEF Attended
<1>14. FlagsFollow(stk, t)'
  <2>1. \A p \in Objects : OnStack(stk, p) => data'[p].isPatched /\ p \in Listed'
    BY <1>1, <1>7, <1>10 DEF FlagsFollow
  <2>2. \A p \in Listed' : data'[p].isPatched /\ Attended' => OnStack(stk, p)
    BY <1>1, <1>6, <1>7, <1>13 DEF FlagsFollow
  <2>3. \A p \in Listed' : ForResident(p)' => OnStack(stk, p)
    BY <1>3, <1>7, <1>8, <1>9 DEF FlagsFollow
  <2>4. \A p \in Allocated' : data'[p].isPatched => data'[p].address \in Addrs
    BY <1>6 DEF FlagsFollow
  <2> QED
    BY <2>1, <2>2, <2>3, <2>4 DEF FlagsFollow
<1>15. NoneForgotten(stk, t)'
  <2> SUFFICES ASSUME Attended, NEW p \in Listed, ShouldBePatched(p), Wants(p) # NULL,
                      ~data[p].isPatched
               PROVE  FALSE
    BY <1>1, <1>6, <1>7, <1>8, <1>9, <1>13 DEF NoneForgotten
  <2>1. Pending(t, p)
    BY DEF NoneForgotten
  <2> QED
    BY <1>1, <1>3, <2>1 DEF Pending
<1>16. PatchingInOrder(stk, t)'
  BY <1>4 DEF PatchingInOrder
<1>17. RemovingLatest(stk, t)'
  BY <1>4 DEF RemovingLatest
<1> QED
  BY <1>11, <1>12, <1>14, <1>15, <1>16, <1>17, PutTogether
------------------------------------------------------------------------------
(* FPAddFunctionPatch.                                                      *)

\* A new object is on no stack.
LEMMA FPAddFunctionPatchSerial ==
  ASSUME NEW stk, NEW t, Working(stk, t), NEW tg \in Targets, FPAddFunctionPatch(t, tg)
  PROVE  SerialInv(stk)'
<1> USE DEF Working
<1>1. /\ UNCHANGED <<place, title, text, list, notify>>
      /\ th[t] = Idle
  BY DEF FPAddFunctionPatch, MayCall
<1>2. PICK o \in Objects \ Allocated :
        /\ data' = [data EXCEPT ![o] = MakeShared(tg)]
        /\ th' = [th EXCEPT ![t] = [Idle EXCEPT !.op = "add", !.pc = "patch", !.cur = o]]
  BY DEF FPAddFunctionPatch
<1>3. /\ th'[t].op = "add" /\ th'[t].pc = "patch" /\ th'[t].cur = o
      /\ th[t].op = "none" /\ th[t].pc = "idle"
  BY <1>1, <1>2 DEF Idle
<1>4. /\ \A p \in Objects : p # o => data'[p] = data[p]
      /\ data'[o] = MakeShared(tg)
  BY <1>2 DEF TypeOK
<1>5. /\ data'[o].target = tg /\ data'[o].isPatched = FALSE /\ data'[o].address = tg.addr
      /\ data'[o] # NULL
  <2>1. tg.addr \in Addrs \union {NULL}
    BY TargetsAssumption
  <2>2. MakeShared(tg) \in ObjectRecords
    BY <2>1 DEF MakeShared, ObjectRecords, Words
  <2>3. MakeShared(tg) # NULL
    BY <2>2, NullRecordAssumption
  <2> QED
    BY <1>4, <2>3 DEF MakeShared
<1>6. /\ Allocated' = Allocated \union {o} /\ ~OnStack(stk, o) /\ o \notin Listed
      /\ \A p \in Allocated : data'[p] = data[p] /\ p # o
      /\ Listed \subseteq Allocated
  BY <1>2, <1>4, <1>5 DEF Allocated, ListedOnce
<1>7. /\ Listed' = Listed /\ Loaded' = Loaded /\ Occupied' = Occupied
      /\ \A p, q : Earlier(p, q)' = Earlier(p, q)
  BY <1>1 DEF Listed, Loaded, Occupied, Earlier
<1>8. \A p \in Allocated : /\ Wants(p)' = Wants(p) /\ ForResident(p)' = ForResident(p)
                           /\ ShouldBePatched(p)' = ShouldBePatched(p)
  BY <1>1, <1>6 DEF Wants, ForResident, ShouldBePatched
<1>9. MemoryIs(stk)'
  BY <1>1, <1>6, <1>7, MemoryKeeps
<1>10. AddressesApart'
  <2>1. data'[o].address \in {NULL, Wants(o)'}
    BY <1>5, TargetsAssumption DEF Wants
  <2> QED
    BY <1>1, <1>6, <2>1, ApartKeeps
<1>11. Attended' = Attended
  BY <1>1, <1>3 DEF Attended
<1>12. FlagsFollow(stk, t)'
  <2>1. \A p \in Objects : OnStack(stk, p) => data'[p].isPatched /\ p \in Listed'
    BY <1>3, <1>6, <1>7 DEF FlagsFollow
  <2>2. \A p \in Listed' : data'[p].isPatched /\ Attended' => OnStack(stk, p)
    BY <1>3, <1>6, <1>7, <1>11 DEF FlagsFollow
  <2>3. \A p \in Listed' : ForResident(p)' => OnStack(stk, p)
    BY <1>3, <1>6, <1>7, <1>8 DEF FlagsFollow
  <2>4. \A p \in Allocated' : data'[p].isPatched => data'[p].address \in Addrs
    BY <1>5, <1>6 DEF FlagsFollow
  <2> QED
    BY <2>1, <2>2, <2>3, <2>4 DEF FlagsFollow
<1>13. NoneForgotten(stk, t)'
  <2> SUFFICES ASSUME Attended, NEW p \in Listed, ShouldBePatched(p), Wants(p) # NULL,
                      ~data[p].isPatched
               PROVE  FALSE
    BY <1>6, <1>7, <1>8, <1>11 DEF NoneForgotten
  <2> QED
    BY <1>3, NothingPending
<1>14. PatchingInOrder(stk, t)'
  BY <1>3, <1>5 DEF PatchingInOrder, Current
<1>15. RemovingLatest(stk, t)'
  BY <1>3 DEF RemovingLatest
<1> QED
  BY <1>9, <1>10, <1>12, <1>13, <1>14, <1>15, PutTogether

\* What is registered last is over all that is there.
LEMMA PushBackKeepsOrder ==
  ASSUME IndInv, NEW t \in Threads, PushBack(t), NEW p, NEW q, Earlier(p, q)
  PROVE  Earlier(p, q)'
<1>1. /\ list \in Seq(Objects) /\ Len(list) \in Nat /\ DOMAIN list = 1 .. Len(list)
      /\ list' \in Seq(Objects) /\ Len(list') = Len(list) + 1
      /\ DOMAIN list' = 1 .. Len(list) + 1
      /\ \A i \in 1 .. Len(list) : list'[i] = list[i]
  BY PushBackAppends DEF IndInv, TypeOK
<1>2. PICK n \in DOMAIN list : list[n] = p /\ \A j \in DOMAIN list : list[j] = q => n < j
  BY DEF Earlier
<1>3. n \in DOMAIN list' /\ list'[n] = p
  BY <1>1, <1>2
<1>4. ASSUME NEW j \in DOMAIN list', list'[j] = q PROVE n < j
  <2>1. CASE j \in 1 .. Len(list)
    BY <1>1, <1>2, <1>4, <2>1
  <2>2. CASE j = Len(list) + 1
    BY <1>1, <2>2
  <2> QED
    BY <1>1, <2>1, <2>2
<1> QED
  BY <1>3, <1>4 DEF Earlier

\* The object just added is registered last, over all others of its function.
LEMMA PushBackSerial ==
  ASSUME NEW stk, NEW t, Working(stk, t), PushBack(t)
  PROVE  SerialInv(stk)'
<1> USE DEF Working
<1> DEFINE o == th[t].cur
<1>1. /\ UNCHANGED <<place, title, data, text, notify>>
      /\ th[t].pc = "push" /\ th' = [th EXCEPT ![t] = Idle]
  BY DEF PushBack
<1>2. th[t].op = "add" /\ o \in Allocated \ Listed /\ Listed' = Listed \union {o}
  BY PushBackAppends
<1>3. th'[t] = Idle /\ Idle.op = "none" /\ Idle.pc = "idle" /\ title # NULL
  BY <1>1, Awake DEF Idle
<1>4. /\ Loaded' = Loaded /\ Occupied' = Occupied /\ Allocated' = Allocated
      /\ \A p : /\ Wants(p)' = Wants(p) /\ ForResident(p)' = ForResident(p)
               /\ ShouldBePatched(p)' = ShouldBePatched(p)
  BY <1>1 DEF Loaded, Occupied, Allocated, Wants, ForResident, ShouldBePatched
<1>5. \A p, q : Earlier(p, q) => Earlier(p, q)'
  BY PushBackKeepsOrder
<1>6. MemoryIs(stk)'
  BY <1>1, <1>4, <1>5, MemoryKeeps
<1>7. AddressesApart'
  BY <1>1, <1>4, ApartKeeps
<1>8. Attended' = Attended
  BY <1>1, <1>2, <1>3 DEF Attended
<1>9. /\ data[o].isPatched => OnStack(stk, o)
      /\ \/ data[o].isPatched
         \/ ~ShouldBePatched(o)
         \/ Wants(o) = NULL
         \/ ~Attended /\ ~ForResident(o)
  BY <1>1, <1>2 DEF PatchingInOrder, Current
<1>10. ForResident(o) => OnStack(stk, o)
  <2> SUFFICES ASSUME ForResident(o) PROVE OnStack(stk, o)
    OBVIOUS
  <2>1. ShouldBePatched(o)
    BY <1>2, <1>3, ResidentForAll
  <2>2. Wants(o) # NULL
    BY <1>2, WantsWhere, ResidentAssumption, NullAddressAssumption
  <2> QED
    BY <1>9, <2>1, <2>2
<1>11. FlagsFollow(stk, t)'
  <2>1. \A p \in Objects : OnStack(stk, p) => data[p].isPatched /\ p \in Listed'
    BY <1>1, <1>2 DEF FlagsFollow
  <2>2. \A p \in Listed' : data[p].isPatched /\ Attended => OnStack(stk, p)
    BY <1>2, <1>9 DEF FlagsFollow
  <2>3. \A p \in Listed' : ForResident(p) => OnStack(stk, p)
    BY <1>2, <1>10 DEF FlagsFollow
  <2>4. \A p \in Allocated : data[p].isPatched => data[p].address \in Addrs
    BY DEF FlagsFollow
  <2> QED
    BY <1>1, <1>4, <1>8, <2>1, <2>2, <2>3, <2>4 DEF FlagsFollow
<1>12. NoneForgotten(stk, t)'
  <2> SUFFICES ASSUME Attended, NEW p \in Listed', ShouldBePatched(p), Wants(p) # NULL,
                      ~data[p].isPatched
               PROVE  FALSE
    BY <1>1, <1>4, <1>8 DEF NoneForgotten
  <2>1. CASE p = o
    BY <1>9, <2>1
  <2>2. CASE p \in Listed
    BY <1>2, <2>2, NothingPending
  <2> QED
    BY <1>2, <2>1, <2>2
<1>13. PatchingInOrder(stk, t)'
  BY <1>3 DEF PatchingInOrder
<1>14. RemovingLatest(stk, t)'
  BY <1>3 DEF RemovingLatest
<1> QED
  BY <1>6, <1>7, <1>11, <1>12, <1>13, <1>14, PutTogether
------------------------------------------------------------------------------
(* The callback for a module that has come, and the end of the start hook.  *)

\* The loop goes through all that is registered.
LEMMA NotifyLoadedSerial ==
  ASSUME NEW stk, NEW t, Working(stk, t), NotifyLoaded(t)
  PROVE  SerialInv(stk)'
<1> USE DEF Working
<1>1. /\ UNCHANGED <<place, title, data, text, list, notify>>
      /\ th[t].pc = "wait" /\ th[t].op = "loaded"
      /\ th' = [th EXCEPT ![t].pc = "next", ![t].todo = Listed]
  BY DEF NotifyLoaded, Enter
<1>2. /\ th'[t].pc = "next" /\ th'[t].op = "loaded" /\ th'[t].cur = th[t].cur
      /\ th'[t].todo = Listed
  BY <1>1 DEF LocalStates
<1>3. /\ MemoryIs(stk)' /\ AddressesApart'
      /\ Listed' = Listed /\ Loaded' = Loaded /\ Occupied' = Occupied
      /\ Allocated' = Allocated
      /\ \A p : /\ Wants(p)' = Wants(p) /\ ForResident(p)' = ForResident(p)
               /\ ShouldBePatched(p)' = ShouldBePatched(p)
      /\ \A p, q : Earlier(p, q)' = Earlier(p, q)
  BY <1>1, WordsStay
<1>4. Attended' = Attended
  BY <1>1, <1>2 DEF Attended
<1>5. FlagsFollow(stk, t)'
  BY <1>1, <1>2, <1>3, <1>4 DEF FlagsFollow
<1>6. NoneForgotten(stk, t)'
  BY <1>1, <1>2, <1>3, <1>4 DEF NoneForgotten, Pending
<1>7. PatchingInOrder(stk, t)'
  BY <1>2 DEF PatchingInOrder
<1>8. RemovingLatest(stk, t)'
  BY <1>2 DEF RemovingLatest
<1> QED
  BY <1>3, <1>5, <1>6, <1>7, <1>8, PutTogether

\* A loop that ends has left nothing to do.
LEMMA FinishLoopSerial ==
  ASSUME NEW stk, NEW t, Working(stk, t), NEW op \in {"loaded", "start"}, LoopDone(t, op),
         UNCHANGED <<place, title, data, text, list>>,
         notify' = TRUE \/ (op = "loaded" /\ notify' = notify),
         th' = [th EXCEPT ![t] = Idle]
  PROVE  SerialInv(stk)'
<1> USE DEF Working
<1>1. th[t].pc = "next" /\ th[t].op = op /\ th[t].todo = {}
  BY DEF LoopDone
<1>2. th'[t] = Idle /\ Idle.op = "none" /\ Idle.pc = "idle"
  BY DEF Idle
<1>3. /\ MemoryIs(stk)' /\ AddressesApart'
      /\ Listed' = Listed /\ Loaded' = Loaded /\ Occupied' = Occupied
      /\ Allocated' = Allocated
      /\ \A p : /\ Wants(p)' = Wants(p) /\ ForResident(p)' = ForResident(p)
               /\ ShouldBePatched(p)' = ShouldBePatched(p)
      /\ \A p, q : Earlier(p, q)' = Earlier(p, q)
  BY WordsStay
<1>4. Attended' /\ Attended
  <2>1. op = "loaded" => notify
    BY <1>1 DEF LoaderInv, Notified
  <2> QED
    BY <1>1, <2>1 DEF Attended
<1>5. FlagsFollow(stk, t)'
  BY <1>1, <1>2, <1>3, <1>4 DEF FlagsFollow
<1>6. NoneForgotten(stk, t)'
  BY <1>1, <1>2, <1>3, <1>4 DEF NoneForgotten, Pending
<1>7. PatchingInOrder(stk, t)'
  BY <1>2 DEF PatchingInOrder
<1>8. RemovingLatest(stk, t)'
  BY <1>2 DEF RemovingLatest
<1> QED
  BY <1>3, <1>5, <1>6, <1>7, <1>8, PutTogether

\* A callback is done only when it has come to every object.
LEMMA FinishLoadedSerial ==
  ASSUME NEW stk, NEW t, Working(stk, t), FinishLoaded(t)
  PROVE  SerialInv(stk)'
BY FinishLoopSerial DEF FinishLoaded

\* The start of an application is done only when it has come to every object.
LEMMA FinishStartSerial ==
  ASSUME NEW stk, NEW t, Working(stk, t), FinishStart(t)
  PROVE  SerialInv(stk)'
BY FinishLoopSerial DEF FinishStart
------------------------------------------------------------------------------
(* The flags that the callbacks and hooks clear.                            *)

\* e is d but for flags that were cleared.
FlagsCleared(d, e) ==
  \A o \in Objects :
    /\ d[o] = NULL => e[o] = NULL
    /\ d[o] # NULL =>
         /\ e[o] # NULL
         /\ e[o].target = d[o].target
         /\ e[o].address = d[o].address
         /\ e[o].replaced = d[o].replaced
         /\ e[o].isPatched => d[o].isPatched

\* What stays marked is listed for an address where the word is as it was.
LEMMA MarkedIsUnchanged ==
  ASSUME NEW d \in [Objects -> ObjectRecords \union {NULL}], NEW txt,
         \A o \in Listed : o \in Objects /\ d[o] # NULL
  PROVE  LET e == StillInMemory(d, txt)
         IN  /\ FlagsCleared(d, e)
             /\ \A o \in Listed : e[o].isPatched =>
                  IsUnchanged(d, d[o].address, txt[d[o].address])
             /\ \A o \in Objects : o \notin Listed
                                   \/ IsUnchanged(d, d[o].address, txt[d[o].address])
                                   => e[o] = d[o]
<1> DEFINE e == StillInMemory(d, txt)
           Differs(o) == /\ o \in Listed /\ d[o].isPatched
                         /\ ~IsUnchanged(d, d[o].address, txt[d[o].address])
<1>1. \A o \in Objects : e[o] = IF Differs(o) THEN [d[o] EXCEPT !.isPatched = FALSE] ELSE d[o]
  BY DEF StillInMemory
<1>2. \A o \in Listed : o \in Objects => d[o] \in ObjectRecords
  OBVIOUS
<1>3. ASSUME NEW o \in Objects, Differs(o)
      PROVE  /\ e[o] \in ObjectRecords
             /\ e[o].target = d[o].target /\ e[o].address = d[o].address
             /\ e[o].replaced = d[o].replaced /\ e[o].isPatched = FALSE
  <2>1. d[o] \in ObjectRecords
    BY <1>2, <1>3
  <2>2. e[o] = [d[o] EXCEPT !.isPatched = FALSE]
    BY <1>1, <1>3
  <2> QED
    BY <2>1, <2>2 DEF ObjectRecords
<1>4. \A o \in Objects : ~Differs(o) => e[o] = d[o]
  BY <1>1
<1> HIDE DEF e
<1>5. FlagsCleared(d, e)
  <2> SUFFICES ASSUME NEW o \in Objects
               PROVE  /\ d[o] = NULL => e[o] = NULL
                      /\ d[o] # NULL => /\ e[o] # NULL
                                        /\ e[o].target = d[o].target
                                        /\ e[o].address = d[o].address
                                        /\ e[o].replaced = d[o].replaced
                                        /\ e[o].isPatched => d[o].isPatched
    BY DEF FlagsCleared
  <2>1. CASE Differs(o)
    <3>1. d[o] # NULL /\ e[o] # NULL
      BY <1>3, <2>1, NullRecordAssumption
    <3> QED
      BY <1>3, <2>1, <3>1
  <2>2. CASE ~Differs(o)
    BY <1>4, <2>2
  <2> QED
    BY <2>1, <2>2
<1>6. ASSUME NEW o \in Listed, e[o].isPatched
      PROVE  IsUnchanged(d, d[o].address, txt[d[o].address])
  <2>1. o \in Objects
    OBVIOUS
  <2> QED
    BY <1>3, <1>4, <1>6, <2>1
<1>7. \A o \in Objects : o \notin Listed \/ IsUnchanged(d, d[o].address, txt[d[o].address])
                         => e[o] = d[o]
  BY <1>4
<1> QED
  BY <1>5, <1>6, <1>7 DEF e

\* A stack whose objects, and no others, are marked for its address is unchanged.
LEMMA StackIsUnchanged ==
  ASSUME IndInv, LoaderInv, NEW stk, MemoryIs(stk), NEW m \in Loaded, stk[m] # <<>>,
         NEW d, NEW word, word = text[place[m]],
         \A i \in DOMAIN stk[m] : /\ stk[m][i] \in Listed
                                  /\ d[stk[m][i]].isPatched
                                  /\ d[stk[m][i]].address = place[m],
         \A p \in Listed : d[p].isPatched /\ d[p].address = place[m] =>
                             OnStack(stk, p) /\ Wants(p) = place[m]
  PROVE  IsUnchanged(d, place[m], word)
<1> DEFINE o == stk[m][1]
<1>1. /\ Len(stk[m]) \in Nat /\ DOMAIN stk[m] = 1 .. Len(stk[m])
      /\ stk[m] \in Seq(Objects)
  BY StackFits DEF MemoryIs, Loaded
<1>2. 1 \in DOMAIN stk[m]
  BY <1>1, EmptySeq
<1>3. word = o
  BY DEF MemoryIs, Top
<1>4. o \in Listed /\ d[o].isPatched /\ d[o].address = place[m]
  BY <1>2
<1>5. ASSUME NEW p \in Listed, d[p].isPatched, d[p].address = place[m]
      PROVE  Before(p, o)
  <2>1. PICK i \in DOMAIN stk[m] : stk[m][i] = p
    BY <1>5, StackedOnce
  <2>2. CASE i = 1
    <3>1. PICK k \in DOMAIN list : list[k] = p
      BY DEF Listed, Range
    <3>2. k \in Nat
      BY DEF IndInv, TypeOK
    <3> QED
      BY <2>1, <2>2, <3>1, <3>2 DEF Before
  <2>3. CASE i # 1
    <3>1. 1 < i
      BY <1>1, <2>1, <2>3
    <3>2. Earlier(p, o)
      BY <1>2, <2>1, <3>1 DEF MemoryIs
    <3> QED
      BY <1>4, <3>2, EarlierBefore DEF IndInv
  <2> QED
    BY <2>2, <2>3
<1> QED
  BY <1>3, <1>4, <1>5 DEF IsUnchanged

\* Resident functions stay where they are.
LEMMA ResidentWants ==
  ASSUME IndInv, LoaderInv, NEW o \in Allocated, ForResident(o),
         data'[o].target = data[o].target,
         \A m \in DOMAIN Resident : place'[m] = Resident[m]
  PROVE  Wants(o)' = Wants(o) /\ ForResident(o)'
BY DEF Wants, ForResident, LoaderInv

\* The library whose row holds the handle of the module that has left has left.
LEMMA RowOfLeftModule ==
  ASSUME NEW stk, NEW t, Working(stk, t), NotifyUnloaded(t), NEW l,
         l = GetTypeForHandle(th[t].module), l # NULL
  PROVE  l \in Libraries /\ l \in Modules /\ place[l] = NULL
<1> USE DEF Working
<1> DEFINE h == th[t].module
<1>1. th[t].op = "unloaded" /\ h \in Addrs \ Occupied /\ Attended
  BY DEF NotifyUnloaded, Enter, CacheInv, Attended, LoaderInv, Notified
<1>2. l \in Libraries /\ handle[l] = h
  BY DEF GetTypeForHandle, RowsOf
<1>3. l \in Modules /\ h # NULL
  BY <1>1, <1>2, LibrariesAssumption, NullAddressAssumption
<1>4. handle[l] \notin {NULL, place[l]}
  BY <1>1, <1>2, <1>3 DEF Occupied
<1> QED
  BY <1>1, <1>2, <1>3, <1>4 DEF CacheInv

\* The first of the two loops of the callback: it clears flags of a library that
\* has left, and what is on a stack is for a module that is there.
LEMMA FirstLoop ==
  ASSUME NEW stk, NEW t, Working(stk, t), NotifyUnloaded(t), NEW d,
         LET l == GetTypeForHandle(th[t].module)
         IN  d = IF l # NULL THEN LibraryUnloaded(l) ELSE data
  PROVE  /\ d \in [Objects -> ObjectRecords \union {NULL}]
         /\ FlagsCleared(data, d)
         /\ \A o : OnStack(stk, o) => d[o] = data[o]
         /\ \A o \in Listed : Wants(o) # NULL => d[o] = data[o]
<1> USE DEF Working
<1> DEFINE l == GetTypeForHandle(th[t].module)
           S == {o \in Listed : /\ l # NULL /\ data[o].target.kind = "library"
                                /\ data[o].target.module = l}
<1>1. data \in [Objects -> ObjectRecords \union {NULL}]
  BY DEF TypeOK
<1>2. d = [o \in Objects |-> IF o \in S THEN [data[o] EXCEPT !.isPatched = FALSE] ELSE data[o]]
  <2>1. CASE l # NULL
    BY <2>1 DEF LibraryUnloaded
  <2>2. CASE l = NULL
    BY <1>1, <2>2
  <2> QED
    BY <2>1, <2>2
<1>3. \A o \in S : o \in Allocated /\ Wants(o) = NULL
  BY RowOfLeftModule DEF ListedOnce, Wants
<1> HIDE DEF S
<1>4. ASSUME NEW o \in S
      PROVE  /\ d[o] \in ObjectRecords
             /\ d[o].target = data[o].target /\ d[o].address = data[o].address
             /\ d[o].replaced = data[o].replaced /\ d[o].isPatched = FALSE
  <2>1. o \in Objects /\ data[o] \in ObjectRecords
    BY <1>3, RecordOf
  <2>2. d[o] = [data[o] EXCEPT !.isPatched = FALSE]
    BY <1>2, <2>1
  <2> QED
    BY <2>1, <2>2 DEF ObjectRecords
<1>5. \A o \in Objects : o \notin S => d[o] = data[o]
  BY <1>2
<1>6. d \in [Objects -> ObjectRecords \union {NULL}]
  <2>1. \A o \in Objects : d[o] \in ObjectRecords \union {NULL}
    BY <1>1, <1>4, <1>5
  <2> QED
    BY <1>2, <2>1
<1>7. FlagsCleared(data, d)
  <2> SUFFICES ASSUME NEW o \in Objects
               PROVE  /\ data[o] = NULL => d[o] = NULL
                      /\ data[o] # NULL => /\ d[o] # NULL
                                           /\ d[o].target = data[o].target
                                           /\ d[o].address = data[o].address
                                           /\ d[o].replaced = data[o].replaced
                                           /\ d[o].isPatched => data[o].isPatched
    BY DEF FlagsCleared
  <2>1. CASE o \in S
    <3>1. data[o] # NULL
      BY <1>3, <2>1 DEF Allocated
    <3>2. d[o] # NULL
      BY <1>4, <2>1, NullRecordAssumption
    <3> QED
      BY <1>4, <2>1, <3>1, <3>2
  <2>2. CASE o \notin S
    BY <1>5, <2>2
  <2> QED
    BY <2>1, <2>2
<1>8. ASSUME NEW o, OnStack(stk, o) PROVE d[o] = data[o]
  <2>1. Wants(o) # NULL /\ o \in Objects
    BY <1>8, Stacked, NullAddressAssumption DEF Allocated
  <2> QED
    BY <1>3, <1>5, <2>1
<1>9. \A o \in Listed : Wants(o) # NULL => d[o] = data[o]
  BY <1>3, <1>5 DEF ListedOnce, Allocated
<1> QED
  BY <1>6, <1>7, <1>8, <1>9

\* What FlagsCleared leaves.
LEMMA ClearedKeeps ==
  ASSUME NEW d, FlagsCleared(data, d), data' = d,
         UNCHANGED <<place, title, text, list>>
  PROVE  /\ Allocated' = Allocated
         /\ Listed' = Listed /\ Loaded' = Loaded /\ Occupied' = Occupied
         /\ \A p, q : Earlier(p, q)' = Earlier(p, q)
         /\ \A p \in Allocated : /\ data'[p].isPatched => data[p].isPatched
                                 /\ data'[p].target = data[p].target
                                 /\ data'[p].address = data[p].address
                                 /\ data'[p].replaced = data[p].replaced
                                 /\ Wants(p)' = Wants(p)
                                 /\ ForResident(p)' = ForResident(p)
                                 /\ ShouldBePatched(p)' = ShouldBePatched(p)
<1>1. Allocated' = Allocated
  BY DEF FlagsCleared, Allocated
<1>2. \A p \in Allocated : /\ data'[p].isPatched => data[p].isPatched
                           /\ data'[p].target = data[p].target
                           /\ data'[p].address = data[p].address
                           /\ data'[p].replaced = data[p].replaced
  BY DEF FlagsCleared, Allocated
<1>3. \A p \in Allocated : /\ Wants(p)' = Wants(p)
                           /\ ForResident(p)' = ForResident(p)
                           /\ ShouldBePatched(p)' = ShouldBePatched(p)
  BY <1>2 DEF Wants, ForResident, ShouldBePatched
<1>4. Listed' = Listed /\ Loaded' = Loaded /\ Occupied' = Occupied
  BY DEF Listed, Loaded, Occupied
<1>5. \A p, q : Earlier(p, q)' = Earlier(p, q)
  BY DEF Earlier
<1> QED
  BY <1>1, <1>2, <1>3, <1>4, <1>5

\* The callback for a module that left clears the flags of its objects.
LEMMA NotifyUnloadedSerial ==
  ASSUME NEW stk, NEW t, Working(stk, t), NotifyUnloaded(t)
  PROVE  SerialInv(stk)'
<1> USE DEF Working
<1> DEFINE h == th[t].module
<1>1. /\ UNCHANGED <<place, title, text, list, notify>>
      /\ th[t].pc = "wait" /\ th[t].op = "unloaded"
      /\ th' = [th EXCEPT ![t] = Idle]
  BY DEF NotifyUnloaded, Enter
<1>2. PICK d : /\ LET l == GetTypeForHandle(h)
                  IN  d = IF l # NULL THEN LibraryUnloaded(l) ELSE data
               /\ data' = StillInMemory(d, text)
  BY DEF NotifyUnloaded
<1>3. /\ d \in [Objects -> ObjectRecords \union {NULL}]
      /\ FlagsCleared(data, d)
      /\ \A o : OnStack(stk, o) => d[o] = data[o]
      /\ \A o \in Listed : Wants(o) # NULL => d[o] = data[o]
  BY <1>2, FirstLoop
<1>4. th'[t] = Idle /\ Idle.op = "none" /\ Idle.pc = "idle"
  BY <1>1 DEF Idle
<1>5. notify /\ Attended /\ Attended' /\ h \in Addrs \ Occupied
  BY <1>1 DEF Attended, LoaderInv, CacheInv, Notified
<1>6. Listed \subseteq Allocated /\ Listed \subseteq Objects
  BY DEF ListedOnce, Allocated
<1>7. \A o \in Listed : d[o] # NULL
  BY <1>3, <1>6 DEF FlagsCleared, Allocated
<1>8. /\ FlagsCleared(d, data')
      /\ \A o \in Listed : data'[o].isPatched =>
           IsUnchanged(d, d[o].address, text[d[o].address])
      /\ \A o \in Objects : o \notin Listed
                            \/ IsUnchanged(d, d[o].address, text[d[o].address])
                            => data'[o] = d[o]
  BY <1>2, <1>3, <1>6, <1>7, MarkedIsUnchanged
<1>9. FlagsCleared(data, data')
  BY <1>3, <1>8 DEF FlagsCleared
<1>10. /\ Allocated' = Allocated
       /\ Listed' = Listed /\ Loaded' = Loaded /\ Occupied' = Occupied
       /\ \A p, q : Earlier(p, q)' = Earlier(p, q)
       /\ \A p \in Allocated : /\ data'[p].isPatched => data[p].isPatched
                               /\ data'[p].target = data[p].target
                               /\ data'[p].address = data[p].address
                               /\ data'[p].replaced = data[p].replaced
                               /\ Wants(p)' = Wants(p)
                               /\ ForResident(p)' = ForResident(p)
                               /\ ShouldBePatched(p)' = ShouldBePatched(p)
  BY <1>1, <1>9, ClearedKeeps
<1>11. \A o \in Objects : OnStack(stk, o) => data[o].isPatched /\ o \in Listed
  BY <1>1 DEF FlagsFollow
<1>12. \A o \in Listed : /\ d[o].isPatched => data[o].isPatched
                         /\ d[o].address = data[o].address
  BY <1>3, <1>6 DEF FlagsCleared, Allocated
<1>13. ASSUME NEW o, OnStack(stk, o) PROVE data'[o] = data[o]
  <2>1. PICK m \in Loaded : \E i \in DOMAIN stk[m] :
          /\ stk[m][i] = o /\ o \in Allocated /\ data[o].address = place[m]
          /\ place[m] \in Occupied
    BY <1>13, Stacked
  <2>2. stk[m] # <<>>
    BY <2>1
  <2>3. ASSUME NEW i \in DOMAIN stk[m]
        PROVE  /\ stk[m][i] \in Listed /\ d[stk[m][i]].isPatched
               /\ d[stk[m][i]].address = place[m]
    <3>1. OnStack(stk, stk[m][i]) /\ stk[m][i] \in Objects
      BY DEF OnStack, Loaded, Allocated
    <3>2. data[stk[m][i]].address = place[m]
      BY DEF MemoryIs
    <3> QED
      BY <1>3, <1>11, <3>1, <3>2
  <2>4. ASSUME NEW p \in Listed, d[p].isPatched, d[p].address = place[m]
        PROVE  OnStack(stk, p) /\ Wants(p) = place[m]
    <3>1. data[p].isPatched /\ data[p].address = place[m] /\ place[m] # h
      BY <1>5, <1>12, <2>1, <2>4
    <3>2. OnStack(stk, p)
      BY <1>5, <3>1 DEF FlagsFollow
    <3> QED
      BY <3>1, <3>2, Stacked
  <2>5. IsUnchanged(d, place[m], text[place[m]])
    BY <2>2, <2>3, <2>4, StackIsUnchanged
  <2>6. d[o] = data[o] /\ o \in Objects
    BY <1>3, <1>13, <2>1 DEF Allocated
  <2> QED
    BY <1>8, <2>1, <2>5, <2>6
<1>14. ASSUME NEW o \in Listed, data'[o].isPatched PROVE OnStack(stk, o)
  <2>1. data[o].isPatched
    BY <1>6, <1>10, <1>14
  <2>2. IsUnchanged(d, d[o].address, text[d[o].address])
    BY <1>8, <1>14
  <2>3. data[o].address # h
    <3>1. text[h] = NULL
      BY <1>5 DEF MemoryIs
    <3>2. \A p \in Listed : p # NULL
      BY <1>6, NullObjectAssumption
    <3> QED
      BY <1>12, <2>2, <3>1, <3>2 DEF IsUnchanged
  <2> QED
    BY <1>5, <2>1, <2>3 DEF FlagsFollow
<1>15. MemoryIs(stk)'
  BY <1>1, <1>10, <1>13, MemoryKeeps
<1>16. AddressesApart'
  BY <1>1, <1>10, ApartKeeps
<1>17. FlagsFollow(stk, t)'
  <2>1. \A p \in Objects : OnStack(stk, p) => data'[p].isPatched /\ p \in Listed'
    BY <1>10, <1>11, <1>13
  <2>2. \A p \in Listed' : data'[p].isPatched => OnStack(stk, p)
    BY <1>10, <1>14
  <2>3. \A p \in Listed' : ForResident(p)' => OnStack(stk, p)
    BY <1>1, <1>6, <1>10 DEF FlagsFollow
  <2>4. \A p \in Allocated' : data'[p].isPatched => data'[p].address \in Addrs
    BY <1>10 DEF FlagsFollow
  <2> QED
    BY <2>1, <2>2, <2>3, <2>4 DEF FlagsFollow
<1>18. NoneForgotten(stk, t)'
  <2> SUFFICES ASSUME NEW p \in Listed, ShouldBePatched(p), Wants(p) # NULL,
                      ~data'[p].isPatched
               PROVE  FALSE
    BY <1>6, <1>10 DEF NoneForgotten
  <2>1. data[p].isPatched
    BY <1>1, <1>5, NothingPending
  <2>2. OnStack(stk, p)
    BY <1>1, <1>5, <2>1 DEF FlagsFollow
  <2> QED
    BY <1>13, <2>1, <2>2
<1>19. PatchingInOrder(stk, t)'
  BY <1>4 DEF PatchingInOrder
<1>20. RemovingLatest(stk, t)'
  BY <1>4 DEF RemovingLatest
<1> QED
  BY <1>15, <1>16, <1>17, <1>18, <1>19, <1>20, PutTogether
------------------------------------------------------------------------------
(* Modules that come and go while the application runs.                     *)

\* The local state of a thread the loader may call back from.
LEMMA CalledBack ==
  ASSUME NEW stk, NEW t, Working(stk, t), th[t] = Idle, notify' = notify,
         NEW r \in LocalStates, r.op \in {"loaded", "unloaded"}, r.pc = "wait",
         th' = IF notify THEN [th EXCEPT ![t] = r] ELSE th
  PROVE  /\ th[t].op = "none" /\ th[t].pc = "idle"
         /\ notify => th'[t] = r
         /\ ~notify => th'[t].op = "none" /\ th'[t].pc = "idle"
         /\ (Attended <=> notify) /\ Attended' = Attended
         /\ PatchingInOrder(stk, t)' /\ RemovingLatest(stk, t)'
<1> USE DEF Working
<1>1. th[t].op = "none" /\ th[t].pc = "idle"
  BY DEF Idle
<1>2. th'[t] = IF notify THEN r ELSE th[t]
  BY LoaderCall
<1>3. Attended <=> notify
  BY <1>1 DEF Attended
<1>4. Attended' <=> notify
  BY <1>1, <1>2 DEF Attended
<1>5. th'[t].op \in {"none", "loaded", "unloaded"} /\ th'[t].pc \in {"idle", "wait"}
  BY <1>1, <1>2
<1>6. PatchingInOrder(stk, t)' /\ RemovingLatest(stk, t)'
  BY <1>5 DEF PatchingInOrder, RemovingLatest
<1> QED
  BY <1>1, <1>2, <1>3, <1>4, <1>6

\* A module that is loaded has an empty stack, and its callback is still to come.
LEMMA OSLoadSerial ==
  ASSUME NEW stk, NEW t, Working(stk, t), NEW m \in Modules, NEW a \in Addrs, OSLoad(t, m, a)
  PROVE  SerialInv(stk)'
<1> USE DEF Working
<1> DEFINE r == [Idle EXCEPT !.op = "loaded", !.pc = "wait"]
<1>1. /\ UNCHANGED <<title, data, list, notify>>
      /\ th[t] = Idle /\ place[m] = NULL /\ a \notin Occupied
      /\ place' = [place EXCEPT ![m] = a]
      /\ text' = [text EXCEPT ![a] = m]
      /\ th' = IF notify THEN [th EXCEPT ![t] = r] ELSE th
  BY DEF OSLoad, MayCall
<1>2. r \in LocalStates /\ r.op = "loaded" /\ r.pc = "wait"
  BY IdleType DEF Idle, LocalStates, Ops, Steps
<1> HIDE DEF r
<1>3. /\ th[t].op = "none" /\ th[t].pc = "idle"
      /\ notify => th'[t].op = "loaded" /\ th'[t].pc = "wait"
      /\ ~notify => th'[t].op = "none" /\ th'[t].pc = "idle"
      /\ (Attended <=> notify) /\ Attended' = Attended
      /\ PatchingInOrder(stk, t)' /\ RemovingLatest(stk, t)'
  BY <1>1, <1>2, CalledBack
<1>4. /\ place'[m] = a /\ \A k \in Modules : k # m => place'[k] = place[k]
      /\ text'[a] = m /\ \A b \in Addrs : b # a => text'[b] = text[b]
  BY <1>1 DEF TypeOK
<1>5. /\ Loaded' = Loaded \union {m} /\ m \notin Loaded
      /\ \A k \in Loaded : place'[k] = place[k] /\ place[k] # a /\ place[k] \in Addrs /\ k # m
  <2>1. a # NULL
    BY NullAddressAssumption
  <2> QED
    BY <1>1, <1>4, <2>1 DEF Loaded, Occupied, TypeOK
<1>6. Addrs \ Occupied' = (Addrs \ Occupied) \ {a}
  BY <1>1, <1>4, NullAddressAssumption DEF Occupied
<1>7. /\ Listed' = Listed /\ Allocated' = Allocated /\ Listed \subseteq Allocated
      /\ \A p, q : Earlier(p, q)' = Earlier(p, q)
  BY <1>1 DEF Listed, Allocated, Earlier, ListedOnce
<1>8. \A p \in Allocated : /\ Wants(p) # NULL => Wants(p)' = Wants(p)
                           /\ Wants(p)' \in {Wants(p), a}
                           /\ ForResident(p)' = ForResident(p)
                           /\ ShouldBePatched(p)' = ShouldBePatched(p)
  <2> SUFFICES ASSUME NEW p \in Allocated
               PROVE  /\ Wants(p) # NULL => Wants(p)' = Wants(p)
                      /\ Wants(p)' \in {Wants(p), a}
    BY <1>1 DEF ForResident, ShouldBePatched
  <2>1. CASE data[p].target.kind = "address"
    BY <1>1, <2>1 DEF Wants
  <2>2. CASE data[p].target.kind # "address"
    <3>1. data[p].target.module \in Modules
      BY <2>2, RecordOf, TargetsAssumption, LibrariesAssumption DEF TargetKinds
    <3> QED
      BY <1>1, <1>4, <2>2, <3>1 DEF Wants
  <2> QED
    BY <2>1, <2>2
<1>9. stk[m] = <<>>
  BY <1>5 DEF MemoryIs
<1>10. MemoryIs(stk)'
  <2>1. \A b \in Addrs \ Occupied' : text'[b] = NULL
    BY <1>4, <1>6 DEF MemoryIs
  <2>2. \A k \in Modules \ Loaded' : stk[k] = <<>>
    BY <1>5 DEF MemoryIs
  <2>3. \A k \in Loaded' : text'[place'[k]] = Top(stk[k], k)
    <3>1. text'[place'[m]] = Top(stk[m], m)
      BY <1>4, <1>9 DEF Top
    <3>2. \A k \in Loaded : text'[place'[k]] = Top(stk[k], k)
      BY <1>4, <1>5 DEF MemoryIs
    <3> QED
      BY <1>5, <3>1, <3>2
  <2>4. ASSUME NEW k \in Loaded', NEW i \in DOMAIN stk[k]
        PROVE  /\ k \in Loaded /\ stk[k][i] \in Allocated'
               /\ Wants(stk[k][i])' = place'[k]
               /\ data'[stk[k][i]].address = place'[k]
               /\ data'[stk[k][i]].replaced = Below(stk[k], i, k)
    <3>1. k \in Loaded
      BY <1>5, <1>9
    <3>2. /\ stk[k][i] \in Allocated /\ Wants(stk[k][i]) = place[k]
          /\ data[stk[k][i]].address = place[k]
          /\ data[stk[k][i]].replaced = Below(stk[k], i, k)
      BY <3>1 DEF MemoryIs
    <3>3. Wants(stk[k][i])' = place[k]
      BY <1>5, <1>8, <3>1, <3>2, NullAddressAssumption
    <3> QED
      BY <1>1, <1>5, <1>7, <3>1, <3>2, <3>3
  <2>5. \A k \in Loaded' : \A i, j \in DOMAIN stk[k] : i < j => Earlier(stk[k][j], stk[k][i])'
    BY <1>7, <2>4 DEF MemoryIs
  <2>6. stk \in [Modules -> Seq(Objects)]
    BY DEF MemoryIs
  <2> HIDE DEF r
  <2> QED
    BY <2>1, <2>2, <2>3, <2>4, <2>5, <2>6 DEF MemoryIs
<1>11. AddressesApart'
  <2> SUFFICES ASSUME NEW o \in Allocated, NEW k \in DOMAIN Resident,
                      data[o].address = Resident[k]
               PROVE  Wants(o)' = Resident[k]
    BY <1>1, <1>7 DEF AddressesApart
  <2>1. Wants(o) = Resident[k] /\ Resident[k] # NULL
    BY ResidentAssumption, NullAddressAssumption DEF AddressesApart
  <2> QED
    BY <1>8, <2>1
<1>12. FlagsFollow(stk, t)'
  <2>1. \A p \in Objects : OnStack(stk, p) => data[p].isPatched /\ p \in Listed
    BY <1>3 DEF FlagsFollow
  <2>2. \A p \in Listed : data[p].isPatched /\ Attended => OnStack(stk, p)
    BY <1>3 DEF FlagsFollow
  <2>3. \A p \in Listed : ForResident(p)' => OnStack(stk, p)
    BY <1>3, <1>7, <1>8 DEF FlagsFollow
  <2>4. \A p \in Allocated : data[p].isPatched => data[p].address \in Addrs
    BY DEF FlagsFollow
  <2> QED
    BY <1>1, <1>3, <1>7, <2>1, <2>2, <2>3, <2>4 DEF FlagsFollow
<1>13. NoneForgotten(stk, t)'
  <2> SUFFICES ASSUME Attended, NEW o \in Listed, ShouldBePatched(o), Wants(o)' # NULL,
                      ~data[o].isPatched
               PROVE  /\ Pending(t, o)'
                      /\ \A k \in Loaded' : Wants(o)' = place'[k] =>
                           \A i \in DOMAIN stk[k] : FALSE
    BY <1>1, <1>3, <1>7, <1>8 DEF NoneForgotten
  <2>1. Pending(t, o)'
    BY <1>3 DEF Pending
  <2>2. Wants(o) = NULL
    BY <1>3, NothingPending
  <2>3. Wants(o)' = a
    BY <1>7, <1>8, <2>2
  <2>4. \A k \in Loaded' : Wants(o)' = place'[k] => k = m
    BY <1>5, <2>3
  <2>5. DOMAIN stk[m] = {}
    BY <1>9
  <2> QED
    BY <2>1, <2>4, <2>5
<1> QED
  BY <1>3, <1>10, <1>11, <1>12, <1>13, PutTogether

\* What stands over a module goes with it.
LEMMA OSUnloadSerial ==
  ASSUME NEW stk, NEW t, Working(stk, t), NEW m \in Modules, OSUnload(t, m)
  PROVE  SerialInv([stk EXCEPT ![m] = <<>>])'
<1> USE DEF Working
<1> DEFINE a == place[m]
           r == [Idle EXCEPT !.op = "unloaded", !.pc = "wait", !.module = a]
<1>s. PICK s : s = [stk EXCEPT ![m] = <<>>]
  OBVIOUS
<1>0. a \in Addrs /\ a # NULL /\ m \notin DOMAIN Resident
  BY DEF OSUnload, TypeOK
<1>1. /\ UNCHANGED <<title, data, list, notify>>
      /\ th[t] = Idle
      /\ place' = [place EXCEPT ![m] = NULL]
      /\ text' = [text EXCEPT ![a] = NULL]
      /\ th' = IF notify THEN [th EXCEPT ![t] = r] ELSE th
  BY DEF OSUnload, MayCall, LeftBehind, Discipline
<1>2. r \in LocalStates /\ r.op = "unloaded" /\ r.pc = "wait" /\ r.module = a
  BY <1>0, IdleType DEF Idle, LocalStates, Ops, Steps
<1> HIDE DEF r
<1>3. /\ th[t].op = "none" /\ th[t].pc = "idle"
      /\ notify => th'[t].op = "unloaded" /\ th'[t].pc = "wait" /\ th'[t].module = a
      /\ ~notify => th'[t].op = "none" /\ th'[t].pc = "idle"
      /\ (Attended <=> notify) /\ Attended' = Attended
  BY <1>1, <1>2, CalledBack
<1>4. /\ place'[m] = NULL /\ \A k \in Modules : k # m => place'[k] = place[k]
      /\ text'[a] = NULL /\ \A b \in Addrs : b # a => text'[b] = text[b]
  BY <1>0, <1>1 DEF TypeOK
<1>5. /\ Loaded' = Loaded \ {m} /\ m \in Loaded
      /\ \A k \in Loaded' : place'[k] = place[k] /\ place[k] # a /\ place[k] \in Addrs /\ k # m
  BY <1>0, <1>1, <1>4 DEF Loaded, LoaderInv, TypeOK
<1>6. Addrs \ Occupied' \subseteq (Addrs \ Occupied) \union {a}
  BY <1>4 DEF Occupied
<1>7. /\ Listed' = Listed /\ Allocated' = Allocated /\ Listed \subseteq Allocated
      /\ \A p, q : Earlier(p, q)' = Earlier(p, q)
  BY <1>1 DEF Listed, Allocated, Earlier, ListedOnce
<1>8. \A p \in Allocated : /\ Wants(p) # a => Wants(p)' = Wants(p)
                           /\ Wants(p) = a => Wants(p)' = NULL /\ ~ForResident(p)
                           /\ ForResident(p)' = ForResident(p)
                           /\ ShouldBePatched(p)' = ShouldBePatched(p)
  <2> SUFFICES ASSUME NEW p \in Allocated
               PROVE  /\ Wants(p) # a => Wants(p)' = Wants(p)
                      /\ Wants(p) = a => Wants(p)' = NULL /\ ~ForResident(p)
    BY <1>1 DEF ForResident, ShouldBePatched
  <2>1. CASE ForResident(p)
    <3>1. Wants(p) # a
      <4>1. PICK n \in DOMAIN Resident : Wants(p) = Resident[n]
        BY <2>1, WantsWhere
      <4>2. n \in Modules /\ place[n] = Resident[n] /\ n # m
        BY <1>0, ResidentLoaded DEF Loaded
      <4> QED
        BY <1>0, <4>1, <4>2 DEF LoaderInv
    <3>2. \A n \in DOMAIN Resident : place'[n] = Resident[n]
      BY <1>0, <1>4, ResidentLoaded DEF Loaded
    <3> QED
      BY <1>1, <2>1, <3>1, <3>2, ResidentWants
  <2>2. CASE ~ForResident(p)
    <3>1. data[p].target.kind # "address" /\ data[p].target.module \in Modules
      BY <2>2, RecordOf, TargetsAssumption, LibrariesAssumption DEF TargetKinds, ForResident
    <3>2. Wants(p) = a => data[p].target.module = m
      BY <1>0, <3>1 DEF Wants, LoaderInv
    <3> QED
      BY <1>1, <1>4, <2>2, <3>1, <3>2 DEF Wants
  <2> QED
    BY <2>1, <2>2
<1>9. /\ s[m] = <<>> /\ \A k \in Modules : k # m => s[k] = stk[k]
      /\ s \in [Modules -> Seq(Objects)]
  BY <1>s DEF MemoryIs
<1>10. MemoryIs(s)'
  <2>1. \A b \in Addrs \ Occupied' : text'[b] = NULL
    BY <1>4, <1>6 DEF MemoryIs
  <2>2. \A k \in Modules \ Loaded' : s[k] = <<>>
    BY <1>5, <1>9 DEF MemoryIs
  <2>3. \A k \in Loaded' : text'[place'[k]] = Top(s[k], k)
    BY <1>4, <1>5, <1>9 DEF MemoryIs, Loaded
  <2>4. ASSUME NEW k \in Loaded', NEW i \in DOMAIN s[k]
        PROVE  /\ s[k] = stk[k] /\ s[k][i] \in Allocated'
               /\ Wants(s[k][i])' = place'[k]
               /\ data'[s[k][i]].address = place'[k]
               /\ data'[s[k][i]].replaced = Below(s[k], i, k)
    <3>1. k \in Loaded /\ k \in Modules /\ s[k] = stk[k]
      BY <1>5, <1>9 DEF Loaded
    <3>2. /\ stk[k][i] \in Allocated /\ Wants(stk[k][i]) = place[k]
          /\ data[stk[k][i]].address = place[k]
          /\ data[stk[k][i]].replaced = Below(stk[k], i, k)
      BY <3>1 DEF MemoryIs
    <3>3. Wants(stk[k][i])' = place[k]
      BY <1>5, <1>8, <3>1, <3>2
    <3> QED
      BY <1>1, <1>5, <1>7, <3>1, <3>2, <3>3
  <2>5. \A k \in Loaded' : \A i, j \in DOMAIN s[k] : i < j => Earlier(s[k][j], s[k][i])'
    BY <1>5, <1>7, <2>4 DEF MemoryIs
  <2> QED
    BY <1>9, <2>1, <2>2, <2>3, <2>4, <2>5 DEF MemoryIs
<1>11. AddressesApart'
  <2> SUFFICES ASSUME NEW o \in Allocated, NEW k \in DOMAIN Resident,
                      data[o].address = Resident[k]
               PROVE  Wants(o)' = Resident[k]
    BY <1>1, <1>7 DEF AddressesApart
  <2>1. Wants(o) = Resident[k]
    BY DEF AddressesApart
  <2>2. Wants(o) # a
    BY <1>8, <2>1, WantsWhere
  <2> QED
    BY <1>8, <2>1, <2>2
<1>12. \A p : OnStack(s, p) => OnStack(stk, p)
  BY <1>9 DEF OnStack
<1>13. ASSUME NEW p, OnStack(stk, p) PROVE OnStack(s, p) \/ (data[p].address = a /\ Wants(p) = a)
  <2>1. PICK k \in Loaded : /\ \E i \in DOMAIN stk[k] : stk[k][i] = p
                            /\ data[p].address = place[k] /\ Wants(p) = place[k]
    BY <1>13, Stacked
  <2> QED
    BY <1>9, <2>1 DEF OnStack, Loaded
<1>14. FlagsFollow(s, t)'
  <2>1. \A p \in Objects : OnStack(s, p) => data[p].isPatched /\ p \in Listed
    BY <1>3, <1>12 DEF FlagsFollow
  <2>2. ASSUME NEW p \in Listed, data[p].isPatched, Attended
        PROVE  \/ OnStack(s, p)
               \/ th'[t].op = "unloaded" /\ data[p].address = th'[t].module /\ Wants(p)' = NULL
    <3>1. OnStack(stk, p)
      BY <1>3, <2>2 DEF FlagsFollow
    <3>2. CASE OnStack(s, p)
      BY <3>2
    <3>3. CASE data[p].address = a /\ Wants(p) = a
      <4>1. Wants(p)' = NULL
        BY <1>7, <1>8, <3>3
      <4> QED
        BY <1>3, <2>2, <3>3, <4>1
    <3> QED
      BY <1>13, <3>1, <3>2, <3>3
  <2>3. \A p \in Listed : ForResident(p)' => OnStack(s, p)
    <3> SUFFICES ASSUME NEW p \in Listed, ForResident(p) PROVE OnStack(s, p)
      BY <1>7, <1>8
    <3>1. OnStack(stk, p)
      BY <1>3 DEF FlagsFollow
    <3> QED
      BY <1>7, <1>8, <1>13, <3>1
  <2>4. \A p \in Allocated : data[p].isPatched => data[p].address \in Addrs
    BY DEF FlagsFollow
  <2> QED
    BY <1>1, <1>3, <1>7, <2>1, <2>2, <2>3, <2>4 DEF FlagsFollow
<1>15. NoneForgotten(s, t)'
  <2> SUFFICES ASSUME Attended, NEW o \in Listed, ShouldBePatched(o), Wants(o)' # NULL,
                      ~data[o].isPatched
               PROVE  FALSE
    BY <1>1, <1>3, <1>7, <1>8 DEF NoneForgotten
  <2>1. Wants(o) # NULL
    BY <1>0, <1>7, <1>8
  <2> QED
    BY <1>3, <2>1, NothingPending
<1>16. PatchingInOrder(s, t)' /\ RemovingLatest(s, t)'
  BY <1>3 DEF PatchingInOrder, RemovingLatest
<1>17. SerialInv(s)'
  BY <1>10, <1>11, <1>14, <1>15, <1>16, PutTogether
<1> QED
  BY <1>s, <1>17
------------------------------------------------------------------------------
(* Applications that start and end.                                         *)

\* Where the modules of an application that starts are.
LEMMA NewPlaces ==
  ASSUME NEW p \in Placements
  PROVE  /\ p \in [Modules -> Addrs \union {NULL}]
         /\ \A m \in DOMAIN Resident : p[m] = Resident[m]
         /\ \A m, n \in Modules : p[m] = p[n] /\ p[m] # NULL => m = n
BY DEF Placements

\* Without an application nothing but the resident modules is in memory.
LEMMA OnlyResident ==
  ASSUME LoaderInv, title = NULL
  PROVE  /\ Loaded = DOMAIN Resident
         /\ \A m \in Loaded : m \in Modules /\ place[m] = Resident[m] /\ place[m] \in Addrs
         /\ \A m \in Modules \ DOMAIN Resident : place[m] = NULL
         /\ ~notify /\ \A t \in Threads : th[t] = Idle
BY ResidentLoaded DEF LoaderInv, Loaded, Quiescent

\* The loader writes where no resident module is.
LEMMA NewWords ==
  ASSUME NEW p \in Placements
  PROVE  LET w == TextFor(p)
         IN  /\ \A a \in Addrs : (\A k \in Modules \ DOMAIN Resident : p[k] # a) => w[a] = text[a]
             /\ \A a \in Addrs : w[a] = text[a] \/ w[a] \in Modules
             /\ \A m \in DOMAIN Resident : w[Resident[m]] = text[Resident[m]]
             /\ \A m \in Modules \ DOMAIN Resident : p[m] # NULL => w[p[m]] = m
<1> DEFINE New(a) == \E k \in Modules \ DOMAIN Resident : p[k] = a
           At(a) == CHOOSE k \in Modules : p[k] = a
           w == TextFor(p)
<1>1. \A a \in Addrs : w[a] = IF New(a) THEN At(a) ELSE text[a]
  BY DEF TextFor
<1>2. \A a : New(a) => At(a) \in Modules /\ p[At(a)] = a
  OBVIOUS
<1>3. ASSUME NEW m \in DOMAIN Resident PROVE w[Resident[m]] = text[Resident[m]]
  <2>1. m \in Modules /\ Resident[m] \in Addrs /\ Resident[m] # NULL
    BY ResidentAssumption, NullAddressAssumption
  <2>2. ~New(Resident[m])
    BY <2>1, NewPlaces
  <2> QED
    BY <1>1, <2>1, <2>2
<1>4. ASSUME NEW m \in Modules \ DOMAIN Resident, p[m] # NULL PROVE w[p[m]] = m
  <2>1. p[m] \in Addrs /\ New(p[m])
    BY <1>4, NewPlaces
  <2>2. At(p[m]) = m
    <3>1. At(p[m]) \in Modules /\ p[At(p[m])] = p[m]
      BY <1>2, <2>1
    <3> HIDE DEF At, New, w
    <3> QED
      BY <1>4, <3>1, NewPlaces
  <2> QED
    BY <1>1, <2>1, <2>2
<1> HIDE DEF w, At
<1> QED
  BY <1>1, <1>2, <1>3, <1>4 DEF w

\* The memory of the application that starts: what stands over resident
\* functions, and nothing over the others.
LEMMA StartedMemory ==
  ASSUME NEW stk, NEW t, Working(stk, t), NEW p \in Placements, title = NULL,
         place' = p, text' = TextFor(p), list' = list, FlagsCleared(data, data')
  PROVE  /\ MemoryIs(stk)' /\ AddressesApart'
         /\ Listed' = Listed /\ Allocated' = Allocated
         /\ \A m \in Modules : DOMAIN stk[m] # {} => m \in DOMAIN Resident
         /\ \A o \in Allocated : ForResident(o) => Wants(o)' = Wants(o)
         /\ \A o \in Allocated : /\ ForResident(o)' = ForResident(o)
                                 /\ data'[o].target = data[o].target
                                 /\ data'[o].address = data[o].address
                                 /\ data'[o].isPatched => data[o].isPatched
<1> USE DEF Working
<1>1. /\ Loaded = DOMAIN Resident
      /\ \A m \in Loaded : m \in Modules /\ place[m] = Resident[m] /\ place[m] \in Addrs
      /\ \A m \in Modules \ DOMAIN Resident : place[m] = NULL
  BY OnlyResident
<1>2. /\ p \in [Modules -> Addrs \union {NULL}]
      /\ \A m \in DOMAIN Resident : p[m] = Resident[m]
      /\ \A m, n \in Modules : p[m] = p[n] /\ p[m] # NULL => m = n
  BY NewPlaces
<1>3. /\ \A a \in Addrs : (\A k \in Modules \ DOMAIN Resident : p[k] # a) => text'[a] = text[a]
      /\ \A m \in DOMAIN Resident : text'[Resident[m]] = text[Resident[m]]
      /\ \A m \in Modules \ DOMAIN Resident : p[m] # NULL => text'[p[m]] = m
  BY NewWords
<1>4. /\ Listed' = Listed /\ Allocated' = Allocated
      /\ \A o, q : Earlier(o, q)' = Earlier(o, q)
  BY DEF Listed, Allocated, Earlier, FlagsCleared
<1>5. \A o \in Allocated : /\ data'[o].target = data[o].target
                           /\ data'[o].address = data[o].address
                           /\ data'[o].replaced = data[o].replaced
                           /\ data'[o].isPatched => data[o].isPatched
  BY DEF Allocated, FlagsCleared
<1>6. \A o \in Allocated : /\ ForResident(o) => Wants(o)' = Wants(o)
                           /\ ForResident(o)' = ForResident(o)
  <2>1. \A o \in Allocated : ForResident(o)' = ForResident(o)
    BY <1>5 DEF ForResident
  <2> QED
    BY <1>2, <1>5, <2>1, ResidentWants
<1>7. \A m \in Modules : DOMAIN stk[m] # {} => m \in DOMAIN Resident
  <2>1. \A m \in Modules \ Loaded : stk[m] = <<>>
    BY DEF MemoryIs
  <2> QED
    BY <1>1, <2>1
<1>8. MemoryIs(stk)'
  <2>1. ASSUME NEW a \in Addrs \ Occupied' PROVE text'[a] = NULL
    <3>1. \A k \in Modules : p[k] # a
      BY <2>1 DEF Occupied
    <3>2. \A k \in Modules : place[k] # a
      BY <1>1, <1>2, <3>1, NullAddressAssumption
    <3>3. text[a] = NULL
      BY <3>2 DEF MemoryIs, Occupied
    <3> QED
      BY <1>3, <3>1, <3>3
  <2>2. \A m \in Modules \ Loaded' : stk[m] = <<>>
    <3>1. \A m \in Modules \ Loaded' : m \notin Loaded
      BY <1>1, <1>2, NullAddressAssumption DEF Loaded
    <3> QED
      BY <3>1 DEF MemoryIs
  <2>3. ASSUME NEW m \in Loaded' PROVE text'[place'[m]] = Top(stk[m], m)
    <3>1. m \in Modules /\ p[m] # NULL
      BY <2>3 DEF Loaded
    <3>2. CASE m \in DOMAIN Resident
      <4>1. text[place[m]] = Top(stk[m], m)
        BY <1>1, <3>2 DEF MemoryIs
      <4> QED
        BY <1>1, <1>2, <1>3, <3>2, <4>1
    <3>3. CASE m \notin DOMAIN Resident
      <4>1. stk[m] = <<>>
        BY <1>1, <3>1, <3>3 DEF MemoryIs
      <4> QED
        BY <1>3, <3>1, <3>3, <4>1 DEF Top
    <3> QED
      BY <3>2, <3>3
  <2>4. ASSUME NEW m \in Loaded', NEW i \in DOMAIN stk[m]
        PROVE  /\ m \in Loaded /\ stk[m][i] \in Allocated'
               /\ Wants(stk[m][i])' = place'[m]
               /\ data'[stk[m][i]].address = place'[m]
               /\ data'[stk[m][i]].replaced = Below(stk[m], i, m)
    <3>1. m \in Loaded /\ place'[m] = place[m] /\ place[m] = Resident[m]
      BY <1>1, <1>2, <1>7, <2>4 DEF Loaded
    <3>2. /\ stk[m][i] \in Allocated /\ Wants(stk[m][i]) = place[m]
          /\ data[stk[m][i]].address = place[m]
          /\ data[stk[m][i]].replaced = Below(stk[m], i, m)
      BY <3>1 DEF MemoryIs
    <3>3. ForResident(stk[m][i])
      BY <1>1, <3>1, <3>2, WantsWhere
    <3> QED
      BY <1>4, <1>5, <1>6, <3>1, <3>2, <3>3
  <2>5. \A m \in Loaded' : \A i, j \in DOMAIN stk[m] : i < j => Earlier(stk[m][j], stk[m][i])'
    BY <1>4, <2>4 DEF MemoryIs
  <2>6. stk \in [Modules -> Seq(Objects)]
    BY DEF MemoryIs
  <2> QED
    BY <2>1, <2>2, <2>3, <2>4, <2>5, <2>6 DEF MemoryIs
<1>9. AddressesApart'
  <2> SUFFICES ASSUME NEW o \in Allocated, NEW k \in DOMAIN Resident,
                      data[o].address = Resident[k]
               PROVE  Wants(o)' = Resident[k]
    BY <1>4, <1>5 DEF AddressesApart
  <2>1. Wants(o) = Resident[k] /\ ForResident(o)
    BY WantsWhere DEF AddressesApart
  <2> QED
    BY <1>6, <2>1
<1> QED
  BY <1>4, <1>5, <1>6, <1>7, <1>8, <1>9

\* Another process starts: the hook does nothing.
LEMMA OtherProcessSerial ==
  ASSUME NEW stk, NEW t, Working(stk, t), NEW ti \in Titles, ApplicationStarts(t, ti, FALSE)
  PROVE  SerialInv(stk)'
<1> USE DEF Working
<1>1. /\ title = NULL /\ UNCHANGED <<data, th, notify, list>>
  BY DEF ApplicationStarts
<1>2. PICK p \in Placements : place' = p /\ text' = TextFor(p)
  BY DEF ApplicationStarts
<1>3. FlagsCleared(data, data')
  BY <1>1 DEF FlagsCleared
<1>4. /\ MemoryIs(stk)' /\ AddressesApart'
      /\ Listed' = Listed /\ Allocated' = Allocated
      /\ \A o \in Allocated : ForResident(o)' = ForResident(o)
  BY <1>1, <1>2, <1>3, StartedMemory
<1>5. ~notify /\ th[t] = Idle /\ Idle.op = "none" /\ Idle.pc = "idle"
  BY <1>1, OnlyResident DEF Idle
<1>6. ~Attended' /\ Listed \subseteq Allocated
  BY <1>1, <1>5 DEF Attended, ListedOnce
<1>7. FlagsFollow(stk, t)'
  <2>1. \A q \in Objects : OnStack(stk, q) => data[q].isPatched /\ q \in Listed
    BY <1>5 DEF FlagsFollow
  <2>2. \A q \in Listed : ForResident(q)' => OnStack(stk, q)
    BY <1>4, <1>5, <1>6 DEF FlagsFollow
  <2>3. \A q \in Allocated : data[q].isPatched => data[q].address \in Addrs
    BY DEF FlagsFollow
  <2> QED
    BY <1>1, <1>4, <1>6, <2>1, <2>2, <2>3 DEF FlagsFollow
<1>8. NoneForgotten(stk, t)'
  BY <1>6 DEF NoneForgotten
<1>9. PatchingInOrder(stk, t)' /\ RemovingLatest(stk, t)'
  BY <1>1, <1>5 DEF PatchingInOrder, RemovingLatest
<1> QED
  BY <1>4, <1>7, <1>8, <1>9, PutTogether

\* The hook finds the stacks over resident functions, and nothing else.
LEMMA OwnProcessSerial ==
  ASSUME NEW stk, NEW t, Working(stk, t), NEW ti \in Titles, ApplicationStarts(t, ti, TRUE)
  PROVE  SerialInv(stk)'
<1> USE DEF Working
<1>1. /\ title = NULL /\ UNCHANGED <<notify, list>>
      /\ data' = StillInMemory(data, text')
      /\ th' = [th EXCEPT ![t] = [Idle EXCEPT !.op = "start", !.pc = "next", !.todo = Listed]]
  BY DEF ApplicationStarts
<1>2. PICK p \in Placements : place' = p /\ text' = TextFor(p)
  BY DEF ApplicationStarts
<1>3. /\ data \in [Objects -> ObjectRecords \union {NULL}]
      /\ Listed \subseteq Allocated /\ Listed \subseteq Objects
      /\ \A o \in Listed : o \in Objects /\ data[o] # NULL
  BY DEF TypeOK, ListedOnce, Allocated
<1>4. /\ FlagsCleared(data, data')
      /\ \A o \in Listed : data'[o].isPatched =>
           IsUnchanged(data, data[o].address, text'[data[o].address])
      /\ \A o \in Objects : o \notin Listed
                            \/ IsUnchanged(data, data[o].address, text'[data[o].address])
                            => data'[o] = data[o]
  BY <1>1, <1>3, MarkedIsUnchanged
<1>5. /\ MemoryIs(stk)' /\ AddressesApart'
      /\ Listed' = Listed /\ Allocated' = Allocated
      /\ \A m \in Modules : DOMAIN stk[m] # {} => m \in DOMAIN Resident
      /\ \A o \in Allocated : ForResident(o) => Wants(o)' = Wants(o)
      /\ \A o \in Allocated : /\ ForResident(o)' = ForResident(o)
                              /\ data'[o].target = data[o].target
                              /\ data'[o].address = data[o].address
                              /\ data'[o].isPatched => data[o].isPatched
  BY <1>1, <1>2, <1>4, StartedMemory
<1>6. /\ Loaded = DOMAIN Resident
      /\ \A m \in Loaded : m \in Modules /\ place[m] = Resident[m] /\ place[m] \in Addrs
      /\ ~notify /\ th[t] = Idle /\ Idle.op = "none" /\ Idle.pc = "idle"
  BY <1>1, OnlyResident DEF Idle
<1>7. /\ th'[t].op = "start" /\ th'[t].pc = "next" /\ th'[t].todo = Listed
  BY <1>1 DEF Idle
<1>8. /\ \A q \in Objects : OnStack(stk, q) => data[q].isPatched /\ q \in Listed
      /\ \A q \in Listed : ForResident(q) => OnStack(stk, q)
      /\ \A q \in Allocated : data[q].isPatched => data[q].address \in Addrs
  BY <1>6 DEF FlagsFollow
<1>9. ASSUME NEW o, OnStack(stk, o) PROVE data'[o] = data[o]
  <2>1. PICK m \in Loaded : \E i \in DOMAIN stk[m] :
          stk[m][i] = o /\ o \in Allocated /\ data[o].address = place[m]
    BY <1>9, Stacked
  <2>2. stk[m] # <<>> /\ place[m] = Resident[m] /\ m \in DOMAIN Resident
    BY <1>6, <2>1
  <2>3. ASSUME NEW i \in DOMAIN stk[m]
        PROVE  /\ stk[m][i] \in Listed /\ data[stk[m][i]].isPatched
               /\ data[stk[m][i]].address = place[m]
    <3>1. OnStack(stk, stk[m][i]) /\ stk[m][i] \in Objects
      BY DEF OnStack, Loaded, Allocated
    <3>2. data[stk[m][i]].address = place[m]
      BY DEF MemoryIs
    <3> QED
      BY <1>8, <3>1, <3>2
  <2>4. ASSUME NEW q \in Listed, data[q].isPatched, data[q].address = place[m]
        PROVE  OnStack(stk, q) /\ Wants(q) = place[m]
    <3>1. Wants(q) = Resident[m] /\ q \in Allocated
      BY <1>3, <2>2, <2>4 DEF AddressesApart
    <3>2. ForResident(q)
      BY <2>2, <3>1, WantsWhere
    <3> QED
      BY <1>8, <2>2, <3>1, <3>2
  <2>5. text'[place[m]] = text[place[m]]
    BY <1>2, <2>2, NewWords
  <2>6. IsUnchanged(data, place[m], text'[place[m]])
    BY <2>2, <2>3, <2>4, <2>5, StackIsUnchanged
  <2> QED
    BY <1>4, <2>1, <2>6 DEF Allocated
<1>10. ASSUME NEW o \in Listed, data'[o].isPatched PROVE OnStack(stk, o)
  <2> DEFINE a == data[o].address
  <2>1. o \in Allocated /\ data[o].isPatched /\ a \in Addrs
    BY <1>3, <1>5, <1>8, <1>10
  <2>2. PICK q \in Listed : text'[a] = q
    BY <1>4, <1>10 DEF IsUnchanged
  <2>3. q \in Objects /\ q \notin Modules
    BY <1>3, WordsAssumption
  <2>4. text[a] = q
    BY <1>2, <2>1, <2>2, <2>3, NewWords
  <2>5. PICK m \in Loaded : place[m] = a
    BY <2>1, <2>3, <2>4, JumpOnTop
  <2>6. m \in DOMAIN Resident /\ a = Resident[m]
    BY <1>6, <2>5
  <2>7. Wants(o) = Resident[m]
    BY <2>1, <2>6 DEF AddressesApart
  <2>8. ForResident(o)
    BY <2>1, <2>6, <2>7, WantsWhere
  <2> QED
    BY <1>8, <2>8
<1>11. FlagsFollow(stk, t)'
  <2>1. \A q \in Objects : OnStack(stk, q) => data'[q].isPatched /\ q \in Listed'
    BY <1>5, <1>8, <1>9
  <2>2. \A q \in Listed' : data'[q].isPatched => OnStack(stk, q)
    BY <1>5, <1>10
  <2>3. \A q \in Listed' : ForResident(q)' => OnStack(stk, q)
    BY <1>3, <1>5, <1>8
  <2>4. \A q \in Allocated' : data'[q].isPatched => data'[q].address \in Addrs
    BY <1>5, <1>8
  <2> QED
    BY <2>1, <2>2, <2>3, <2>4 DEF FlagsFollow
<1>12. NoneForgotten(stk, t)'
  <2> SUFFICES ASSUME NEW o \in Listed, Wants(o)' # NULL, ~data'[o].isPatched
               PROVE  /\ Pending(t, o)'
                      /\ \A m \in Loaded' : Wants(o)' = place'[m] =>
                           \A i \in DOMAIN stk[m] : FALSE
    BY <1>5 DEF NoneForgotten
  <2>1. Pending(t, o)'
    BY <1>7 DEF Pending
  <2>2. ASSUME NEW m \in Loaded', Wants(o)' = place'[m], NEW i \in DOMAIN stk[m]
        PROVE  FALSE
    <3>1. m \in DOMAIN Resident /\ m \in Modules
      BY <1>5, <2>2 DEF Loaded
    <3>2. place'[m] = Resident[m] /\ Resident[m] \in Addrs /\ Resident[m] # NULL
      BY <1>2, <3>1, NewPlaces, ResidentAssumption, NullAddressAssumption
    <3>3. o \in Allocated /\ data'[o].target = data[o].target
      BY <1>3, <1>5
    <3>4. ForResident(o)
      <4>1. CASE data[o].target.kind = "address"
        BY <4>1 DEF ForResident
      <4>2. CASE data[o].target.kind # "address"
        <5>1. data[o].target.module \in Modules
          BY <3>3, <4>2, RecordOf, TargetsAssumption, LibrariesAssumption DEF TargetKinds
        <5>2. place'[data[o].target.module] = place'[m]
          BY <2>2, <3>3, <4>2 DEF Wants
        <5>3. data[o].target.module = m
          BY <1>2, <3>1, <3>2, <5>1, <5>2, NewPlaces
        <5> QED
          BY <3>1, <5>3 DEF ForResident
      <4> QED
        BY <4>1, <4>2
    <3>5. OnStack(stk, o)
      BY <1>8, <3>4
    <3> QED
      BY <1>3, <1>8, <1>9, <3>5
  <2> QED
    BY <2>1, <2>2
<1>13. PatchingInOrder(stk, t)' /\ RemovingLatest(stk, t)'
  BY <1>7 DEF PatchingInOrder, RemovingLatest
<1> QED
  BY <1>5, <1>11, <1>12, <1>13, PutTogether

\* What stands over the modules of an application goes with it.
LEMMA ApplicationEndsSerial ==
  ASSUME NEW stk, NEW t, Working(stk, t), ApplicationEnds
  PROVE  SerialInv([m \in Modules |-> IF m \in DOMAIN Resident THEN stk[m] ELSE <<>>])'
<1> USE DEF Working
<1>s. PICK s : s = [m \in Modules |-> IF m \in DOMAIN Resident THEN stk[m] ELSE <<>>]
  OBVIOUS
<1>1. /\ UNCHANGED <<data, list, th>> /\ ~notify' /\ Quiescent
      /\ place' = [m \in Modules |-> IF m \in DOMAIN Resident THEN Resident[m] ELSE NULL]
      /\ \A a \in Addrs : IF \E m \in DOMAIN Resident : Resident[m] = a
                          THEN text'[a] = text[a] ELSE text'[a] = NULL
  BY DEF ApplicationEnds, LeftBehind, Discipline
<1>2. th[t] = Idle /\ th'[t] = Idle /\ Idle.op = "none" /\ Idle.pc = "idle"
  BY <1>1 DEF Quiescent, Idle
<1>3. /\ s \in [Modules -> Seq(Objects)]
      /\ \A m \in Modules : m \in DOMAIN Resident => s[m] = stk[m]
      /\ \A m \in Modules : m \notin DOMAIN Resident => s[m] = <<>>
  BY <1>s DEF MemoryIs
<1>4. /\ Loaded' = DOMAIN Resident
      /\ \A m \in DOMAIN Resident : /\ m \in Modules /\ m \in Loaded
                                    /\ place'[m] = Resident[m] /\ place[m] = Resident[m]
                                    /\ Resident[m] \in Addrs
  BY <1>1, ResidentAssumption, NullAddressAssumption, ResidentLoaded DEF Loaded
<1>5. /\ Listed' = Listed /\ Allocated' = Allocated /\ Listed \subseteq Allocated
      /\ \A o, q : Earlier(o, q)' = Earlier(o, q)
      /\ \A o : ForResident(o)' = ForResident(o)
  BY <1>1 DEF Listed, Allocated, Earlier, ListedOnce, ForResident
<1>6. \A o \in Allocated : ForResident(o) => Wants(o)' = Wants(o)
  BY <1>1, <1>4, ResidentWants
<1>7. MemoryIs(s)'
  <2>1. ASSUME NEW a \in Addrs \ Occupied' PROVE text'[a] = NULL
    <3>1. \A m \in DOMAIN Resident : Resident[m] # a
      BY <1>4, <2>1 DEF Occupied
    <3> QED
      BY <1>1, <3>1
  <2>2. \A m \in Modules \ Loaded' : s[m] = <<>>
    BY <1>3, <1>4
  <2>3. ASSUME NEW m \in Loaded' PROVE text'[place'[m]] = Top(s[m], m)
    <3>1. m \in DOMAIN Resident
      BY <1>4
    <3>2. text'[Resident[m]] = text[Resident[m]]
      BY <1>1, <1>4, <3>1
    <3>3. text[place[m]] = Top(stk[m], m)
      BY <1>4, <3>1 DEF MemoryIs
    <3> QED
      BY <1>3, <1>4, <3>1, <3>2, <3>3
  <2>4. ASSUME NEW m \in Loaded', NEW i \in DOMAIN s[m]
        PROVE  /\ m \in Loaded /\ s[m] = stk[m] /\ s[m][i] \in Allocated'
               /\ Wants(s[m][i])' = place'[m]
               /\ data'[s[m][i]].address = place'[m]
               /\ data'[s[m][i]].replaced = Below(s[m], i, m)
    <3>1. m \in Loaded /\ m \in DOMAIN Resident /\ s[m] = stk[m]
      BY <1>3, <1>4
    <3>2. /\ stk[m][i] \in Allocated /\ Wants(stk[m][i]) = place[m]
          /\ data[stk[m][i]].address = place[m]
          /\ data[stk[m][i]].replaced = Below(stk[m], i, m)
      BY <3>1 DEF MemoryIs
    <3>3. ForResident(stk[m][i])
      BY <1>4, <3>1, <3>2, WantsWhere
    <3> QED
      BY <1>1, <1>4, <1>5, <1>6, <3>1, <3>2, <3>3
  <2>5. \A m \in Loaded' : \A i, j \in DOMAIN s[m] : i < j => Earlier(s[m][j], s[m][i])'
    BY <1>5, <2>4 DEF MemoryIs
  <2> QED
    BY <1>3, <2>1, <2>2, <2>3, <2>4, <2>5 DEF MemoryIs
<1>8. AddressesApart'
  <2> SUFFICES ASSUME NEW o \in Allocated, NEW k \in DOMAIN Resident,
                      data[o].address = Resident[k]
               PROVE  Wants(o)' = Resident[k]
    BY <1>1, <1>5 DEF AddressesApart
  <2>1. Wants(o) = Resident[k] /\ ForResident(o)
    BY WantsWhere DEF AddressesApart
  <2> QED
    BY <1>6, <2>1
<1>9. \A o : OnStack(s, o) => OnStack(stk, o)
  BY <1>3 DEF OnStack
<1>10. ~Attended'
  BY <1>1, <1>2 DEF Attended
<1>11. FlagsFollow(s, t)'
  <2>1. \A q \in Objects : OnStack(s, q) => data[q].isPatched /\ q \in Listed
    BY <1>2, <1>9 DEF FlagsFollow
  <2>2. ASSUME NEW q \in Listed, ForResident(q) PROVE OnStack(s, q)
    <3>1. OnStack(stk, q) /\ q \in Allocated
      BY <1>2, <1>5, <2>2 DEF FlagsFollow
    <3>2. PICK m \in DOMAIN Resident : Wants(q) = Resident[m]
      BY <2>2, <3>1, WantsWhere
    <3>3. m \in Loaded /\ m \in Modules /\ Wants(q) = place[m] /\ s[m] = stk[m]
      BY <1>3, <1>4, <3>2
    <3>4. \E i \in DOMAIN stk[m] : stk[m][i] = q
      BY <3>1, <3>3, StackedOnce
    <3> QED
      BY <3>3, <3>4 DEF OnStack
  <2>3. \A q \in Allocated : data[q].isPatched => data[q].address \in Addrs
    BY DEF FlagsFollow
  <2> QED
    BY <1>1, <1>5, <1>10, <2>1, <2>2, <2>3 DEF FlagsFollow
<1>12. NoneForgotten(s, t)'
  BY <1>10 DEF NoneForgotten
<1>13. PatchingInOrder(s, t)' /\ RemovingLatest(s, t)'
  BY <1>2 DEF PatchingInOrder, RemovingLatest
<1>14. SerialInv(s)'
  BY <1>7, <1>8, <1>11, <1>12, <1>13, PutTogether
<1> QED
  BY <1>s, <1>14
------------------------------------------------------------------------------
(* Every step, and what it does to the stacks.                              *)

\* The registry while the stacks stay: it stays, gains an object at its end, or
\* loses one that is on no stack.
RegistryChanges(stk) ==
  \/ list' = list
  \/ \E o \in Objects \ Listed : list' = Append(list, o)
  \/ \E i \in DOMAIN list :
       /\ list' = [j \in 1 .. Len(list) - 1 |-> list[IF j < i THEN j ELSE j + 1]]
       /\ ~OnStack(stk, list[i])

\* The stacks were stk and become s by a step that PatchStack knows.
Becomes(stk, s) ==
  \/ s = stk /\ Loaded' = Loaded /\ RegistryChanges(stk)
  \/ /\ list' = list /\ Loaded' = Loaded
     /\ \E m \in Loaded, o \in Objects :
          /\ s = [stk EXCEPT ![m] = <<o>> \o @]
          /\ \A i \in DOMAIN stk[m] : Earlier(stk[m][i], o)
  \/ /\ list' = list /\ Loaded' = Loaded
     /\ \E m \in Loaded : stk[m] # <<>> /\ s = [stk EXCEPT ![m] = Tail(@)]
  \/ list' = list /\ s = [m \in Modules |-> IF m \in Loaded' THEN stk[m] ELSE <<>>]

\* A step that leaves the registry and the modules leaves the stacks.
LEMMA StacksStay ==
  ASSUME NEW stk, UNCHANGED <<place, list>>, SerialInv(stk)'
  PROVE  \E s : SerialInv(s)' /\ Becomes(stk, s)
BY DEF Becomes, RegistryChanges, Loaded

\* The registry without the object at erasePosition.
LEMMA ErasedList ==
  ASSUME IndInv, NEW t \in Threads, Erase(t)
  PROVE  \E i \in DOMAIN list :
           /\ list[i] = th[t].removed
           /\ list' = [j \in 1 .. Len(list) - 1 |-> list[IF j < i THEN j ELSE j + 1]]
<1>1. PICK i \in DOMAIN list :
        /\ list[i] = th[t].removed
        /\ \A j \in 1 .. Len(list) - 1 : list'[j] = IF j < i THEN list[j] ELSE list[j + 1]
  BY EraseRemoves
<1>2. list' \in Seq(Objects) /\ Len(list') = Len(list) - 1
  BY EraseRemoves
<1>3. list' = [j \in 1 .. Len(list) - 1 |-> list'[j]]
  BY <1>2
<1> QED
  BY <1>1, <1>3

\* The steps of the calls, callbacks and hooks that go on by themselves.
LEMMA ProceedSerial ==
  ASSUME NEW stk, NEW t, Working(stk, t), Proceed(t)
  PROVE  \E s : SerialInv(s)' /\ Becomes(stk, s)
<1>0. IndInv /\ t \in Threads
  BY DEF Working
<1>1. CASE SkipPatch(t)
  BY <1>1, SkipPatchSerial, StacksStay DEF SkipPatch
<1>2. CASE Unresolved(t)
  BY <1>2, UnresolvedSerial, StacksStay DEF Unresolved
<1>3. CASE Resolve(t)
  BY <1>3, ResolveSerial, StacksStay DEF Resolve
<1>4. CASE ReadInstruction(t)
  BY <1>4, ReadInstructionSerial, StacksStay DEF ReadInstruction
<1>5. CASE WriteOnCore(t) /\ th[t].served
  BY <1>5, WriteAgainSerial, StacksStay DEF WriteOnCore
<1>6. CASE WriteOnCore(t) /\ ~th[t].served
  <2>1. PICK m \in Loaded, o \in Objects :
          /\ \A i \in DOMAIN stk[m] : Earlier(stk[m][i], o)
          /\ SerialInv([stk EXCEPT ![m] = <<o>> \o @])'
    BY <1>6, PushSerial
  <2>2. list' = list /\ Loaded' = Loaded
    BY <1>6 DEF WriteOnCore, Loaded
  <2>3. Becomes(stk, [stk EXCEPT ![m] = <<o>> \o @])
    BY <2>1, <2>2 DEF Becomes
  <2> QED
    BY <2>1, <2>3
<1>7. CASE SetPatched(t)
  BY <1>7, SetPatchedSerial, StacksStay DEF SetPatched
<1>8. CASE PatchNext(t)
  BY <1>8, PatchNextSerial, StacksStay DEF PatchNext
<1>9. CASE SkipRestore(t)
  BY <1>9, SkipRestoreSerial, StacksStay DEF SkipRestore
<1>10. CASE CheckInstruction(t)
  BY <1>10, CheckInstructionSerial, StacksStay DEF CheckInstruction
<1>11. CASE RestoreInstruction(t)
  <2>1. PICK m \in Loaded : stk[m] # <<>> /\ SerialInv([stk EXCEPT ![m] = Tail(@)])'
    BY <1>11, PopSerial
  <2>2. list' = list /\ Loaded' = Loaded
    BY <1>11 DEF RestoreInstruction, Loaded
  <2>3. Becomes(stk, [stk EXCEPT ![m] = Tail(@)])
    BY <2>1, <2>2 DEF Becomes
  <2> QED
    BY <2>1, <2>3
<1>12. CASE Erase(t)
  <2>1. SerialInv(stk)' /\ ~OnStack(stk, th[t].removed)
    BY <1>12, EraseSerial
  <2>2. RegistryChanges(stk)
    BY <1>0, <1>12, <2>1, ErasedList DEF RegistryChanges
  <2>3. Loaded' = Loaded
    BY <1>12 DEF Erase, Loaded
  <2> QED
    BY <2>1, <2>2, <2>3 DEF Becomes
<1>13. CASE FinishRemove(t)
  BY <1>13, FinishRemoveSerial, StacksStay DEF FinishRemove
<1>14. CASE FinishLoaded(t)
  BY <1>14, FinishLoadedSerial, StacksStay DEF FinishLoaded
<1>15. CASE FinishStart(t)
  BY <1>15, FinishStartSerial, StacksStay DEF FinishStart
<1>16. CASE SkipCore(t) \/ JoinNeverReturns(t)
  BY <1>16, NoThreadSerial, StacksStay DEF SkipCore, JoinNeverReturns
<1> QED
  BY <1>1, <1>2, <1>3, <1>4, <1>5, <1>6, <1>7, <1>8, <1>9, <1>10, <1>11, <1>12, <1>13,
     <1>14, <1>15, <1>16 DEF Proceed

\* The steps that wait for the mutex.
LEMMA LockingSerial ==
  ASSUME NEW stk, NEW t, Working(stk, t), Locking(t)
  PROVE  \E s : SerialInv(s)' /\ Becomes(stk, s)
<1>1. CASE PushBack(t)
  <2>1. SerialInv(stk)'
    BY <1>1, PushBackSerial
  <2>2. th[t].cur \in Objects \ Listed
    BY <1>1, PushBackAppends DEF Working, Allocated
  <2>3. RegistryChanges(stk) /\ Loaded' = Loaded
    BY <1>1, <2>2 DEF PushBack, RegistryChanges, Loaded
  <2> QED
    BY <2>1, <2>3 DEF Becomes
<1>2. CASE PatchNotFound(t)
  BY <1>2, PatchIsFound
<1>3. CASE FindToBeRemoved(t)
  BY <1>3, FindToBeRemovedSerial, StacksStay DEF FindToBeRemoved
<1>4. CASE NotifyLoaded(t)
  BY <1>4, NotifyLoadedSerial, StacksStay DEF NotifyLoaded
<1>5. CASE NotifyUnloaded(t)
  BY <1>5, NotifyUnloadedSerial, StacksStay DEF NotifyUnloaded
<1> QED
  BY <1>1, <1>2, <1>3, <1>4, <1>5 DEF Locking

\* Modules that come stand alone; what stood over modules that go is gone.
LEMMA ModulesChange ==
  ASSUME NEW stk, MemoryIs(stk), NEW s, DOMAIN s = Modules, s = [m \in Modules |-> s[m]],
         \A m \in Modules : s[m] = IF m \in Loaded' THEN stk[m] ELSE <<>>,
         list' = list, SerialInv(s)'
  PROVE  \E r : SerialInv(r)' /\ Becomes(stk, r)
<1>1. s = [m \in Modules |-> IF m \in Loaded' THEN stk[m] ELSE <<>>]
  OBVIOUS
<1> QED
  BY <1>1 DEF Becomes

\* The stacks when modules come and none goes.
LEMMA ModulesCome ==
  ASSUME NEW stk, MemoryIs(stk), Loaded \subseteq Loaded', list' = list, SerialInv(stk)'
  PROVE  \E s : SerialInv(s)' /\ Becomes(stk, s)
<1>1. /\ DOMAIN stk = Modules /\ stk = [m \in Modules |-> stk[m]]
      /\ \A m \in Modules : stk[m] = IF m \in Loaded' THEN stk[m] ELSE <<>>
  BY DEF MemoryIs
<1> QED
  BY <1>1, ModulesChange

\* The calls of clients and of the system.
LEMMA CallsSerial ==
  ASSUME NEW stk, NEW t, Working(stk, t), Calls(t)
  PROVE  \E s : SerialInv(s)' /\ Becomes(stk, s)
<1> USE DEF Working
<1>1. ASSUME NEW tg \in Targets, FPAddFunctionPatch(t, tg)
      PROVE  \E s : SerialInv(s)' /\ Becomes(stk, s)
  BY <1>1, FPAddFunctionPatchSerial, StacksStay DEF FPAddFunctionPatch
<1>2. ASSUME NEW o \in Objects, FPRemoveFunctionPatch(t, o)
      PROVE  \E s : SerialInv(s)' /\ Becomes(stk, s)
  BY <1>2, FPRemoveFunctionPatchSerial, StacksStay DEF FPRemoveFunctionPatch
<1>3. ASSUME NEW m \in Modules, NEW a \in Addrs, OSLoad(t, m, a)
      PROVE  \E s : SerialInv(s)' /\ Becomes(stk, s)
  <2>1. SerialInv(stk)'
    BY <1>3, OSLoadSerial
  <2>2. Loaded \subseteq Loaded' /\ list' = list
    BY <1>3 DEF OSLoad, Loaded, TypeOK
  <2> QED
    BY <2>1, <2>2, ModulesCome
<1>4. ASSUME NEW m \in Modules, OSUnload(t, m)
      PROVE  \E s : SerialInv(s)' /\ Becomes(stk, s)
  <2>s. PICK s : s = [stk EXCEPT ![m] = <<>>]
    OBVIOUS
  <2>1. SerialInv(s)'
    BY <1>4, <2>s, OSUnloadSerial
  <2>2. Loaded' = Loaded \ {m} /\ list' = list
    BY <1>4 DEF OSUnload, Loaded, TypeOK
  <2>3. stk \in [Modules -> Seq(Objects)] /\ \A k \in Modules \ Loaded : stk[k] = <<>>
    BY DEF MemoryIs
  <2>4. /\ DOMAIN s = Modules /\ s = [k \in Modules |-> s[k]]
        /\ \A k \in Modules : s[k] = IF k \in Loaded' THEN stk[k] ELSE <<>>
    BY <2>s, <2>2, <2>3
  <2> QED
    BY <2>1, <2>2, <2>4, ModulesChange
<1>5. ASSUME NEW ti \in Titles, NEW upidMatches \in BOOLEAN,
             ApplicationStarts(t, ti, upidMatches)
      PROVE  \E s : SerialInv(s)' /\ Becomes(stk, s)
  <2>1. SerialInv(stk)'
    <3>1. CASE upidMatches = TRUE
      BY <1>5, <3>1, OwnProcessSerial
    <3>2. CASE upidMatches = FALSE
      BY <1>5, <3>2, OtherProcessSerial
    <3> QED
      BY <3>1, <3>2
  <2>2. title = NULL /\ list' = list
    BY <1>5 DEF ApplicationStarts
  <2>3. PICK p \in Placements : place' = p
    BY <1>5 DEF ApplicationStarts
  <2>4. \A m \in DOMAIN Resident : m \in Modules /\ p[m] = Resident[m] /\ p[m] # NULL
    BY NewPlaces, ResidentAssumption, NullAddressAssumption
  <2>5. Loaded \subseteq Loaded'
    BY <2>2, <2>3, <2>4, OnlyResident DEF Loaded
  <2> QED
    BY <2>1, <2>2, <2>5, ModulesCome
<1> QED
  BY <1>1, <1>2, <1>3, <1>4, <1>5 DEF Calls

\* The end of an application.
LEMMA EndSerial ==
  ASSUME NEW stk, NEW t, Working(stk, t), ApplicationEnds
  PROVE  \E s : SerialInv(s)' /\ Becomes(stk, s)
<1> USE DEF Working
<1>s. PICK s : s = [m \in Modules |-> IF m \in DOMAIN Resident THEN stk[m] ELSE <<>>]
  OBVIOUS
<1>1. SerialInv(s)'
  BY <1>s, ApplicationEndsSerial
<1>2. Loaded' = DOMAIN Resident /\ list' = list
  <2>1. /\ place' = [m \in Modules |-> IF m \in DOMAIN Resident THEN Resident[m] ELSE NULL]
        /\ list' = list
    BY DEF ApplicationEnds
  <2>2. \A m \in DOMAIN Resident : m \in Modules /\ Resident[m] # NULL
    BY ResidentAssumption, NullAddressAssumption
  <2>3. \A m \in Modules : place'[m] # NULL <=> m \in DOMAIN Resident
    BY <2>1, <2>2
  <2> QED
    BY <2>1, <2>2, <2>3 DEF Loaded
<1>3. /\ DOMAIN s = Modules /\ s = [m \in Modules |-> s[m]]
      /\ \A m \in Modules : s[m] = IF m \in Loaded' THEN stk[m] ELSE <<>>
  BY <1>s, <1>2
<1> QED
  BY <1>1, <1>2, <1>3, ModulesChange

\* One step of the program, as the words in memory see it.
LEMMA NextSerial ==
  ASSUME Discipline, IndInv, LoaderInv, CacheInv, [Next]_vars, NEW stk, SerialInv(stk)
  PROVE  \E s : SerialInv(s)' /\ Becomes(stk, s)
<1>1. PICK t \in Threads : Threads = {t}
  BY DEF Discipline, OneThread
<1>2. Working(stk, t)
  BY <1>1, AtWork
<1>3. CASE UNCHANGED vars
  <2>1. SerialInv(stk)'
    <3>1. /\ MemoryIs(stk)' /\ AddressesApart'
          /\ Listed' = Listed /\ Loaded' = Loaded /\ Occupied' = Occupied
          /\ Allocated' = Allocated
          /\ \A p : /\ Wants(p)' = Wants(p) /\ ForResident(p)' = ForResident(p)
                   /\ ShouldBePatched(p)' = ShouldBePatched(p)
          /\ \A p, q : Earlier(p, q)' = Earlier(p, q)
      BY <1>2, <1>3, WordsStay DEF vars, Working
    <3>2. Attended' = Attended
      BY <1>3 DEF vars, Attended
    <3>3. FlagsFollow(stk, t)'
      BY <1>2, <1>3, <3>1, <3>2 DEF vars, Working, FlagsFollow
    <3>4. NoneForgotten(stk, t)'
      BY <1>2, <1>3, <3>1, <3>2 DEF vars, Working, NoneForgotten, Pending
    <3>5. PatchingInOrder(stk, t)'
      BY <1>2, <1>3, <3>1, <3>2 DEF vars, Working, PatchingInOrder, Current
    <3>6. RemovingLatest(stk, t)'
      BY <1>2, <1>3 DEF vars, Working, RemovingLatest, Current
    <3> QED
      BY <1>1, <3>1, <3>3, <3>4, <3>5, <3>6, PutTogether
  <2> QED
    BY <1>3, <2>1, StacksStay DEF vars
<1>4. CASE ApplicationEnds
  BY <1>2, <1>4, EndSerial
<1>5. CASE Proceed(t)
  BY <1>2, <1>5, ProceedSerial
<1>6. CASE Locking(t)
  BY <1>2, <1>6, LockingSerial
<1>7. CASE Calls(t)
  BY <1>2, <1>7, CallsSerial
<1>8. Next => ApplicationEnds \/ Proceed(t) \/ Locking(t) \/ Calls(t)
  BY <1>1 DEF Next
<1> QED
  BY <1>3, <1>4, <1>5, <1>6, <1>7, <1>8

\* At first nothing stands over any function.
LEMMA InitSerial ==
  ASSUME Discipline, Init
  PROVE  SerialInv([m \in Modules |-> <<>>])
<1>s. PICK stk : stk = [m \in Modules |-> <<>>]
  OBVIOUS
<1>1. /\ \A m \in DOMAIN Resident : m \in Modules /\ place[m] = Resident[m] /\ Resident[m] \in Addrs
      /\ \A m \in Modules \ DOMAIN Resident : place[m] = NULL
      /\ \A m \in Modules : place[m] # NULL => m \in DOMAIN Resident
  BY ResidentAssumption DEF Init
<1>2. /\ \A t \in Threads : th[t] = Idle
      /\ Idle.op = "none" /\ Idle.pc = "idle" /\ ~notify
  BY DEF Init, Idle
<1>3. Allocated = {} /\ Listed = {}
  BY DEF Init, Allocated, Listed, Range
<1>4. /\ stk \in [Modules -> Seq(Objects)]
      /\ \A m \in Modules : stk[m] = <<>> /\ DOMAIN stk[m] = {}
  <2>1. <<>> \in Seq(Objects) /\ DOMAIN <<>> = {}
    OBVIOUS
  <2> QED
    BY <1>s, <2>1
<1>5. ASSUME NEW a \in Addrs \ Occupied PROVE text[a] = NULL
  <2>1. \A m \in DOMAIN Resident : Resident[m] # a
    BY <1>1, <1>5 DEF Occupied
  <2> QED
    BY <2>1 DEF Init
<1>6. ASSUME NEW m \in Loaded PROVE text[place[m]] = Top(stk[m], m)
  <2>1. m \in DOMAIN Resident /\ m \in Modules /\ place[m] = Resident[m] /\ Resident[m] \in Addrs
    BY <1>1 DEF Loaded
  <2>2. text[Resident[m]] = CHOOSE n \in DOMAIN Resident : Resident[n] = Resident[m]
    BY <2>1 DEF Init
  <2>3. (CHOOSE n \in DOMAIN Resident : Resident[n] = Resident[m]) = m
    BY <2>1, ResidentAssumption
  <2> QED
    BY <1>4, <2>1, <2>2, <2>3 DEF Top
<1>7. MemoryIs(stk)
  BY <1>4, <1>5, <1>6 DEF MemoryIs, Loaded
<1>8. AddressesApart
  BY <1>3 DEF AddressesApart
<1>9. ~Attended
  BY <1>2 DEF Attended
<1>10. ASSUME NEW t \in Threads
       PROVE  FlagsFollow(stk, t) /\ NoneForgotten(stk, t)
              /\ PatchingInOrder(stk, t) /\ RemovingLatest(stk, t)
  <2>1. \A o : ~OnStack(stk, o)
    BY <1>4 DEF OnStack
  <2> QED
    BY <1>2, <1>3, <1>9, <2>1
       DEF FlagsFollow, NoneForgotten, PatchingInOrder, RemovingLatest
<1>11. SerialInv(stk)
  BY <1>7, <1>8, <1>10 DEF SerialInv
<1> QED
  BY <1>s, <1>11
------------------------------------------------------------------------------
(* The theorems.                                                            *)

\* The words in memory are stacks.
SerialUsed == \E stk : SerialInv(stk)

\* The stacks are those that calls go through.
StacksShown == \A stk : MemoryIs(stk) => Stacks = stk

\* Whatever step is taken, the words in memory stay stacks.
LEMMA NextKeepsSerial ==
  ASSUME Discipline, IndInv, LoaderInv, CacheInv, SerialUsed, [Next]_vars
  PROVE  SerialUsed'
<1>1. PICK stk : SerialInv(stk)
  BY DEF SerialUsed
<1>2. PICK s : SerialInv(s)'
  BY <1>1, NextSerial
<1> QED
  BY <1>2 DEF SerialUsed

\* One thread never finds two callbacks under way.
LEMMA OneThreadInTurn ==
  ASSUME Discipline
  PROVE  InTurn
BY DEF Discipline, OneThread, InTurn

\* The words in memory are always stacks, those that calls go through.
LEMMA AlwaysSerial ==
  ASSUME Discipline
  PROVE  Spec => [](CacheInv /\ SerialUsed /\ StacksShown)
<1>1. Init => SerialUsed
  BY InitSerial DEF SerialUsed
<1>2. IndInv /\ LoaderInv /\ CacheInv /\ SerialUsed /\ [Next]_vars => SerialUsed'
  BY NextKeepsSerial
<1>3. Spec => []CacheInv
  BY OneThreadInTurn, CacheFollowed
<1>4. IndInv => StacksShown
  BY StacksAre DEF StacksShown
<1> QED
  BY <1>1, <1>2, <1>3, <1>4, LoaderFollowed, Inductive, PTL DEF Spec

\* Under the discipline, at every step, the words in memory are stacks in the
\* order of registration, the stacks that calls go through, and SerialInv tells
\* how the flags, the registry and the call under way go with them.
THEOREM StackDiscipline ==
  ASSUME Discipline
  PROVE  Spec => []WordsAreStacks
<1>1. SerialUsed /\ StacksShown => WordsAreStacks
  <2> SUFFICES ASSUME SerialUsed, StacksShown PROVE SerialInv(Stacks)
    BY DEF WordsAreStacks
  <2>1. PICK stk : SerialInv(stk)
    BY DEF SerialUsed
  <2>2. Stacks = stk
    BY <2>1 DEF SerialInv, StacksShown
  <2> QED
    BY <2>1, <2>2
<1> QED
  BY <1>1, AlwaysSerial, PTL

\* Under the discipline every call that the replacements hand on reaches the
\* unpatched function, through objects that are alive and meant for it.
THEOREM OriginalStaysReachable ==
  ASSUME Discipline
  PROVE  Spec => []OriginalReachable
<1>1. IndInv /\ LoaderInv /\ SerialUsed => OriginalReachable
  BY StackedReachable DEF SerialUsed, SerialInv
<1> QED
  BY <1>1, AlwaysSerial, LoaderFollowed, Inductive, PTL

\* Under the discipline the replacement that runs first is the one listed last,
\* as FPRemoveFunctionPatch assumes.
THEOREM LaterStaysOnTop ==
  ASSUME Discipline
  PROVE  Spec => []LaterPatchesOnTop
<1>1. IndInv /\ SerialUsed => LaterPatchesOnTop
  BY StackedInOrder DEF SerialUsed, SerialInv
<1> QED
  BY <1>1, AlwaysSerial, Inductive, PTL

\* Under the discipline FPIsFunctionPatched answers, between two calls, whether
\* the replacement would run.
THEOREM FlagsStayTrue ==
  ASSUME Discipline
  PROVE  Spec => []FlagsTellTruth
<1>1. OneThread
  BY DEF Discipline
<1>2. IndInv /\ LoaderInv /\ SerialUsed => FlagsTellTruth
  BY <1>1, StackedFlags DEF SerialUsed
<1> QED
  BY <1>2, AlwaysSerial, LoaderFollowed, Inductive, PTL

\* Under the discipline no callback, hook or call forgets a replacement whose
\* module is in memory.
THEOREM AllStayApplied ==
  ASSUME Discipline
  PROVE  Spec => []AllApplied
<1>1. OneThread
  BY DEF Discipline
<1>2. IndInv /\ SerialUsed => AllApplied
  BY <1>1, StackedApplied DEF SerialUsed
<1> QED
  BY <1>2, AlwaysSerial, Inductive, PTL

\* A step that takes the stacks from stk to s is a step of PatchStack.
LEMMA BecomesIsStep ==
  ASSUME NEW stk, NEW s, Stacks = stk, Stacks' = s, Becomes(stk, s), MemoryIs(stk), IndInv
  PROVE  [PatchStacks!StackNext]_(PatchStacks!stackVars)
<1>1. \A m \in Modules : \A o : o \in PatchStacks!Elements(Stacks[m]) =>
        \E i \in DOMAIN stk[m] : stk[m][i] = o
  BY DEF PatchStacks!Elements
<1>2. \A o : o \in PatchStacks!Elements(list) <=> o \in Listed
  BY DEF PatchStacks!Elements, Listed, Range
<1>3. \A o, p : PatchStacks!Precedes(o, p) <=> Earlier(o, p)
  BY DEF PatchStacks!Precedes, Earlier
<1>4. stk \in [Modules -> Seq(Objects)] /\ Loaded' \subseteq Modules
  BY DEF MemoryIs, Loaded
<1>5. CASE s = stk /\ Loaded' = Loaded /\ RegistryChanges(stk)
  <2>1. CASE list' = list
    BY <1>5, <2>1 DEF PatchStacks!stackVars
  <2>2. ASSUME NEW o \in Objects \ Listed, list' = Append(list, o)
        PROVE  PatchStacks!StackNext
    <3>1. PatchStacks!Register(o)
      BY <1>2, <1>5, <2>2 DEF PatchStacks!Register
    <3> QED
      BY <3>1 DEF PatchStacks!StackNext
  <2>3. ASSUME NEW i \in DOMAIN list,
               list' = [j \in 1 .. Len(list) - 1 |-> list[IF j < i THEN j ELSE j + 1]],
               ~OnStack(stk, list[i])
        PROVE  PatchStacks!StackNext
    <3>1. \A m \in Modules : list[i] \notin PatchStacks!Elements(Stacks[m])
      BY <1>1, <2>3 DEF OnStack
    <3>2. PatchStacks!Unregister(list[i])
      BY <1>5, <2>3, <3>1 DEF PatchStacks!Unregister
    <3>3. list[i] \in Objects
      BY DEF IndInv, TypeOK
    <3> QED
      BY <3>2, <3>3 DEF PatchStacks!StackNext
  <2> QED
    BY <1>5, <2>1, <2>2, <2>3 DEF RegistryChanges
<1>6. ASSUME NEW m \in Loaded, NEW o \in Objects, list' = list, Loaded' = Loaded,
             s = [stk EXCEPT ![m] = <<o>> \o @],
             \A i \in DOMAIN stk[m] : Earlier(stk[m][i], o)
      PROVE  PatchStacks!StackNext
  <2>1. m \in Modules /\ stk[m] \in Seq(Objects)
    BY <1>4 DEF Loaded
  <2>2. \A p \in PatchStacks!Elements(Stacks[m]) : PatchStacks!Precedes(p, o)
    BY <1>1, <1>3, <1>6, <2>1
  <2>3. PatchStacks!Push(m, o)
    BY <1>6, <2>2 DEF PatchStacks!Push
  <2>4. o \in PatchStacks!Elements(Stacks[m])'
    <3>1. s[m] = <<o>> \o stk[m]
      BY <1>4, <1>6, <2>1
    <3>2. 1 \in DOMAIN s[m] /\ s[m][1] = o
      BY <2>1, <3>1
    <3> QED
      BY <3>2 DEF PatchStacks!Elements
  <2> QED
    BY <2>1, <2>3, <2>4 DEF PatchStacks!StackNext
<1>7. ASSUME NEW m \in Loaded, list' = list, Loaded' = Loaded, stk[m] # <<>>,
             s = [stk EXCEPT ![m] = Tail(@)]
      PROVE  PatchStacks!StackNext
  <2>1. PatchStacks!Pop(m)
    BY <1>7 DEF PatchStacks!Pop
  <2> QED
    BY <2>1 DEF PatchStacks!StackNext, Loaded
<1>8. CASE list' = list /\ s = [m \in Modules |-> IF m \in Loaded' THEN stk[m] ELSE <<>>]
  <2>1. CASE Loaded' # Loaded
    <3>1. PatchStacks!ChangeModules
      BY <1>4, <1>8, <2>1 DEF PatchStacks!ChangeModules
    <3> QED
      BY <3>1 DEF PatchStacks!StackNext
  <2>2. CASE Loaded' = Loaded
    <3>1. \A m \in Modules : s[m] = stk[m]
      BY <1>8, <2>2 DEF MemoryIs
    <3>2. s = stk
      BY <1>4, <1>8, <3>1
    <3> QED
      BY <1>8, <2>2, <3>2 DEF PatchStacks!stackVars
  <2> QED
    BY <2>1, <2>2
<1> QED
  BY <1>5, <1>6, <1>7, <1>8 DEF Becomes

\* Under the discipline the program implements PatchStack: calls go through
\* whole stacks in the order of registration, one replacement comes or goes at a
\* time and at the top, and FPRemoveFunctionPatch gives up none that still runs.
THEOREM PatchStackImplemented ==
  ASSUME Discipline
  PROVE  Spec => ImplementsPatchStack
<1>1. Init /\ StacksShown => PatchStacks!StackInit
  <2> SUFFICES ASSUME Init, StacksShown PROVE PatchStacks!StackInit
    OBVIOUS
  <2>s. PICK stk : stk = [m \in Modules |-> <<>>]
    OBVIOUS
  <2>1. Stacks = stk
    BY <2>s, InitSerial DEF SerialInv, StacksShown
  <2> QED
    BY <2>s, <2>1 DEF Init, PatchStacks!StackInit, Loaded
<1>2. /\ IndInv /\ LoaderInv /\ CacheInv /\ SerialUsed /\ StacksShown /\ StacksShown'
      /\ [Next]_vars
      => [PatchStacks!StackNext]_(PatchStacks!stackVars)
  <2> SUFFICES ASSUME IndInv, LoaderInv, CacheInv, SerialUsed, StacksShown, StacksShown',
                      [Next]_vars
               PROVE  [PatchStacks!StackNext]_(PatchStacks!stackVars)
    OBVIOUS
  <2>1. PICK stk : SerialInv(stk)
    BY DEF SerialUsed
  <2>2. PICK s : SerialInv(s)' /\ Becomes(stk, s)
    BY <2>1, NextSerial
  <2>3. MemoryIs(stk) /\ MemoryIs(s)'
    BY <2>1, <2>2 DEF SerialInv
  <2>4. Stacks = stk /\ Stacks' = s
    BY <2>3 DEF StacksShown
  <2> QED
    BY <2>2, <2>3, <2>4, BecomesIsStep
<1> QED
  BY <1>1, <1>2, AlwaysSerial, LoaderFollowed, Inductive, PTL
     DEF Spec, ImplementsPatchStack, PatchStacks!StackSpec
==============================================================================
