------------------------------ MODULE SerialUse ------------------------------
(****************************************************************************)
(* FunctionPatcher as it is meant to be used: one call after the other, the *)
(* latest replacement taken back first, memory that a module left cleared,  *)
(* no replacement for some titles only of a function that is always in      *)
(* memory, and memory for a thread on some core whenever one is patched.    *)
(* Under this discipline the words in memory are stacks of replacements;    *)
(* the parts of the inductive invariant that say so.                        *)
(****************************************************************************)
EXTENDS FunctionPatcher

OneThread == \E t \in Threads : Threads = {t}

\* A replacement by address is for a function that stays where it is, and one
\* of a function that stays is for every title.
SeparateFunctions ==
  \A tg \in Targets :
    /\ tg.kind = "address" => \E m \in DOMAIN Resident : Resident[m] = tg.addr
    /\ tg.kind = "executable" /\ tg.module \in DOMAIN Resident => tg.titles = Titles

Discipline ==
  /\ OneThread
  /\ RemovalOrder = "lifo"
  /\ ~TextLingers
  /\ SomeCoreServed
  /\ SeparateFunctions
------------------------------------------------------------------------------
\* Where the function that o replaces is, as the loader knows it.
Wants(o) ==
  IF data[o].target.kind = "address" THEN data[o].target.addr
                                     ELSE place[data[o].target.module]

\* The function that o replaces is always in memory.
ForResident(o) ==
  data[o].target.kind = "address" \/ data[o].target.module \in DOMAIN Resident

\* o is registered before p, or p is not registered.
Earlier(o, p) ==
  \E i \in DOMAIN list : list[i] = o /\ \A j \in DOMAIN list : list[j] = p => i < j

OnStack(stk, o) == \E m \in Modules : \E i \in DOMAIN stk[m] : stk[m][i] = o

\* What a function of m starts with when s is the stack over it.
Top(s, m) == IF s = <<>> THEN m ELSE s[1]

\* The word the replacement s[i] executes to call on.
Below(s, i, m) == IF i = Len(s) THEN m ELSE s[i + 1]

\* The words in memory are the stacks stk, in the order of registration; where
\* there is no module there is nothing.
MemoryIs(stk) ==
  /\ stk \in [Modules -> Seq(Objects)]
  /\ \A a \in Addrs \ Occupied : text[a] = NULL
  /\ \A m \in Modules \ Loaded : stk[m] = <<>>
  /\ \A m \in Loaded : text[place[m]] = Top(stk[m], m)
  /\ \A m \in Loaded : \A i \in DOMAIN stk[m] :
       /\ stk[m][i] \in Allocated
       /\ Wants(stk[m][i]) = place[m]
       /\ data[stk[m][i]].address = place[m]
       /\ data[stk[m][i]].replaced = Below(stk[m], i, m)
  /\ \A m \in Loaded : \A i, j \in DOMAIN stk[m] : i < j => Earlier(stk[m][j], stk[m][i])

\* Only replacements of resident functions have the address of one.
AddressesApart ==
  \A o \in Allocated, m \in DOMAIN Resident :
    data[o].address = Resident[m] => Wants(o) = Resident[m]

\* t, the only thread, will still come to o, or takes it back.
Pending(t, o) ==
  \/ /\ th[t].op \in {"loaded", "start"}
     /\ \/ th[t].pc = "wait"
        \/ o \in th[t].todo
        \/ th[t].pc \in {"patch", "read", "write"} /\ th[t].cur = o
  \/ th[t].op = "remove" /\ th[t].removed = o

\* The flags: what is on a stack is marked, and registered, but for the object
\* in work; while the module attends to the loader what is marked is on a stack,
\* but for the objects of a module that has just left; replacements of resident
\* functions are always on their stack.  What is marked has been written somewhere.
FlagsFollow(stk, t) ==
  /\ \A o \in Allocated : data[o].isPatched => data[o].address \in Addrs
  /\ \A o \in Objects : OnStack(stk, o) =>
       /\ data[o].isPatched \/ (th[t].pc = "write" /\ th[t].cur = o)
       /\ o \in Listed \/ (th[t].op = "add" /\ th[t].cur = o)
  /\ \A o \in Listed : data[o].isPatched /\ Attended =>
       \/ OnStack(stk, o)
       \/ th[t].op = "unloaded" /\ data[o].address = th[t].module /\ Wants(o) = NULL
  /\ \A o \in Listed : ForResident(o) =>
       OnStack(stk, o) \/ (th[t].op = "remove" /\ th[t].removed = o)

\* What should be applied and is not is about to be, over all that is there.
NoneForgotten(stk, t) ==
  Attended => \A o \in Listed :
    ShouldBePatched(o) /\ Wants(o) # NULL /\ ~data[o].isPatched =>
      /\ Pending(t, o)
      /\ \A m \in Loaded : Wants(o) = place[m] =>
           \A i \in DOMAIN stk[m] : stk[m][i] = o \/ Earlier(stk[m][i], o)

\* Where PatchFunction is.
PatchingInOrder(stk, t) ==
  /\ th[t].pc \in {"read", "write"} =>
       /\ ~Current(t).isPatched
       /\ ShouldBePatched(th[t].cur)
       /\ Current(t).address = Wants(th[t].cur)
       /\ Current(t).address \in Occupied
  /\ th[t].pc = "write" /\ ~th[t].served =>
       /\ ~OnStack(stk, th[t].cur)
       /\ Current(t).replaced = text[Current(t).address]
  /\ th[t].pc = "write" /\ th[t].served =>
       /\ OnStack(stk, th[t].cur)
       /\ text[Current(t).address] = th[t].cur
  /\ th[t].pc = "write" /\ th[t].core = 0 => th[t].served
  /\ th[t].op \in {"loaded", "start"} /\ th[t].pc \in {"patch", "read", "write"} =>
       \A o \in th[t].todo : Earlier(th[t].cur, o)
  /\ th[t].op = "add" /\ Current(t).isPatched => OnStack(stk, th[t].cur)
  /\ th[t].op = "add" /\ th[t].pc = "push" =>
       \/ Current(t).isPatched
       \/ ~ShouldBePatched(th[t].cur)
       \/ Wants(th[t].cur) = NULL
       \/ ~Attended /\ ~ForResident(th[t].cur)

\* Where FPRemoveFunctionPatch is: it takes back the latest, nothing else.
RemovingLatest(stk, t) ==
  th[t].op = "remove" =>
    /\ th[t].pc \in {"wait", "undo", "unwrite", "next"}
    /\ th[t].later = {}
    /\ th[t].todo \subseteq {th[t].removed}
    /\ th[t].pc = "wait" => list # <<>> /\ th[t].cur = Last(list)
    /\ th[t].pc \in {"undo", "unwrite"} => list # <<>> /\ th[t].removed = Last(list)
    /\ th[t].pc = "undo" /\ OnStack(stk, th[t].removed) => th[t].todo = {th[t].removed}
    /\ th[t].pc = "unwrite" =>
         /\ th[t].cur = th[t].removed
         /\ th[t].todo = {}
         /\ OnStack(stk, th[t].cur)
         /\ text[Current(t).address] = th[t].cur
    /\ th[t].pc = "next" => th[t].todo = {} /\ ~OnStack(stk, th[t].removed)

SerialInv(stk) ==
  /\ MemoryIs(stk)
  /\ AddressesApart
  /\ \A t \in Threads :
       /\ FlagsFollow(stk, t)
       /\ NoneForgotten(stk, t)
       /\ PatchingInOrder(stk, t)
       /\ RemovingLatest(stk, t)

\* Whatever PatchFunction, RestoreFunction, the callbacks and the hooks have done,
\* the words in memory are stacks in the order of registration, those that calls
\* go through, and the flags, the registry and the call under way go with them.
WordsAreStacks == SerialInv(Stacks)
==============================================================================
