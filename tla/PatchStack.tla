------------------------------ MODULE PatchStack ------------------------------
(****************************************************************************)
(* What the patcher promises: over the function of every module in memory   *)
(* stands a stack of replacements, in the order of their registration.  It  *)
(* changes at its top only, by one replacement at a time, and a replacement *)
(* is given up only when no call can run it.  A call runs the top first;    *)
(* the one at the bottom calls the original.                                *)
(****************************************************************************)
EXTENDS Sequences, Integers

CONSTANTS
  Objects,       \* the replacements
  Modules        \* the modules, with one function each

VARIABLES
  registered,    \* the replacements of all clients, in order
  present,       \* the modules in memory
  stack          \* stack[m]: the replacements over m's function, top first

stackVars == <<registered, present, stack>>

Elements(s) == {s[i] : i \in DOMAIN s}

TypeInv ==
  /\ registered \in Seq(Objects)
  /\ present \subseteq Modules
  /\ stack \in [Modules -> Seq(Objects)]

\* o was registered before p; one that is not registered yet comes last.
Precedes(o, p) ==
  \E i \in DOMAIN registered :
    /\ registered[i] = o
    /\ \A j \in DOMAIN registered : registered[j] = p => i < j

------------------------------------------------------------------------------
StackInit ==
  /\ registered = <<>>
  /\ present \subseteq Modules
  /\ stack = [m \in Modules |-> <<>>]

\* A replacement may be applied before it is registered.
Register(o) ==
  /\ registered' = Append(registered, o)
  /\ o \notin Elements(registered)
  /\ UNCHANGED <<present, stack>>

\* A call can still run what is on a stack.
Unregister(o) ==
  /\ \E i \in DOMAIN registered :
       /\ registered[i] = o
       /\ registered' = [j \in 1 .. Len(registered) - 1 |->
                           registered[IF j < i THEN j ELSE j + 1]]
  /\ \A m \in Modules : o \notin Elements(stack[m])
  /\ UNCHANGED <<present, stack>>

Push(m, o) ==
  /\ UNCHANGED <<registered, present>>
  /\ m \in present
  /\ stack' = [stack EXCEPT ![m] = <<o>> \o @]
  /\ \A p \in Elements(stack[m]) : Precedes(p, o)

Pop(m) ==
  /\ UNCHANGED <<registered, present>>
  /\ stack[m] # <<>>
  /\ stack' = [stack EXCEPT ![m] = Tail(@)]

\* Modules come with a function that is as it was, and take their stack along.
ChangeModules ==
  /\ UNCHANGED registered
  /\ present' \subseteq Modules
  /\ present' # present
  /\ stack' = [m \in Modules |-> IF m \in present' THEN stack[m] ELSE <<>>]

StackNext ==
  \/ \E o \in Objects : Register(o) \/ Unregister(o)
  \/ \E m \in Modules : \E o \in Objects \intersect Elements(stack[m])' : Push(m, o)
  \/ \E m \in Modules : Pop(m)
  \/ ChangeModules

StackSpec == StackInit /\ [][StackNext]_stackVars
------------------------------------------------------------------------------
\* Every replacement is registered once.
RegisteredOnce ==
  \A i, j \in DOMAIN registered : registered[i] = registered[j] => i = j

\* On every stack each replacement lies over those registered before it; so only
\* the top may be one that is not registered yet, and none is there twice.
InOrder ==
  \A m \in Modules : \A i, j \in DOMAIN stack[m] :
    i < j => Precedes(stack[m][j], stack[m][i])

\* Only modules in memory have replacements over their function.
OnlyPresent == \A m \in Modules : stack[m] # <<>> => m \in present
==============================================================================
