--------------------------- MODULE PatchStackProofs ---------------------------
(****************************************************************************)
(* What PatchStack guarantees, for any replacements and modules.            *)
(****************************************************************************)
EXTENDS PatchStack, SequenceTheorems, TLAPS

StackInv == TypeInv /\ RegisteredOnce /\ InOrder /\ OnlyPresent

\* A replacement put on top of a stack moves the others down by one.
LEMMA Prepend ==
  ASSUME NEW S, NEW s \in Seq(S), NEW o \in S
  PROVE  /\ <<o>> \o s \in Seq(S)
         /\ Len(<<o>> \o s) = Len(s) + 1
         /\ (<<o>> \o s)[1] = o
         /\ \A i \in 1 .. Len(s) + 1 : 1 < i => (<<o>> \o s)[i] = s[i - 1]
<1>1. <<o>> \in Seq(S) /\ Len(<<o>>) = 1 /\ <<o>>[1] = o
  OBVIOUS
<1>2. /\ <<o>> \o s \in Seq(S)
      /\ Len(<<o>> \o s) = Len(<<o>>) + Len(s)
      /\ \A i \in 1 .. Len(<<o>>) + Len(s) :
           (<<o>> \o s)[i] = IF i <= Len(<<o>>) THEN <<o>>[i] ELSE s[i - Len(<<o>>)]
  BY <1>1, ConcatProperties
<1> QED
  BY <1>1, <1>2

\* The top taken off moves the others up by one.
LEMMA TailOfStack ==
  ASSUME NEW S, NEW s \in Seq(S), s # <<>>
  PROVE  /\ Tail(s) \in Seq(S)
         /\ Len(Tail(s)) = Len(s) - 1
         /\ Len(s) > 0
         /\ \A i \in 1 .. Len(s) - 1 : Tail(s)[i] = s[i + 1]
  OBVIOUS

\* What precedes stays when the registry grows ...
LEMMA RegisterKeepsOrder ==
  ASSUME TypeInv, NEW o \in Objects, Register(o), NEW p, NEW q, Precedes(p, q)
  PROVE  Precedes(p, q)'
<1>1. PICK i \in DOMAIN registered :
        registered[i] = p /\ \A j \in DOMAIN registered : registered[j] = q => i < j
  BY DEF Precedes
<1>2. /\ registered \in Seq(Objects)
      /\ DOMAIN registered = 1 .. Len(registered)
      /\ DOMAIN registered' = 1 .. Len(registered) + 1
      /\ \A k \in DOMAIN registered : registered'[k] = registered[k]
  BY DEF TypeInv, Register
<1>3. i \in DOMAIN registered' /\ registered'[i] = p
  BY <1>1, <1>2
<1>4. ASSUME NEW j \in DOMAIN registered', registered'[j] = q
      PROVE  i < j
  <2>1. CASE j \in DOMAIN registered
    BY <1>1, <1>2, <1>4, <2>1
  <2>2. CASE j = Len(registered) + 1
    BY <1>2, <2>2
  <2> QED
    BY <1>2, <2>1, <2>2
<1> QED
  BY <1>3, <1>4 DEF Precedes

\* ... and when another replacement leaves it.
LEMMA UnregisterKeepsOrder ==
  ASSUME TypeInv, NEW o \in Objects, Unregister(o),
         NEW p, NEW q, p # o, q # o, Precedes(p, q)
  PROVE  Precedes(p, q)'
<1>1. PICK i \in DOMAIN registered :
        registered[i] = p /\ \A j \in DOMAIN registered : registered[j] = q => i < j
  BY DEF Precedes
<1>2. PICK r \in DOMAIN registered :
        /\ registered[r] = o
        /\ registered' = [j \in 1 .. Len(registered) - 1 |->
                            registered[IF j < r THEN j ELSE j + 1]]
  BY DEF Unregister
<1>3. registered \in Seq(Objects) /\ DOMAIN registered = 1 .. Len(registered)
  BY DEF TypeInv
<1>4. i # r
  BY <1>1, <1>2
<1> DEFINE k == IF i < r THEN i ELSE i - 1
<1>5. k \in 1 .. Len(registered) - 1 /\ registered'[k] = p
  <2>1. CASE i < r
    BY <1>1, <1>2, <1>3, <2>1
  <2>2. CASE r < i
    BY <1>1, <1>2, <1>3, <2>2
  <2> QED
    BY <1>3, <1>4, <2>1, <2>2
<1>6. ASSUME NEW j \in DOMAIN registered', registered'[j] = q
      PROVE  k < j
  <2>1. j \in 1 .. Len(registered) - 1 /\ registered[IF j < r THEN j ELSE j + 1] = q
    BY <1>2, <1>6
  <2>2. CASE j < r
    <3>1. i < j
      BY <1>1, <1>3, <2>1, <2>2
    <3> QED
      BY <1>3, <2>1, <2>2, <3>1
  <2>3. CASE ~(j < r)
    <3>1. i < j + 1
      BY <1>1, <1>3, <2>1, <2>3
    <3> QED
      BY <1>3, <1>4, <2>1, <2>3, <3>1
  <2> QED
    BY <2>2, <2>3
<1>7. DOMAIN registered' = 1 .. Len(registered) - 1
  BY <1>2
<1> QED
  BY <1>5, <1>6, <1>7 DEF Precedes

------------------------------------------------------------------------------
\* Registering adds an element at the end.
LEMMA RegisterStep ==
  ASSUME StackInv, NEW o \in Objects, Register(o)
  PROVE  StackInv'
<1>1. /\ registered \in Seq(Objects) /\ DOMAIN registered = 1 .. Len(registered)
      /\ present' = present /\ stack' = stack
  BY DEF StackInv, TypeInv, Register
<1>2. /\ registered' \in Seq(Objects)
      /\ DOMAIN registered' = 1 .. Len(registered) + 1
      /\ \A k \in DOMAIN registered : registered'[k] = registered[k]
      /\ registered'[Len(registered) + 1] = o
      /\ \A k \in DOMAIN registered : registered[k] # o
  BY <1>1 DEF Register, Elements
<1>3. TypeInv'
  BY <1>1, <1>2 DEF StackInv, TypeInv
<1>4. RegisteredOnce'
  BY <1>1, <1>2 DEF StackInv, RegisteredOnce
<1>5. InOrder'
  BY <1>1, RegisterKeepsOrder DEF StackInv, InOrder
<1>6. OnlyPresent'
  BY <1>1 DEF StackInv, OnlyPresent
<1> QED
  BY <1>3, <1>4, <1>5, <1>6 DEF StackInv

\* Unregistering takes one element away, and none that is on a stack.
LEMMA UnregisterStep ==
  ASSUME StackInv, NEW o \in Objects, Unregister(o)
  PROVE  StackInv'
<1>1. PICK r \in DOMAIN registered :
        /\ registered[r] = o
        /\ registered' = [j \in 1 .. Len(registered) - 1 |->
                            registered[IF j < r THEN j ELSE j + 1]]
  BY DEF Unregister
<1>2. /\ registered \in Seq(Objects) /\ DOMAIN registered = 1 .. Len(registered)
      /\ present' = present /\ stack' = stack
      /\ \A m \in Modules : o \notin Elements(stack[m])
  BY DEF StackInv, TypeInv, Unregister
<1>3. /\ Len(registered) - 1 \in Nat
      /\ DOMAIN registered' = 1 .. Len(registered) - 1
      /\ \A j \in 1 .. Len(registered) - 1 :
           /\ j < r => j \in DOMAIN registered /\ registered'[j] = registered[j]
           /\ ~(j < r) => j + 1 \in DOMAIN registered /\ registered'[j] = registered[j + 1]
  BY <1>1, <1>2
<1>4. registered' \in Seq(Objects)
  <2>1. \A k \in DOMAIN registered : registered[k] \in Objects
    BY <1>2
  <2>2. \A j \in 1 .. Len(registered) - 1 :
          registered[IF j < r THEN j ELSE j + 1] \in Objects
    BY <1>1, <1>2, <2>1
  <2> QED
    BY <1>1, <1>3, <2>2
<1>5. TypeInv'
  BY <1>2, <1>4 DEF StackInv, TypeInv
<1>6. RegisteredOnce'
  <2>1. SUFFICES ASSUME NEW i \in 1 .. Len(registered) - 1,
                        NEW j \in 1 .. Len(registered) - 1,
                        registered'[i] = registered'[j], i < j
                 PROVE  FALSE
    BY <1>3 DEF RegisteredOnce
  <2>2. \A k, l \in DOMAIN registered : registered[k] = registered[l] => k = l
    BY DEF StackInv, RegisteredOnce
  <2>3. CASE j < r
    BY <1>2, <1>3, <2>1, <2>2, <2>3
  <2>4. CASE ~(j < r) /\ i < r
    BY <1>2, <1>3, <2>1, <2>2, <2>4
  <2>5. CASE ~(i < r)
    BY <1>2, <1>3, <2>1, <2>2, <2>5
  <2> QED
    BY <2>3, <2>4, <2>5
<1>7. InOrder'
  <2>1. SUFFICES ASSUME NEW m \in Modules, NEW i \in DOMAIN stack[m],
                        NEW j \in DOMAIN stack[m], i < j
                 PROVE  Precedes(stack[m][j], stack[m][i])'
    BY <1>2 DEF InOrder
  <2>2. Precedes(stack[m][j], stack[m][i])
    BY <2>1 DEF StackInv, InOrder
  <2>3. stack[m][i] # o /\ stack[m][j] # o
    BY <1>2 DEF Elements
  <2>4. \A p, q : p # o /\ q # o /\ Precedes(p, q) => Precedes(p, q)'
    BY UnregisterKeepsOrder DEF StackInv
  <2>5. Precedes(stack[m][j], stack[m][i])' = (\E k \in DOMAIN registered' :
           /\ registered'[k] = stack'[m][j]
           /\ \A l \in DOMAIN registered' : registered'[l] = stack'[m][i] => k < l)
    BY DEF Precedes
  <2> QED
    BY <1>2, <2>2, <2>3, <2>4, <2>5 DEF Precedes
<1>8. OnlyPresent'
  BY <1>2 DEF StackInv, OnlyPresent
<1> QED
  BY <1>5, <1>6, <1>7, <1>8 DEF StackInv

\* A push puts on top what was registered after everything below.
LEMMA PushStep ==
  ASSUME StackInv, NEW m \in Modules, NEW o \in Objects, Push(m, o)
  PROVE  StackInv'
<1>1. /\ registered' = registered /\ present' = present /\ m \in present
      /\ stack' = [stack EXCEPT ![m] = <<o>> \o @]
      /\ \A p \in Elements(stack[m]) : Precedes(p, o)
  BY DEF Push
<1>2. stack \in [Modules -> Seq(Objects)] /\ stack[m] \in Seq(Objects)
  BY DEF StackInv, TypeInv
<1>3. /\ stack'[m] \in Seq(Objects)
      /\ Len(stack'[m]) = Len(stack[m]) + 1
      /\ stack'[m][1] = o
      /\ \A i \in 1 .. Len(stack[m]) + 1 : 1 < i => stack'[m][i] = stack[m][i - 1]
  <2>1. stack'[m] = <<o>> \o stack[m]
    BY <1>1, <1>2
  <2> QED
    BY <1>2, <2>1, Prepend
<1>4. \A n \in Modules : n # m => stack'[n] = stack[n]
  BY <1>1, <1>2
<1>5. TypeInv'
  BY <1>1, <1>2, <1>3, <1>4 DEF StackInv, TypeInv
<1>6. \A p, q : Precedes(p, q) => Precedes(p, q)'
  BY <1>1 DEF Precedes
<1>7. InOrder'
  <2>1. SUFFICES ASSUME NEW n \in Modules, NEW i \in DOMAIN stack'[n],
                        NEW j \in DOMAIN stack'[n], i < j
                 PROVE  Precedes(stack[n][j], stack[n][i])'
    BY DEF InOrder
  <2> SUFFICES Precedes(stack'[n][j], stack'[n][i])
    BY <1>1 DEF Precedes
  <2>2. CASE n # m
    BY <1>4, <2>1, <2>2 DEF StackInv, InOrder
  <2>3. CASE n = m
    <3>1. /\ i \in 1 .. Len(stack[m]) + 1 /\ j \in 1 .. Len(stack[m]) + 1
          /\ 1 < j /\ j - 1 \in DOMAIN stack[m] /\ stack'[m][j] = stack[m][j - 1]
      BY <1>2, <1>3, <2>1, <2>3
    <3>2. CASE i = 1
      BY <1>1, <1>3, <2>3, <3>1, <3>2 DEF Elements
    <3>3. CASE 1 < i
      <4>1. i - 1 \in DOMAIN stack[m] /\ i - 1 < j - 1 /\ stack'[m][i] = stack[m][i - 1]
        BY <1>2, <1>3, <2>1, <3>1, <3>3
      <4> QED
        BY <2>3, <3>1, <4>1 DEF StackInv, InOrder
    <3> QED
      BY <3>1, <3>2, <3>3
  <2> QED
    BY <2>2, <2>3
<1>8. RegisteredOnce' /\ OnlyPresent'
  BY <1>1, <1>2, <1>4 DEF StackInv, RegisteredOnce, OnlyPresent
<1> QED
  BY <1>5, <1>7, <1>8 DEF StackInv

\* A pop leaves the rest as it was.
LEMMA PopStep ==
  ASSUME StackInv, NEW m \in Modules, Pop(m)
  PROVE  StackInv'
<1>1. /\ registered' = registered /\ present' = present /\ stack[m] # <<>>
      /\ stack' = [stack EXCEPT ![m] = Tail(@)]
  BY DEF Pop
<1>2. stack \in [Modules -> Seq(Objects)] /\ stack[m] \in Seq(Objects)
  BY DEF StackInv, TypeInv
<1>3. /\ stack'[m] \in Seq(Objects)
      /\ Len(stack[m]) > 0
      /\ DOMAIN stack'[m] = 1 .. Len(stack[m]) - 1
      /\ \A i \in 1 .. Len(stack[m]) - 1 : stack'[m][i] = stack[m][i + 1]
  <2>2. stack'[m] = Tail(stack[m])
    BY <1>1, <1>2
  <2> QED
    BY <1>1, <1>2, <2>2, TailOfStack
<1>4. \A n \in Modules : n # m => stack'[n] = stack[n]
  BY <1>1, <1>2
<1>5. TypeInv'
  BY <1>1, <1>2, <1>3, <1>4 DEF StackInv, TypeInv
<1>6. InOrder'
  <2>1. registered' = registered
    BY <1>1
  <2>2. SUFFICES ASSUME NEW n \in Modules, NEW i \in DOMAIN stack'[n],
                        NEW j \in DOMAIN stack'[n], i < j
                 PROVE  Precedes(stack'[n][j], stack'[n][i])
    BY <2>1 DEF InOrder, Precedes
  <2>3. CASE n # m
    BY <1>4, <2>2, <2>3 DEF StackInv, InOrder
  <2>4. CASE n = m
    <3>1. i \in 1 .. Len(stack[m]) - 1 /\ j \in 1 .. Len(stack[m]) - 1
      BY <1>3, <2>4
    <3>2. stack'[m][i] = stack[m][i + 1] /\ stack'[m][j] = stack[m][j + 1]
      BY <1>3, <3>1
    <3>3. Len(stack[m]) \in Nat /\ DOMAIN stack[m] = 1 .. Len(stack[m])
      BY <1>2
    <3>4. i + 1 \in DOMAIN stack[m] /\ j + 1 \in DOMAIN stack[m] /\ i + 1 < j + 1
      BY <2>2, <3>1, <3>3
    <3> QED
      BY <2>4, <3>2, <3>4 DEF StackInv, InOrder
  <2> QED
    BY <2>3, <2>4
<1>7. RegisteredOnce' /\ OnlyPresent'
  BY <1>1, <1>2, <1>4 DEF StackInv, RegisteredOnce, OnlyPresent
<1> QED
  BY <1>5, <1>6, <1>7 DEF StackInv

\* Modules that come have empty stacks, and those that leave leave none.
LEMMA ChangeModulesStep ==
  ASSUME StackInv, ChangeModules
  PROVE  StackInv'
<1>1. /\ registered' = registered /\ present' \subseteq Modules
      /\ stack' = [m \in Modules |-> IF m \in present' THEN stack[m] ELSE <<>>]
  BY DEF ChangeModules
<1>2. stack \in [Modules -> Seq(Objects)] /\ <<>> \in Seq(Objects)
  BY DEF StackInv, TypeInv
<1>3. TypeInv'
  BY <1>1, <1>2 DEF StackInv, TypeInv
<1>4. InOrder'
  BY <1>1, <1>2 DEF StackInv, InOrder, Precedes
<1>5. RegisteredOnce' /\ OnlyPresent'
  BY <1>1 DEF StackInv, RegisteredOnce, OnlyPresent
<1> QED
  BY <1>3, <1>4, <1>5 DEF StackInv

\* In every behaviour of PatchStack the stacks are in the order of registration:
\* so they are in FunctionPatcher wherever it implements PatchStack.
THEOREM StacksInOrder == StackSpec => []StackInv
<1>1. StackInit => StackInv
  BY DEF StackInit, StackInv, TypeInv, RegisteredOnce, InOrder, OnlyPresent
<1>2. StackInv /\ [StackNext]_stackVars => StackInv'
  <2>1. SUFFICES ASSUME StackInv, [StackNext]_stackVars
                 PROVE  StackInv'
    OBVIOUS
  <2>2. ASSUME NEW o \in Objects, Register(o) \/ Unregister(o)
        PROVE  StackInv'
    BY <2>1, <2>2, RegisterStep, UnregisterStep
  <2>3. ASSUME NEW m \in Modules, NEW o \in Objects, Push(m, o)
        PROVE  StackInv'
    BY <2>1, <2>3, PushStep
  <2>4. ASSUME NEW m \in Modules, Pop(m)
        PROVE  StackInv'
    BY <2>1, <2>4, PopStep
  <2>5. CASE ChangeModules
    BY <2>1, <2>5, ChangeModulesStep
  <2>6. CASE UNCHANGED stackVars
    BY <2>1, <2>6
    DEF stackVars, StackInv, TypeInv, RegisteredOnce, InOrder, OnlyPresent, Precedes
  <2> QED
    BY <2>1, <2>2, <2>3, <2>4, <2>5, <2>6 DEF StackNext
<1> QED
  BY <1>1, <1>2, PTL DEF StackSpec
==============================================================================
