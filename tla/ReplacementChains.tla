-------------------------- MODULE ReplacementChains --------------------------
(****************************************************************************)
(* What a call of a patched function executes, when the words in memory are *)
(* stacks of replacements: the chain from the first word on is the stack,   *)
(* from its top, and then the original.  So the inductive invariant of      *)
(* SerialUse gives the properties.                                          *)
(****************************************************************************)
EXTENDS SerialUse, TLAPS, SequenceTheorems, FiniteSetTheorems, WellFoundedInduction

\* A set of natural numbers that is not empty has a least one.
LEMMA LeastNumber ==
  ASSUME NEW T, T \subseteq Nat, T # {}
  PROVE  \E x \in T : \A y \in T : x <= y
<1> DEFINE R == {p \in Nat \X Nat : p[1] < p[2]}
<1>1. IsWellFoundedOn(OpToRel(<, Nat), Nat)
  BY NatLessThanWellFounded
<1>2. OpToRel(<, Nat) = R
  BY DEF OpToRel
<1>3. IsWellFoundedOn(R, Nat)
  BY <1>1, <1>2
<1> HIDE DEF R
<1>4. PICK x \in T : \A y \in T : ~(<<y, x>> \in R)
  BY <1>3, WFMin
<1> USE DEF R
<1>5. ASSUME NEW y \in T PROVE x <= y
  <2>1. ~(<<y, x>> \in R)
    BY <1>4
  <2>2. x \in Nat /\ y \in Nat
    OBVIOUS
  <2>3. <<y, x>> \in Nat \X Nat /\ <<y, x>>[1] = y /\ <<y, x>>[2] = x
    BY <2>2
  <2>4. ~(y < x)
    BY <2>1, <2>3
  <2> QED
    BY <2>2, <2>4
<1> QED
  BY <1>5

\* One that comes earlier is another.
LEMMA EarlierIsOther ==
  ASSUME TypeOK, NEW o \in Listed
  PROVE  ~Earlier(o, o)
BY DEF Earlier, Listed, Range, TypeOK

\* There is room for every replacement of a stack among the objects.
LEMMA StackFits ==
  ASSUME IndInv, NEW stk, MemoryIs(stk), NEW m \in Loaded
  PROVE  /\ Len(stk[m]) \in Nat
         /\ DOMAIN stk[m] = 1 .. Len(stk[m])
         /\ \A i, j \in DOMAIN stk[m] : stk[m][i] = stk[m][j] => i = j
         /\ Cardinality(Objects) \in Nat
         /\ Len(stk[m]) <= Cardinality(Objects)
<1> DEFINE s == stk[m]
<1>1. s \in Seq(Objects)
  BY DEF MemoryIs, Loaded
<1>2. Len(s) \in Nat /\ DOMAIN s = 1 .. Len(s) /\ s \in [1 .. Len(s) -> Objects]
  BY <1>1, LenProperties
<1>3. ASSUME NEW i \in DOMAIN s, NEW j \in DOMAIN s, i < j PROVE s[i] # s[j]
  <2>1. Earlier(s[j], s[i])
    BY <1>3 DEF MemoryIs
  <2>2. PICK k \in DOMAIN list : list[k] = s[j] /\ \A n \in DOMAIN list : list[n] = s[i] => k < n
    BY <2>1 DEF Earlier
  <2>3. k \in Nat
    BY DEF IndInv, TypeOK
  <2> QED
    BY <2>2, <2>3
<1>4. \A i, j \in DOMAIN s : s[i] = s[j] => i = j
  BY <1>2, <1>3
<1>5. s \in Injection(1 .. Len(s), Objects)
  BY <1>2, <1>4 DEF Injection, IsInjective
<1>6. Cardinality(1 .. Len(s)) = Len(s)
  BY <1>2, FS_Interval
<1>7. Cardinality(1 .. Len(s)) <= Cardinality(Objects)
  BY <1>5, FS_Injection, ObjectsAssumption
<1>8. Cardinality(Objects) \in Nat
  BY ObjectsAssumption, FS_CardinalityType
<1> QED
  BY <1>2, <1>4, <1>6, <1>7, <1>8
------------------------------------------------------------------------------
(* The chain.                                                               *)

Hops == 1 .. Cardinality(Objects) + 1

\* The recursion of CallChain: each word is where the one before leads.
IsChain(h, a) == h = [n \in Hops |-> IF n = 1 THEN text[a] ELSE Hop(h[n - 1])]

\* There is one solution, if there is any.
LEMMA OneChain ==
  ASSUME NEW a, NEW g, NEW h, IsChain(g, a), IsChain(h, a), Cardinality(Objects) \in Nat
  PROVE  g = h
<1> DEFINE T == {n \in Hops : g[n] # h[n]}
<1>1. T = {}
  <2> SUFFICES ASSUME T # {} PROVE FALSE
    OBVIOUS
  <2>1. T \subseteq Nat
    BY DEF Hops
  <2>2. PICK n \in T : \A k \in T : n <= k
    BY <2>1, LeastNumber
  <2>3. CASE n = 1
    BY <2>2, <2>3 DEF IsChain
  <2>4. CASE n # 1
    <3>1. n - 1 \in Hops /\ ~(n <= n - 1)
      BY <2>2, <2>4 DEF Hops
    <3>2. g[n - 1] = h[n - 1]
      BY <2>2, <3>1
    <3>3. g[n] = Hop(g[n - 1]) /\ h[n] = Hop(h[n - 1])
      BY <2>2, <2>4 DEF IsChain
    <3> QED
      BY <2>2, <3>2, <3>3
  <2> QED
    BY <2>3, <2>4
<1>2. g = [n \in Hops |-> g[n]] /\ h = [n \in Hops |-> h[n]]
  BY DEF IsChain
<1> QED
  BY <1>1, <1>2

\* A solution is the chain.
LEMMA ChainIsSolution ==
  ASSUME NEW a, NEW g, IsChain(g, a), Cardinality(Objects) \in Nat
  PROVE  CallChain(a) = g
<1>1. CallChain(a) = CHOOSE h : IsChain(h, a)
  BY DEF CallChain, IsChain, Hops
<1> HIDE DEF IsChain
<1>2. IsChain(CHOOSE h : IsChain(h, a), a)
  OBVIOUS
<1> QED
  BY <1>1, <1>2, OneChain

\* The words executed over m: the stack from its top, then the original.
LEMMA ChainIsStack ==
  ASSUME IndInv, NEW stk, MemoryIs(stk), NEW m \in Loaded
  PROVE  CallChain(place[m]) = [n \in Hops |-> IF n <= Len(stk[m]) THEN stk[m][n] ELSE m]
<1> DEFINE s == stk[m]
           g == [n \in Hops |-> IF n <= Len(s) THEN s[n] ELSE m]
<1>1. /\ Len(s) \in Nat
      /\ DOMAIN s = 1 .. Len(s)
      /\ Cardinality(Objects) \in Nat
      /\ Len(s) <= Cardinality(Objects)
  BY StackFits
<1>2. s \in Seq(Objects)
  BY DEF MemoryIs, Loaded
<1>3. text[place[m]] = g[1]
  <2>1. text[place[m]] = Top(s, m)
    BY DEF MemoryIs
  <2>2. 1 \in Hops
    BY <1>1 DEF Hops
  <2>3. CASE s = <<>>
    BY <1>1, <2>1, <2>2, <2>3 DEF Top
  <2>4. CASE s # <<>>
    <3>1. Len(s) # 0
      BY <1>2, <2>4, EmptySeq
    <3>2. 1 <= Len(s)
      BY <1>1, <3>1
    <3> QED
      BY <2>1, <2>2, <2>4, <3>2 DEF Top
  <2> QED
    BY <2>3, <2>4
<1>4. ASSUME NEW n \in Hops, n # 1 PROVE g[n] = Hop(g[n - 1])
  <2>1. n - 1 \in Hops /\ n \in Nat
    BY <1>4, <1>1 DEF Hops
  <2>2. CASE n - 1 <= Len(s)
    <3> DEFINE i == n - 1
    <3>1. i \in DOMAIN s /\ g[i] = s[i] /\ i + 1 = n
      BY <1>1, <2>1, <2>2 DEF Hops
    <3>2. s[i] \in Objects /\ data[s[i]] # NULL /\ data[s[i]].replaced = Below(s, i, m)
      BY <3>1 DEF MemoryIs, Allocated
    <3>3. Hop(s[i]) = Below(s, i, m)
      BY <3>2 DEF Hop
    <3>4. CASE i = Len(s)
      <4>1. ~(n <= Len(s))
        BY <1>1, <3>1, <3>4
      <4> QED
        BY <3>1, <3>3, <3>4, <4>1 DEF Below
    <3>5. CASE i # Len(s)
      <4>1. n <= Len(s)
        BY <1>1, <2>1, <2>2, <3>1, <3>5
      <4> QED
        BY <3>1, <3>3, <3>5, <4>1 DEF Below
    <3> QED
      BY <3>4, <3>5
  <2>3. CASE ~(n - 1 <= Len(s))
    <3>1. g[n - 1] = m /\ g[n] = m
      BY <1>1, <2>1, <2>3
    <3>2. m \notin Objects
      BY WordsAssumption DEF Loaded
    <3> QED
      BY <3>1, <3>2 DEF Hop
  <2> QED
    BY <2>2, <2>3
<1>5. IsChain(g, place[m])
  <2>1. g = [n \in Hops |-> g[n]]
    OBVIOUS
  <2>2. \A n \in Hops : g[n] = IF n = 1 THEN text[place[m]] ELSE Hop(g[n - 1])
    BY <1>3, <1>4
  <2> HIDE DEF g
  <2> QED
    BY <2>1, <2>2 DEF IsChain
<1> HIDE DEF g
<1>6. CallChain(place[m]) = g
  BY <1>1, <1>5, ChainIsSolution
<1> QED
  BY <1>6 DEF g
------------------------------------------------------------------------------
(* What the chain says of the stack.                                        *)

\* What runs for m is what is on its stack.
LEMMA RunsAreStacked ==
  ASSUME IndInv, NEW stk, MemoryIs(stk), NEW m \in Loaded
  PROVE  RunsFor(m) = {o \in Objects : \E i \in DOMAIN stk[m] : stk[m][i] = o}
<1> DEFINE s == stk[m]
           g == [n \in Hops |-> IF n <= Len(s) THEN s[n] ELSE m]
<1>1. CallChain(place[m]) = g
  BY ChainIsStack
<1>2. /\ Len(s) \in Nat /\ DOMAIN s = 1 .. Len(s)
      /\ Cardinality(Objects) \in Nat /\ Len(s) <= Cardinality(Objects)
  BY StackFits
<1>3. m \notin Objects
  BY WordsAssumption DEF Loaded
<1>4. Range(g) = {g[n] : n \in Hops}
  BY DEF Range
<1>5. ASSUME NEW o \in Objects, NEW n \in Hops, g[n] = o
      PROVE  \E i \in DOMAIN s : s[i] = o
  <2>1. n <= Len(s) /\ n \in 1 .. Len(s)
    BY <1>2, <1>3, <1>5 DEF Hops
  <2> QED
    BY <1>2, <1>5, <2>1
<1>6. ASSUME NEW i \in DOMAIN s PROVE s[i] \in {g[n] : n \in Hops}
  <2>1. i \in Hops /\ g[i] = s[i]
    BY <1>2 DEF Hops
  <2> QED
    BY <2>1
<1> HIDE DEF g
<1> QED
  BY <1>1, <1>4, <1>5, <1>6 DEF RunsFor

\* The model's own reading of memory is the stack.
LEMMA StacksAre ==
  ASSUME IndInv, NEW stk, MemoryIs(stk)
  PROVE  Stacks = stk
<1>1. ASSUME NEW m \in Loaded PROVE StackOver(m) = stk[m]
  <2> DEFINE s == stk[m]
             g == [n \in Hops |-> IF n <= Len(s) THEN s[n] ELSE m]
  <2>1. CallChain(place[m]) = g
    BY ChainIsStack
  <2>2. /\ Len(s) \in Nat /\ DOMAIN s = 1 .. Len(s)
        /\ Cardinality(Objects) \in Nat /\ Len(s) <= Cardinality(Objects)
    BY StackFits
  <2>3. s \in Seq(Objects) /\ m \notin Objects
    BY WordsAssumption DEF MemoryIs, Loaded
  <2>4. DOMAIN g = Hops
    OBVIOUS
  <2>5. {n \in DOMAIN g : g[n] \in Objects} = 1 .. Len(s)
    <3>1. ASSUME NEW n \in Hops PROVE g[n] \in Objects <=> n <= Len(s)
      BY <2>2, <2>3 DEF Hops
    <3>2. 1 .. Len(s) \subseteq Hops
      BY <2>2 DEF Hops
    <3>3. \A n \in Hops : n \in Nat /\ 1 <= n
      BY <2>2 DEF Hops
    <3> HIDE DEF g
    <3> QED
      BY <2>2, <2>4, <3>1, <3>2, <3>3
  <2>6. Cardinality(1 .. Len(s)) = Len(s)
    <3>1. PICK k \in Nat : k = Len(s)
      BY <2>2
    <3>2. Cardinality(1 .. k) = IF 1 > k THEN 0 ELSE k - 1 + 1
      BY FS_Interval
    <3>3. Cardinality(1 .. k) = k
      BY <3>2
    <3> QED
      BY <3>1, <3>3
  <2>7. SubSeq(g, 1, Len(s)) = [n \in 1 .. Len(s) |-> g[n]]
    <3>1. PICK k \in Nat : k = Len(s)
      BY <2>2
    <3> HIDE DEF g
    <3>2. SubSeq(g, 1, k) = [n \in 1 .. k |-> g[n]]
      OBVIOUS
    <3> QED
      BY <3>1, <3>2
  <2>8. [n \in 1 .. Len(s) |-> g[n]] = s
    <3>1. ASSUME NEW n \in 1 .. Len(s) PROVE g[n] = s[n]
      <4>1. n \in Hops /\ n <= Len(s)
        BY <2>2 DEF Hops
      <4> QED
        BY <4>1
    <3>2. s = [n \in 1 .. Len(s) |-> s[n]]
      BY <2>2, <2>3
    <3> HIDE DEF g
    <3> QED
      BY <3>1, <3>2
  <2> HIDE DEF g
  <2> QED
    BY <2>1, <2>5, <2>6, <2>7, <2>8 DEF StackOver
<1>2. ASSUME NEW m \in Modules \ Loaded PROVE StackOver(m) = stk[m]
  BY DEF StackOver, MemoryIs
<1>3. stk = [m \in Modules |-> stk[m]]
  BY DEF MemoryIs
<1> HIDE DEF StackOver
<1> QED
  BY <1>1, <1>2, <1>3 DEF Stacks, Loaded
------------------------------------------------------------------------------
(* What the invariant says of the properties.                               *)

\* A replacement on a stack is meant for the function under it, and the last
\* word executed is the function's own.
LEMMA StackedReachable ==
  ASSUME IndInv, LoaderInv, NEW stk, MemoryIs(stk)
  PROVE  OriginalReachable
<1> SUFFICES ASSUME NEW m \in Loaded
             PROVE  /\ Last(CallChain(place[m])) = m
                    /\ \A o \in RunsFor(m) : \/ data[o].target.module = m
                                            \/ data[o].target.addr = place[m]
  BY DEF OriginalReachable
<1> DEFINE s == stk[m]
           g == [n \in Hops |-> IF n <= Len(s) THEN s[n] ELSE m]
<1>1. CallChain(place[m]) = g
  BY ChainIsStack
<1>2. /\ Len(s) \in Nat /\ DOMAIN s = 1 .. Len(s)
      /\ Cardinality(Objects) \in Nat /\ Len(s) <= Cardinality(Objects)
  BY StackFits
<1>3. Last(g) = m
  <2>1. Len(g) = Cardinality(Objects) + 1
    BY <1>2 DEF Hops
  <2>2. Cardinality(Objects) + 1 \in Hops /\ ~(Cardinality(Objects) + 1 <= Len(s))
    BY <1>2 DEF Hops
  <2>3. g[Cardinality(Objects) + 1] = m
    BY <2>2
  <2> HIDE DEF g
  <2> QED
    BY <2>1, <2>3 DEF Last
<1>4. ASSUME NEW o \in RunsFor(m)
      PROVE  data[o].target.module = m \/ data[o].target.addr = place[m]
  <2>1. o \in Allocated /\ Wants(o) = place[m]
    BY <1>4, RunsAreStacked DEF MemoryIs
  <2>2. data[o].target \in Targets
    BY <2>1 DEF IndInv, TypeOK, Allocated, ObjectRecords
  <2>3. CASE data[o].target.kind = "address"
    BY <2>1, <2>3 DEF Wants
  <2>4. CASE data[o].target.kind # "address"
    <3>1. data[o].target.module \in Modules /\ place[data[o].target.module] = place[m]
      BY <2>1, <2>2, <2>4, TargetsAssumption, LibrariesAssumption DEF Wants, TargetKinds
    <3> QED
      BY <3>1 DEF LoaderInv, Loaded
  <2> QED
    BY <2>3, <2>4
<1> QED
  BY <1>1, <1>3, <1>4

\* The stacks are in the order of registration.
LEMMA StackedInOrder ==
  ASSUME IndInv, NEW stk, MemoryIs(stk)
  PROVE  LaterPatchesOnTop
<1> SUFFICES ASSUME NEW m \in Loaded,
                    NEW i \in DOMAIN CallChain(place[m]), NEW j \in DOMAIN CallChain(place[m]),
                    i < j,
                    {CallChain(place[m])[i], CallChain(place[m])[j]} \subseteq Listed
             PROVE  Before(CallChain(place[m])[j], CallChain(place[m])[i])
  BY DEF LaterPatchesOnTop
<1> DEFINE s == stk[m]
           g == [n \in Hops |-> IF n <= Len(s) THEN s[n] ELSE m]
<1>1. CallChain(place[m]) = g
  BY ChainIsStack
<1>2. /\ Len(s) \in Nat /\ DOMAIN s = 1 .. Len(s) /\ Cardinality(Objects) \in Nat
  BY StackFits
<1>3. i \in Hops /\ j \in Hops /\ g[i] \in Listed /\ g[j] \in Listed
  BY <1>1
<1>4. m \notin Objects /\ Listed \subseteq Objects
  BY WordsAssumption DEF Loaded, IndInv, ListedOnce, Allocated
<1>5. i \in DOMAIN s /\ j \in DOMAIN s /\ g[i] = s[i] /\ g[j] = s[j]
  BY <1>2, <1>3, <1>4 DEF Hops
<1>6. Earlier(s[j], s[i])
  BY <1>5 DEF MemoryIs
<1>7. Before(s[j], s[i])
  <2>1. PICK k \in DOMAIN list : list[k] = s[j] /\ \A n \in DOMAIN list : list[n] = s[i] => k < n
    BY <1>6 DEF Earlier
  <2>2. PICK n \in DOMAIN list : list[n] = s[i]
    BY <1>3, <1>5 DEF Listed, Range
  <2>3. k < n /\ k \in Nat /\ n \in Nat
    BY <2>1, <2>2 DEF IndInv, TypeOK
  <2> QED
    BY <2>1, <2>2, <2>3 DEF Before
<1> QED
  BY <1>1, <1>5, <1>7

\* With nothing under way the flags are the stacks.
LEMMA StackedFlags ==
  ASSUME OneThread, IndInv, LoaderInv, NEW stk, SerialInv(stk)
  PROVE  FlagsTellTruth
<1> SUFFICES ASSUME Quiescent, notify, NEW o \in Listed
             PROVE  FPIsFunctionPatched(o) = "patched" <=> \E m \in Loaded : o \in RunsFor(m)
  BY DEF FlagsTellTruth
<1>1. PICK t \in Threads : Threads = {t}
  BY DEF OneThread
<1>2. th[t].op = "none" /\ th[t].pc = "idle" /\ FlagsFollow(stk, t) /\ MemoryIs(stk)
  BY DEF Quiescent, Idle, SerialInv
<1>3. o \in Objects /\ Attended
  BY DEF IndInv, ListedOnce, Allocated, Attended
<1>4. data[o].isPatched <=> OnStack(stk, o)
  BY <1>2, <1>3 DEF FlagsFollow
<1>5. OnStack(stk, o) <=> \E m \in Loaded : o \in RunsFor(m)
  <2>1. \A m \in Modules \ Loaded : stk[m] = <<>>
    BY <1>2 DEF MemoryIs
  <2>2. \A m \in Loaded : o \in RunsFor(m) <=> \E i \in DOMAIN stk[m] : stk[m][i] = o
    BY <1>2, <1>3, RunsAreStacked
  <2> QED
    BY <2>1, <2>2 DEF OnStack, Loaded
<1> QED
  BY <1>4, <1>5 DEF FPIsFunctionPatched

\* With nothing under way nothing is waiting to be applied.
LEMMA StackedApplied ==
  ASSUME OneThread, IndInv, NEW stk, SerialInv(stk)
  PROVE  AllApplied
<1> SUFFICES ASSUME Quiescent, notify, NEW o \in Listed, ShouldBePatched(o),
                    data[o].target.module \in Loaded
             PROVE  data[o].isPatched
  BY DEF AllApplied
<1>1. PICK t \in Threads : Threads = {t}
  BY DEF OneThread
<1>2. th[t].op = "none" /\ th[t].pc = "idle" /\ NoneForgotten(stk, t)
  BY DEF Quiescent, Idle, SerialInv
<1>3. ~Pending(t, o) /\ Attended
  BY <1>2 DEF Pending, Attended
<1>4. Wants(o) # NULL
  <2>1. data[o].target \in Targets
    BY DEF IndInv, ListedOnce, TypeOK, Allocated, ObjectRecords
  <2> QED
    BY <2>1, TargetsAssumption DEF Wants, Loaded
<1> QED
  BY <1>2, <1>3, <1>4 DEF NoneForgotten
==============================================================================
