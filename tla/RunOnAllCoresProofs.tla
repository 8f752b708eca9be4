------------------------- MODULE RunOnAllCoresProofs -------------------------
(****************************************************************************)
(* What RunOnAllCores guarantees for any objects, blocks, threads and cores.*)
(****************************************************************************)
EXTENDS RunOnAllCores, TLAPS

\* FPAddFunctionPatch before the code is emitted, and from then on.
Allocating == {"jumpData", "jumpToOriginal", "generate"}
Emitting == {"thread", "code", "copy", "word", "join", "push", "stuck"}
Removing == {"restore", "invalidate", "erase"}
Freeing == {"freeOriginal", "freeData"}

Complete(o) == jumpToOriginal[o] # NULL /\ (jumpData[o] = NULL <=> o \in Near)
Emitted(o) == \A b \in CodeOf(o) : code[b] = o

\* JumpHeapExact, but for what it says of the registry.
HeapInv ==
  /\ used = UNION {CodeOf(o) : o \in alive}
  /\ \A o, p \in Objects : o # p => CodeOf(o) \intersect CodeOf(p) = {}
  /\ \A o \in Objects : jumpData[o] = jumpToOriginal[o] => jumpData[o] = NULL
  /\ \A o \in Objects \ alive : CodeOf(o) = {}

\* No two calls work on one object.
OwnObject == \A t, u \in Threads : t # u /\ Cur(t) = Cur(u) => Cur(t) = NULL

(* Of an object.                                                            *)
RegistryInv(o) ==
  /\ o \in patched => o \in listed
  /\ o \in listed => o \in alive /\ Complete(o) /\ Emitted(o)

TextInv(o) ==
  text[o] # "original" =>
    /\ o \in alive /\ Complete(o) /\ Emitted(o)
    /\ text[o] = JumpWord(o)
    /\ \A t \in Threads : Cur(t) = o => th[t].pc \in Emitting \union {"restore"}

ServedInv(o) ==
  \A c \in served[o] :
    seen[c][o] = text[o] /\ (text[o] \in Blocks => <<c, text[o]>> \notin old)

\* Core c has had its turn for o.
Reached(c, o) ==
  /\ text[o] = JumpWord(o) /\ c \in served[o]
  /\ <<c, jumpToOriginal[o]>> \notin old

PatchedInv(o) ==
  o \in patched /\ ~Restoring(o) => \A c \in Cores \ skipped[o] : Reached(c, o)

ObjectInv(o) == RegistryInv(o) /\ TextInv(o) /\ ServedInv(o) /\ PatchedInv(o)

(* Of a call.                                                               *)
StepInv(t) ==
  /\ th[t].pc = "idle" <=> Cur(t) = NULL
  /\ Cur(t) # NULL => Cur(t) \in alive
  /\ th[t].pc \in Allocating \union Emitting \union Freeing => Cur(t) \notin listed
  /\ th[t].pc \in Removing => Cur(t) \in listed /\ mutex = t
  /\ th[t].pc \in Allocating => th[t].core = LastCore

BlocksInv(t) ==
  /\ th[t].pc = "jumpData" => /\ jumpData[Cur(t)] = NULL /\ jumpToOriginal[Cur(t)] = NULL
                              /\ Cur(t) \notin Near
  /\ th[t].pc = "jumpToOriginal" => /\ jumpToOriginal[Cur(t)] = NULL
                                    /\ jumpData[Cur(t)] = NULL <=> Cur(t) \in Near
  /\ th[t].pc \in Emitting \union {"generate"} => Complete(Cur(t))
  /\ th[t].pc \in Emitting => Emitted(Cur(t))
  /\ th[t].pc = "freeData" => jumpToOriginal[Cur(t)] = NULL

TurnInv(t) ==
  /\ th[t].pc \in {"copy", "word"} =>
       \A b \in CodeOf(Cur(t)) : <<th[t].core, b>> \notin old
  /\ th[t].pc = "word" => text[Cur(t)] = JumpWord(Cur(t))

\* The cores that thread t is through with.
Done(t) ==
  {c \in Cores :
     \/ th[t].pc \in {"thread", "code", "copy", "word", "join"} /\ th[t].core < c
     \/ th[t].pc = "join" /\ th[t].core = c
     \/ th[t].pc = "push"}

DoneInv(t) == \A c \in Done(t) : c \in skipped[Cur(t)] \/ Reached(c, Cur(t))

CallInv(t) == StepInv(t) /\ BlocksInv(t) /\ TurnInv(t) /\ DoneInv(t)

IInv ==
  /\ TypeOK /\ HeapInv /\ OwnObject
  /\ \A o \in Objects : ObjectInv(o)
  /\ \A t \in Threads : CallInv(t)
------------------------------------------------------------------------------
(* A step of a call disturbs what is said of its own object only.           *)

Touches(t, o) ==
  /\ Cur(t) \in {o, NULL} /\ Cur(t)' \in {o, NULL}
  /\ \A u \in Threads \ {t} : Cur(u) # o /\ th'[u] = th[u]
  /\ mutex' = mutex \/ mutex \in {t, NULL}
  /\ \A p \in Objects \ {o} :
       /\ jumpData'[p] = jumpData[p] /\ jumpToOriginal'[p] = jumpToOriginal[p]
       /\ p \in alive' <=> p \in alive
       /\ p \in listed' <=> p \in listed
       /\ p \in patched' <=> p \in patched
       /\ text'[p] = text[p] /\ skipped'[p] = skipped[p] /\ served'[p] = served[p]
       /\ \A c \in Cores : seen'[c][p] = seen[c][p]
  /\ \A b \in Blocks \ CodeOf(o) : code'[b] = code[b]
  /\ old' \subseteq old \union (Cores \X CodeOf(o))

\* The call that a thread is in works on an object, and no other call does.
LEMMA CurObject ==
  ASSUME IInv, NEW t \in Threads, th[t].pc # "idle"
  PROVE  Cur(t) \in Objects /\ \A u \in Threads \ {t} : Cur(u) # Cur(t)
<1>1. th[t] \in LocalStates /\ CallInv(t)
  BY DEF IInv, TypeOK
<1>2. Cur(t) # NULL /\ Cur(t) \in Objects
  BY <1>1 DEF CallInv, StepInv, Cur, LocalStates
<1> QED
  BY <1>2 DEF IInv, OwnObject

\* A step that touches one object leaves the invariant of the others.
LEMMA OtherObjectsKeep ==
  ASSUME IInv, NEW t \in Threads, NEW o \in Objects, Touches(t, o),
         NEW p \in Objects \ {o}
  PROVE  ObjectInv(p)'
<1>1. ObjectInv(p) /\ CodeOf(p) \intersect CodeOf(o) = {} /\ p # NULL
  BY NullAssumption DEF IInv, HeapInv
<1>2. CodeOf(p)' = CodeOf(p) /\ JumpWord(p)' = JumpWord(p) /\ (Complete(p)' <=> Complete(p))
  BY DEF Touches, CodeOf, JumpWord, Complete
<1>3. CodeOf(p) \subseteq Blocks
  BY DEF IInv, TypeOK, CodeOf
<1>4. Emitted(p)' <=> Emitted(p)
  BY <1>1, <1>2, <1>3 DEF Touches, Emitted
<1>5. \A c \in Cores, b \in CodeOf(p) : <<c, b>> \notin old => <<c, b>> \notin old'
  BY <1>1 DEF Touches
<1>6. \A u \in Threads : Cur(u)' = p => u # t /\ Cur(u) = p /\ th'[u] = th[u]
  BY <1>1 DEF Touches, Cur
<1>7. Restoring(p) => Restoring(p)'
  BY <1>1 DEF Touches, Cur, Restoring
<1>8. served[p] \subseteq Cores
  BY DEF IInv, TypeOK
<1>9. RegistryInv(p)'
  BY <1>1, <1>2, <1>4 DEF ObjectInv, RegistryInv, Touches
<1>10. TextInv(p)'
  BY <1>1, <1>2, <1>4, <1>6 DEF ObjectInv, TextInv, Touches
<1>11. text[p] \in Blocks => text[p] \in CodeOf(p)
  BY <1>1, WordsAssumption, NullAssumption DEF ObjectInv, TextInv, JumpWord, CodeOf
<1>12. ServedInv(p)'
  BY <1>1, <1>5, <1>8, <1>11 DEF ObjectInv, ServedInv, Touches
<1>13. PatchedInv(p)'
  <2> SUFFICES ASSUME p \in patched', ~Restoring(p)', NEW c \in Cores \ skipped'[p]
               PROVE  Reached(c, p)'
    BY DEF PatchedInv
  <2>1. p \in patched /\ ~Restoring(p) /\ c \in Cores \ skipped[p]
    BY <1>7 DEF Touches
  <2>2. Reached(c, p) /\ Complete(p)
    BY <1>1, <2>1 DEF ObjectInv, PatchedInv, RegistryInv
  <2>3. jumpToOriginal[p] \in CodeOf(p)
    BY <2>2 DEF Complete, CodeOf
  <2> QED
    BY <1>2, <1>5, <2>2, <2>3 DEF Reached, Touches
<1> QED
  BY <1>9, <1>10, <1>12, <1>13 DEF ObjectInv

\* A step that touches one object leaves the calls of the other threads as they
\* are.
LEMMA OtherCallsKeep ==
  ASSUME IInv, NEW t \in Threads, NEW o \in Objects, Touches(t, o),
         NEW u \in Threads \ {t}
  PROVE  CallInv(u)'
<1>0. PICK p : p = Cur(u)
  OBVIOUS
<1>1. CallInv(u) /\ th'[u] = th[u] /\ Cur(u) = p /\ Cur(u)' = p /\ p # o
  BY <1>0 DEF IInv, Touches, Cur
<1>2. CASE p = NULL
  <2>1. th[u].pc = "idle"
    BY <1>1, <1>2 DEF CallInv, StepInv
  <2>2. StepInv(u)'
    BY <1>1, <1>2, <2>1 DEF StepInv, Allocating, Emitting, Removing, Freeing
  <2>3. BlocksInv(u)' /\ TurnInv(u)'
    BY <1>1, <2>1 DEF BlocksInv, TurnInv, Emitting
  <2>4. DoneInv(u)'
    BY <1>1, <2>1 DEF DoneInv, Done
  <2> QED
    BY <2>2, <2>3, <2>4 DEF CallInv
<1>3. CASE p # NULL
  <2>1. th[u] \in LocalStates /\ p \in Objects \ {o}
    BY <1>1, <1>3 DEF IInv, TypeOK, LocalStates, Cur
  <2>2. CodeOf(p)' = CodeOf(p) /\ JumpWord(p)' = JumpWord(p) /\ (Complete(p)' <=> Complete(p))
    BY <2>1 DEF Touches, CodeOf, JumpWord, Complete
  <2>3. CodeOf(p) \subseteq Blocks /\ CodeOf(p) \intersect CodeOf(o) = {}
    <3>1. CodeOf(p) \subseteq Blocks
      BY <2>1 DEF IInv, TypeOK, CodeOf
    <3>2. CodeOf(p) \intersect CodeOf(o) = {}
      BY <2>1 DEF IInv, HeapInv
    <3> QED
      BY <3>1, <3>2
  <2>4. Emitted(p)' <=> Emitted(p)
    BY <2>2, <2>3 DEF Touches, Emitted
  <2>5. \A c \in Cores, b \in CodeOf(p) : <<c, b>> \notin old => <<c, b>> \notin old'
    BY <2>3 DEF Touches
  <2>6. th[u].pc \in Removing => mutex' = u
    BY <1>1, NullAssumption DEF CallInv, StepInv, Touches
  <2>7. StepInv(u)'
    BY <1>1, <2>1, <2>6 DEF CallInv, StepInv, Touches
  <2>8. BlocksInv(u)'
    BY <1>1, <2>1, <2>2, <2>4 DEF CallInv, BlocksInv, Touches
  <2>9. TurnInv(u)'
    BY <1>1, <2>1, <2>2, <2>5 DEF CallInv, TurnInv, Touches, LocalStates
  <2>10. Done(u)' = Done(u)
    BY <1>1 DEF Done
  <2>11. ASSUME NEW c \in Done(u), Reached(c, p)
         PROVE  Reached(c, p)'
    <3>1. c \in Cores /\ Complete(p)
      BY <1>1 DEF Done, CallInv, BlocksInv, Emitting
    <3>2. jumpToOriginal[p] \in CodeOf(p)
      BY <3>1 DEF Complete, CodeOf
    <3> QED
      BY <2>1, <2>2, <2>5, <2>11, <3>1, <3>2 DEF Reached, Touches
  <2>12. DoneInv(u)'
    BY <1>1, <2>1, <2>10, <2>11 DEF CallInv, DoneInv, Touches
  <2> QED
    BY <2>7, <2>8, <2>9, <2>12 DEF CallInv
<1> QED
  BY <1>2, <1>3

\* So a step keeps the invariant if it does what it must for its own object.
LEMMA OwnStep ==
  ASSUME IInv, NEW t \in Threads, NEW o \in Objects, Touches(t, o),
         TypeOK', HeapInv', ObjectInv(o)', CallInv(t)'
  PROVE  IInv'
<1>1. \A p \in Objects : ObjectInv(p)'
  BY OtherObjectsKeep
<1>2. \A u \in Threads : CallInv(u)'
  BY OtherCallsKeep
<1>3. OwnObject'
  BY DEF IInv, OwnObject, Touches, Cur
<1> QED
  BY <1>1, <1>2, <1>3 DEF IInv
------------------------------------------------------------------------------
(* What the actions have in common.                                         *)

\* What a step of one thread to its next place changes.
LEMMA AfterGoto ==
  ASSUME IInv, NEW t \in Threads, NEW from, NEW to \in Steps, Goto(t, from, to)
  PROVE  /\ th[t].pc = from
         /\ th' \in [Threads -> LocalStates]
         /\ th'[t].pc = to /\ Cur(t)' = Cur(t) /\ th'[t].core = th[t].core
         /\ \A u \in Threads \ {t} : th'[u] = th[u]
  BY DEF IInv, TypeOK, Goto, LocalStates, Cur

\* The function is not the patch's before CopyWord and after it was restored.
LEMMA Unwritten ==
  ASSUME IInv, NEW t \in Threads, NEW o \in Objects, Cur(t) = o,
         th[t].pc \notin Emitting \union {"restore"}
  PROVE  text[o] = "original"
  BY DEF IInv, ObjectInv, TextInv

\* A patch that is being added or deleted is in no registry.
LEMMA Unlisted ==
  ASSUME IInv, NEW t \in Threads, NEW o \in Objects, Cur(t) = o,
         th[t].pc \in Allocating \union Emitting \union Freeing
  PROVE  o \notin listed /\ o \notin patched
  BY DEF IInv, ObjectInv, RegistryInv, CallInv, StepInv

\* The heap hands out a block ...
LEMMA BlockGiven ==
  ASSUME IInv, NEW o \in alive, NEW b \in Blocks \ used,
         used' = used \union {b}, alive' = alive,
         CodeOf(o)' = CodeOf(o) \union {b},
         \A p \in Objects \ {o} : jumpData'[p] = jumpData[p]
                                 /\ jumpToOriginal'[p] = jumpToOriginal[p],
         jumpData'[o] = jumpToOriginal'[o] => jumpData'[o] = NULL
  PROVE  HeapInv'
<1>1. /\ alive \subseteq Objects
      /\ \A p \in Objects \ {o} : CodeOf(p)' = CodeOf(p)
  BY DEF IInv, TypeOK, CodeOf
<1>2. \A p \in Objects : b \notin CodeOf(p)
  BY DEF IInv, HeapInv
<1>3. used' = UNION {CodeOf(p)' : p \in alive'}
  BY <1>1 DEF IInv, HeapInv
<1>4. \A p, q \in Objects : p # q => CodeOf(p)' \intersect CodeOf(q)' = {}
  BY <1>1, <1>2 DEF IInv, HeapInv
<1>5. \A p \in Objects : jumpData'[p] = jumpToOriginal'[p] => jumpData'[p] = NULL
  BY DEF IInv, HeapInv
<1>6. \A p \in Objects \ alive' : CodeOf(p)' = {}
  BY <1>1 DEF IInv, HeapInv
<1> QED
  BY <1>3, <1>4, <1>5, <1>6 DEF HeapInv

\* ... and takes one back, if there is one.
LEMMA BlockTaken ==
  ASSUME IInv, NEW o \in alive, NEW b \in CodeOf(o) \union {NULL},
         used' = used \ {b},
         CodeOf(o)' = CodeOf(o) \ {b},
         alive' = alive \/ (alive' = alive \ {o} /\ CodeOf(o)' = {}),
         \A p \in Objects \ {o} : jumpData'[p] = jumpData[p]
                                 /\ jumpToOriginal'[p] = jumpToOriginal[p],
         jumpData'[o] = jumpToOriginal'[o] => jumpData'[o] = NULL
  PROVE  HeapInv'
<1>1. /\ alive \subseteq Objects
      /\ \A p \in Objects \ {o} : CodeOf(p)' = CodeOf(p)
  BY DEF IInv, TypeOK, CodeOf
<1>2. \A p \in Objects \ {o} : b \notin CodeOf(p)
  <2>1. CASE b = NULL
    BY <2>1 DEF CodeOf
  <2>2. CASE b \in CodeOf(o)
    BY <1>1, <2>2 DEF IInv, HeapInv
  <2> QED
    BY <2>1, <2>2
<1>3. used' = UNION {CodeOf(p)' : p \in alive'}
  <2>1. ASSUME NEW x \in used'
        PROVE  \E p \in alive' : x \in CodeOf(p)'
    BY <1>1, <2>1 DEF IInv, HeapInv
  <2>2. ASSUME NEW p \in alive', NEW x \in CodeOf(p)'
        PROVE  x \in used'
    BY <1>1, <1>2, <2>2 DEF IInv, HeapInv
  <2> QED
    BY <2>1, <2>2
<1>4. \A p, q \in Objects : p # q => CodeOf(p)' \intersect CodeOf(q)' = {}
  BY <1>1 DEF IInv, HeapInv
<1>5. \A p \in Objects : jumpData'[p] = jumpToOriginal'[p] => jumpData'[p] = NULL
  BY DEF IInv, HeapInv
<1>6. \A p \in Objects \ alive' : CodeOf(p)' = {}
  BY <1>1 DEF IInv, HeapInv
<1> QED
  BY <1>3, <1>4, <1>5, <1>6 DEF HeapInv

\* The jump heap's invariant is about the variables of the heap only.
LEMMA HeapStays ==
  ASSUME HeapInv, UNCHANGED heapVars
  PROVE  HeapInv'
  BY DEF HeapInv, heapVars, CodeOf
------------------------------------------------------------------------------
(* One lemma for each action: creation and destruction.                     *)

\* A call begins with an object of its own, without blocks.
LEMMA AddStep ==
  ASSUME IInv, NEW t \in Threads, NEW o \in Objects, FPAddFunctionPatch(t, o)
  PROVE  IInv'
<1>1. /\ CallInv(t) /\ ObjectInv(o) /\ CodeOf(o) = {} /\ LastCore \in Cores
      /\ o # NULL /\ Cur(t) = NULL /\ o \notin alive
  BY LastCoreAssumption, NullAssumption DEF IInv, HeapInv, FPAddFunctionPatch, Idle, Cores, Cur
<1>2. /\ th' \in [Threads -> LocalStates]
      /\ Cur(t)' = o /\ th'[t].core = LastCore
      /\ th'[t].pc = IF o \in Near THEN "jumpToOriginal" ELSE "jumpData"
      /\ \A u \in Threads \ {t} : th'[u] = th[u]
  BY DEF IInv, TypeOK, FPAddFunctionPatch, Idle, LocalStates, Steps, Cur
<1>3. TypeOK'
  BY <1>2 DEF IInv, TypeOK, FPAddFunctionPatch, codeVars, historyVars
<1>4. Touches(t, o)
  <2>1. \A u \in Threads : Cur(u) # o
    BY <1>1 DEF IInv, CallInv, StepInv
  <2> QED
    BY <1>1, <1>2, <2>1 DEF Touches, FPAddFunctionPatch, codeVars, historyVars
<1>5. HeapInv'
  <2>1. /\ alive' = alive \union {o}
        /\ \A p \in Objects : CodeOf(p)' = CodeOf(p)
        /\ UNCHANGED <<used, jumpData, jumpToOriginal>>
    BY DEF FPAddFunctionPatch, CodeOf
  <2>2. alive \subseteq Objects
    BY DEF IInv, TypeOK
  <2>3. used' = UNION {CodeOf(p)' : p \in alive'}
    BY <1>1, <2>1, <2>2 DEF IInv, HeapInv
  <2> QED
    BY <2>1, <2>3 DEF IInv, HeapInv
<1>6. o \notin listed' /\ o \notin patched' /\ text'[o] = "original"
  BY <1>1 DEF ObjectInv, RegistryInv, TextInv, FPAddFunctionPatch, codeVars
<1>7. ObjectInv(o)'
  <2>1. ServedInv(o)'
    BY <1>1 DEF ObjectInv, ServedInv, FPAddFunctionPatch, codeVars, historyVars
  <2> QED
    BY <1>6, <2>1 DEF ObjectInv, RegistryInv, TextInv, PatchedInv
<1>8. CallInv(t)'
  <2>1. StepInv(t)'
    BY <1>1, <1>2, <1>6 DEF StepInv, Removing, FPAddFunctionPatch
  <2>2. BlocksInv(t)'
    BY <1>1, <1>2 DEF BlocksInv, CodeOf, Emitting, FPAddFunctionPatch
  <2>3. TurnInv(t)' /\ DoneInv(t)'
    BY <1>2 DEF TurnInv, DoneInv, Done
  <2> QED
    BY <2>1, <2>2, <2>3 DEF CallInv
<1> QED
  BY <1>3, <1>4, <1>5, <1>7, <1>8, OwnStep

\* A step that only moves the call of an object that memory does not show yet,
\* or no more, and perhaps its blocks, keeps what is said of that object.
LEMMA UnwrittenObject ==
  ASSUME IInv, NEW t \in Threads, NEW o \in Objects, Cur(t) = o,
         th[t].pc \in Allocating \union Freeing,
         UNCHANGED <<listed, patched, text, seen, served>>
  PROVE  ObjectInv(o)'
<1>1. ObjectInv(o) /\ o \notin listed /\ o \notin patched
  BY Unlisted DEF IInv
<1>2. text[o] = "original"
  BY Unwritten DEF Allocating, Freeing, Emitting
<1>3. ServedInv(o)'
  BY <1>1, <1>2, WordsAssumption DEF ObjectInv, ServedInv
<1> QED
  BY <1>1, <1>2, <1>3 DEF ObjectInv, RegistryInv, TextInv, PatchedInv

\* The first block was free, so no other object holds it.
LEMMA AllocateJumpDataStep ==
  ASSUME IInv, NEW t \in Threads, NEW o, o = Cur(t), AllocateJumpData(t)
  PROVE  IInv'
<1>1. /\ th[t].pc = "jumpData" /\ th'[t].pc = "jumpToOriginal"
      /\ th' \in [Threads -> LocalStates]
      /\ Cur(t)' = o /\ th'[t].core = th[t].core
      /\ \A u \in Threads \ {t} : th'[u] = th[u]
  BY AfterGoto DEF AllocateJumpData, Steps
<1>2. o \in Objects /\ CallInv(t) /\ \A u \in Threads \ {t} : Cur(u) # o
  BY <1>1, CurObject DEF IInv
<1>3. PICK b \in Blocks \ used :
        used' = used \union {b} /\ jumpData' = [jumpData EXCEPT ![o] = b]
  BY DEF AllocateJumpData
<1>4. /\ jumpData'[o] = b /\ \A p \in Objects \ {o} : jumpData'[p] = jumpData[p]
      /\ UNCHANGED <<jumpToOriginal, alive, listed, patched, mutex, codeVars, historyVars>>
      /\ b # NULL /\ o # NULL
  BY <1>2, <1>3, NullAssumption DEF IInv, TypeOK, AllocateJumpData
<1>5. /\ jumpData[o] = NULL /\ jumpToOriginal[o] = NULL /\ o \notin Near
      /\ o \in alive /\ o \notin listed
  BY <1>1, <1>2, <1>4 DEF CallInv, BlocksInv, StepInv, Allocating
<1>6. TypeOK'
  BY <1>1, <1>3, <1>4 DEF IInv, TypeOK, AllocateJumpData, codeVars, historyVars
<1>7. Touches(t, o)
  BY <1>1, <1>2, <1>4 DEF Touches, codeVars, historyVars
<1>8. HeapInv'
  <2>1. CodeOf(o)' = CodeOf(o) \union {b}
    BY <1>4, <1>5 DEF CodeOf
  <2> QED
    BY <1>3, <1>4, <1>5, <2>1, BlockGiven
<1>9. ObjectInv(o)'
  BY <1>1, <1>2, <1>4, UnwrittenObject DEF Allocating, codeVars, historyVars
<1>10. CallInv(t)'
  <2>1. StepInv(t)'
    BY <1>1, <1>2, <1>4, <1>5 DEF CallInv, StepInv, Allocating, Removing
  <2>2. BlocksInv(t)'
    BY <1>1, <1>4, <1>5 DEF BlocksInv, Emitting
  <2>3. TurnInv(t)' /\ DoneInv(t)'
    BY <1>1 DEF TurnInv, DoneInv, Done
  <2> QED
    BY <2>1, <2>2, <2>3 DEF CallInv
<1> QED
  BY <1>2, <1>6, <1>7, <1>8, <1>9, <1>10, OwnStep

\* So was the second.
LEMMA AllocateJumpToOriginalStep ==
  ASSUME IInv, NEW t \in Threads, NEW o, o = Cur(t), AllocateJumpToOriginal(t)
  PROVE  IInv'
<1>1. /\ th[t].pc = "jumpToOriginal" /\ th'[t].pc = "generate"
      /\ th' \in [Threads -> LocalStates]
      /\ Cur(t)' = o /\ th'[t].core = th[t].core
      /\ \A u \in Threads \ {t} : th'[u] = th[u]
  BY AfterGoto DEF AllocateJumpToOriginal, Steps
<1>2. o \in Objects /\ CallInv(t) /\ \A u \in Threads \ {t} : Cur(u) # o
  BY <1>1, CurObject DEF IInv
<1>3. PICK b \in Blocks \ used :
        used' = used \union {b} /\ jumpToOriginal' = [jumpToOriginal EXCEPT ![o] = b]
  BY DEF AllocateJumpToOriginal
<1>4. /\ jumpToOriginal'[o] = b
      /\ \A p \in Objects \ {o} : jumpToOriginal'[p] = jumpToOriginal[p]
      /\ UNCHANGED <<jumpData, alive, listed, patched, mutex, codeVars, historyVars>>
      /\ b # NULL /\ o # NULL
  BY <1>2, <1>3, NullAssumption DEF IInv, TypeOK, AllocateJumpToOriginal
<1>5. /\ jumpData[o] = NULL <=> o \in Near
      /\ jumpToOriginal[o] = NULL /\ o \in alive /\ o \notin listed
  BY <1>1, <1>2, <1>4 DEF CallInv, BlocksInv, StepInv, Allocating
<1>6. TypeOK'
  BY <1>1, <1>3, <1>4 DEF IInv, TypeOK, AllocateJumpToOriginal, codeVars, historyVars
<1>7. Touches(t, o)
  BY <1>1, <1>2, <1>4 DEF Touches, codeVars, historyVars
<1>8. HeapInv'
  <2>1. CodeOf(o)' = CodeOf(o) \union {b} /\ CodeOf(o) \subseteq used
    BY <1>4, <1>5 DEF CodeOf, IInv, HeapInv
  <2>2. jumpData'[o] # jumpToOriginal'[o]
    BY <1>3, <1>4, <2>1 DEF CodeOf
  <2> QED
    BY <1>3, <1>4, <1>5, <2>1, <2>2, BlockGiven
<1>9. ObjectInv(o)'
  BY <1>1, <1>2, <1>4, UnwrittenObject DEF Allocating, codeVars, historyVars
<1>10. CallInv(t)'
  <2>1. StepInv(t)'
    BY <1>1, <1>2, <1>4, <1>5 DEF CallInv, StepInv, Allocating, Removing
  <2>2. BlocksInv(t)'
    BY <1>1, <1>4, <1>5 DEF BlocksInv, Complete, Emitting
  <2>3. TurnInv(t)' /\ DoneInv(t)'
    BY <1>1 DEF TurnInv, DoneInv, Done
  <2> QED
    BY <2>1, <2>2, <2>3 DEF CallInv
<1> QED
  BY <1>2, <1>6, <1>7, <1>8, <1>9, <1>10, OwnStep

\* A call that fails goes on to the destructor with what it has.
LEMMA AllocationFailsStep ==
  ASSUME IInv, NEW t \in Threads, NEW o, o = Cur(t), AllocationFails(t)
  PROVE  IInv'
<1>1. /\ th[t].pc \in {"jumpData", "jumpToOriginal"} /\ th'[t].pc = "freeOriginal"
      /\ th' \in [Threads -> LocalStates]
      /\ Cur(t)' = o /\ th'[t].core = th[t].core
      /\ \A u \in Threads \ {t} : th'[u] = th[u]
  BY AfterGoto DEF AllocationFails, Steps
<1>2. o \in Objects /\ CallInv(t) /\ \A u \in Threads \ {t} : Cur(u) # o
  BY <1>1, CurObject DEF IInv
<1>3. UNCHANGED <<heapVars, listed, patched, mutex, codeVars, threadMemory, historyVars>>
  BY DEF AllocationFails
<1>4. TypeOK'
  BY <1>1, <1>3 DEF IInv, TypeOK, heapVars, codeVars, historyVars
<1>5. Touches(t, o)
  BY <1>1, <1>2, <1>3 DEF Touches, heapVars, codeVars, historyVars
<1>6. HeapInv'
  BY <1>3, HeapStays DEF IInv
<1>7. ObjectInv(o)'
  BY <1>1, <1>2, <1>3, UnwrittenObject DEF Allocating, codeVars, historyVars
<1>8. CallInv(t)'
  <2>1. StepInv(t)'
    BY <1>1, <1>2, <1>3 DEF CallInv, StepInv, Allocating, Removing, heapVars
  <2>2. BlocksInv(t)' /\ TurnInv(t)' /\ DoneInv(t)'
    BY <1>1 DEF BlocksInv, Emitting, TurnInv, DoneInv, Done
  <2> QED
    BY <2>1, <2>2 DEF CallInv
<1> QED
  BY <1>2, <1>4, <1>5, <1>6, <1>7, <1>8, OwnStep

\* The destructor gives back the second block, if there is one.
LEMMA FreeJumpToOriginalStep ==
  ASSUME IInv, NEW t \in Threads, NEW o, o = Cur(t), FreeJumpToOriginal(t)
  PROVE  IInv'
<1>1. /\ th[t].pc = "freeOriginal" /\ th'[t].pc = "freeData"
      /\ th' \in [Threads -> LocalStates]
      /\ Cur(t)' = o /\ th'[t].core = th[t].core
      /\ \A u \in Threads \ {t} : th'[u] = th[u]
  BY AfterGoto DEF FreeJumpToOriginal, Steps
<1>2. o \in Objects /\ CallInv(t) /\ \A u \in Threads \ {t} : Cur(u) # o
  BY <1>1, CurObject DEF IInv
<1>3. /\ used' = used \ {jumpToOriginal[o]}
      /\ jumpToOriginal' = [jumpToOriginal EXCEPT ![o] = NULL]
      /\ UNCHANGED <<jumpData, alive, listed, patched, mutex, codeVars, threadMemory,
                     historyVars>>
  BY DEF FreeJumpToOriginal
<1>4. /\ jumpToOriginal'[o] = NULL /\ o # NULL
      /\ \A p \in Objects \ {o} : jumpToOriginal'[p] = jumpToOriginal[p]
  BY <1>2, <1>3, NullAssumption DEF IInv, TypeOK
<1>5. o \in alive /\ o \notin listed
  BY <1>1, <1>2, <1>4 DEF CallInv, StepInv, Freeing
<1>6. TypeOK'
  BY <1>1, <1>3 DEF IInv, TypeOK, codeVars, historyVars
<1>7. Touches(t, o)
  BY <1>1, <1>2, <1>3, <1>4 DEF Touches, codeVars, historyVars
<1>8. HeapInv'
  <2>1. CodeOf(o)' = CodeOf(o) \ {jumpToOriginal[o]}
    BY <1>2, <1>3, <1>4 DEF CodeOf, IInv, HeapInv
  <2>2. jumpToOriginal[o] \in CodeOf(o) \union {NULL}
    BY DEF CodeOf
  <2> QED
    BY <1>3, <1>4, <1>5, <2>1, <2>2, BlockTaken
<1>9. ObjectInv(o)'
  BY <1>1, <1>2, <1>3, UnwrittenObject DEF Freeing, codeVars, historyVars
<1>10. CallInv(t)'
  <2>1. StepInv(t)'
    BY <1>1, <1>3, <1>4, <1>5 DEF StepInv, Allocating, Removing
  <2>2. BlocksInv(t)' /\ TurnInv(t)' /\ DoneInv(t)'
    BY <1>1, <1>4 DEF BlocksInv, Emitting, TurnInv, DoneInv, Done
  <2> QED
    BY <2>1, <2>2 DEF CallInv
<1> QED
  BY <1>2, <1>6, <1>7, <1>8, <1>9, <1>10, OwnStep

\* It gives back the first, and the object is gone.
LEMMA FreeJumpDataStep ==
  ASSUME IInv, NEW t \in Threads, NEW o, o = Cur(t), FreeJumpData(t)
  PROVE  IInv'
<1>1. /\ th[t].pc = "freeData"
      /\ th' \in [Threads -> LocalStates]
      /\ th'[t].pc = "idle" /\ Cur(t)' = NULL
      /\ \A u \in Threads \ {t} : th'[u] = th[u]
  BY LastCoreAssumption
  DEF IInv, TypeOK, FreeJumpData, LocalStates, Steps, Idle, Cur, Cores
<1>2. o \in Objects /\ CallInv(t) /\ \A u \in Threads \ {t} : Cur(u) # o
  BY <1>1, CurObject DEF IInv
<1>3. /\ used' = used \ {jumpData[o]} /\ alive' = alive \ {o}
      /\ jumpData' = [jumpData EXCEPT ![o] = NULL]
      /\ skipped' = [skipped EXCEPT ![o] = {}]
      /\ mutex' = IF mutex = t THEN NULL ELSE mutex
      /\ UNCHANGED <<jumpToOriginal, listed, patched, codeVars, threadMemory, served>>
  BY DEF FreeJumpData, Unlock
<1>4. /\ jumpData'[o] = NULL /\ o # NULL
      /\ \A p \in Objects \ {o} : jumpData'[p] = jumpData[p] /\ skipped'[p] = skipped[p]
  BY <1>2, <1>3, NullAssumption DEF IInv, TypeOK
<1>5. o \in alive /\ o \notin listed /\ jumpToOriginal[o] = NULL
  BY <1>1, <1>2, <1>4 DEF CallInv, StepInv, BlocksInv, Freeing
<1>6. TypeOK'
  BY <1>1, <1>2, <1>3 DEF IInv, TypeOK, codeVars, historyVars
<1>7. Touches(t, o)
  BY <1>1, <1>2, <1>3, <1>4 DEF Touches, codeVars
<1>8. HeapInv'
  <2>1. CodeOf(o)' = CodeOf(o) \ {jumpData[o]} /\ CodeOf(o)' = {}
    BY <1>3, <1>4, <1>5 DEF CodeOf
  <2>2. jumpData[o] \in CodeOf(o) \union {NULL}
    BY DEF CodeOf
  <2> QED
    BY <1>3, <1>4, <1>5, <2>1, <2>2, BlockTaken
<1>9. ObjectInv(o)'
  BY <1>1, <1>2, <1>3, UnwrittenObject DEF Freeing, codeVars
<1>10. CallInv(t)'
  <2>1. StepInv(t)'
    BY <1>1 DEF StepInv, Allocating, Emitting, Freeing, Removing
  <2>2. BlocksInv(t)' /\ TurnInv(t)' /\ DoneInv(t)'
    BY <1>1 DEF BlocksInv, Emitting, TurnInv, DoneInv, Done
  <2> QED
    BY <2>1, <2>2 DEF CallInv
<1> QED
  BY <1>2, <1>6, <1>7, <1>8, <1>9, <1>10, OwnStep
------------------------------------------------------------------------------
(* One lemma for each action: PatchFunction and its threads.                *)

\* Generating code makes what other cores cached of the blocks old.
LEMMA GenerateStep ==
  ASSUME IInv, NEW t \in Threads, NEW o, o = Cur(t), Generate(t)
  PROVE  IInv'
<1>1. /\ th[t].pc = "generate" /\ th'[t].pc = "thread"
      /\ th' \in [Threads -> LocalStates]
      /\ Cur(t)' = o /\ th'[t].core = th[t].core
      /\ \A u \in Threads \ {t} : th'[u] = th[u]
  BY AfterGoto DEF Generate, Steps
<1>2. o \in Objects /\ CallInv(t) /\ \A u \in Threads \ {t} : Cur(u) # o
  BY <1>1, CurObject DEF IInv
<1>3. /\ code' = [b \in Blocks |-> IF b \in CodeOf(o) THEN o ELSE code[b]]
      /\ old' = (old \union (Cores \X CodeOf(o))) \ ({Home[t]} \X CodeOf(o))
      /\ UNCHANGED <<heapVars, listed, patched, mutex, text, seen, threadMemory, historyVars>>
  BY DEF Generate
<1>4. CodeOf(o) \subseteq Blocks /\ CodeOf(o)' = CodeOf(o) /\ o # NULL
  BY <1>2, <1>3, NullAssumption DEF IInv, TypeOK, CodeOf, heapVars
<1>5. TypeOK'
  <2>1. code' \in [Blocks -> Objects \union {NULL}]
    BY <1>2, <1>3 DEF IInv, TypeOK
  <2>2. old' \subseteq Cores \X Blocks
    BY <1>3, <1>4 DEF IInv, TypeOK
  <2> QED
    BY <1>1, <1>3, <2>1, <2>2 DEF IInv, TypeOK, heapVars, historyVars
<1>6. Touches(t, o)
  BY <1>1, <1>2, <1>3 DEF Touches, heapVars, historyVars
<1>7. HeapInv'
  BY <1>3, HeapStays DEF IInv
<1>8. ObjectInv(o)'
  BY <1>1, <1>2, <1>3, UnwrittenObject DEF Allocating, historyVars
<1>9. CallInv(t)'
  <2>1. StepInv(t)'
    BY <1>1, <1>2, <1>3, <1>4 DEF CallInv, StepInv, Allocating, Removing, heapVars
  <2>2. Complete(o)' /\ Emitted(o)'
    BY <1>1, <1>2, <1>3, <1>4 DEF CallInv, BlocksInv, Complete, Emitted, heapVars
  <2>3. BlocksInv(t)' /\ TurnInv(t)'
    BY <1>1, <2>2 DEF BlocksInv, TurnInv
  <2>4. th'[t].core = LastCore
    BY <1>1, <1>2 DEF CallInv, StepInv, Allocating
  <2>5. Done(t)' = {}
    BY <1>1, <2>4, LastCoreAssumption DEF Done, Cores
  <2> QED
    BY <2>1, <2>3, <2>5 DEF CallInv, DoneInv
<1> QED
  BY <1>2, <1>5, <1>6, <1>7, <1>8, <1>9, OwnStep

\* While the threads write and invalidate, the call and its object keep what
\* does not depend on the caches.
LEMMA EmittingStep ==
  ASSUME IInv, NEW t \in Threads, NEW o \in Objects, o = Cur(t),
         th[t].pc \in Emitting, th'[t].pc \in Emitting, Cur(t)' = o,
         \A u \in Threads \ {t} : Cur(u) # o /\ th'[u] = th[u],
         UNCHANGED <<heapVars, listed, patched, code>>,
         text'[o] \in {text[o], JumpWord(o)}
  PROVE  /\ RegistryInv(o)' /\ TextInv(o)' /\ PatchedInv(o)'
         /\ StepInv(t)' /\ BlocksInv(t)'
<1>1. /\ o \notin listed /\ o \notin patched /\ o \in alive /\ o # NULL
      /\ Complete(o) /\ Emitted(o) /\ TextInv(o)
  BY Unlisted, NullAssumption
  DEF IInv, CallInv, StepInv, BlocksInv, ObjectInv, Emitting
<1>2. /\ CodeOf(o)' = CodeOf(o) /\ JumpWord(o)' = JumpWord(o)
      /\ Complete(o)' /\ Emitted(o)'
  BY <1>1 DEF CodeOf, JumpWord, Complete, Emitted, heapVars
<1>3. TextInv(o)'
  <2>1. \A u \in Threads : Cur(u)' = o => u = t
    BY DEF Cur
  <2> QED
    BY <1>1, <1>2, <2>1 DEF TextInv, heapVars
<1>4. RegistryInv(o)' /\ PatchedInv(o)'
  BY <1>1 DEF RegistryInv, PatchedInv
<1>5. StepInv(t)'
  BY <1>1 DEF StepInv, Emitting, Allocating, Removing, heapVars
<1>6. BlocksInv(t)'
  BY <1>2 DEF BlocksInv, Emitting
<1> QED
  BY <1>3, <1>4, <1>5, <1>6

\* A core's turn begins, or is skipped for want of memory.
LEMMA StartThreadStep ==
  ASSUME IInv, NEW t \in Threads, NEW o, o = Cur(t), StartThread(t)
  PROVE  IInv'
<1>0. PICK to \in {"code", "join"} :
        /\ Goto(t, "thread", to)
        /\ to = "code" => skipped' = skipped
        /\ to = "join" => skipped' = [skipped EXCEPT ![o] = @ \union {th[t].core}]
  <2>1. PICK got \in SUBSET {"thread", "stack"} :
          IF got = {"thread", "stack"}
          THEN th' = [th EXCEPT ![t].pc = "code"] /\ skipped' = skipped
          ELSE /\ th' = [th EXCEPT ![t].pc = "join"]
               /\ skipped' = [skipped EXCEPT ![o] = @ \union {th[t].core}]
    BY DEF StartThread
  <2>2. th[t].pc = "thread"
    BY DEF StartThread
  <2>3. CASE got = {"thread", "stack"}
    BY <2>1, <2>2, <2>3 DEF Goto
  <2>4. CASE got # {"thread", "stack"}
    BY <2>1, <2>2, <2>4 DEF Goto
  <2> QED
    BY <2>3, <2>4
<1>1. /\ th[t].pc = "thread" /\ th'[t].pc = to
      /\ th' \in [Threads -> LocalStates]
      /\ Cur(t)' = o /\ th'[t].core = th[t].core
      /\ \A u \in Threads \ {t} : th'[u] = th[u]
  BY <1>0, AfterGoto DEF Steps
<1>2. o \in Objects /\ CallInv(t) /\ \A u \in Threads \ {t} : Cur(u) # o
  BY <1>1, CurObject DEF IInv
<1>3. UNCHANGED <<heapVars, listed, patched, mutex, codeVars, served>>
  BY DEF StartThread
<1>4. /\ skipped' \in [Objects -> SUBSET Cores]
      /\ skipped[o] \subseteq skipped'[o]
      /\ \A p \in Objects \ {o} : skipped'[p] = skipped[p]
      /\ to = "join" => th[t].core \in skipped'[o]
  <2>1. skipped \in [Objects -> SUBSET Cores] /\ th[t].core \in Cores
    BY DEF IInv, TypeOK, LocalStates
  <2>2. CASE to = "code"
    BY <1>0, <2>1, <2>2, <1>2
  <2>3. CASE to = "join"
    BY <1>0, <2>1, <2>3, <1>2
  <2> QED
    BY <2>2, <2>3
<1>5. TypeOK'
  <2>1. threadMemory' \subseteq Threads \X {"thread", "stack"}
    BY DEF IInv, TypeOK, StartThread
  <2> QED
    BY <1>1, <1>3, <1>4, <2>1 DEF IInv, TypeOK, heapVars, codeVars
<1>6. Touches(t, o)
  BY <1>1, <1>2, <1>3, <1>4 DEF Touches, heapVars, codeVars
<1>7. HeapInv'
  BY <1>3, HeapStays DEF IInv
<1>8. RegistryInv(o)' /\ TextInv(o)' /\ PatchedInv(o)' /\ StepInv(t)' /\ BlocksInv(t)'
  BY <1>0, <1>1, <1>2, <1>3, EmittingStep DEF Emitting, codeVars
<1>9. ServedInv(o)'
  BY <1>2, <1>3 DEF IInv, ObjectInv, ServedInv, codeVars
<1>10. DoneInv(t)'
  <2>1. \A c \in Cores : Reached(c, o) => Reached(c, o)'
    BY <1>3 DEF Reached, JumpWord, heapVars, codeVars
  <2>2. \A c \in Done(t)' : c \in Done(t) \/ (to = "join" /\ c = th[t].core)
    BY <1>0, <1>1 DEF Done
  <2>3. Done(t) \subseteq Cores
    BY DEF Done
  <2> QED
    BY <1>1, <1>2, <1>4, <2>1, <2>2, <2>3 DEF CallInv, DoneInv
<1>11. TurnInv(t)'
  BY <1>0, <1>1 DEF TurnInv
<1> QED
  BY <1>2, <1>5, <1>6, <1>7, <1>8, <1>9, <1>10, <1>11, OwnStep DEF ObjectInv, CallInv

\* A core forgets what it had cached of the blocks.
LEMMA InvalidateCodeStep ==
  ASSUME IInv, NEW t \in Threads, NEW o, o = Cur(t), InvalidateCode(t)
  PROVE  IInv'
<1>1. /\ th[t].pc = "code" /\ th'[t].pc = "copy"
      /\ th' \in [Threads -> LocalStates]
      /\ Cur(t)' = o /\ th'[t].core = th[t].core
      /\ \A u \in Threads \ {t} : th'[u] = th[u]
  BY AfterGoto DEF InvalidateCode, Steps
<1>2. o \in Objects /\ CallInv(t) /\ \A u \in Threads \ {t} : Cur(u) # o
  BY <1>1, CurObject DEF IInv
<1>3. /\ old' = old \ ({th[t].core} \X CodeOf(o))
      /\ UNCHANGED <<heapVars, listed, patched, mutex, code, text, seen, threadMemory,
                     historyVars>>
  BY DEF InvalidateCode
<1>4. TypeOK'
  BY <1>1, <1>3 DEF IInv, TypeOK, heapVars, historyVars
<1>5. Touches(t, o)
  BY <1>1, <1>2, <1>3 DEF Touches, heapVars, historyVars
<1>6. HeapInv'
  BY <1>3, HeapStays DEF IInv
<1>7. RegistryInv(o)' /\ TextInv(o)' /\ PatchedInv(o)' /\ StepInv(t)' /\ BlocksInv(t)'
  BY <1>1, <1>2, <1>3, EmittingStep DEF Emitting
<1>8. ServedInv(o)'
  BY <1>2, <1>3 DEF IInv, ObjectInv, ServedInv, historyVars
<1>9. TurnInv(t)'
  BY <1>1, <1>3 DEF TurnInv, CodeOf, heapVars
<1>10. DoneInv(t)'
  <2>1. \A c \in Cores : Reached(c, o) => Reached(c, o)'
    BY <1>3 DEF Reached, JumpWord, heapVars, historyVars
  <2>2. Done(t)' = Done(t) /\ Done(t) \subseteq Cores
    BY <1>1 DEF Done
  <2> QED
    BY <1>1, <1>2, <1>3, <2>1, <2>2 DEF CallInv, DoneInv, historyVars
<1> QED
  BY <1>2, <1>4, <1>5, <1>6, <1>7, <1>8, <1>9, <1>10, OwnStep DEF ObjectInv, CallInv

\* The jump is in memory; a core that saw the word before has to be served
\* again.
LEMMA CopyWordStep ==
  ASSUME IInv, NEW t \in Threads, NEW o, o = Cur(t), CopyWord(t)
  PROVE  IInv'
<1>1. /\ th[t].pc = "copy" /\ th'[t].pc = "word"
      /\ th' \in [Threads -> LocalStates]
      /\ Cur(t)' = o /\ th'[t].core = th[t].core
      /\ \A u \in Threads \ {t} : th'[u] = th[u]
  BY AfterGoto DEF CopyWord, Steps
<1>2. o \in Objects /\ CallInv(t) /\ \A u \in Threads \ {t} : Cur(u) # o
  BY <1>1, CurObject DEF IInv
<1>3. /\ text' = [text EXCEPT ![o] = JumpWord(o)]
      /\ served' = IF text'[o] = text[o] THEN served ELSE [served EXCEPT ![o] = {}]
      /\ UNCHANGED <<heapVars, listed, patched, mutex, code, old, seen, threadMemory, skipped>>
  BY DEF CopyWord
<1>4. /\ text'[o] = JumpWord(o) /\ JumpWord(o) \in Words
      /\ JumpWord(o)' = JumpWord(o) /\ CodeOf(o)' = CodeOf(o)
      /\ served'[o] = IF text'[o] = text[o] THEN served[o] ELSE {}
      /\ \A p \in Objects \ {o} : text'[p] = text[p] /\ served'[p] = served[p]
  <2>1. Complete(o)
    BY <1>1, <1>2 DEF CallInv, BlocksInv, Emitting
  <2>2. JumpWord(o) \in Words
    BY <1>2, <2>1 DEF IInv, TypeOK, JumpWord, Complete, Words
  <2> QED
    BY <1>2, <1>3, <2>2 DEF IInv, TypeOK, JumpWord, CodeOf, heapVars
<1>5. TypeOK'
  <2>1. text' \in [Objects -> Words] /\ served' \in [Objects -> SUBSET Cores]
    BY <1>2, <1>3, <1>4 DEF IInv, TypeOK
  <2> QED
    BY <1>1, <1>3, <2>1 DEF IInv, TypeOK, heapVars
<1>6. Touches(t, o)
  BY <1>1, <1>2, <1>3, <1>4 DEF Touches, heapVars
<1>7. HeapInv'
  BY <1>3, HeapStays DEF IInv
<1>8. RegistryInv(o)' /\ TextInv(o)' /\ PatchedInv(o)' /\ StepInv(t)' /\ BlocksInv(t)'
  BY <1>1, <1>2, <1>3, <1>4, EmittingStep DEF Emitting
<1>9. ServedInv(o)'
  BY <1>2, <1>3, <1>4 DEF IInv, ObjectInv, ServedInv
<1>10. TurnInv(t)'
  BY <1>1, <1>2, <1>3, <1>4 DEF CallInv, TurnInv
<1>11. DoneInv(t)'
  <2>1. \A c \in Cores : Reached(c, o) => Reached(c, o)'
    BY <1>3, <1>4 DEF Reached, heapVars
  <2>2. Done(t)' = Done(t) /\ Done(t) \subseteq Cores
    BY <1>1 DEF Done
  <2> QED
    BY <1>1, <1>2, <1>3, <2>1, <2>2 DEF CallInv, DoneInv
<1> QED
  BY <1>2, <1>5, <1>6, <1>7, <1>8, <1>9, <1>10, <1>11, OwnStep DEF ObjectInv, CallInv

\* The core whose turn it is executes the jump from now on.
LEMMA InvalidateWordStep ==
  ASSUME IInv, NEW t \in Threads, NEW o, o = Cur(t), InvalidateWord(t)
  PROVE  IInv'
<1>1. /\ th[t].pc = "word" /\ th'[t].pc = "join"
      /\ th' \in [Threads -> LocalStates]
      /\ Cur(t)' = o /\ th'[t].core = th[t].core
      /\ \A u \in Threads \ {t} : th'[u] = th[u]
  BY AfterGoto DEF InvalidateWord, Steps
<1>2. o \in Objects /\ CallInv(t) /\ \A u \in Threads \ {t} : Cur(u) # o
  BY <1>1, CurObject DEF IInv
<1>3. /\ seen' = [seen EXCEPT ![th[t].core][o] = text[o]]
      /\ served' = [served EXCEPT ![o] = @ \union {th[t].core}]
      /\ UNCHANGED <<heapVars, listed, patched, mutex, code, text, old, threadMemory, skipped>>
  BY DEF InvalidateWord
<1>4. th[t].core \in Cores
  BY DEF IInv, TypeOK, LocalStates
<1>5. /\ seen' \in [Cores -> [Objects -> Words]] /\ served' \in [Objects -> SUBSET Cores]
      /\ seen'[th[t].core][o] = text[o]
      /\ served'[o] = served[o] \union {th[t].core}
      /\ \A c \in Cores, p \in Objects : p # o \/ c # th[t].core => seen'[c][p] = seen[c][p]
      /\ \A p \in Objects \ {o} : served'[p] = served[p]
  BY <1>2, <1>3, <1>4 DEF IInv, TypeOK
<1>6. TypeOK'
  BY <1>1, <1>3, <1>5 DEF IInv, TypeOK, heapVars
<1>7. Touches(t, o)
  BY <1>1, <1>2, <1>3, <1>5 DEF Touches, heapVars
<1>8. HeapInv'
  BY <1>3, HeapStays DEF IInv
<1>9. RegistryInv(o)' /\ TextInv(o)' /\ PatchedInv(o)' /\ StepInv(t)' /\ BlocksInv(t)'
  BY <1>1, <1>2, <1>3, EmittingStep DEF Emitting
<1>10. /\ Complete(o) /\ text[o] = JumpWord(o)
       /\ \A b \in CodeOf(o) : <<th[t].core, b>> \notin old
  BY <1>1, <1>2 DEF CallInv, BlocksInv, TurnInv, Emitting
<1>11. ServedInv(o)'
  <2>1. text[o] \in Blocks => <<th[t].core, text[o]>> \notin old
    BY <1>10, NullAssumption, WordsAssumption DEF JumpWord, CodeOf, Complete
  <2>2. served[o] \subseteq Cores /\ ServedInv(o)
    BY <1>2 DEF IInv, TypeOK, ObjectInv
  <2> QED
    BY <1>2, <1>3, <1>5, <2>1, <2>2 DEF ServedInv
<1>12. TurnInv(t)'
  BY <1>1 DEF TurnInv
<1>13. DoneInv(t)'
  <2>1. \A c \in Cores : Reached(c, o) => Reached(c, o)'
    BY <1>3, <1>5 DEF Reached, JumpWord, heapVars
  <2>2. jumpToOriginal[o] \in CodeOf(o)
    BY <1>10 DEF Complete, CodeOf
  <2>3. \A c \in Cores : c = th[t].core => Reached(c, o)'
    BY <1>3, <1>5, <1>10, <2>2 DEF Reached, JumpWord, heapVars
  <2>4. \A c \in Done(t)' : c \in Done(t) \/ c = th[t].core
    BY <1>1 DEF Done
  <2>5. Done(t) \subseteq Cores
    BY DEF Done
  <2> QED
    BY <1>1, <1>2, <1>3, <1>4, <2>1, <2>3, <2>4, <2>5 DEF CallInv, DoneInv
<1> QED
  BY <1>2, <1>6, <1>7, <1>8, <1>9, <1>11, <1>12, <1>13, OwnStep DEF ObjectInv, CallInv

\* A turn ends; after the last one every core was served or skipped.
LEMMA ShutdownThreadStep ==
  ASSUME IInv, NEW t \in Threads, NEW o, o = Cur(t), ShutdownThread(t)
  PROVE  IInv'
<1>1. /\ th[t].pc = "join" /\ th'[t] = NextCore(t)
      /\ th[t] \in LocalStates /\ th[t].core \in Int /\ 0 <= th[t].core
      /\ th[t].core \in Cores /\ \A u \in Threads \ {t} : th'[u] = th[u]
  BY LastCoreAssumption DEF IInv, TypeOK, ShutdownThread, LocalStates, Cores
<1>2. /\ NextCore(t) \in LocalStates /\ NextCore(t).cur = o
      /\ NextCore(t).pc = IF th[t].core > 0 THEN "thread" ELSE "push"
      /\ th[t].core > 0 => NextCore(t).core = th[t].core - 1
  <2>1. CASE th[t].core > 0
    <3>1. th[t].core - 1 \in Cores
      BY <1>1, <2>1, LastCoreAssumption DEF Cores
    <3> QED
      BY <1>1, <2>1, <3>1 DEF NextCore, LocalStates, Steps, Cur
  <2>2. CASE ~(th[t].core > 0)
    BY <1>1, <2>2 DEF NextCore, LocalStates, Steps, Cur
  <2> QED
    BY <2>1, <2>2
<1>3. o \in Objects /\ CallInv(t) /\ \A u \in Threads \ {t} : Cur(u) # o
  BY <1>1, CurObject DEF IInv
<1>4. UNCHANGED <<heapVars, listed, patched, mutex, codeVars, historyVars>>
  BY DEF ShutdownThread
<1>5. TypeOK'
  <2>1. th' \in [Threads -> LocalStates]
    BY <1>1, <1>2 DEF IInv, TypeOK, ShutdownThread
  <2>2. threadMemory' \subseteq Threads \X {"thread", "stack"}
    BY DEF IInv, TypeOK, ShutdownThread
  <2> QED
    BY <1>4, <2>1, <2>2 DEF IInv, TypeOK, heapVars, codeVars, historyVars
<1>6. Cur(t)' = o /\ th'[t].pc \in {"thread", "push"}
  BY <1>1, <1>2 DEF Cur
<1>7. Touches(t, o)
  BY <1>1, <1>3, <1>4, <1>6 DEF Touches, heapVars, codeVars, historyVars
<1>8. HeapInv'
  BY <1>4, HeapStays DEF IInv
<1>9. RegistryInv(o)' /\ TextInv(o)' /\ PatchedInv(o)' /\ StepInv(t)' /\ BlocksInv(t)'
  BY <1>1, <1>3, <1>4, <1>6, EmittingStep DEF Emitting, codeVars
<1>10. ServedInv(o)'
  BY <1>3, <1>4 DEF IInv, ObjectInv, ServedInv, codeVars, historyVars
<1>11. TurnInv(t)'
  BY <1>6 DEF TurnInv
<1>12. DoneInv(t)'
  <2>1. \A c \in Cores : Reached(c, o) => Reached(c, o)'
    BY <1>4 DEF Reached, JumpWord, heapVars, codeVars, historyVars
  <2>2. \A c \in Cores : th[t].core <= c => c \in Done(t)
    BY <1>1, LastCoreAssumption DEF Done, Cores
  <2>3. \A c \in Done(t)' : c \in Cores /\ th[t].core <= c
    BY <1>1, <1>2, LastCoreAssumption DEF Done, Cores
  <2> QED
    BY <1>3, <1>4, <1>6, <2>1, <2>2, <2>3 DEF CallInv, DoneInv, historyVars
<1> QED
  BY <1>3, <1>5, <1>7, <1>8, <1>9, <1>10, <1>11, <1>12, OwnStep DEF ObjectInv, CallInv

\* A thread that is stuck changes nothing more.
LEMMA JoinNeverReturnsStep ==
  ASSUME IInv, NEW t \in Threads, NEW o, o = Cur(t), JoinNeverReturns(t)
  PROVE  IInv'
<1>1. /\ th[t].pc = "join" /\ th'[t].pc = "stuck"
      /\ th' \in [Threads -> LocalStates]
      /\ Cur(t)' = o /\ th'[t].core = th[t].core
      /\ \A u \in Threads \ {t} : th'[u] = th[u]
  BY AfterGoto DEF JoinNeverReturns, Steps
<1>2. o \in Objects /\ CallInv(t) /\ \A u \in Threads \ {t} : Cur(u) # o
  BY <1>1, CurObject DEF IInv
<1>3. UNCHANGED <<heapVars, listed, patched, mutex, codeVars, threadMemory, historyVars>>
  BY DEF JoinNeverReturns
<1>4. TypeOK'
  BY <1>1, <1>3 DEF IInv, TypeOK, heapVars, codeVars, historyVars
<1>5. Touches(t, o)
  BY <1>1, <1>2, <1>3 DEF Touches, heapVars, codeVars, historyVars
<1>6. HeapInv'
  BY <1>3, HeapStays DEF IInv
<1>7. RegistryInv(o)' /\ TextInv(o)' /\ PatchedInv(o)' /\ StepInv(t)' /\ BlocksInv(t)'
  BY <1>1, <1>2, <1>3, EmittingStep DEF Emitting, codeVars
<1>8. ServedInv(o)'
  BY <1>2, <1>3 DEF IInv, ObjectInv, ServedInv, codeVars, historyVars
<1>9. TurnInv(t)' /\ DoneInv(t)'
  BY <1>1 DEF TurnInv, DoneInv, Done
<1> QED
  BY <1>2, <1>4, <1>5, <1>6, <1>7, <1>8, <1>9, OwnStep DEF ObjectInv, CallInv

\* The patch is complete when it is listed.
LEMMA PushBackStep ==
  ASSUME IInv, NEW t \in Threads, NEW o, o = Cur(t), PushBack(t)
  PROVE  IInv'
<1>1. /\ th[t].pc = "push"
      /\ th' \in [Threads -> LocalStates]
      /\ th'[t].pc = "idle" /\ Cur(t)' = NULL
      /\ \A u \in Threads \ {t} : th'[u] = th[u]
  BY LastCoreAssumption
  DEF IInv, TypeOK, PushBack, LocalStates, Steps, Idle, Cur, Cores
<1>2. o \in Objects /\ CallInv(t) /\ \A u \in Threads \ {t} : Cur(u) # o
  BY <1>1, CurObject DEF IInv
<1>3. /\ patched' = patched \union {o} /\ listed' = listed \union {o}
      /\ UNCHANGED <<heapVars, mutex, codeVars, threadMemory, historyVars>>
  BY DEF PushBack
<1>4. /\ o \in alive /\ o # NULL /\ Complete(o) /\ Emitted(o)
      /\ \A c \in Cores : c \in skipped[o] \/ Reached(c, o)
  BY <1>1, <1>2, NullAssumption
  DEF CallInv, StepInv, BlocksInv, DoneInv, Done, Emitting
<1>5. TypeOK'
  BY <1>1, <1>2, <1>3 DEF IInv, TypeOK, heapVars, codeVars, historyVars
<1>6. Touches(t, o)
  BY <1>1, <1>2, <1>3 DEF Touches, heapVars, codeVars, historyVars
<1>7. HeapInv'
  BY <1>3, HeapStays DEF IInv
<1>8. Complete(o)' /\ Emitted(o)' /\ o \in alive'
  BY <1>3, <1>4 DEF Complete, Emitted, CodeOf, heapVars, codeVars
<1>9. ObjectInv(o)'
  <2>1. RegistryInv(o)'
    BY <1>3, <1>8 DEF RegistryInv
  <2>2. \A u \in Threads : Cur(u)' # o
    BY <1>1, <1>2, <1>4 DEF Cur
  <2>3. TextInv(o) /\ ServedInv(o)
    BY <1>2 DEF IInv, ObjectInv
  <2>4. TextInv(o)'
    BY <1>3, <1>8, <2>2, <2>3 DEF TextInv, JumpWord, heapVars, codeVars
  <2>5. ServedInv(o)'
    BY <1>3, <2>3 DEF ServedInv, codeVars, historyVars
  <2>6. PatchedInv(o)'
    BY <1>3, <1>4 DEF PatchedInv, Reached, JumpWord, heapVars, codeVars, historyVars
  <2> QED
    BY <2>1, <2>4, <2>5, <2>6 DEF ObjectInv
<1>10. CallInv(t)'
  <2>1. StepInv(t)'
    BY <1>1 DEF StepInv, Allocating, Emitting, Freeing, Removing
  <2>2. BlocksInv(t)' /\ TurnInv(t)' /\ DoneInv(t)'
    BY <1>1 DEF BlocksInv, Emitting, TurnInv, DoneInv, Done
  <2> QED
    BY <2>1, <2>2 DEF CallInv
<1> QED
  BY <1>2, <1>5, <1>6, <1>7, <1>9, <1>10, OwnStep
------------------------------------------------------------------------------
(* One lemma for each action: removal, and the caches.                      *)

\* A removal takes the object of the registry into the mutex owner's hands.
LEMMA RemoveStep ==
  ASSUME IInv, NEW t \in Threads, NEW o \in Objects, FPRemoveFunctionPatch(t, o)
  PROVE  IInv'
<1>1. /\ ObjectInv(o) /\ Cur(t) = NULL /\ o # NULL /\ o \in listed /\ mutex = NULL
      /\ LastCore \in Cores
  BY LastCoreAssumption, NullAssumption DEF IInv, FPRemoveFunctionPatch, Idle, Cur, Cores
<1>2. /\ th' \in [Threads -> LocalStates]
      /\ Cur(t)' = o /\ th'[t].pc = "restore"
      /\ \A u \in Threads \ {t} : th'[u] = th[u]
  BY <1>1 DEF IInv, TypeOK, FPRemoveFunctionPatch, Idle, LocalStates, Steps, Cur
<1>3. mutex' = t /\ UNCHANGED <<heapVars, listed, patched, codeVars, threadMemory, historyVars>>
  BY DEF FPRemoveFunctionPatch
<1>4. TypeOK'
  BY <1>2, <1>3 DEF IInv, TypeOK, heapVars, codeVars, historyVars
<1>5. \A u \in Threads : Cur(u) # o
  <2> SUFFICES ASSUME NEW u \in Threads, Cur(u) = o
               PROVE  FALSE
    OBVIOUS
  <2>1. CallInv(u) /\ th[u] \in LocalStates
    BY DEF IInv, TypeOK
  <2>2. th[u].pc \in Removing
    BY <1>1, <2>1
    DEF CallInv, StepInv, LocalStates, Steps, Allocating, Emitting, Freeing, Removing
  <2> QED
    BY <1>1, <2>1, <2>2, NullAssumption DEF CallInv, StepInv
<1>6. Touches(t, o)
  BY <1>1, <1>2, <1>3, <1>5 DEF Touches, heapVars, codeVars, historyVars
<1>7. HeapInv'
  BY <1>3, HeapStays DEF IInv
<1>8. o \in alive' /\ (Complete(o)' <=> Complete(o)) /\ (Emitted(o)' <=> Emitted(o))
  BY <1>1, <1>3 DEF ObjectInv, RegistryInv, Complete, Emitted, CodeOf, heapVars, codeVars
<1>9. ObjectInv(o)'
  <2>1. RegistryInv(o)'
    BY <1>1, <1>3, <1>8 DEF ObjectInv, RegistryInv
  <2>2. TextInv(o)'
    BY <1>1, <1>2, <1>3, <1>5, <1>8 DEF ObjectInv, TextInv, JumpWord, heapVars, codeVars, Cur
  <2>3. ServedInv(o)'
    BY <1>1, <1>3 DEF ObjectInv, ServedInv, codeVars, historyVars
  <2>4. ~Restoring(o)
    BY <1>5 DEF Restoring
  <2>5. PatchedInv(o)'
    BY <1>1, <1>3, <2>4
    DEF ObjectInv, PatchedInv, Reached, JumpWord, heapVars, codeVars, historyVars
  <2> QED
    BY <2>1, <2>2, <2>3, <2>5 DEF ObjectInv
<1>10. CallInv(t)'
  <2>1. StepInv(t)'
    BY <1>1, <1>2, <1>3, <1>8 DEF StepInv, Allocating, Emitting, Freeing
  <2>2. BlocksInv(t)' /\ TurnInv(t)' /\ DoneInv(t)'
    BY <1>2 DEF BlocksInv, Emitting, TurnInv, DoneInv, Done
  <2> QED
    BY <2>1, <2>2 DEF CallInv
<1> QED
  BY <1>4, <1>6, <1>7, <1>9, <1>10, OwnStep

\* A call that has the mutex and goes on with it keeps what does not depend on
\* memory and the caches.
LEMMA RemovingStep ==
  ASSUME IInv, NEW t \in Threads, NEW o \in Objects, o = Cur(t),
         th[t].pc \in Removing, th'[t].pc \in Removing, Cur(t)' = o,
         UNCHANGED <<heapVars, listed, mutex, code>>,
         patched' \subseteq patched
  PROVE  /\ RegistryInv(o)' /\ CallInv(t)'
         /\ \A c \in Cores : UNCHANGED <<text, served, old>> /\ Reached(c, o) => Reached(c, o)'
<1>1. /\ o \in listed /\ mutex = t /\ o \in alive /\ o # NULL
      /\ Complete(o) /\ Emitted(o)
  BY NullAssumption
  DEF IInv, CallInv, StepInv, ObjectInv, RegistryInv, Removing
<1>2. Complete(o)' /\ Emitted(o)'
  BY <1>1 DEF CodeOf, Complete, Emitted, heapVars
<1>3. RegistryInv(o)'
  BY <1>1, <1>2 DEF RegistryInv, heapVars
<1>4. StepInv(t)'
  BY <1>1 DEF StepInv, Emitting, Allocating, Freeing, Removing, heapVars
<1>5. BlocksInv(t)' /\ TurnInv(t)' /\ DoneInv(t)'
  BY DEF BlocksInv, Emitting, Removing, TurnInv, DoneInv, Done
<1>6. \A c \in Cores : UNCHANGED <<text, served, old>> /\ Reached(c, o) => Reached(c, o)'
  BY DEF Reached, JumpWord, heapVars
<1> QED
  BY <1>3, <1>4, <1>5, <1>6 DEF CallInv

\* A restore that is refused leaves memory alone.
LEMMA RefuseRestoreStep ==
  ASSUME IInv, NEW t \in Threads, NEW o, o = Cur(t), RefuseRestore(t)
  PROVE  IInv'
<1>1. /\ th[t].pc = "restore" /\ th'[t].pc = "erase"
      /\ th' \in [Threads -> LocalStates]
      /\ Cur(t)' = o /\ th'[t].core = th[t].core
      /\ \A u \in Threads \ {t} : th'[u] = th[u]
  BY AfterGoto DEF RefuseRestore, Steps
<1>2. o \in Objects /\ CallInv(t) /\ \A u \in Threads \ {t} : Cur(u) # o
  BY <1>1, CurObject DEF IInv
<1>3. UNCHANGED <<heapVars, listed, patched, mutex, codeVars, threadMemory, historyVars>>
  BY DEF RefuseRestore
<1>4. ObjectInv(o) /\ text[o] = "original"
  BY <1>2 DEF IInv, ObjectInv, TextInv, RefuseRestore
<1>5. TypeOK'
  BY <1>1, <1>3 DEF IInv, TypeOK, heapVars, codeVars, historyVars
<1>6. Touches(t, o)
  BY <1>1, <1>2, <1>3 DEF Touches, heapVars, codeVars, historyVars
<1>7. HeapInv'
  BY <1>3, HeapStays DEF IInv
<1>8. /\ RegistryInv(o)' /\ CallInv(t)'
      /\ \A c \in Cores : Reached(c, o) => Reached(c, o)'
  BY <1>1, <1>2, <1>3, RemovingStep DEF Removing, codeVars, historyVars
<1>9. TextInv(o)' /\ ServedInv(o)'
  BY <1>3, <1>4 DEF ObjectInv, TextInv, ServedInv, codeVars, historyVars
<1>10. PatchedInv(o)'
  <2>1. ~Restoring(o)
    BY <1>1, <1>2 DEF Restoring
  <2> QED
    BY <1>3, <1>4, <1>8, <2>1 DEF ObjectInv, PatchedInv, historyVars
<1> QED
  BY <1>2, <1>5, <1>6, <1>7, <1>8, <1>9, <1>10, OwnStep DEF ObjectInv

\* The original word is back; no core is served yet.
LEMMA RestoreWordStep ==
  ASSUME IInv, NEW t \in Threads, NEW o, o = Cur(t), RestoreWord(t)
  PROVE  IInv'
<1>1. /\ th[t].pc = "restore" /\ th'[t].pc = "invalidate"
      /\ th' \in [Threads -> LocalStates]
      /\ Cur(t)' = o /\ th'[t].core = th[t].core
      /\ \A u \in Threads \ {t} : th'[u] = th[u]
  BY AfterGoto DEF RestoreWord, Steps
<1>2. o \in Objects /\ CallInv(t) /\ \A u \in Threads \ {t} : Cur(u) # o
  BY <1>1, CurObject DEF IInv
<1>3. /\ text' = [text EXCEPT ![o] = "original"]
      /\ served' = [served EXCEPT ![o] = {}]
      /\ UNCHANGED <<heapVars, listed, patched, mutex, code, old, seen, threadMemory, skipped>>
  BY DEF RestoreWord
<1>4. /\ text'[o] = "original" /\ served'[o] = {}
      /\ text' \in [Objects -> Words] /\ served' \in [Objects -> SUBSET Cores]
      /\ \A p \in Objects \ {o} : text'[p] = text[p] /\ served'[p] = served[p]
  BY <1>2, <1>3 DEF IInv, TypeOK, Words
<1>5. TypeOK'
  BY <1>1, <1>3, <1>4 DEF IInv, TypeOK, heapVars
<1>6. Touches(t, o)
  BY <1>1, <1>2, <1>3, <1>4 DEF Touches, heapVars
<1>7. HeapInv'
  BY <1>3, HeapStays DEF IInv
<1>8. RegistryInv(o)' /\ CallInv(t)'
  BY <1>1, <1>2, <1>3, RemovingStep DEF Removing
<1>9. TextInv(o)' /\ ServedInv(o)'
  BY <1>4 DEF TextInv, ServedInv
<1>10. PatchedInv(o)'
  <2>1. Restoring(o)'
    BY <1>1 DEF Restoring
  <2> QED
    BY <2>1 DEF PatchedInv
<1> QED
  BY <1>2, <1>5, <1>6, <1>7, <1>8, <1>9, <1>10, OwnStep DEF ObjectInv

\* The calling core executes the original again.
LEMMA InvalidateRestoredStep ==
  ASSUME IInv, NEW t \in Threads, NEW o, o = Cur(t), InvalidateRestored(t)
  PROVE  IInv'
<1>1. /\ th[t].pc = "invalidate" /\ th'[t].pc = "erase"
      /\ th' \in [Threads -> LocalStates]
      /\ Cur(t)' = o /\ th'[t].core = th[t].core
      /\ \A u \in Threads \ {t} : th'[u] = th[u]
  BY AfterGoto DEF InvalidateRestored, Steps
<1>2. o \in Objects /\ CallInv(t) /\ \A u \in Threads \ {t} : Cur(u) # o
  BY <1>1, CurObject DEF IInv
<1>3. /\ seen' = [seen EXCEPT ![Home[t]][o] = text[o]]
      /\ patched' = patched \ {o}
      /\ served' = [served EXCEPT ![o] = {Home[t]}]
      /\ UNCHANGED <<heapVars, listed, mutex, code, text, old, threadMemory, skipped>>
  BY DEF InvalidateRestored
<1>4. /\ seen' \in [Cores -> [Objects -> Words]] /\ served' \in [Objects -> SUBSET Cores]
      /\ seen'[Home[t]][o] = text[o] /\ served'[o] = {Home[t]}
      /\ \A c \in Cores, p \in Objects \ {o} : seen'[c][p] = seen[c][p]
      /\ \A p \in Objects \ {o} : served'[p] = served[p]
  BY <1>2, <1>3, HomeAssumption DEF IInv, TypeOK
<1>5. text[o] = "original"
  BY <1>1, <1>2, Unwritten DEF Emitting
<1>6. TypeOK'
  BY <1>1, <1>3, <1>4 DEF IInv, TypeOK, heapVars
<1>7. Touches(t, o)
  BY <1>1, <1>2, <1>3, <1>4 DEF Touches, heapVars
<1>8. HeapInv'
  BY <1>3, HeapStays DEF IInv
<1>9. RegistryInv(o)' /\ CallInv(t)'
  BY <1>1, <1>2, <1>3, RemovingStep DEF Removing
<1>10. TextInv(o)' /\ ServedInv(o)' /\ PatchedInv(o)'
  BY <1>3, <1>4, <1>5, WordsAssumption DEF TextInv, ServedInv, PatchedInv
<1> QED
  BY <1>2, <1>6, <1>7, <1>8, <1>9, <1>10, OwnStep DEF ObjectInv

\* The object leaves the registry, for the destructor.
LEMMA EraseStep ==
  ASSUME IInv, NEW t \in Threads, NEW o, o = Cur(t), Erase(t)
  PROVE  IInv'
<1>1. /\ th[t].pc = "erase" /\ th'[t].pc = "freeOriginal"
      /\ th' \in [Threads -> LocalStates]
      /\ Cur(t)' = o /\ th'[t].core = th[t].core
      /\ \A u \in Threads \ {t} : th'[u] = th[u]
  BY AfterGoto DEF Erase, Steps
<1>2. o \in Objects /\ CallInv(t) /\ \A u \in Threads \ {t} : Cur(u) # o
  BY <1>1, CurObject DEF IInv
<1>3. /\ listed' = listed \ {o} /\ patched' = patched \ {o}
      /\ UNCHANGED <<heapVars, mutex, codeVars, threadMemory, historyVars>>
  BY DEF Erase
<1>4. ObjectInv(o) /\ text[o] = "original"
  BY <1>1, <1>2, Unwritten DEF IInv, Emitting
<1>5. TypeOK'
  BY <1>1, <1>3 DEF IInv, TypeOK, heapVars, codeVars, historyVars
<1>6. Touches(t, o)
  BY <1>1, <1>2, <1>3 DEF Touches, heapVars, codeVars, historyVars
<1>7. HeapInv'
  BY <1>3, HeapStays DEF IInv
<1>8. ObjectInv(o)'
  BY <1>3, <1>4
  DEF ObjectInv, RegistryInv, TextInv, ServedInv, PatchedInv, codeVars, historyVars
<1>9. CallInv(t)'
  <2>1. o \in alive /\ o # NULL
    BY <1>1, <1>2, NullAssumption DEF CallInv, StepInv
  <2>2. StepInv(t)'
    BY <1>1, <1>3, <2>1 DEF StepInv, Allocating, Removing, heapVars
  <2>3. BlocksInv(t)' /\ TurnInv(t)' /\ DoneInv(t)'
    BY <1>1 DEF BlocksInv, Emitting, TurnInv, DoneInv, Done
  <2> QED
    BY <2>2, <2>3 DEF CallInv
<1> QED
  BY <1>2, <1>5, <1>6, <1>7, <1>8, <1>9, OwnStep

\* A cache that reads anew only comes closer to memory.
LEMMA DropWordStep ==
  ASSUME IInv, NEW c \in Cores, NEW o \in Objects, DropWord(c, o)
  PROVE  IInv'
<1>1. /\ seen' = [seen EXCEPT ![c][o] = text[o]]
      /\ UNCHANGED <<heapVars, listed, patched, mutex, code, text, old, threadMemory, th,
                     historyVars>>
  BY DEF DropWord
<1>2. /\ seen' \in [Cores -> [Objects -> Words]]
      /\ \A d \in Cores, p \in Objects : seen'[d][p] \in {seen[d][p], text[p]}
  BY <1>1 DEF IInv, TypeOK
<1>3. TypeOK'
  BY <1>1, <1>2 DEF IInv, TypeOK, heapVars, historyVars
<1>4. HeapInv' /\ OwnObject'
  BY <1>1, HeapStays DEF IInv, OwnObject, Cur
<1>5. ASSUME NEW p \in Objects
      PROVE  ObjectInv(p)'
  <2>1. ObjectInv(p) /\ served[p] \subseteq Cores
    BY DEF IInv, TypeOK
  <2>2. /\ CodeOf(p)' = CodeOf(p) /\ JumpWord(p)' = JumpWord(p)
        /\ (Complete(p)' <=> Complete(p)) /\ (Emitted(p)' <=> Emitted(p))
    BY <1>1 DEF CodeOf, JumpWord, Complete, Emitted, heapVars
  <2>3. ServedInv(p)'
    BY <1>1, <1>2, <2>1 DEF ObjectInv, ServedInv, historyVars
  <2>4. RegistryInv(p)' /\ TextInv(p)'
    BY <1>1, <2>1, <2>2 DEF ObjectInv, RegistryInv, TextInv, Cur, heapVars
  <2>5. PatchedInv(p)'
    BY <1>1, <2>1, <2>2 DEF ObjectInv, PatchedInv, Reached, Restoring, Cur, heapVars, historyVars
  <2> QED
    BY <2>3, <2>4, <2>5 DEF ObjectInv
<1>6. ASSUME NEW t \in Threads
      PROVE  CallInv(t)'
  BY <1>1 DEF IInv, CallInv, StepInv, BlocksInv, TurnInv, DoneInv, Done, Reached,
    Complete, Emitted, CodeOf, JumpWord, Cur, heapVars, historyVars
<1> QED
  BY <1>3, <1>4, <1>5, <1>6 DEF IInv
------------------------------------------------------------------------------
(* The theorems.                                                            *)

\* The invariant holds before the first call.
LEMMA InitIInv == Init => IInv
<1> SUFFICES ASSUME Init PROVE IInv
  OBVIOUS
<1>1. LastCore \in Cores
  BY LastCoreAssumption DEF Cores
<1>2. TypeOK
  BY <1>1 DEF Init, TypeOK, Idle, LocalStates, Steps, Words
<1>3. \A t \in Threads : Cur(t) = NULL /\ th[t].pc = "idle"
  BY DEF Init, Idle, Cur
<1>4. \A o \in Objects : CodeOf(o) = {}
  BY DEF Init, CodeOf
<1>5. HeapInv
  BY <1>4 DEF Init, HeapInv
<1>6. OwnObject
  BY <1>3 DEF OwnObject
<1>7. ASSUME NEW o \in Objects
      PROVE  ObjectInv(o)
  BY WordsAssumption DEF Init, ObjectInv, RegistryInv, TextInv, ServedInv, PatchedInv
<1>8. ASSUME NEW t \in Threads
      PROVE  CallInv(t)
  BY <1>3 DEF CallInv, StepInv, BlocksInv, TurnInv, DoneInv, Done,
    Allocating, Emitting, Removing, Freeing
<1> QED
  BY <1>2, <1>5, <1>6, <1>7, <1>8 DEF IInv

\* Every step of every thread, and of the caches, keeps the invariant.
LEMMA NextIInv == IInv /\ [Next]_vars => IInv'
<1> SUFFICES ASSUME IInv, [Next]_vars PROVE IInv'
  OBVIOUS
<1>1. ASSUME NEW t \in Threads, Calls(t)
      PROVE  IInv'
  BY <1>1, AddStep, RemoveStep DEF Calls
<1>2. ASSUME NEW t \in Threads, Create(t)
      PROVE  IInv'
  BY <1>2, AllocateJumpDataStep, AllocateJumpToOriginalStep, AllocationFailsStep,
     FreeJumpToOriginalStep, FreeJumpDataStep DEF Create
<1>3. ASSUME NEW t \in Threads, Patch(t)
      PROVE  IInv'
  BY <1>3, GenerateStep, StartThreadStep, InvalidateCodeStep, CopyWordStep,
     InvalidateWordStep, ShutdownThreadStep, JoinNeverReturnsStep, PushBackStep DEF Patch
<1>4. ASSUME NEW t \in Threads, Restore(t)
      PROVE  IInv'
  BY <1>4, RefuseRestoreStep, RestoreWordStep, InvalidateRestoredStep, EraseStep DEF Restore
<1>5. ASSUME NEW c \in Cores, NEW o \in Objects, DropWord(c, o)
      PROVE  IInv'
  BY <1>5, DropWordStep
<1>6. CASE UNCHANGED vars
  <2> USE <1>6 DEF vars, heapVars, codeVars, historyVars
  <2>1. TypeOK' /\ HeapInv' /\ OwnObject'
    <3>1. TypeOK'
      BY DEF IInv, TypeOK
    <3>2. HeapInv'
      BY HeapStays DEF IInv
    <3>3. OwnObject'
      BY DEF IInv, OwnObject, Cur
    <3> QED
      BY <3>1, <3>2, <3>3
  <2>2. ASSUME NEW o \in Objects
        PROVE  ObjectInv(o)'
    BY DEF IInv, ObjectInv, RegistryInv, TextInv, ServedInv, PatchedInv, Reached, Restoring,
      Complete, Emitted, CodeOf, JumpWord, Cur
  <2>3. ASSUME NEW t \in Threads
        PROVE  CallInv(t)'
    BY DEF IInv, CallInv, StepInv, BlocksInv, TurnInv, DoneInv, Done, Reached,
      Complete, Emitted, CodeOf, JumpWord, Cur
  <2> QED
    BY <2>1, <2>2, <2>3 DEF IInv
<1> QED
  BY <1>1, <1>2, <1>3, <1>4, <1>5, <1>6 DEF Next

\* The state is well typed and satisfies the inductive invariant, for any number
\* of cores, objects, blocks and threads.
THEOREM CoresInvariant == Spec => []IInv
  BY InitIInv, NextIInv, PTL DEF Spec

\* Every variable keeps its type: the turns of runOnAllCores stay within the
\* cores there are, and blocks go to objects only.
THEOREM CoresTyped == Spec => []TypeOK
<1>1. IInv => TypeOK
  BY DEF IInv
<1> QED
  BY <1>1, CoresInvariant, PTL

\* A core that invalidated the present word executes what memory says.
LEMMA ServedExecutes ==
  ASSUME IInv, NEW o \in Objects, NEW c \in served[o]
  PROVE  Executes(c, o) = IF text[o] = "original" THEN "original" ELSE "replacement"
<1>1. /\ ObjectInv(o) /\ seen[c][o] = text[o]
      /\ text[o] \in Blocks => <<c, text[o]>> \notin old
  BY DEF IInv, ObjectInv, ServedInv
<1>2. CASE text[o] = "original"
  BY <1>1, <1>2 DEF Executes
<1>3. CASE text[o] # "original"
  <2>1. o \in alive /\ Complete(o) /\ Emitted(o) /\ text[o] = JumpWord(o)
    BY <1>1, <1>3 DEF ObjectInv, TextInv
  <2>2. CASE o \in Near
    BY <1>1, <2>1, <2>2 DEF Executes, JumpWord
  <2>3. CASE o \notin Near
    <3>1. jumpData[o] \in CodeOf(o) /\ jumpData[o] \in Blocks /\ text[o] = jumpData[o]
      BY <2>1, <2>3 DEF CodeOf, Complete, JumpWord, IInv, TypeOK
    <3>2. jumpData[o] \in used /\ code[jumpData[o]] = o
      BY <2>1, <3>1 DEF Emitted, IInv, HeapInv
    <3> QED
      BY <1>1, <3>1, <3>2, WordsAssumption DEF Executes
  <2> QED
    BY <2>2, <2>3
<1> QED
  BY <1>2, <1>3

\* However many cores there are, one that invalidated the present word, in its
\* turn of runOnAllCores or in RestoreFunction, runs what memory says.
THEOREM ServedCoresAreRight == Spec => []ServedCoresRunRight
<1>1. IInv => ServedCoresRunRight
  BY ServedExecutes DEF ServedCoresRunRight
<1> QED
  BY <1>1, CoresInvariant, PTL

\* After PatchFunction, every core that had memory for its thread runs the
\* replacement and finds the way to the original, whatever the blocks held.
THEOREM PatchReachesCores == Spec => []PatchedOnEveryCore
<1>1. ASSUME IInv
      PROVE  PatchedOnEveryCore
  <2> SUFFICES ASSUME NEW o \in patched, ~Restoring(o), NEW c \in Cores \ skipped[o]
               PROVE  /\ Executes(c, o) = "replacement"
                      /\ code[jumpToOriginal[o]] = o /\ <<c, jumpToOriginal[o]>> \notin old
    BY DEF PatchedOnEveryCore
  <2>1. o \in Objects /\ ObjectInv(o)
    BY <1>1 DEF IInv, TypeOK
  <2>2. Reached(c, o) /\ Complete(o) /\ Emitted(o)
    BY <2>1 DEF ObjectInv, RegistryInv, PatchedInv
  <2>3. jumpToOriginal[o] \in CodeOf(o)
    BY <2>2 DEF Complete, CodeOf
  <2>4. text[o] # "original"
    BY <1>1, <2>1, <2>2, WordsAssumption DEF Reached, JumpWord, Complete, IInv, TypeOK
  <2>5. Executes(c, o) = "replacement"
    BY <1>1, <2>1, <2>2, <2>4, ServedExecutes DEF Reached
  <2> QED
    BY <2>2, <2>3, <2>5 DEF Reached, Emitted
<1> QED
  BY <1>1, CoresInvariant, PTL

\* The jump heap has given out what the objects in use hold, to one object each,
\* however many calls fail between their allocations.
THEOREM JumpHeapIsExact == Spec => []JumpHeapExact
<1>1. IInv => JumpHeapExact
  <2> SUFFICES ASSUME IInv PROVE JumpHeapExact
    OBVIOUS
  <2>1. \A o \in listed : jumpToOriginal[o] # NULL /\ (o \in Near \/ jumpData[o] # NULL)
    BY DEF IInv, TypeOK, ObjectInv, RegistryInv, Complete
  <2> QED
    BY <2>1 DEF IInv, HeapInv, JumpHeapExact
<1> QED
  BY <1>1, CoresInvariant, PTL

\* Whatever a thread gets from the application's heap, it gives back before
\* runOnAllCores goes on, or waits for ever with it.
THEOREM ThreadMemoryIsGivenBack == Spec => []ThreadMemoryGivenBack
<1>1. Init => ThreadMemoryGivenBack
  BY DEF Init, ThreadMemoryGivenBack
<1>2. IInv /\ ThreadMemoryGivenBack /\ [Next]_vars => ThreadMemoryGivenBack'
  <2> SUFFICES ASSUME IInv, ThreadMemoryGivenBack, [Next]_vars
               PROVE  ThreadMemoryGivenBack'
    OBVIOUS
  <2> DEFINE Inside == {"code", "copy", "word", "join", "stuck"}
  <2>1. ASSUME NEW t \in Threads, threadMemory' = threadMemory,
               \A u \in Threads \ {t} : th'[u] = th[u],
               th[t].pc \in Inside => th'[t].pc \in Inside
        PROVE  ThreadMemoryGivenBack'
    BY <2>1 DEF IInv, TypeOK, ThreadMemoryGivenBack
  <2>2. ASSUME NEW t \in Threads, NEW from, NEW to \in Steps, Goto(t, from, to),
               threadMemory' = threadMemory, from \notin Inside \/ to \in Inside
        PROVE  ThreadMemoryGivenBack'
    BY <2>1, <2>2, AfterGoto
  <2>3. ASSUME NEW t \in Threads, Calls(t)
        PROVE  ThreadMemoryGivenBack'
    <3>1. th[t].pc = "idle" /\ threadMemory' = threadMemory
      BY <2>3 DEF Calls, FPAddFunctionPatch, FPRemoveFunctionPatch, Idle
    <3>2. \A u \in Threads \ {t} : th'[u] = th[u]
      BY <2>3 DEF IInv, TypeOK, Calls, FPAddFunctionPatch, FPRemoveFunctionPatch
    <3> QED
      BY <2>1, <3>1, <3>2
  <2>4. ASSUME NEW t \in Threads, Create(t)
        PROVE  ThreadMemoryGivenBack'
    <3>1. CASE AllocateJumpData(t) \/ AllocateJumpToOriginal(t) \/ AllocationFails(t)
               \/ FreeJumpToOriginal(t)
      BY <2>2, <3>1 DEF AllocateJumpData, AllocateJumpToOriginal, AllocationFails,
        FreeJumpToOriginal, Steps
    <3>2. CASE FreeJumpData(t)
      <4>1. \A u \in Threads \ {t} : th'[u] = th[u]
        BY <3>2 DEF IInv, TypeOK, FreeJumpData
      <4> QED
        BY <2>1, <3>2, <4>1 DEF FreeJumpData
    <3> QED
      BY <2>4, <3>1, <3>2 DEF Create
  <2>5. ASSUME NEW t \in Threads, Patch(t)
        PROVE  ThreadMemoryGivenBack'
    <3>1. CASE Generate(t) \/ InvalidateCode(t) \/ CopyWord(t) \/ InvalidateWord(t)
               \/ JoinNeverReturns(t)
      BY <2>2, <3>1 DEF Generate, InvalidateCode, CopyWord, InvalidateWord,
        JoinNeverReturns, Steps
    <3>2. CASE StartThread(t)
      <4>1. PICK to \in {"code", "join"} : th' = [th EXCEPT ![t].pc = to]
        BY <3>2 DEF StartThread
      <4>2. th'[t].pc \in Inside /\ \A u \in Threads \ {t} : th'[u] = th[u]
        BY <4>1 DEF IInv, TypeOK, LocalStates
      <4>3. \A x \in threadMemory' : x \in threadMemory \/ x[1] = t
        BY <3>2 DEF StartThread
      <4>4. \A x \in threadMemory : x[1] \in Threads
        BY DEF IInv, TypeOK
      <4> QED
        BY <4>2, <4>3, <4>4 DEF ThreadMemoryGivenBack
    <3>3. CASE ShutdownThread(t)
      <4>1. /\ threadMemory' = threadMemory \ ({t} \X {"thread", "stack"})
            /\ \A u \in Threads \ {t} : th'[u] = th[u]
        BY <3>3 DEF IInv, TypeOK, ShutdownThread
      <4>2. \A x \in threadMemory : x[1] \in Threads /\ x = <<x[1], x[2]>>
                                   /\ x[2] \in {"thread", "stack"}
        BY DEF IInv, TypeOK
      <4>3. \A x \in threadMemory' : x \in threadMemory /\ x[1] \in Threads \ {t}
        BY <4>1, <4>2
      <4> QED
        BY <4>1, <4>3 DEF ThreadMemoryGivenBack
    <3>4. CASE PushBack(t)
      <4>1. \A u \in Threads \ {t} : th'[u] = th[u]
        BY <3>4 DEF IInv, TypeOK, PushBack
      <4> QED
        BY <2>1, <3>4, <4>1 DEF PushBack
    <3> QED
      BY <2>5, <3>1, <3>2, <3>3, <3>4 DEF Patch
  <2>6. ASSUME NEW t \in Threads, Restore(t)
        PROVE  ThreadMemoryGivenBack'
    BY <2>2, <2>6 DEF Restore, RefuseRestore, RestoreWord, InvalidateRestored, Erase, Steps
  <2>7. ASSUME NEW c \in Cores, NEW o \in Objects, DropWord(c, o)
        PROVE  ThreadMemoryGivenBack'
    BY <2>7 DEF DropWord, ThreadMemoryGivenBack
  <2>8. CASE UNCHANGED vars
    BY <2>8 DEF vars, ThreadMemoryGivenBack
  <2> QED
    BY <2>3, <2>4, <2>5, <2>6, <2>7, <2>8 DEF Next
<1> QED
  BY <1>1, <1>2, CoresInvariant, PTL DEF Spec
==============================================================================
