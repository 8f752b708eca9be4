------------------------------ MODULE Trampoline ------------------------------
(****************************************************************************)
(* The code PatchedFunctionData.cpp generates for one patch, and what a     *)
(* processor does that runs it: a call of the patched function, and the     *)
(* replacement's call of the unpatched one.                                 *)
(*                                                                          *)
(* Addresses are multiples of 4.  Of the processor there are the registers  *)
(* the generated code uses (r11, CTR, CR) and one that stands for all       *)
(* others; the instruction that is replaced sets one of these.              *)
(****************************************************************************)
EXTENDS Integers, Sequences

CONSTANTS
  Patches,         \* the patches a client may ask for, with what they replace
  Upids,           \* the processes that run
  jumpData,        \* where the buffers of the patch are
  jumpToOriginal,
  UpidWord         \* where OSGetUPID reads the number of the process

\* FunctionPatcherTargetProcess, as far as the code names it (external).
FP_TARGET_PROCESS_ALL == 0
FP_TARGET_PROCESS_WII_U_MENU == 2
FP_TARGET_PROCESS_GAME == 15
FP_TARGET_PROCESS_GAME_AND_MENU == 16

Registers == {"r11", "ctr", "cr", "other"}

\* The addresses of words, of 32 bits.
IsAddress(a) == a \in Nat \ {0} /\ a % 4 = 0 /\ a \div 65536 < 65536

\* The first address a branch (ba) cannot reach: its target has 25 bits.
Reach == 33554432
IsNear(a) == a < Reach

\* real: the function.  sets: the register its first instruction sets.
ASSUME PatchesAssumption ==
  \A p \in Patches :
    /\ IsAddress(p.real) /\ IsAddress(p.replacement)
    /\ p.targetProcess \in 0 .. 16
    /\ p.sets \in Registers
\* The processes that can be asked for by number; 16 stands for two of them.
ASSUME UpidsAssumption == Upids \subseteq 0 .. 15
ASSUME BuffersAssumption ==
  /\ \A a \in {jumpData, jumpToOriginal, UpidWord} : IsAddress(a)
  /\ IsNear(jumpData)

\* The code of a patch does not overlap.
JumpDataWords == {jumpData + 4 * i : i \in 0 .. 14}
JumpToOriginalWords == {jumpToOriginal + 4 * i : i \in 0 .. 4}
ASSUME PlacesAssumption ==
  /\ JumpDataWords \intersect JumpToOriginalWords = {}
  /\ \A p \in Patches :
       /\ p.replacement \notin {p.real, p.real + 4}
       /\ {p.real, p.real + 4, p.replacement}
            \intersect (JumpDataWords \union JumpToOriginalWords) = {}

VARIABLES
  patch,           \* the patch whose code was generated
  upid,            \* the process that calls
  pc, regs,        \* the processor
  entry,           \* what was called: the function, or jumpToOriginal
  runs             \* how often the call ran the replaced instruction

vars == <<patch, upid, pc, regs, entry, runs>>
------------------------------------------------------------------------------
(* The words that are generated.                                            *)

Lis(a)   == [op |-> "lis", arg |-> a \div 65536]   \* lis r11, a@hi
Ori(a)   == [op |-> "ori", arg |-> a % 65536]      \* ori r11, r11, a@lo
Lwz(a)   == [op |-> "lwz", arg |-> a % 65536]      \* lwz r11, a@lo(r11)
Mtctr    == [op |-> "mtctr", arg |-> 0]
Bctr     == [op |-> "bctr", arg |-> 0]
Ba(a)    == [op |-> "ba", arg |-> a % Reach]
Cmpwi(n) == [op |-> "cmpwi", arg |-> n]
Beq(n)   == [op |-> "beq", arg |-> n]
Replaced == [op |-> "replaced", arg |-> 0]        \* replacedInstruction

\* Slip: a long jump with a word more.
LongJumpWithSync(a) == <<Lis(a), Ori(a), Mtctr, [op |-> "isync", arg |-> 0], Bctr>>

LongJump(a) == <<Lis(a), Ori(a), Mtctr, Bctr>>
Jump(a) == IF IsNear(a) THEN <<Ba(a)>> ELSE LongJump(a)

\* Slip: the long form loses the replaced instruction.
GenerateJumpToOriginalBare(p) ==
  IF IsNear(p.real + 4) THEN <<Replaced, Ba(p.real + 4)>> ELSE LongJump(p.real + 4)

GenerateJumpToOriginal(p) ==
  LET to == p.real + 4
  IN  IF IsNear(to) THEN <<Replaced, Ba(to)>>
                    ELSE <<Lis(to), Ori(to), Mtctr, Replaced, Bctr>>

NeedsTrampoline(p) ==
  ~IsNear(p.replacement) \/ p.targetProcess # FP_TARGET_PROCESS_ALL

\* Slip: the branches skip a short way to the original only.
SelectProcessNear(p) ==
  <<Lis(UpidWord), Lwz(UpidWord)>> \o
  IF p.targetProcess = FP_TARGET_PROCESS_GAME_AND_MENU
  THEN <<Cmpwi(FP_TARGET_PROCESS_WII_U_MENU), Beq(20), Cmpwi(FP_TARGET_PROCESS_GAME), Beq(12)>>
  ELSE <<Cmpwi(p.targetProcess), Beq(12)>>

\* Read the number of the process; if it is one of those asked for, branch over
\* the way to the original.
SelectProcess(p) ==
  LET near == IsNear(p.real + 4)
  IN  <<Lis(UpidWord), Lwz(UpidWord)>> \o
      IF p.targetProcess = FP_TARGET_PROCESS_GAME_AND_MENU
      THEN <<Cmpwi(FP_TARGET_PROCESS_WII_U_MENU), Beq(IF near THEN 20 ELSE 32),
             Cmpwi(FP_TARGET_PROCESS_GAME), Beq(IF near THEN 12 ELSE 24)>>
      ELSE <<Cmpwi(p.targetProcess), Beq(IF near THEN 12 ELSE 24)>>

GenerateReplacementJump(p) ==
  (IF p.targetProcess # FP_TARGET_PROCESS_ALL
   THEN SelectProcess(p) \o <<Replaced>> \o Jump(p.real + 4)
   ELSE <<>>) \o Jump(p.replacement)

ReplaceWithInstruction(p) ==
  Ba(IF NeedsTrampoline(p) THEN jumpData ELSE p.replacement)

jumpDataSize == 15
------------------------------------------------------------------------------
(* The processor.                                                           *)

\* The number of the word at pc in the code that starts at base.
Offset(base) == (pc - base) \div 4 + 1
In(base, code) == pc \in {base + 4 * (i - 1) : i \in 1 .. Len(code)}

Running ==
  \/ pc = patch.real
  \/ NeedsTrampoline(patch) /\ In(jumpData, GenerateReplacementJump(patch))
  \/ In(jumpToOriginal, GenerateJumpToOriginal(patch))

Word ==
  IF pc = patch.real THEN ReplaceWithInstruction(patch)
  ELSE IF In(jumpToOriginal, GenerateJumpToOriginal(patch))
       THEN GenerateJumpToOriginal(patch)[Offset(jumpToOriginal)]
       ELSE GenerateReplacementJump(patch)[Offset(jumpData)]

\* The value the replaced instruction computes, and no other one does.
Computed == -1

SetRegister(r, v) ==
  regs' = [regs EXCEPT ![r] = v] /\ pc' = pc + 4 /\ UNCHANGED <<patch, upid, entry, runs>>
GoTo(a) == pc' = a /\ UNCHANGED <<patch, upid, regs, entry, runs>>

Fetch(op) == Running /\ Word.op = op

ExecuteLis == Fetch("lis") /\ SetRegister("r11", Word.arg * 65536)
ExecuteOri == Fetch("ori") /\ SetRegister("r11", regs["r11"] + Word.arg)
ExecuteLwz ==
  Fetch("lwz") /\ regs["r11"] + Word.arg = UpidWord /\ SetRegister("r11", upid)
ExecuteMtctr == Fetch("mtctr") /\ SetRegister("ctr", regs["r11"])
ExecuteCmpwi ==
  Fetch("cmpwi") /\ SetRegister("cr", IF regs["r11"] = Word.arg THEN 1 ELSE 0)
ExecuteBeq == Fetch("beq") /\ GoTo(pc + IF regs["cr"] = 1 THEN Word.arg ELSE 4)
ExecuteBa == Fetch("ba") /\ GoTo(Word.arg)
ExecuteBctr == Fetch("bctr") /\ GoTo(regs["ctr"])
ExecuteReplaced ==
  /\ Fetch("replaced")
  /\ regs' = [regs EXCEPT ![patch.sets] = Computed]
  /\ runs' = runs + 1
  /\ pc' = pc + 4
  /\ UNCHANGED <<patch, upid, entry>>

Start(e) ==
  /\ entry' = e
  /\ pc' = IF e = "function" THEN patch.real ELSE jumpToOriginal
  /\ upid' \in Upids
  /\ regs' = [r \in Registers |-> 0]
  /\ runs' = 0
  /\ UNCHANGED patch

\* When the call is where it leads to, another one is made.
Call(e) == ~Running /\ Start(e)

Init ==
  /\ patch \in Patches
  /\ upid \in Upids
  /\ entry \in {"function", "original"}
  /\ pc = IF entry = "function" THEN patch.real ELSE jumpToOriginal
  /\ regs = [r \in Registers |-> 0]
  /\ runs = 0

Next ==
  \/ ExecuteLis \/ ExecuteOri \/ ExecuteLwz \/ ExecuteMtctr \/ ExecuteCmpwi
  \/ ExecuteBeq \/ ExecuteBa \/ ExecuteBctr \/ ExecuteReplaced
  \/ \E e \in {"function", "original"} : Call(e)

Spec == Init /\ [][Next]_vars
------------------------------------------------------------------------------
\* The processes that are to run the replacement.
Selected ==
  \/ patch.targetProcess = FP_TARGET_PROCESS_ALL
  \/ upid = patch.targetProcess
  \/ /\ patch.targetProcess = FP_TARGET_PROCESS_GAME_AND_MENU
     /\ upid \in {FP_TARGET_PROCESS_WII_U_MENU, FP_TARGET_PROCESS_GAME}

\* "If the correct process calls this, it'll jump the function replacement,
\* otherwise the original function will be called" (function_patcher.cpp:82);
\* and the replacement can call the original in every process.
RightFunctionRuns ==
  ~Running => pc = IF entry = "function" /\ Selected THEN patch.replacement
                                                     ELSE patch.real + 4

\* "so the unpatched function can still be called" (function_patcher.cpp:78):
\* at its second instruction the first one was executed, once, and what it
\* computed is still there.
RunsAsUnpatched ==
  pc = patch.real + 4 => runs = 1 /\ regs[patch.sets] = Computed

\* A long jump computes in r11 and CTR: an instruction that does so too is
\* replaced only where a branch reaches the original.
KeepsLinkage(p) == p.sets \in {"cr", "other"} \/ IsNear(p.real + 4)

\* "Tried to overflow buffer" (PatchedFunctionData.cpp:302) comes after the words
\* were written: no patch has more words than jumpData takes.
FitsBuffer == Len(GenerateReplacementJump(patch)) <= jumpDataSize
==============================================================================
