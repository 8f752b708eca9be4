--------------------------- MODULE TrampolineProofs ---------------------------
(****************************************************************************)
(* Theorems about Trampoline, for any patches, addresses and processes: the *)
(* code fits its buffer, it leads to the right function, and the original   *)
(* runs as if it had not been patched.                                      *)
(****************************************************************************)
EXTENDS Trampoline, SequenceTheorems, TLAPS

Operations ==
  {"lis", "ori", "lwz", "mtctr", "bctr", "ba", "cmpwi", "beq", "replaced"}
InstructionWords == [op : Operations, arg : Int]

\* Code is laid down piece after piece.
LEMMA Concatenation ==
  ASSUME NEW s \in Seq(InstructionWords), NEW t \in Seq(InstructionWords)
  PROVE  s \o t \in Seq(InstructionWords) /\ Len(s \o t) = Len(s) + Len(t)
BY ConcatProperties

\* A jump takes one word, and where a branch does not reach no more than four.
LEMMA JumpLength ==
  ASSUME NEW a \in Nat
  PROVE  Jump(a) \in Seq(InstructionWords) /\ Len(Jump(a)) <= 4
<1>1. /\ Lis(a) \in InstructionWords /\ Ori(a) \in InstructionWords
      /\ Mtctr \in InstructionWords /\ Bctr \in InstructionWords
      /\ Ba(a) \in InstructionWords
  BY DEF Lis, Ori, Mtctr, Bctr, Ba, InstructionWords, Operations, Reach
<1>2. CASE IsNear(a)
  <2>1. Jump(a) = <<Ba(a)>>
    BY <1>2 DEF Jump
  <2>2. <<Ba(a)>> \in Seq(InstructionWords) /\ Len(<<Ba(a)>>) = 1
    BY <1>1
  <2> QED
    BY <2>1, <2>2
<1>3. CASE ~IsNear(a)
  <2>1. Jump(a) = <<Lis(a), Ori(a), Mtctr, Bctr>>
    BY <1>3 DEF Jump, LongJump
  <2> QED
    BY <1>1, <2>1
<1> QED
  BY <1>2, <1>3

\* The choice of the process takes no more than six words.
LEMMA SelectProcessLength ==
  ASSUME NEW p \in Patches
  PROVE  SelectProcess(p) \in Seq(InstructionWords) /\ Len(SelectProcess(p)) <= 6
<1> DEFINE near == IsNear(p.real + 4)
           read == <<Lis(UpidWord), Lwz(UpidWord)>>
           two  == <<Cmpwi(FP_TARGET_PROCESS_WII_U_MENU), Beq(IF near THEN 20 ELSE 32),
                     Cmpwi(FP_TARGET_PROCESS_GAME), Beq(IF near THEN 12 ELSE 24)>>
           one  == <<Cmpwi(p.targetProcess), Beq(IF near THEN 12 ELSE 24)>>
<1>1. p.targetProcess \in Int /\ UpidWord \in Nat
  BY PatchesAssumption, BuffersAssumption DEF IsAddress
<1>2. \A n \in Int : Cmpwi(n) \in InstructionWords /\ Beq(n) \in InstructionWords
  BY DEF Cmpwi, Beq, InstructionWords, Operations
<1>3. read \in Seq(InstructionWords) /\ Len(read) = 2
  <2>1. Lis(UpidWord) \in InstructionWords /\ Lwz(UpidWord) \in InstructionWords
    BY <1>1 DEF Lis, Lwz, InstructionWords, Operations
  <2> QED
    BY <2>1
<1>4. two \in Seq(InstructionWords) /\ Len(two) = 4
  <2>1. /\ Cmpwi(FP_TARGET_PROCESS_WII_U_MENU) \in InstructionWords
        /\ Cmpwi(FP_TARGET_PROCESS_GAME) \in InstructionWords
        /\ Beq(IF near THEN 20 ELSE 32) \in InstructionWords
        /\ Beq(IF near THEN 12 ELSE 24) \in InstructionWords
    BY <1>2 DEF FP_TARGET_PROCESS_WII_U_MENU, FP_TARGET_PROCESS_GAME
  <2> QED
    BY <2>1
<1>5. one \in Seq(InstructionWords) /\ Len(one) = 2
  <2>1. /\ Cmpwi(p.targetProcess) \in InstructionWords
        /\ Beq(IF near THEN 12 ELSE 24) \in InstructionWords
    BY <1>1, <1>2
  <2> QED
    BY <2>1
<1>6. SelectProcess(p) =
        read \o (IF p.targetProcess = FP_TARGET_PROCESS_GAME_AND_MENU THEN two ELSE one)
  BY DEF SelectProcess
<1> HIDE DEF read, two, one
<1>7. /\ read \o two \in Seq(InstructionWords) /\ Len(read \o two) = 6
      /\ read \o one \in Seq(InstructionWords) /\ Len(read \o one) = 4
  <2>1. read \o two \in Seq(InstructionWords) /\ Len(read \o two) = Len(read) + Len(two)
    BY <1>3, <1>4, Concatenation
  <2>2. read \o one \in Seq(InstructionWords) /\ Len(read \o one) = Len(read) + Len(one)
    BY <1>3, <1>5, Concatenation
  <2> QED
    BY <1>3, <1>4, <1>5, <2>1, <2>2
<1>8. CASE p.targetProcess = FP_TARGET_PROCESS_GAME_AND_MENU
  BY <1>6, <1>7, <1>8
<1>9. CASE p.targetProcess # FP_TARGET_PROCESS_GAME_AND_MENU
  BY <1>6, <1>7, <1>9
<1> QED
  BY <1>8, <1>9

\* The replacement jump of every patch fits.
LEMMA ReplacementJumpFits ==
  ASSUME NEW p \in Patches
  PROVE  Len(GenerateReplacementJump(p)) <= jumpDataSize
<1> DEFINE original == p.real + 4
           replaced == <<Replaced>>
           toOriginal == (SelectProcess(p) \o replaced) \o Jump(original)
<1>1. original \in Nat /\ p.replacement \in Nat
  BY PatchesAssumption DEF IsAddress
<1> HIDE DEF original
<1>2. /\ Jump(original) \in Seq(InstructionWords) /\ Len(Jump(original)) <= 4
      /\ Jump(p.replacement) \in Seq(InstructionWords)
      /\ Len(Jump(p.replacement)) <= 4
  <2>1. Jump(original) \in Seq(InstructionWords) /\ Len(Jump(original)) <= 4
    BY <1>1, JumpLength
  <2>2. Jump(p.replacement) \in Seq(InstructionWords) /\ Len(Jump(p.replacement)) <= 4
    BY <1>1, JumpLength
  <2> QED
    BY <2>1, <2>2
<1>3. replaced \in Seq(InstructionWords) /\ Len(replaced) = 1
  <2>1. Replaced \in InstructionWords
    BY DEF Replaced, InstructionWords, Operations
  <2> QED
    BY <2>1
<1> HIDE DEF replaced
<1>4. SelectProcess(p) \in Seq(InstructionWords) /\ Len(SelectProcess(p)) <= 6
  BY SelectProcessLength
<1>5. toOriginal \in Seq(InstructionWords) /\ Len(toOriginal) <= 11
  <2> DEFINE choice == SelectProcess(p) \o replaced
  <2>1. choice \in Seq(InstructionWords) /\ Len(choice) = Len(SelectProcess(p)) + Len(replaced)
    BY <1>3, <1>4, Concatenation
  <2> HIDE DEF choice
  <2>2. /\ choice \o Jump(original) \in Seq(InstructionWords)
        /\ Len(choice \o Jump(original)) = Len(choice) + Len(Jump(original))
    BY <1>2, <2>1, Concatenation
  <2>3. toOriginal = choice \o Jump(original)
    BY DEF choice
  <2> QED
    BY <1>2, <1>3, <1>4, <2>1, <2>2, <2>3
<1>6. GenerateReplacementJump(p) =
        (IF p.targetProcess # FP_TARGET_PROCESS_ALL THEN toOriginal ELSE <<>>)
          \o Jump(p.replacement)
  BY DEF GenerateReplacementJump, original, replaced
<1> HIDE DEF toOriginal
<1>7. CASE p.targetProcess # FP_TARGET_PROCESS_ALL
  <2>1. Len(toOriginal \o Jump(p.replacement)) = Len(toOriginal) + Len(Jump(p.replacement))
    BY <1>2, <1>5, Concatenation
  <2> QED
    BY <1>2, <1>5, <1>6, <1>7, <2>1 DEF jumpDataSize
<1>8. CASE p.targetProcess = FP_TARGET_PROCESS_ALL
  <2>1. GenerateReplacementJump(p) = Jump(p.replacement)
    BY <1>2, <1>6, <1>8, ConcatEmptySeq
  <2> QED
    BY <1>2, <2>1 DEF jumpDataSize
<1> QED
  BY <1>7, <1>8

\* generateReplacementJump never writes behind the 15 words of jumpData: the
\* check at PatchedFunctionData.cpp:301 never finds an overflow.
THEOREM BufferSuffices == Spec => []FitsBuffer
<1>1. Init => patch \in Patches
  BY DEF Init
<1>2. patch \in Patches /\ [Next]_vars => (patch \in Patches)'
  BY DEF Next, vars, ExecuteLis, ExecuteOri, ExecuteLwz, ExecuteMtctr, ExecuteCmpwi,
         ExecuteBeq, ExecuteBa, ExecuteBctr, ExecuteReplaced, Call, Start,
         SetRegister, GoTo
<1>3. patch \in Patches => FitsBuffer
  BY ReplacementJumpFits DEF FitsBuffer
<1> QED
  BY <1>1, <1>2, <1>3, PTL DEF Spec
------------------------------------------------------------------------------
(* Where a call is in the generated code.                                   *)

\* What lis leaves of an address.
Hi(a) == (a \div 65536) * 65536

\* The words that choose the process, and those before the jump to the
\* replacement.
ChoiceLength(p) ==
  IF p.targetProcess = FP_TARGET_PROCESS_ALL THEN 0
  ELSE IF p.targetProcess = FP_TARGET_PROCESS_GAME_AND_MENU THEN 6 ELSE 4
WayLength(p) ==
  IF p.targetProcess = FP_TARGET_PROCESS_ALL THEN 0
  ELSE ChoiceLength(p) + 1 + Len(Jump(p.real + 4))

\* The process that is compared first.
FirstProcess(p) ==
  IF p.targetProcess = FP_TARGET_PROCESS_GAME_AND_MENU
  THEN FP_TARGET_PROCESS_WII_U_MENU ELSE p.targetProcess

\* k words of the code at base were passed.
At(base, k) == pc = base + 4 * k

Ran == runs = 1 /\ regs[patch.sets] = Computed

\* In the jump to a that starts after s words of the code at base.
Jumping(base, s, a) ==
  \E d \in 0 .. 3 :
    /\ d = 0 \/ ~IsNear(a)
    /\ At(base, s + d)
    /\ d = 1 => regs["r11"] = Hi(a)
    /\ d \in {2, 3} => regs["r11"] = a
    /\ d = 3 => regs["ctr"] = a

\* The function was called.
Entered == entry = "function" /\ pc = patch.real /\ runs = 0

\* The process is read and compared; past the comparisons it is not selected.
Choosing ==
  /\ entry = "function" /\ runs = 0
  /\ patch.targetProcess # FP_TARGET_PROCESS_ALL
  /\ \E k \in 0 .. ChoiceLength(patch) :
       /\ At(jumpData, k)
       /\ k = 1 => regs["r11"] = Hi(UpidWord)
       /\ k \in 2 .. 5 => regs["r11"] = upid
       /\ k \in {3, 5} => regs["cr"] = 1 <=>
            upid = IF k = 3 THEN FirstProcess(patch) ELSE FP_TARGET_PROCESS_GAME
       /\ k \in 4 .. 5 => upid # FirstProcess(patch)
       /\ k = ChoiceLength(patch) => ~Selected

\* A process that is not selected jumps to the original.
Declining ==
  /\ entry = "function" /\ ~Selected /\ Ran
  /\ patch.targetProcess # FP_TARGET_PROCESS_ALL
  /\ Jumping(jumpData, ChoiceLength(patch) + 1, patch.real + 4)

\* One that is selected jumps to the replacement.
Replacing ==
  /\ entry = "function" /\ Selected /\ NeedsTrampoline(patch)
  /\ Jumping(jumpData, WayLength(patch), patch.replacement)

\* The replacement calls the original.
CallingOriginal ==
  /\ entry = "original"
  /\ IF IsNear(patch.real + 4)
     THEN \/ At(jumpToOriginal, 0) /\ runs = 0
          \/ At(jumpToOriginal, 1) /\ Ran
     ELSE \E k \in 0 .. 4 :
            /\ At(jumpToOriginal, k)
            /\ k = 1 => regs["r11"] = Hi(patch.real + 4)
            /\ k = 2 => regs["r11"] = patch.real + 4
            /\ k \in {3, 4} => regs["ctr"] = patch.real + 4
            /\ IF k = 4 THEN Ran ELSE runs = 0

\* The call is where it leads to.
Arrived ==
  /\ pc = IF entry = "function" /\ Selected THEN patch.replacement ELSE patch.real + 4
  /\ pc = patch.real + 4 => Ran

Typed ==
  /\ patch \in Patches /\ upid \in Upids
  /\ entry \in {"function", "original"}
  /\ DOMAIN regs = Registers

CallInv ==
  /\ Typed
  /\ Entered \/ Choosing \/ Declining \/ Replacing \/ CallingOriginal \/ Arrived
------------------------------------------------------------------------------
(* The words of the code, one by one.                                       *)

\* What is laid down first comes first.
LEMMA Pieces ==
  ASSUME NEW s \in Seq(InstructionWords), NEW t \in Seq(InstructionWords)
  PROVE  /\ s \o t \in Seq(InstructionWords)
         /\ Len(s \o t) = Len(s) + Len(t)
         /\ Len(s) \in Nat /\ Len(t) \in Nat
         /\ \A i \in 1 .. Len(s) : (s \o t)[i] = s[i]
         /\ \A i \in 1 .. Len(t) : (s \o t)[Len(s) + i] = t[i]
OBVIOUS

\* Two words and two or four more.
LEMMA PairAndMore ==
  ASSUME NEW a \in InstructionWords, NEW b \in InstructionWords,
         NEW t \in Seq(InstructionWords)
  PROVE  LET s == <<a, b>> \o t
         IN  /\ Len(s) = 2 + Len(t)
             /\ s[1] = a /\ s[2] = b
             /\ \A i \in 1 .. Len(t) : s[2 + i] = t[i]
<1> DEFINE r == <<a, b>>
<1>1. r \in Seq(InstructionWords) /\ Len(r) = 2 /\ r[1] = a /\ r[2] = b
  OBVIOUS
<1> HIDE DEF r
<1>2. /\ Len(r \o t) = Len(r) + Len(t)
      /\ \A i \in 1 .. Len(r) : (r \o t)[i] = r[i]
      /\ \A i \in 1 .. Len(t) : (r \o t)[Len(r) + i] = t[i]
  BY <1>1, Pieces
<1> QED
  BY <1>1, <1>2 DEF r

\* A jump is one branch, or four words.
LEMMA JumpWords ==
  ASSUME NEW a \in Nat
  PROVE  /\ IsNear(a) => Len(Jump(a)) = 1 /\ Jump(a)[1] = Ba(a)
         /\ ~IsNear(a) =>
              /\ Len(Jump(a)) = 4
              /\ Jump(a)[1] = Lis(a) /\ Jump(a)[2] = Ori(a)
              /\ Jump(a)[3] = Mtctr /\ Jump(a)[4] = Bctr
BY DEF Jump, LongJump

\* The choice of the process: its branches lead over the way to the original.
LEMMA ChoiceWords ==
  ASSUME NEW p \in Patches, p.targetProcess # FP_TARGET_PROCESS_ALL
  PROVE  LET c == SelectProcess(p)
         IN  /\ c \in Seq(InstructionWords)
             /\ Len(c) = ChoiceLength(p) /\ ChoiceLength(p) \in {4, 6}
             /\ c[1] = Lis(UpidWord) /\ c[2] = Lwz(UpidWord)
             /\ c[3] = Cmpwi(FirstProcess(p))
             /\ c[4] = Beq(4 * (WayLength(p) - 3))
             /\ ChoiceLength(p) = 6 =>
                  /\ p.targetProcess = FP_TARGET_PROCESS_GAME_AND_MENU
                  /\ c[5] = Cmpwi(FP_TARGET_PROCESS_GAME)
                  /\ c[6] = Beq(4 * (WayLength(p) - 5))
             /\ ChoiceLength(p) = 4 =>
                  p.targetProcess # FP_TARGET_PROCESS_GAME_AND_MENU
<1> DEFINE near == IsNear(p.real + 4)
           read == <<Lis(UpidWord), Lwz(UpidWord)>>
           two  == <<Cmpwi(FP_TARGET_PROCESS_WII_U_MENU), Beq(IF near THEN 20 ELSE 32),
                     Cmpwi(FP_TARGET_PROCESS_GAME), Beq(IF near THEN 12 ELSE 24)>>
           one  == <<Cmpwi(p.targetProcess), Beq(IF near THEN 12 ELSE 24)>>
<1>1. SelectProcess(p) \in Seq(InstructionWords)
  BY SelectProcessLength
<1>2. p.real + 4 \in Nat
  BY PatchesAssumption DEF IsAddress
<1>3. Len(Jump(p.real + 4)) = IF near THEN 1 ELSE 4
  BY <1>2, JumpWords
<1>w. /\ Lis(UpidWord) \in InstructionWords /\ Lwz(UpidWord) \in InstructionWords
      /\ \A n \in Int : Cmpwi(n) \in InstructionWords /\ Beq(n) \in InstructionWords
  BY BuffersAssumption
     DEF IsAddress, Lis, Lwz, Cmpwi, Beq, InstructionWords, Operations
<1>4. CASE p.targetProcess = FP_TARGET_PROCESS_GAME_AND_MENU
  <2>1. SelectProcess(p) = read \o two
    BY <1>4 DEF SelectProcess
  <2>2. ChoiceLength(p) = 6 /\ FirstProcess(p) = FP_TARGET_PROCESS_WII_U_MENU
    BY <1>4 DEF ChoiceLength, FirstProcess, FP_TARGET_PROCESS_ALL,
                FP_TARGET_PROCESS_GAME_AND_MENU
  <2>3. WayLength(p) = IF near THEN 8 ELSE 11
    BY <1>3, <1>4, <2>2 DEF WayLength, FP_TARGET_PROCESS_ALL,
                            FP_TARGET_PROCESS_GAME_AND_MENU
  <2>4. /\ 4 * (WayLength(p) - 3) = IF near THEN 20 ELSE 32
        /\ 4 * (WayLength(p) - 5) = IF near THEN 12 ELSE 24
    BY <2>3
  <2>5. /\ Len(two) = 4 /\ two[1] = Cmpwi(FP_TARGET_PROCESS_WII_U_MENU)
        /\ two[2] = Beq(4 * (WayLength(p) - 3))
        /\ two[3] = Cmpwi(FP_TARGET_PROCESS_GAME)
        /\ two[4] = Beq(4 * (WayLength(p) - 5))
    BY <2>4
  <2>6. two \in Seq(InstructionWords)
    <3>1. /\ Cmpwi(FP_TARGET_PROCESS_WII_U_MENU) \in InstructionWords
          /\ Cmpwi(FP_TARGET_PROCESS_GAME) \in InstructionWords
          /\ Beq(IF near THEN 20 ELSE 32) \in InstructionWords
          /\ Beq(IF near THEN 12 ELSE 24) \in InstructionWords
      BY <1>w DEF FP_TARGET_PROCESS_WII_U_MENU, FP_TARGET_PROCESS_GAME
    <3> QED
      BY <3>1
  <2> HIDE DEF two
  <2>7. LET s == read \o two
        IN  /\ s[1] = Lis(UpidWord) /\ s[2] = Lwz(UpidWord) /\ Len(s) = 6
            /\ s[3] = two[1] /\ s[4] = two[2] /\ s[5] = two[3] /\ s[6] = two[4]
    <3>1. LET s == <<Lis(UpidWord), Lwz(UpidWord)>> \o two
          IN  /\ Len(s) = 2 + Len(two)
              /\ s[1] = Lis(UpidWord) /\ s[2] = Lwz(UpidWord)
              /\ \A i \in 1 .. Len(two) : s[2 + i] = two[i]
      BY <1>w, <2>6, PairAndMore
    <3> DEFINE s == read \o two
    <3>2. /\ Len(s) = 2 + Len(two)
          /\ s[1] = Lis(UpidWord) /\ s[2] = Lwz(UpidWord)
          /\ \A i \in 1 .. Len(two) : s[2 + i] = two[i]
      BY <3>1
    <3> HIDE DEF s
    <3>3. /\ s[2 + 1] = two[1] /\ s[2 + 2] = two[2]
          /\ s[2 + 3] = two[3] /\ s[2 + 4] = two[4]
      BY <2>5, <3>2
    <3> QED
      BY <2>5, <3>2, <3>3 DEF s
  <2> QED
    BY <1>1, <1>4, <2>1, <2>2, <2>5, <2>7
<1>5. CASE p.targetProcess # FP_TARGET_PROCESS_GAME_AND_MENU
  <2>1. SelectProcess(p) = read \o one
    BY <1>5 DEF SelectProcess
  <2>2. ChoiceLength(p) = 4 /\ FirstProcess(p) = p.targetProcess
    BY <1>5 DEF ChoiceLength, FirstProcess
  <2>3. WayLength(p) = IF near THEN 6 ELSE 9
    BY <1>3, <2>2 DEF WayLength
  <2>4. 4 * (WayLength(p) - 3) = IF near THEN 12 ELSE 24
    BY <2>3
  <2>5. /\ Len(one) = 2 /\ one[1] = Cmpwi(p.targetProcess)
        /\ one[2] = Beq(4 * (WayLength(p) - 3))
    BY <2>4
  <2>6. one \in Seq(InstructionWords)
    <3>1. /\ Cmpwi(p.targetProcess) \in InstructionWords
          /\ Beq(IF near THEN 12 ELSE 24) \in InstructionWords
      BY <1>w, PatchesAssumption
    <3> QED
      BY <3>1
  <2> HIDE DEF one
  <2>7. LET s == read \o one
        IN  /\ s[1] = Lis(UpidWord) /\ s[2] = Lwz(UpidWord) /\ Len(s) = 4
            /\ s[3] = one[1] /\ s[4] = one[2]
    <3>1. LET s == <<Lis(UpidWord), Lwz(UpidWord)>> \o one
          IN  /\ Len(s) = 2 + Len(one)
              /\ s[1] = Lis(UpidWord) /\ s[2] = Lwz(UpidWord)
              /\ \A i \in 1 .. Len(one) : s[2 + i] = one[i]
      BY <1>w, <2>6, PairAndMore
    <3> DEFINE s == read \o one
    <3>2. /\ Len(s) = 2 + Len(one)
          /\ s[1] = Lis(UpidWord) /\ s[2] = Lwz(UpidWord)
          /\ \A i \in 1 .. Len(one) : s[2 + i] = one[i]
      BY <3>1
    <3> HIDE DEF s
    <3>3. s[2 + 1] = one[1] /\ s[2 + 2] = one[2]
      BY <2>5, <3>2
    <3> QED
      BY <2>5, <3>2, <3>3 DEF s
  <2> QED
    BY <1>1, <1>5, <2>1, <2>2, <2>5, <2>7
<1> QED
  BY <1>4, <1>5

\* The code of the replacement jump: the choice, the replaced instruction, the
\* jump to the original, and the jump to the replacement.
LEMMA ReplacementJumpWords ==
  ASSUME NEW p \in Patches
  PROVE  LET c == GenerateReplacementJump(p)
             n == ChoiceLength(p)
             w == WayLength(p)
         IN  /\ w \in Nat /\ n \in Nat
             /\ Len(c) = w + Len(Jump(p.replacement))
             /\ \A i \in 1 .. Len(Jump(p.replacement)) :
                  c[w + i] = Jump(p.replacement)[i]
             /\ p.targetProcess # FP_TARGET_PROCESS_ALL =>
                  /\ w = n + 1 + Len(Jump(p.real + 4))
                  /\ \A i \in 1 .. n : c[i] = SelectProcess(p)[i]
                  /\ c[n + 1] = Replaced
                  /\ \A i \in 1 .. Len(Jump(p.real + 4)) :
                       c[n + 1 + i] = Jump(p.real + 4)[i]
<1> DEFINE original == p.real + 4
           target == p.replacement
           replaced == <<Replaced>>
           choice == SelectProcess(p)
           n == ChoiceLength(p)
<1>1. original \in Nat /\ target \in Nat
  BY PatchesAssumption DEF IsAddress
<1> HIDE DEF original, target
<1>2. Jump(original) \in Seq(InstructionWords) /\ Jump(target) \in Seq(InstructionWords)
  BY <1>1, JumpLength
<1>3. GenerateReplacementJump(p) =
        (IF p.targetProcess # FP_TARGET_PROCESS_ALL
         THEN (choice \o replaced) \o Jump(original) ELSE <<>>) \o Jump(target)
  BY DEF GenerateReplacementJump, original, target
<1>4. CASE p.targetProcess = FP_TARGET_PROCESS_ALL
  <2>1. GenerateReplacementJump(p) = Jump(target)
    BY <1>2, <1>3, <1>4, ConcatEmptySeq
  <2>2. WayLength(p) = 0 /\ n = 0
    BY <1>4 DEF WayLength, ChoiceLength
  <2>3. Len(Jump(target)) \in Nat
    BY <1>2
  <2> QED
    BY <1>4, <2>1, <2>2, <2>3 DEF target
<1>5. CASE p.targetProcess # FP_TARGET_PROCESS_ALL
  <2>1. choice \in Seq(InstructionWords) /\ Len(choice) = n /\ n \in Nat
    BY <1>5, ChoiceWords
  <2>2. replaced \in Seq(InstructionWords) /\ Len(replaced) = 1 /\ replaced[1] = Replaced
    <3>1. Replaced \in InstructionWords
      BY DEF Replaced, InstructionWords, Operations
    <3> QED
      BY <3>1
  <2> DEFINE a == choice \o replaced
             b == a \o Jump(original)
             c == b \o Jump(target)
  <2>3. WayLength(p) = n + 1 + Len(Jump(original))
    BY <1>5 DEF WayLength, original
  <2>4. c = GenerateReplacementJump(p)
    BY <1>3, <1>5
  <2> HIDE DEF choice, replaced, n
  <2>5. /\ a \in Seq(InstructionWords) /\ Len(a) = n + 1
        /\ \A i \in 1 .. n : a[i] = choice[i]
        /\ a[n + 1] = Replaced
    <3>1. \A i \in 1 .. Len(replaced) : a[Len(choice) + i] = replaced[i]
      BY <2>1, <2>2, Pieces
    <3> QED
      BY <2>1, <2>2, <3>1, Pieces
  <2> HIDE DEF a
  <2>6. /\ b \in Seq(InstructionWords)
        /\ Len(b) = n + 1 + Len(Jump(original)) /\ Len(Jump(original)) \in Nat
        /\ \A i \in 1 .. n + 1 : b[i] = a[i]
        /\ \A i \in 1 .. Len(Jump(original)) : b[n + 1 + i] = Jump(original)[i]
    BY <1>2, <2>5, Pieces
  <2> HIDE DEF b
  <2>7. /\ Len(c) = Len(b) + Len(Jump(target))
        /\ \A i \in 1 .. Len(b) : c[i] = b[i]
        /\ \A i \in 1 .. Len(Jump(target)) : c[Len(b) + i] = Jump(target)[i]
    BY <1>2, <2>6, Pieces
  <2> HIDE DEF c
  <2>8. \A i \in 1 .. n : c[i] = choice[i]
    <3> TAKE i \in 1 .. n
    <3>1. i \in 1 .. n + 1 /\ i \in 1 .. Len(b)
      BY <2>1, <2>6
    <3> QED
      BY <2>5, <2>6, <2>7, <3>1
  <2>9. c[n + 1] = Replaced
    <3>1. n + 1 \in 1 .. n + 1 /\ n + 1 \in 1 .. Len(b)
      BY <2>1, <2>6
    <3> QED
      BY <2>5, <2>6, <2>7, <3>1
  <2>10. \A i \in 1 .. Len(Jump(original)) : c[n + 1 + i] = Jump(original)[i]
    <3> TAKE i \in 1 .. Len(Jump(original))
    <3>1. n + 1 + i \in 1 .. Len(b)
      BY <2>1, <2>6
    <3> QED
      BY <2>6, <2>7, <3>1
  <2>11. WayLength(p) = Len(b) /\ WayLength(p) \in Nat
    BY <2>1, <2>3, <2>6
  <2> QED
    BY <2>1, <2>3, <2>4, <2>7, <2>8, <2>9, <2>10, <2>11 DEF choice, original, target, n
<1> QED
  BY <1>4, <1>5

\* The code that calls on runs the replaced instruction last but one.
LEMMA OriginalWords ==
  ASSUME NEW p \in Patches
  PROVE  LET c == GenerateJumpToOriginal(p)
             a == p.real + 4
         IN  /\ IsNear(a) => Len(c) = 2 /\ c[1] = Replaced /\ c[2] = Ba(a)
             /\ ~IsNear(a) => /\ Len(c) = 5 /\ c[1] = Lis(a) /\ c[2] = Ori(a)
                              /\ c[3] = Mtctr /\ c[4] = Replaced /\ c[5] = Bctr
BY DEF GenerateJumpToOriginal
------------------------------------------------------------------------------
(* One word.                                                                *)

\* The code lies in the buffers, and nothing else does.
LEMMA CodeInBuffers ==
  ASSUME Typed
  PROVE  /\ In(jumpData, GenerateReplacementJump(patch)) => pc \in JumpDataWords
         /\ In(jumpToOriginal, GenerateJumpToOriginal(patch)) => pc \in JumpToOriginalWords
         /\ patch.real \notin JumpDataWords \union JumpToOriginalWords
         /\ patch.replacement \notin JumpDataWords \union JumpToOriginalWords
         /\ patch.real + 4 \notin JumpDataWords \union JumpToOriginalWords
         /\ patch.real \in Nat /\ patch.replacement \in Nat
         /\ jumpData \in Nat /\ jumpToOriginal \in Nat
         /\ patch.replacement \notin {patch.real, patch.real + 4}
<1>1. patch \in Patches
  BY DEF Typed
<1>2. Len(GenerateReplacementJump(patch)) \in Nat /\ Len(GenerateReplacementJump(patch)) <= 15
  <2>1. WayLength(patch) \in Nat
    BY <1>1, ReplacementJumpWords
  <2>2. Len(Jump(patch.replacement)) \in Nat
    BY <1>1, JumpLength, PatchesAssumption DEF IsAddress
  <2>3. Len(GenerateReplacementJump(patch)) = WayLength(patch) + Len(Jump(patch.replacement))
    BY <1>1, ReplacementJumpWords
  <2> QED
    BY <1>1, <2>1, <2>2, <2>3, ReplacementJumpFits DEF jumpDataSize
<1>3. Len(GenerateJumpToOriginal(patch)) \in Nat /\ Len(GenerateJumpToOriginal(patch)) <= 5
  <2>1. PICK n : n = Len(GenerateJumpToOriginal(patch))
    OBVIOUS
  <2>2. n = 2 \/ n = 5
    BY <1>1, <2>1, OriginalWords
  <2> QED
    BY <2>1, <2>2
<1>4. jumpData \in Nat /\ jumpToOriginal \in Nat
  BY BuffersAssumption DEF IsAddress
<1>5. ASSUME In(jumpData, GenerateReplacementJump(patch)) PROVE pc \in JumpDataWords
  <2>1. PICK i \in 1 .. Len(GenerateReplacementJump(patch)) : pc = jumpData + 4 * (i - 1)
    BY <1>5 DEF In
  <2>2. i - 1 \in 0 .. 14
    BY <1>2
  <2> QED
    BY <2>1, <2>2 DEF JumpDataWords
<1>6. ASSUME In(jumpToOriginal, GenerateJumpToOriginal(patch))
      PROVE  pc \in JumpToOriginalWords
  <2>1. PICK i \in 1 .. Len(GenerateJumpToOriginal(patch)) : pc = jumpToOriginal + 4 * (i - 1)
    BY <1>6 DEF In
  <2>2. i - 1 \in 0 .. 4
    BY <1>3
  <2> QED
    BY <2>1, <2>2 DEF JumpToOriginalWords
<1> QED
  BY <1>1, <1>4, <1>5, <1>6, PatchesAssumption, PlacesAssumption DEF IsAddress

\* At the function the processor finds the branch.
LEMMA FetchFunction ==
  ASSUME Typed, pc = patch.real
  PROVE  Running /\ Word = ReplaceWithInstruction(patch)
BY DEF Running, Word

\* In jumpData it finds the code of the replacement jump.
LEMMA FetchJumpData ==
  ASSUME Typed, NeedsTrampoline(patch),
         NEW k \in 0 .. Len(GenerateReplacementJump(patch)) - 1, At(jumpData, k)
  PROVE  Running /\ Word = GenerateReplacementJump(patch)[k + 1]
<1> DEFINE c == GenerateReplacementJump(patch)
<1>1. Len(c) \in Nat
  <2>1. patch \in Patches
    BY DEF Typed
  <2>2. Len(Jump(patch.replacement)) \in Nat
    BY <2>1, JumpLength, PatchesAssumption DEF IsAddress
  <2> QED
    BY <2>1, <2>2, ReplacementJumpWords
<1>2. jumpData \in Nat
  BY CodeInBuffers
<1>3. k + 1 \in 1 .. Len(c) /\ k \in Nat
  BY <1>1
<1>4. In(jumpData, c)
  <2>1. pc = jumpData + 4 * ((k + 1) - 1)
    BY <1>3 DEF At
  <2> QED
    BY <1>3, <2>1 DEF In
<1>5. pc \in JumpDataWords
  BY <1>4, CodeInBuffers
<1>6. pc \notin JumpToOriginalWords
  BY <1>5, PlacesAssumption
<1>7. pc # patch.real /\ ~In(jumpToOriginal, GenerateJumpToOriginal(patch))
  BY <1>5, <1>6, CodeInBuffers
<1>8. Offset(jumpData) = k + 1
  BY <1>2, <1>3 DEF At, Offset
<1> QED
  BY <1>4, <1>7, <1>8 DEF Running, Word

\* In jumpToOriginal it finds the code that calls on.
LEMMA FetchJumpToOriginal ==
  ASSUME Typed, NEW k \in 0 .. Len(GenerateJumpToOriginal(patch)) - 1,
         At(jumpToOriginal, k)
  PROVE  Running /\ Word = GenerateJumpToOriginal(patch)[k + 1]
<1> DEFINE c == GenerateJumpToOriginal(patch)
<1>1. Len(c) \in Nat
  BY OriginalWords DEF Typed
<1>2. jumpToOriginal \in Nat
  BY CodeInBuffers
<1>3. k + 1 \in 1 .. Len(c) /\ k \in Nat
  BY <1>1
<1>4. In(jumpToOriginal, c)
  <2>1. pc = jumpToOriginal + 4 * ((k + 1) - 1)
    BY <1>3 DEF At
  <2> QED
    BY <1>3, <2>1 DEF In
<1>5. pc # patch.real
  BY <1>4, CodeInBuffers
<1>6. Offset(jumpToOriginal) = k + 1
  BY <1>2, <1>3 DEF At, Offset
<1> QED
  BY <1>4, <1>5, <1>6 DEF Running, Word

\* At the original's second instruction and at the replacement no generated
\* code runs any more.
LEMMA NotFetched ==
  ASSUME Typed, pc \in {patch.replacement, patch.real + 4}
  PROVE  ~Running
<1>1. pc \notin JumpDataWords \union JumpToOriginalWords /\ pc # patch.real
  BY CodeInBuffers
<1> QED
  BY <1>1, CodeInBuffers DEF Running

\* What the words do.
LEMMA OneWord ==
  ASSUME Running, Next
  PROVE  /\ UNCHANGED <<patch, upid, entry>>
         /\ Word.op # "replaced" => UNCHANGED runs
         /\ Word.op = "lis" =>
              regs' = [regs EXCEPT !["r11"] = Word.arg * 65536] /\ pc' = pc + 4
         /\ Word.op = "ori" =>
              regs' = [regs EXCEPT !["r11"] = regs["r11"] + Word.arg] /\ pc' = pc + 4
         /\ Word.op = "lwz" =>
              regs' = [regs EXCEPT !["r11"] = upid] /\ pc' = pc + 4
         /\ Word.op = "mtctr" =>
              regs' = [regs EXCEPT !["ctr"] = regs["r11"]] /\ pc' = pc + 4
         /\ Word.op = "cmpwi" =>
              /\ regs' = [regs EXCEPT !["cr"] = IF regs["r11"] = Word.arg THEN 1 ELSE 0]
              /\ pc' = pc + 4
         /\ Word.op = "beq" =>
              regs' = regs /\ pc' = pc + (IF regs["cr"] = 1 THEN Word.arg ELSE 4)
         /\ Word.op = "ba" => regs' = regs /\ pc' = Word.arg
         /\ Word.op = "bctr" => regs' = regs /\ pc' = regs["ctr"]
         /\ Word.op = "replaced" =>
              /\ regs' = [regs EXCEPT ![patch.sets] = Computed]
              /\ runs' = runs + 1 /\ pc' = pc + 4
<1>1. \A e : ~Call(e)
  BY DEF Call
<1>2. \/ ExecuteLis \/ ExecuteOri \/ ExecuteLwz \/ ExecuteMtctr \/ ExecuteCmpwi
      \/ ExecuteBeq \/ ExecuteBa \/ ExecuteBctr \/ ExecuteReplaced
  BY <1>1 DEF Next
<1> QED
  BY <1>2 DEF ExecuteLis, ExecuteOri, ExecuteLwz, ExecuteMtctr, ExecuteCmpwi,
              ExecuteBeq, ExecuteBa, ExecuteBctr, ExecuteReplaced, Fetch,
              SetRegister, GoTo
------------------------------------------------------------------------------
(* One step of each part of the code.                                       *)

\* A jump leads to its target, and changes r11 and CTR only where a branch does
\* not reach it.
LEMMA JumpGoesOn ==
  ASSUME Typed, Next, NEW a \in Nat, NEW base \in Nat, NEW s \in Nat,
         Jumping(base, s, a),
         \A d \in 0 .. Len(Jump(a)) - 1 :
           At(base, s + d) => Running /\ Word = Jump(a)[d + 1]
  PROVE  /\ UNCHANGED <<patch, upid, entry, runs>>
         /\ DOMAIN regs' = Registers
         /\ Jumping(base, s, a)' \/ pc' = a
         /\ \A r \in Registers \ {"r11", "ctr"} : regs'[r] = regs[r]
         /\ IsNear(a) => regs' = regs
<1>t. DOMAIN regs = Registers
  BY DEF Typed
<1>1. CASE IsNear(a)
  <2>1. At(base, s + 0)
    BY <1>1 DEF Jumping
  <2>2. 0 \in 0 .. Len(Jump(a)) - 1 /\ Jump(a)[0 + 1] = Ba(a)
    BY <1>1, JumpWords
  <2>3. Running /\ Word = Ba(a)
    BY <2>1, <2>2
  <2>4. Word.op = "ba" /\ Word.arg = a
    BY <1>1, <2>3 DEF Ba, IsNear, Reach
  <2> QED
    BY <1>t, <2>3, <2>4, OneWord
<1>2. CASE ~IsNear(a)
  <2>1. PICK d \in 0 .. 3 :
          /\ At(base, s + d)
          /\ d = 1 => regs["r11"] = Hi(a)
          /\ d \in {2, 3} => regs["r11"] = a
          /\ d = 3 => regs["ctr"] = a
    BY DEF Jumping
  <2>2. d \in 0 .. Len(Jump(a)) - 1
    BY <1>2, JumpWords
  <2>3. Running /\ Word = Jump(a)[d + 1]
    BY <2>1, <2>2
  <2>4. pc = base + 4 * (s + d)
    BY <2>1 DEF At
  <2>5. {"r11", "ctr"} \subseteq Registers
    BY DEF Registers
  <2>6. CASE d = 0
    <3>1. Word = Lis(a)
      BY <1>2, <2>3, <2>6, JumpWords
    <3>2. Word.op = "lis" /\ Word.arg * 65536 = Hi(a)
      BY <3>1 DEF Lis, Hi
    <3>3. /\ UNCHANGED <<patch, upid, entry, runs>>
          /\ regs' = [regs EXCEPT !["r11"] = Hi(a)] /\ pc' = pc + 4
      BY <2>3, <3>2, OneWord
    <3>4. pc' = base + 4 * (s + 1)
      BY <2>4, <2>6, <3>3
    <3>5. Jumping(base, s, a)'
      BY <1>2, <1>t, <2>5, <3>3, <3>4 DEF Jumping, At, IsNear
    <3> QED
      BY <1>2, <1>t, <3>3, <3>5
  <2>7. CASE d = 1
    <3>1. Word = Ori(a)
      BY <1>2, <2>3, <2>7, JumpWords
    <3>2. Word.op = "ori" /\ Hi(a) + Word.arg = a
      BY <3>1 DEF Ori, Hi
    <3>3. /\ UNCHANGED <<patch, upid, entry, runs>>
          /\ regs' = [regs EXCEPT !["r11"] = a] /\ pc' = pc + 4
      BY <2>1, <2>3, <2>7, <3>2, OneWord
    <3>4. pc' = base + 4 * (s + 2)
      BY <2>4, <2>7, <3>3
    <3>5. Jumping(base, s, a)'
      BY <1>2, <1>t, <2>5, <3>3, <3>4 DEF Jumping, At, IsNear
    <3> QED
      BY <1>2, <1>t, <3>3, <3>5
  <2>8. CASE d = 2
    <3>1. Word = Mtctr
      BY <1>2, <2>3, <2>8, JumpWords
    <3>2. Word.op = "mtctr"
      BY <3>1 DEF Mtctr
    <3>3. /\ UNCHANGED <<patch, upid, entry, runs>>
          /\ regs' = [regs EXCEPT !["ctr"] = a] /\ pc' = pc + 4
      BY <2>1, <2>3, <2>8, <3>2, OneWord
    <3>4. pc' = base + 4 * (s + 3)
      BY <2>4, <2>8, <3>3
    <3>5. regs'["ctr"] = a /\ regs'["r11"] = a
      BY <1>t, <2>1, <2>5, <2>8, <3>3
    <3>6. Jumping(base, s, a)'
      BY <1>2, <3>4, <3>5 DEF Jumping, At, IsNear
    <3> QED
      BY <1>2, <1>t, <3>3, <3>6
  <2>9. CASE d = 3
    <3>1. Word = Bctr
      BY <1>2, <2>3, <2>9, JumpWords
    <3>2. Word.op = "bctr"
      BY <3>1 DEF Bctr
    <3> QED
      BY <1>2, <1>t, <2>1, <2>3, <2>9, <3>2, OneWord
  <2> QED
    BY <2>1, <2>6, <2>7, <2>8, <2>9
<1> QED
  BY <1>1, <1>2

\* The branch at the function leads to the code, or to the replacement.
LEMMA EnteredGoesOn ==
  ASSUME Typed, Next, Entered
  PROVE  CallInv'
<1>1. Running /\ Word = ReplaceWithInstruction(patch)
  BY FetchFunction DEF Entered
<1> DEFINE to == IF NeedsTrampoline(patch) THEN jumpData ELSE patch.replacement
<1>2. Word.op = "ba" /\ Word.arg = to
  <2>1. to \in Nat /\ IsNear(to)
    BY CodeInBuffers, BuffersAssumption DEF NeedsTrampoline
  <2> QED
    BY <1>1, <2>1 DEF ReplaceWithInstruction, Ba, IsNear, Reach
<1>3. UNCHANGED <<patch, upid, entry, runs, regs>> /\ pc' = to
  BY <1>1, <1>2, OneWord
<1>4. Typed' /\ (Selected' <=> Selected) /\ entry' = "function" /\ runs' = 0
  BY <1>3 DEF Typed, Selected, Entered
<1>5. CASE ~NeedsTrampoline(patch)
  <2>1. Selected /\ pc' = patch'.replacement
    BY <1>3, <1>5 DEF Selected, NeedsTrampoline
  <2>2. Arrived'
    BY <1>3, <1>4, <2>1, CodeInBuffers DEF Arrived
  <2> QED
    BY <1>4, <2>2 DEF CallInv
<1>6. CASE NeedsTrampoline(patch) /\ patch.targetProcess = FP_TARGET_PROCESS_ALL
  <2>1. Selected
    BY <1>6 DEF Selected
  <2>2. At(jumpData, 0)' /\ WayLength(patch') = 0
    BY <1>3, <1>6, CodeInBuffers DEF At, WayLength
  <2>3. Jumping(jumpData, 0, patch.replacement)'
    BY <2>2 DEF Jumping, At
  <2>4. Replacing'
    BY <1>3, <1>4, <1>6, <2>1, <2>2, <2>3 DEF Replacing, Jumping, At, IsNear
  <2> QED
    BY <1>4, <2>4 DEF CallInv
<1>7. CASE NeedsTrampoline(patch) /\ patch.targetProcess # FP_TARGET_PROCESS_ALL
  <2>1. At(jumpData, 0)'
    BY <1>3, <1>7, CodeInBuffers DEF At
  <2>2. ChoiceLength(patch') \in {4, 6}
    BY <1>3, <1>7 DEF ChoiceLength
  <2>3. Choosing'
    BY <1>3, <1>4, <1>7, <2>1, <2>2 DEF Choosing
  <2> QED
    BY <1>4, <2>3 DEF CallInv
<1> QED
  BY <1>5, <1>6, <1>7

\* The comparisons select the processes that were asked for.
LEMMA ChoosingGoesOn ==
  ASSUME Typed, Next, Choosing
  PROVE  CallInv'
<1> DEFINE n == ChoiceLength(patch)
           w == WayLength(patch)
           c == GenerateReplacementJump(patch)
<1>1. PICK k \in 0 .. n :
        /\ At(jumpData, k)
        /\ k = 1 => regs["r11"] = Hi(UpidWord)
        /\ k \in 2 .. 5 => regs["r11"] = upid
        /\ k \in {3, 5} => regs["cr"] = 1 <=>
             upid = IF k = 3 THEN FirstProcess(patch) ELSE FP_TARGET_PROCESS_GAME
        /\ k \in 4 .. 5 => upid # FirstProcess(patch)
        /\ k = n => ~Selected
  BY DEF Choosing
<1>2. /\ entry = "function" /\ runs = 0 /\ patch \in Patches
      /\ patch.targetProcess # FP_TARGET_PROCESS_ALL /\ NeedsTrampoline(patch)
      /\ DOMAIN regs = Registers /\ patch.sets \in Registers
      /\ upid \in 0 .. 15 /\ jumpData \in Nat
  BY PatchesAssumption, UpidsAssumption, CodeInBuffers
     DEF Choosing, Typed, NeedsTrampoline
<1>3. /\ n \in {4, 6} /\ w \in Nat
      /\ w = n + 1 + Len(Jump(patch.real + 4)) /\ Len(Jump(patch.real + 4)) \in Nat
      /\ Len(c) = w + Len(Jump(patch.replacement)) /\ Len(Jump(patch.replacement)) \in Nat
      /\ \A i \in 1 .. n : c[i] = SelectProcess(patch)[i]
      /\ c[n + 1] = Replaced
      /\ n = 6 <=> patch.targetProcess = FP_TARGET_PROCESS_GAME_AND_MENU
  <2>1. Len(Jump(patch.real + 4)) \in Nat /\ Len(Jump(patch.replacement)) \in Nat
    <3>1. patch.real + 4 \in Nat /\ patch.replacement \in Nat
      BY <1>2, PatchesAssumption DEF IsAddress
    <3>2. Jump(patch.real + 4) \in Seq(InstructionWords)
      BY <3>1, JumpLength
    <3>3. Jump(patch.replacement) \in Seq(InstructionWords)
      BY <3>1, JumpLength
    <3> QED
      BY <3>2, <3>3
  <2>2. n \in {4, 6} /\ (n = 6 <=> patch.targetProcess = FP_TARGET_PROCESS_GAME_AND_MENU)
    BY <1>2 DEF ChoiceLength
  <2> QED
    BY <1>2, <2>1, <2>2, ReplacementJumpWords
<1>4. k \in Nat /\ k <= n /\ k \in 0 .. Len(c) - 1
  BY <1>3
<1>5. Running /\ Word = c[k + 1]
  BY <1>1, <1>2, <1>4, FetchJumpData
<1>6. Selected <=> \/ upid = FirstProcess(patch)
                   \/ n = 6 /\ upid = FP_TARGET_PROCESS_GAME
  <2>1. CASE n = 6
    <3>1. patch.targetProcess = 16 /\ upid # 16
      BY <1>2, <1>3, <2>1 DEF FP_TARGET_PROCESS_GAME_AND_MENU
    <3> QED
      BY <1>2, <2>1, <3>1 DEF Selected, FirstProcess, FP_TARGET_PROCESS_GAME_AND_MENU
  <2>2. CASE n # 6
    <3>1. patch.targetProcess # FP_TARGET_PROCESS_GAME_AND_MENU
      BY <1>3, <2>2
    <3> QED
      BY <1>2, <2>2, <3>1 DEF Selected, FirstProcess
  <2> QED
    BY <2>1, <2>2
<1>7. {"r11", "cr"} \subseteq Registers
  BY DEF Registers
<1>8. ASSUME UNCHANGED <<patch, upid, entry>>
      PROVE  /\ ChoiceLength(patch)' = n /\ WayLength(patch)' = w
             /\ FirstProcess(patch)' = FirstProcess(patch)
             /\ Selected' <=> Selected
             /\ DOMAIN regs' = Registers => Typed'
  BY <1>2, <1>8 DEF Selected, Typed
<1>c. LET s == SelectProcess(patch)
      IN  /\ s[1] = Lis(UpidWord) /\ s[2] = Lwz(UpidWord)
          /\ s[3] = Cmpwi(FirstProcess(patch)) /\ s[4] = Beq(4 * (w - 3))
          /\ n = 6 => s[5] = Cmpwi(FP_TARGET_PROCESS_GAME) /\ s[6] = Beq(4 * (w - 5))
  BY <1>2, ChoiceWords
<1> HIDE DEF n, w
<1>9. CASE k = n
  <2>1. Word = Replaced
    BY <1>3, <1>5, <1>9
  <2>2. Word.op = "replaced"
    BY <2>1 DEF Replaced
  <2>3. /\ UNCHANGED <<patch, upid, entry>> /\ runs' = runs + 1 /\ pc' = pc + 4
        /\ regs' = [regs EXCEPT ![patch.sets] = Computed]
    BY <1>5, <2>2, OneWord
  <2>4. pc' = jumpData + 4 * (n + 1 + 0)
    <3>1. pc = jumpData + 4 * n /\ n \in Nat /\ jumpData \in Nat
      BY <1>1, <1>2, <1>4, <1>9 DEF At
    <3> QED
      BY <2>3, <3>1
  <2>5. Ran'
    BY <1>2, <2>3 DEF Ran
  <2>6. DOMAIN regs' = Registers
    BY <1>2, <2>3
  <2>7. Jumping(jumpData, ChoiceLength(patch) + 1, patch.real + 4)'
    BY <1>8, <2>3, <2>4 DEF Jumping, At
  <2>8. Declining'
    BY <1>1, <1>2, <1>8, <1>9, <2>3, <2>5, <2>7 DEF Declining
  <2> QED
    BY <1>8, <2>3, <2>6, <2>8 DEF CallInv
<1>10. CASE k # n
  <2>1. Word = SelectProcess(patch)[k + 1]
    <3>1. k + 1 \in 1 .. n
      BY <1>3, <1>4, <1>10
    <3> QED
      BY <1>3, <1>5, <3>1
  <2>2. ASSUME UNCHANGED <<patch, upid, entry, runs>>, pc' = pc + 4,
               DOMAIN regs' = Registers,
               k + 1 = 1 => regs'["r11"] = Hi(UpidWord),
               k + 1 \in 2 .. 5 => regs'["r11"] = upid,
               k + 1 \in {3, 5} => regs'["cr"] = 1 <=>
                 upid = IF k + 1 = 3 THEN FirstProcess(patch) ELSE FP_TARGET_PROCESS_GAME,
               k + 1 \in 4 .. 5 => upid # FirstProcess(patch),
               k + 1 = n => ~Selected
        PROVE  CallInv'
    <3>1. pc' = jumpData + 4 * (k + 1)
      BY <1>1, <1>2, <1>4, <2>2 DEF At
    <3>2. k + 1 \in 0 .. n
      BY <1>3, <1>4, <1>10
    <3>3. Choosing'
      BY <1>2, <1>8, <2>2, <3>1, <3>2 DEF Choosing, At
    <3> QED
      BY <1>8, <2>2, <3>3 DEF CallInv
  <2>3. ASSUME UNCHANGED <<patch, upid, entry, runs, regs>>,
               pc' = pc + 4 * (w - k), Selected
        PROVE  CallInv'
    <3>1. pc' = jumpData + 4 * (w + 0)
      BY <1>1, <1>2, <1>3, <1>4, <2>3 DEF At
    <3>2. Jumping(jumpData, WayLength(patch), patch.replacement)'
      BY <1>8, <2>3, <3>1 DEF Jumping, At
    <3>3. Replacing'
      BY <1>2, <1>8, <2>3, <3>2 DEF Replacing
    <3> QED
      BY <1>2, <1>8, <2>3, <3>3 DEF CallInv
  <2>4. CASE k = 0
    <3>1. Word.op = "lis" /\ Word.arg * 65536 = Hi(UpidWord)
      BY <1>c, <2>1, <2>4 DEF Lis, Hi
    <3>2. /\ UNCHANGED <<patch, upid, entry, runs>> /\ pc' = pc + 4
          /\ regs' = [regs EXCEPT !["r11"] = Hi(UpidWord)]
      BY <1>5, <3>1, OneWord
    <3>3. regs'["r11"] = Hi(UpidWord) /\ DOMAIN regs' = Registers
      BY <1>2, <1>7, <3>2
    <3> QED
      BY <1>3, <2>2, <2>4, <3>2, <3>3
  <2>5. CASE k = 1
    <3>1. Word.op = "lwz"
      BY <1>c, <2>1, <2>5 DEF Lwz
    <3>2. /\ UNCHANGED <<patch, upid, entry, runs>> /\ pc' = pc + 4
          /\ regs' = [regs EXCEPT !["r11"] = upid]
      BY <1>5, <3>1, OneWord
    <3>3. regs'["r11"] = upid /\ DOMAIN regs' = Registers
      BY <1>2, <1>7, <3>2
    <3> QED
      BY <1>3, <2>2, <2>5, <3>2, <3>3
  <2>6. CASE k = 2
    <3>1. Word.op = "cmpwi" /\ Word.arg = FirstProcess(patch)
      BY <1>c, <2>1, <2>6 DEF Cmpwi
    <3>2. /\ UNCHANGED <<patch, upid, entry, runs>> /\ pc' = pc + 4
          /\ regs' = [regs EXCEPT !["cr"] = IF upid = FirstProcess(patch) THEN 1 ELSE 0]
      BY <1>1, <1>5, <2>6, <3>1, OneWord
    <3>3. /\ regs'["r11"] = upid /\ DOMAIN regs' = Registers
          /\ regs'["cr"] = 1 <=> upid = FirstProcess(patch)
      BY <1>1, <1>2, <1>7, <2>6, <3>2
    <3> QED
      BY <1>3, <2>2, <2>6, <3>2, <3>3
  <2>7. CASE k = 3
    <3>1. Word.op = "beq" /\ Word.arg = 4 * (w - 3)
      BY <1>c, <2>1, <2>7 DEF Beq
    <3>2. /\ UNCHANGED <<patch, upid, entry, runs, regs>>
          /\ pc' = pc + (IF regs["cr"] = 1 THEN 4 * (w - 3) ELSE 4)
      BY <1>5, <3>1, OneWord
    <3>3. CASE upid = FirstProcess(patch)
      <4>1. pc' = pc + 4 * (w - k)
        BY <1>1, <2>7, <3>2, <3>3
      <4> QED
        BY <1>6, <2>3, <3>2, <3>3, <4>1
    <3>4. CASE upid # FirstProcess(patch)
      <4>1. pc' = pc + 4
        BY <1>1, <2>7, <3>2, <3>4
      <4>2. 4 = n => ~Selected
        BY <1>6, <3>4
      <4> QED
        BY <1>1, <1>2, <2>2, <2>7, <3>2, <3>4, <4>1, <4>2
    <3> QED
      BY <3>3, <3>4
  <2>8. CASE k = 4
    <3>0. n = 6
      BY <1>3, <1>10, <2>8
    <3>1. Word.op = "cmpwi" /\ Word.arg = FP_TARGET_PROCESS_GAME
      BY <1>c, <2>1, <2>8, <3>0 DEF Cmpwi
    <3>2. /\ UNCHANGED <<patch, upid, entry, runs>> /\ pc' = pc + 4
          /\ regs' = [regs EXCEPT !["cr"] = IF upid = FP_TARGET_PROCESS_GAME THEN 1 ELSE 0]
      BY <1>1, <1>5, <2>8, <3>1, OneWord
    <3>3. /\ regs'["r11"] = upid /\ DOMAIN regs' = Registers
          /\ regs'["cr"] = 1 <=> upid = FP_TARGET_PROCESS_GAME
      BY <1>1, <1>2, <1>7, <2>8, <3>2
    <3> QED
      BY <1>1, <2>2, <2>8, <3>0, <3>2, <3>3
  <2>9. CASE k = 5
    <3>0. n = 6
      BY <1>3, <1>4, <2>9
    <3>1. Word.op = "beq" /\ Word.arg = 4 * (w - 5)
      BY <1>c, <2>1, <2>9, <3>0 DEF Beq
    <3>2. /\ UNCHANGED <<patch, upid, entry, runs, regs>>
          /\ pc' = pc + (IF regs["cr"] = 1 THEN 4 * (w - 5) ELSE 4)
      BY <1>5, <3>1, OneWord
    <3>3. CASE upid = FP_TARGET_PROCESS_GAME
      <4>1. pc' = pc + 4 * (w - k)
        BY <1>1, <2>9, <3>2, <3>3
      <4> QED
        BY <1>6, <2>3, <3>0, <3>2, <3>3, <4>1
    <3>4. CASE upid # FP_TARGET_PROCESS_GAME
      <4>1. pc' = pc + 4
        BY <1>1, <2>9, <3>2, <3>4
      <4>2. ~Selected
        BY <1>1, <1>6, <2>9, <3>4
      <4> QED
        BY <1>2, <2>2, <2>9, <3>2, <4>1, <4>2
    <3> QED
      BY <3>3, <3>4
  <2>10. k \in {0, 1, 2, 3, 4, 5}
    BY <1>3, <1>4, <1>10
  <2> QED
    BY <2>4, <2>5, <2>6, <2>7, <2>8, <2>9, <2>10
<1> QED
  BY <1>9, <1>10

\* A process that was not selected goes to the original.
LEMMA DecliningGoesOn ==
  ASSUME Typed, Next, Declining, KeepsLinkage(patch)
  PROVE  CallInv'
<1>1. PICK a, n : a = patch.real + 4 /\ n = ChoiceLength(patch) + 1
  OBVIOUS
<1>2. /\ patch \in Patches /\ patch.targetProcess # FP_TARGET_PROCESS_ALL
      /\ NeedsTrampoline(patch) /\ entry = "function" /\ ~Selected /\ Ran
      /\ Jumping(jumpData, n, a)
  BY <1>1 DEF Declining, Typed, NeedsTrampoline
<1>3. a \in Nat /\ jumpData \in Nat /\ patch.replacement \in Nat
  BY <1>1, CodeInBuffers
<1>4. Len(Jump(a)) \in Nat /\ Len(Jump(patch.replacement)) \in Nat
      /\ Len(Jump(patch.replacement)) # 0
  BY <1>3, JumpWords
<1>5. /\ n \in Nat
      /\ Len(GenerateReplacementJump(patch)) = n + Len(Jump(a)) + Len(Jump(patch.replacement))
      /\ \A i \in 1 .. Len(Jump(a)) : GenerateReplacementJump(patch)[n + i] = Jump(a)[i]
  BY <1>1, <1>2, ReplacementJumpWords
<1>6. ASSUME NEW d \in 0 .. Len(Jump(a)) - 1, At(jumpData, n + d)
      PROVE  Running /\ Word = Jump(a)[d + 1]
  <2>1. n + d \in 0 .. Len(GenerateReplacementJump(patch)) - 1
    BY <1>4, <1>5
  <2>2. Running /\ Word = GenerateReplacementJump(patch)[(n + d) + 1]
    BY <1>2, <1>6, <2>1, FetchJumpData
  <2>3. d + 1 \in 1 .. Len(Jump(a)) /\ (n + d) + 1 = n + (d + 1)
    BY <1>4, <1>5
  <2> QED
    BY <1>5, <2>2, <2>3
<1>7. /\ UNCHANGED <<patch, upid, entry, runs>>
      /\ DOMAIN regs' = Registers
      /\ Jumping(jumpData, n, a)' \/ pc' = a
      /\ \A r \in Registers \ {"r11", "ctr"} : regs'[r] = regs[r]
      /\ IsNear(a) => regs' = regs
  BY <1>2, <1>3, <1>5, <1>6, JumpGoesOn
<1>8. Ran'
  <2>1. patch.sets \in Registers
    BY <1>2, PatchesAssumption
  <2>2. regs'[patch.sets] = regs[patch.sets]
    BY <1>1, <1>7, <2>1 DEF KeepsLinkage
  <2> QED
    BY <1>2, <1>7, <2>2 DEF Ran
<1>9. Typed' /\ (Selected' <=> Selected)
  BY <1>7 DEF Typed, Selected
<1>10. CASE pc' = a
  <2>1. Arrived'
    BY <1>1, <1>2, <1>7, <1>8, <1>9, <1>10 DEF Arrived
  <2> QED
    BY <1>9, <2>1 DEF CallInv
<1>11. CASE Jumping(jumpData, n, a)'
  <2>1. n = (ChoiceLength(patch) + 1)' /\ a = (patch.real + 4)'
    BY <1>1, <1>7
  <2>2. Jumping(jumpData, ChoiceLength(patch) + 1, patch.real + 4)'
    BY <1>11, <2>1
  <2>3. Declining'
    BY <1>2, <1>7, <1>8, <1>9, <2>2 DEF Declining
  <2> QED
    BY <1>9, <2>3 DEF CallInv
<1> QED
  BY <1>7, <1>10, <1>11

\* A process that was selected goes to the replacement.
LEMMA ReplacingGoesOn ==
  ASSUME Typed, Next, Replacing
  PROVE  CallInv'
<1>1. PICK a, w : a = patch.replacement /\ w = WayLength(patch)
  OBVIOUS
<1>2. /\ patch \in Patches /\ NeedsTrampoline(patch) /\ entry = "function" /\ Selected
      /\ Jumping(jumpData, w, a)
  BY <1>1 DEF Replacing, Typed
<1>3. a \in Nat /\ jumpData \in Nat /\ a # patch.real + 4
  BY <1>1, CodeInBuffers
<1>4. Len(Jump(a)) \in Nat
  BY <1>3, JumpWords
<1>5. /\ w \in Nat
      /\ Len(GenerateReplacementJump(patch)) = w + Len(Jump(a))
      /\ \A i \in 1 .. Len(Jump(a)) : GenerateReplacementJump(patch)[w + i] = Jump(a)[i]
  BY <1>1, <1>2, ReplacementJumpWords
<1>6. ASSUME NEW d \in 0 .. Len(Jump(a)) - 1, At(jumpData, w + d)
      PROVE  Running /\ Word = Jump(a)[d + 1]
  <2>1. w + d \in 0 .. Len(GenerateReplacementJump(patch)) - 1
    BY <1>4, <1>5
  <2>2. Running /\ Word = GenerateReplacementJump(patch)[(w + d) + 1]
    BY <1>2, <1>6, <2>1, FetchJumpData
  <2>3. d + 1 \in 1 .. Len(Jump(a)) /\ (w + d) + 1 = w + (d + 1)
    BY <1>4, <1>5
  <2> QED
    BY <1>5, <2>2, <2>3
<1>7. /\ UNCHANGED <<patch, upid, entry, runs>>
      /\ DOMAIN regs' = Registers
      /\ Jumping(jumpData, w, a)' \/ pc' = a
  BY <1>2, <1>3, <1>5, <1>6, JumpGoesOn
<1>8. Typed' /\ (Selected' <=> Selected)
  BY <1>7 DEF Typed, Selected
<1>9. CASE pc' = a
  <2>1. Arrived'
    BY <1>1, <1>2, <1>3, <1>7, <1>8, <1>9 DEF Arrived
  <2> QED
    BY <1>8, <2>1 DEF CallInv
<1>10. CASE Jumping(jumpData, w, a)'
  <2>1. w = WayLength(patch)' /\ a = patch'.replacement
    BY <1>1, <1>7
  <2>2. Jumping(jumpData, WayLength(patch), patch.replacement)'
    BY <1>10, <2>1
  <2>3. Replacing'
    BY <1>2, <1>7, <1>8, <2>2 DEF Replacing
  <2> QED
    BY <1>8, <2>3 DEF CallInv
<1> QED
  BY <1>7, <1>9, <1>10

\* The replaced instruction runs once on the way to the original, after the
\* words that compute in r11 or CTR.
LEMMA CallingOriginalGoesOn ==
  ASSUME Typed, Next, CallingOriginal, KeepsLinkage(patch)
  PROVE  CallInv'
<1>1. PICK a : a = patch.real + 4
  OBVIOUS
<1>2. /\ patch \in Patches /\ entry = "original" /\ DOMAIN regs = Registers
      /\ patch.sets \in Registers /\ a \in Nat /\ jumpToOriginal \in Nat
      /\ {"r11", "ctr"} \subseteq Registers
  BY <1>1, CodeInBuffers, PatchesAssumption DEF CallingOriginal, Typed, Registers
<1>3. ASSUME UNCHANGED <<patch, upid, entry>>, DOMAIN regs' = Registers
      PROVE  Typed' /\ a = (patch.real + 4)'
  BY <1>1, <1>3 DEF Typed
<1>4. ASSUME UNCHANGED <<patch, upid, entry>>, DOMAIN regs' = Registers, pc' = a, Ran'
      PROVE  CallInv'
  <2>1. Arrived'
    BY <1>2, <1>3, <1>4 DEF Arrived
  <2> QED
    BY <1>3, <1>4, <2>1 DEF CallInv
<1>5. CASE IsNear(a)
  <2>1. LET c == GenerateJumpToOriginal(patch)
        IN  Len(c) = 2 /\ c[1] = Replaced /\ c[2] = Ba(a)
    BY <1>1, <1>2, <1>5, OriginalWords
  <2>2. CASE At(jumpToOriginal, 0) /\ runs = 0
    <3>1. Running /\ Word = Replaced
      <4>1. 0 \in 0 .. Len(GenerateJumpToOriginal(patch)) - 1
        BY <2>1
      <4> QED
        BY <2>1, <2>2, <4>1, FetchJumpToOriginal
    <3>2. Word.op = "replaced"
      BY <3>1 DEF Replaced
    <3>3. /\ UNCHANGED <<patch, upid, entry>> /\ runs' = runs + 1 /\ pc' = pc + 4
          /\ regs' = [regs EXCEPT ![patch.sets] = Computed]
      BY <3>1, <3>2, OneWord
    <3>4. Ran' /\ DOMAIN regs' = Registers
      BY <1>2, <2>2, <3>3 DEF Ran
    <3>5. At(jumpToOriginal, 1)'
      BY <1>2, <2>2, <3>3 DEF At
    <3>6. CallingOriginal'
      BY <1>2, <1>3, <1>5, <3>3, <3>4, <3>5 DEF CallingOriginal
    <3> QED
      BY <1>3, <3>3, <3>4, <3>6 DEF CallInv
  <2>3. CASE At(jumpToOriginal, 1) /\ Ran
    <3>1. Running /\ Word = Ba(a)
      <4>1. 1 \in 0 .. Len(GenerateJumpToOriginal(patch)) - 1
        BY <2>1
      <4> QED
        BY <2>1, <2>3, <4>1, FetchJumpToOriginal
    <3>2. Word.op = "ba" /\ Word.arg = a
      BY <1>2, <1>5, <3>1 DEF Ba, IsNear, Reach
    <3>3. UNCHANGED <<patch, upid, entry, runs, regs>> /\ pc' = a
      BY <3>1, <3>2, OneWord
    <3>4. Ran'
      BY <2>3, <3>3 DEF Ran
    <3> QED
      BY <1>2, <1>4, <3>3, <3>4
  <2> QED
    BY <1>1, <1>5, <2>2, <2>3 DEF CallingOriginal
<1>6. CASE ~IsNear(a)
  <2>1. LET c == GenerateJumpToOriginal(patch)
        IN  /\ Len(c) = 5 /\ c[1] = Lis(a) /\ c[2] = Ori(a)
            /\ c[3] = Mtctr /\ c[4] = Replaced /\ c[5] = Bctr
    BY <1>1, <1>2, <1>6, OriginalWords
  <2>2. PICK k \in 0 .. 4 :
          /\ At(jumpToOriginal, k)
          /\ k = 1 => regs["r11"] = Hi(a)
          /\ k = 2 => regs["r11"] = a
          /\ k \in {3, 4} => regs["ctr"] = a
          /\ IF k = 4 THEN Ran ELSE runs = 0
    BY <1>1, <1>6 DEF CallingOriginal
  <2>3. Running /\ Word = GenerateJumpToOriginal(patch)[k + 1]
    <3>1. k \in 0 .. Len(GenerateJumpToOriginal(patch)) - 1
      BY <2>1
    <3> QED
      BY <2>2, <3>1, FetchJumpToOriginal
  <2>4. patch.sets \notin {"r11", "ctr"}
    BY <1>1, <1>6 DEF KeepsLinkage
  <2>5. ASSUME UNCHANGED <<patch, upid, entry>>, DOMAIN regs' = Registers,
               k # 4, pc' = pc + 4,
               k + 1 = 1 => regs'["r11"] = Hi(a),
               k + 1 = 2 => regs'["r11"] = a,
               k + 1 \in {3, 4} => regs'["ctr"] = a,
               IF k + 1 = 4 THEN Ran' ELSE runs' = 0
        PROVE  CallInv'
    <3>1. pc' = jumpToOriginal + 4 * (k + 1) /\ k + 1 \in 0 .. 4
      BY <1>2, <2>2, <2>5 DEF At
    <3>2. CallingOriginal'
      BY <1>2, <1>3, <1>6, <2>5, <3>1 DEF CallingOriginal, At
    <3> QED
      BY <1>3, <2>5, <3>2 DEF CallInv
  <2>6. CASE k = 0
    <3>1. Word.op = "lis" /\ Word.arg * 65536 = Hi(a)
      BY <2>1, <2>3, <2>6 DEF Lis, Hi
    <3>2. /\ UNCHANGED <<patch, upid, entry, runs>> /\ pc' = pc + 4
          /\ regs' = [regs EXCEPT !["r11"] = Hi(a)]
      BY <2>3, <3>1, OneWord
    <3>3. regs'["r11"] = Hi(a) /\ DOMAIN regs' = Registers
      BY <1>2, <3>2
    <3> QED
      BY <2>2, <2>5, <2>6, <3>2, <3>3
  <2>7. CASE k = 1
    <3>1. Word.op = "ori" /\ Hi(a) + Word.arg = a
      BY <1>2, <2>1, <2>3, <2>7 DEF Ori, Hi
    <3>2. /\ UNCHANGED <<patch, upid, entry, runs>> /\ pc' = pc + 4
          /\ regs' = [regs EXCEPT !["r11"] = a]
      BY <2>2, <2>3, <2>7, <3>1, OneWord
    <3>3. regs'["r11"] = a /\ DOMAIN regs' = Registers
      BY <1>2, <3>2
    <3> QED
      BY <2>2, <2>5, <2>7, <3>2, <3>3
  <2>8. CASE k = 2
    <3>1. Word.op = "mtctr"
      BY <2>1, <2>3, <2>8 DEF Mtctr
    <3>2. /\ UNCHANGED <<patch, upid, entry, runs>> /\ pc' = pc + 4
          /\ regs' = [regs EXCEPT !["ctr"] = a]
      BY <2>2, <2>3, <2>8, <3>1, OneWord
    <3>3. regs'["ctr"] = a /\ DOMAIN regs' = Registers
      BY <1>2, <3>2
    <3> QED
      BY <2>2, <2>5, <2>8, <3>2, <3>3
  <2>9. CASE k = 3
    <3>1. Word.op = "replaced"
      BY <2>1, <2>3, <2>9 DEF Replaced
    <3>2. /\ UNCHANGED <<patch, upid, entry>> /\ runs' = runs + 1 /\ pc' = pc + 4
          /\ regs' = [regs EXCEPT ![patch.sets] = Computed]
      BY <2>3, <3>1, OneWord
    <3>3. regs'["ctr"] = a /\ DOMAIN regs' = Registers
      BY <1>2, <2>2, <2>4, <2>9, <3>2
    <3>4. Ran'
      BY <1>2, <2>2, <2>9, <3>2 DEF Ran
    <3> QED
      BY <2>2, <2>5, <2>9, <3>2, <3>3, <3>4
  <2>10. CASE k = 4
    <3>1. Word.op = "bctr"
      BY <2>1, <2>3, <2>10 DEF Bctr
    <3>2. UNCHANGED <<patch, upid, entry, runs, regs>> /\ pc' = a
      BY <2>2, <2>3, <2>10, <3>1, OneWord
    <3>3. Ran'
      BY <2>2, <2>10, <3>2 DEF Ran
    <3> QED
      BY <1>2, <1>4, <3>2, <3>3
  <2> QED
    BY <2>2, <2>6, <2>7, <2>8, <2>9, <2>10
<1> QED
  BY <1>5, <1>6

\* A call starts at the function or at jumpToOriginal.
LEMMA StartEnters ==
  ASSUME Typed, NEW e \in {"function", "original"}, Start(e)
  PROVE  CallInv'
<1>1. /\ patch' = patch /\ entry' = e /\ upid' \in Upids /\ runs' = 0
      /\ DOMAIN regs' = Registers
      /\ pc' = IF e = "function" THEN patch.real ELSE jumpToOriginal
  BY DEF Start
<1>2. Typed'
  BY <1>1 DEF Typed
<1>3. CASE e = "function"
  <2>1. Entered'
    BY <1>1, <1>3 DEF Entered
  <2> QED
    BY <1>2, <2>1 DEF CallInv
<1>4. CASE e = "original"
  <2>1. At(jumpToOriginal, 0)'
    BY <1>1, <1>4, CodeInBuffers DEF At
  <2>2. CallingOriginal'
    BY <1>1, <1>4, <2>1 DEF CallingOriginal
  <2> QED
    BY <1>2, <2>2 DEF CallInv
<1> QED
  BY <1>3, <1>4

\* Only a call that has arrived is followed by another.
LEMMA ArrivedGoesOn ==
  ASSUME Typed, Next, Arrived
  PROVE  CallInv'
<1>1. ~Running
  BY NotFetched DEF Arrived
<1>2. PICK e \in {"function", "original"} : Call(e)
  BY <1>1 DEF Next, ExecuteLis, ExecuteOri, ExecuteLwz, ExecuteMtctr, ExecuteCmpwi,
              ExecuteBeq, ExecuteBa, ExecuteBctr, ExecuteReplaced, Fetch
<1> QED
  BY <1>2, StartEnters DEF Call

\* The first call starts where every call does.
LEMMA InitEnters == Init => CallInv
<1> SUFFICES ASSUME Init PROVE CallInv
  OBVIOUS
<1>1. Typed /\ runs = 0
  BY DEF Init, Typed
<1>2. CASE entry = "function"
  <2>1. Entered
    BY <1>1, <1>2 DEF Init, Entered
  <2> QED
    BY <1>1, <2>1 DEF CallInv
<1>3. CASE entry = "original"
  <2>1. At(jumpToOriginal, 0)
    BY <1>1, <1>3, CodeInBuffers DEF Init, At
  <2>2. CallingOriginal
    BY <1>1, <1>3, <2>1 DEF CallingOriginal
  <2> QED
    BY <1>1, <2>2 DEF CallInv
<1> QED
  BY <1>2, <1>3 DEF Init

\* No patch replaces an instruction whose result a long jump after it would lose.
LinkageKept == \A p \in Patches : KeepsLinkage(p)

\* Every call is in a known part of the code, with the registers that part left.
THEOREM CallsFollowed ==
  ASSUME LinkageKept
  PROVE  Spec => []CallInv
<1>1. CallInv /\ Next => CallInv'
  <2> SUFFICES ASSUME CallInv, Next PROVE CallInv'
    OBVIOUS
  <2>1. Typed /\ KeepsLinkage(patch)
    BY DEF CallInv, Typed, LinkageKept
  <2> QED
    BY <2>1, EnteredGoesOn, ChoosingGoesOn, DecliningGoesOn, ReplacingGoesOn,
       CallingOriginalGoesOn, ArrivedGoesOn DEF CallInv
<1>2. CallInv /\ UNCHANGED vars => CallInv'
  BY DEF vars, CallInv, Typed, Entered, Choosing, Declining, Replacing, CallingOriginal,
         Arrived, Jumping, At, Ran, Selected
<1> QED
  BY <1>1, <1>2, InitEnters, PTL DEF Spec

\* A jump is executed to its end.
LEMMA JumpRuns ==
  ASSUME Typed, NeedsTrampoline(patch), NEW a \in Nat, NEW s \in Nat,
         Jumping(jumpData, s, a),
         s + Len(Jump(a)) <= Len(GenerateReplacementJump(patch)),
         Len(GenerateReplacementJump(patch)) \in Nat
  PROVE  Running
<1>1. PICK d \in 0 .. 3 : (d = 0 \/ ~IsNear(a)) /\ At(jumpData, s + d)
  BY DEF Jumping
<1>2. d < Len(Jump(a)) /\ Len(Jump(a)) \in Nat
  BY <1>1, JumpWords
<1>3. s + d \in 0 .. Len(GenerateReplacementJump(patch)) - 1
  BY <1>2
<1> QED
  BY <1>1, <1>3, FetchJumpData

\* Until it has arrived a call runs generated code.
LEMMA CodeRuns ==
  ASSUME Typed, Entered \/ Choosing \/ Declining \/ Replacing \/ CallingOriginal
  PROVE  Running
<1> DEFINE n == ChoiceLength(patch)
           w == WayLength(patch)
           a == patch.real + 4
           b == patch.replacement
           c == GenerateReplacementJump(patch)
<1>1. patch \in Patches /\ a \in Nat /\ b \in Nat
  BY CodeInBuffers DEF Typed
<1>2. /\ Len(Jump(a)) \in Nat /\ Len(Jump(b)) \in Nat /\ Len(Jump(b)) # 0
  <2>1. Len(Jump(a)) \in Nat
    BY <1>1, JumpWords
  <2>2. Len(Jump(b)) \in Nat /\ Len(Jump(b)) # 0
    BY <1>1, JumpWords
  <2> QED
    BY <2>1, <2>2
<1>3. /\ w \in Nat /\ n \in Nat /\ Len(c) = w + Len(Jump(b))
      /\ patch.targetProcess # FP_TARGET_PROCESS_ALL => w = n + 1 + Len(Jump(a))
  BY <1>1, ReplacementJumpWords
<1>4. patch.targetProcess # FP_TARGET_PROCESS_ALL => NeedsTrampoline(patch)
  BY DEF NeedsTrampoline
<1> HIDE DEF n, w, a, b, c
<1>5. CASE Entered
  BY <1>5, FetchFunction DEF Entered
<1>6. CASE Choosing
  <2>1. PICK k \in 0 .. n : At(jumpData, k)
    BY <1>6 DEF Choosing, n
  <2>2. patch.targetProcess # FP_TARGET_PROCESS_ALL
    BY <1>6 DEF Choosing
  <2>3. k \in 0 .. Len(c) - 1
    BY <1>2, <1>3, <2>2
  <2> QED
    BY <1>4, <2>1, <2>2, <2>3, FetchJumpData DEF c
<1>7. CASE Declining
  <2>1. /\ Jumping(jumpData, n + 1, a)
        /\ patch.targetProcess # FP_TARGET_PROCESS_ALL
    BY <1>7 DEF Declining, n, a
  <2>2. n + 1 + Len(Jump(a)) <= Len(c) /\ Len(c) \in Nat /\ n + 1 \in Nat
    BY <1>2, <1>3, <2>1
  <2> QED
    BY <1>1, <1>4, <2>1, <2>2, JumpRuns DEF c
<1>8. CASE Replacing
  <2>1. Jumping(jumpData, w, b) /\ NeedsTrampoline(patch)
    BY <1>8 DEF Replacing, w, b
  <2>2. w + Len(Jump(b)) <= Len(c) /\ Len(c) \in Nat
    BY <1>2, <1>3
  <2> QED
    BY <1>1, <1>3, <2>1, <2>2, JumpRuns DEF c
<1>9. CASE CallingOriginal
  <2>1. PICK k \in 0 .. 4 : At(jumpToOriginal, k) /\ (IsNear(a) => k <= 1)
    BY <1>9 DEF CallingOriginal, a
  <2>2. k \in 0 .. Len(GenerateJumpToOriginal(patch)) - 1
    <3>1. CASE IsNear(a)
      <4>1. Len(GenerateJumpToOriginal(patch)) = 2
        BY <1>1, <3>1, OriginalWords DEF a
      <4> QED
        BY <2>1, <3>1, <4>1
    <3>2. CASE ~IsNear(a)
      <4>1. Len(GenerateJumpToOriginal(patch)) = 5
        BY <1>1, <3>2, OriginalWords DEF a
      <4> QED
        BY <2>1, <4>1
    <3> QED
      BY <3>1, <3>2
  <2> QED
    BY <2>1, <2>2, FetchJumpToOriginal
<1> QED
  BY <1>5, <1>6, <1>7, <1>8, <1>9

\* For any addresses and processes: a call that leaves the generated code is at
\* the replacement if the process is to run it (function_patcher.cpp:82), and at
\* the original otherwise; one of jumpToOriginal is at the original.
THEOREM RightFunctionAlwaysRuns ==
  ASSUME LinkageKept
  PROVE  Spec => []RightFunctionRuns
<1>1. CallInv => RightFunctionRuns
  BY CodeRuns DEF CallInv, RightFunctionRuns, Arrived
<1> QED
  BY <1>1, CallsFollowed, PTL

\* For any addresses and processes: the original goes on at its second instruction
\* after the first was executed, once, with what it computed in its register
\* (function_patcher.cpp:78).
THEOREM AlwaysRunsAsUnpatched ==
  ASSUME LinkageKept
  PROVE  Spec => []RunsAsUnpatched
<1>1. CallInv => RunsAsUnpatched
  <2> SUFFICES ASSUME CallInv, pc = patch.real + 4 PROVE Ran
    BY DEF RunsAsUnpatched, Ran
  <2>1. Typed /\ ~Running
    BY NotFetched DEF CallInv
  <2>2. Arrived
    BY <2>1, CodeRuns DEF CallInv
  <2> QED
    BY <2>2 DEF Arrived
<1> QED
  BY <1>1, CallsFollowed, PTL
==============================================================================
