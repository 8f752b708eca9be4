------------------------- MODULE AddressLookupProofs -------------------------
(****************************************************************************)
(* Theorems about AddressLookup, for every set of modules with their tables *)
(* of sections and symbols, every patch, title and version, and every       *)
(* branch and address of 32 bits.                                           *)
(****************************************************************************)
EXTENDS AddressLookup, TLAPS, SequenceTheorems

USE DEF at, given, Goto
------------------------------------------------------------------------------
(* The inductive invariant.                                                 *)

InModule == {"sections", "symtabs", "symbols"}

\* A step of one kind of lookup is for a patch of that kind.
KindInv ==
  /\ pc = "export" => patch.kind = "library"
  /\ pc \in {"count", "info"} => patch.kind = "offset"
  /\ pc \in {"call", "walk"} \union InModule => patch.kind = "name"
  /\ patch.kind = "library" => word \in WordsAtExport(patch)

\* There is always a module; and their number counted is right, as long as the
\* loader was idle.
CountInv ==
  /\ Len(loaded) >= 1
  /\ pc = "info" => /\ Len(loaded) <= number \/ "load" \in changed
                    /\ number <= Len(loaded) \/ "unload" \in changed

\* No module before the one the walk is at has the name; once in a module,
\* it has.
ModuleInv ==
  /\ pc \in {"walk"} \union InModule =>
       /\ rpl >= 1
       /\ \A r \in 1 .. Len(loaded) : r < rpl => loaded[r].name # PureRPLName
  /\ pc \in InModule => rpl <= Len(loaded) /\ loaded[rpl].name = PureRPLName

\* textSection is the last text section before section n.
LastTextBefore(n) ==
  \/ /\ textSection = 0
     /\ \A i \in 1 .. Len(loaded[rpl].sections) : i < n => ~IsText(loaded[rpl], i)
  \/ /\ textSection \in 1 .. Len(loaded[rpl].sections)
     /\ textSection < n
     /\ IsText(loaded[rpl], textSection)
     /\ \A i \in 1 .. Len(loaded[rpl].sections) : textSection < i /\ i < n => ~IsText(loaded[rpl], i)

TextInv ==
  /\ pc \in {"check", "call", "walk"} => textSection = 0
  /\ pc \in InModule => section >= 1
  /\ pc = "sections" => LastTextBefore(section)
  /\ pc \in {"symtabs", "symbols"} => LastTextBefore(Len(loaded[rpl].sections) + 1)

\* No symbol that the loops have passed is the function.
NoneInTable(i, n) ==
  \A j \in 1 .. Len(loaded[rpl].sections[i].symbols) :
    j < n => ~SymbolMatches(loaded[rpl].sections[i].symbols[j])

SymbolInv ==
  /\ pc \in {"symtabs", "symbols"} =>
       \A i \in 1 .. Len(loaded[rpl].sections) :
         i < section /\ IsSymbolTable(loaded[rpl], i) =>
           NoneInTable(i, Len(loaded[rpl].sections[i].symbols) + 1)
  /\ pc = "symbols" =>
       /\ section <= Len(loaded[rpl].sections)
       /\ IsSymbolTable(loaded[rpl], section)
       /\ symbol >= 1
       /\ NoneInTable(section, symbol)

IInv ==
  /\ TypeOK
  /\ KindInv /\ CountInv /\ ModuleInv /\ TextInv /\ SymbolInv
  /\ BranchFollowed /\ FoundByName /\ FoundByOffset /\ StopsOnlyAfterUnload
------------------------------------------------------------------------------
(* Facts about tables and branches.                                         *)

\* The tables of a loaded module are of the loader's types.
LEMMA TablesTyped ==
  ASSUME TypeOK, NEW q \in 1 .. Len(loaded)
  PROVE  /\ loaded[q] \in RplRecords
         /\ loaded[q].sections \in Seq(SectionRecords)
         /\ \A i \in 1 .. Len(loaded[q].sections) :
              /\ loaded[q].sections[i] \in SectionRecords
              /\ loaded[q].sections[i].symbols \in Seq(SymbolRecords)
              /\ \A j \in 1 .. Len(loaded[q].sections[i].symbols) :
                   loaded[q].sections[i].symbols[j] \in SymbolRecords
<1>1. loaded[q] \in RplRecords
  <2>1. loaded \in Seq(Rpls)
    BY DEF TypeOK
  <2>2. loaded[q] \in Rpls
    BY <2>1, ElementOfSeq
  <2> QED
    BY <2>2, RplsAssumption
<1>2. loaded[q].sections \in Seq(SectionRecords)
  BY <1>1 DEF RplRecords
<1>3. ASSUME NEW i \in 1 .. Len(loaded[q].sections)
      PROVE  /\ loaded[q].sections[i] \in SectionRecords
             /\ loaded[q].sections[i].symbols \in Seq(SymbolRecords)
  <2>1. loaded[q].sections[i] \in SectionRecords
    BY <1>2, ElementOfSeq
  <2> QED
    BY <2>1 DEF SectionRecords
<1>4. ASSUME NEW i \in 1 .. Len(loaded[q].sections),
             NEW j \in 1 .. Len(loaded[q].sections[i].symbols)
      PROVE  loaded[q].sections[i].symbols[j] \in SymbolRecords
  BY <1>3, ElementOfSeq
<1> QED
  BY <1>1, <1>2, <1>3, <1>4

\* The sizes of the machine's numbers, so far as they matter.
LEMMA Sizes ==
  /\ SignBit \in Nat /\ SignBit > 0
  /\ Displacements = 2 * SignBit
  /\ AddressSpace = 128 * SignBit
  /\ SignExtension = 127 * SignBit
  /\ Addresses = 0 .. AddressSpace - 1
<1>1. SignBit \in Nat /\ SignBit > 0
  BY SMT DEF SignBit
<1> QED
  BY <1>1, SMT DEF Displacements, AddressSpace, SignExtension, Addresses

\* A sum of two addresses in 32 bits is an address.
LEMMA WrapTyped ==
  ASSUME NEW a \in Addresses, NEW b \in Addresses
  PROVE  Wrap(a + b) \in Addresses
BY Sizes, SMT DEF Wrap

\* The unsigned sum the code takes is the signed one the processor takes.
LEMMA BranchArithmetic ==
  ASSUME NEW a \in Addresses, NEW w \in Instructions
  PROVE  /\ Wrap(a + AddressDiff(w)) = Wrap(a + Signed(w.li))
         /\ Wrap(a + AddressDiff(w)) \in Addresses
<1>1. w.li \in 0 .. Displacements - 1
  BY DEF Instructions
<1>2. CASE w.li < SignBit
  <2>1. w.li % SignBit = w.li
    BY <1>1, <1>2, Sizes, SMT
  <2>2. AddressDiff(w) = w.li /\ Signed(w.li) = w.li
    BY <1>1, <1>2, <2>1, Sizes, SMT DEF AddressDiff, Signed
  <2> QED
    BY <2>2, <1>1, <1>2, Sizes, SMT DEF Wrap
<1>3. CASE w.li >= SignBit
  <2>1. w.li % SignBit = w.li - SignBit
    BY <1>1, <1>3, Sizes, SMT
  <2>2. /\ AddressDiff(w) = w.li - SignBit + SignExtension
        /\ Signed(w.li) = w.li - Displacements
    BY <1>1, <1>3, <2>1, Sizes, SMT DEF AddressDiff, Signed
  <2>3. a + AddressDiff(w) = a + Signed(w.li) + AddressSpace
    BY <2>2, <1>1, Sizes, SMT
  <2>4. /\ a + Signed(w.li) \in Int
        /\ a + Signed(w.li) < AddressSpace
        /\ 0 <= a + Signed(w.li) + AddressSpace
    BY <2>2, <1>1, <1>3, Sizes, SMT
  <2>5. a + AddressDiff(w) < AddressSpace + AddressSpace
    BY <2>2, <1>1, <1>3, Sizes, SMT
  <2> QED
    BY <2>3, <2>4, <2>5, Sizes, SMT DEF Wrap
<1> QED
  BY <1>1, <1>2, <1>3, Sizes, SMT

\* The symbols the walk takes are the functions in the text section.
LEMMA MatchesAreFunctions ==
  ASSUME TypeOK, rpl \in 1 .. Len(loaded), LastTextBefore(Len(loaded[rpl].sections) + 1),
         NEW s \in SymbolRecords
  PROVE  SymbolMatches(s) <=> /\ s.name = patch.functionName
                              /\ s.type = "STT_FUNC"
                              /\ IsTextSection(loaded[rpl], s.shndx)
<1>1. Len(loaded[rpl].sections) \in Nat /\ DOMAIN loaded[rpl].sections = 1 .. Len(loaded[rpl].sections)
  BY TablesTyped, LenProperties
<1>2. s.shndx \in Nat
  BY DEF SymbolRecords
<1>3. CASE textSection = 0
  <2>1. \A i \in 1 .. Len(loaded[rpl].sections) : ~IsText(loaded[rpl], i)
    BY <1>3, <1>1 DEF LastTextBefore
  <2> QED
    BY <1>1, <1>3, <2>1 DEF SymbolMatches, IsTextSection
<1>4. CASE textSection # 0
  <2>1. /\ textSection \in 1 .. Len(loaded[rpl].sections)
        /\ IsText(loaded[rpl], textSection)
        /\ \A i \in 1 .. Len(loaded[rpl].sections) : textSection < i => ~IsText(loaded[rpl], i)
    BY <1>4, <1>1 DEF LastTextBefore
  <2>2. IsTextSection(loaded[rpl], textSection)
    BY <2>1, <1>1 DEF IsTextSection
  <2>3. IsTextSection(loaded[rpl], s.shndx) => s.shndx = textSection
    BY <2>1, <1>1, <1>2 DEF IsTextSection
  <2> QED
    BY <2>2, <2>3, <1>4 DEF SymbolMatches
<1> QED
  BY <1>3, <1>4

\* The lengths and the types of the loader's list after a load and an unload.
LEMMA LoaderList ==
  ASSUME NEW S, NEW s \in Seq(S), Len(s) >= 1
  PROVE  /\ \A k \in 2 .. Len(s) + 1, e \in S : InsertAt(s, k, e) \in Seq(S) /\ Len(InsertAt(s, k, e)) = Len(s) + 1
         /\ \A k \in 2 .. Len(s) : RemoveAt(s, k) \in Seq(S)
         /\ \A k \in 2 .. Len(s) : Len(RemoveAt(s, k)) = Len(s) - 1
<1>1. Len(s) \in Nat /\ \A i \in 1 .. Len(s) : s[i] \in S
  BY LenProperties, ElementOfSeq
<1>2. ASSUME NEW k \in 2 .. Len(s) + 1
      PROVE  SubSeq(s, 1, k - 1) \in Seq(S) /\ Len(SubSeq(s, 1, k - 1)) = k - 1
  <2>1. \A i \in 1 .. k - 1 : s[i] \in S
    BY <1>1
  <2>2. /\ SubSeq(s, 1, k - 1) \in Seq(S)
        /\ Len(SubSeq(s, 1, k - 1)) = IF 1 <= k - 1 THEN k - 1 - 1 + 1 ELSE 0
    BY <1>1, <2>1, SubSeqProperties
  <2> QED
    BY <2>2, <1>1
<1>3. ASSUME NEW k \in 2 .. Len(s) + 1
      PROVE  /\ SubSeq(s, k, Len(s)) \in Seq(S)
             /\ Len(SubSeq(s, k, Len(s))) = Len(s) - k + 1
  <2>1. \A i \in k .. Len(s) : s[i] \in S
    BY <1>1
  <2>2. /\ SubSeq(s, k, Len(s)) \in Seq(S)
        /\ Len(SubSeq(s, k, Len(s))) = IF k <= Len(s) THEN Len(s) - k + 1 ELSE 0
    BY <1>1, <2>1, SubSeqProperties
  <2> QED
    BY <2>2, <1>1
<1>4. ASSUME NEW k \in 2 .. Len(s) + 1, NEW e \in S
      PROVE  InsertAt(s, k, e) \in Seq(S) /\ Len(InsertAt(s, k, e)) = Len(s) + 1
  <2>1. <<e>> \in Seq(S) /\ Len(<<e>>) = 1
    OBVIOUS
  <2>2. /\ SubSeq(s, 1, k - 1) \o <<e>> \in Seq(S)
        /\ Len(SubSeq(s, 1, k - 1) \o <<e>>) = k
    BY <2>1, <1>2, ConcatProperties
  <2>3. /\ InsertAt(s, k, e) \in Seq(S)
        /\ Len(InsertAt(s, k, e)) = k + (Len(s) - k + 1)
    BY <2>2, <1>3, ConcatProperties DEF InsertAt
  <2> QED
    BY <2>3, <1>1
<1>5. ASSUME NEW k \in 2 .. Len(s)
      PROVE  RemoveAt(s, k) \in Seq(S) /\ Len(RemoveAt(s, k)) = Len(s) - 1
  <2>1. k + 1 \in 2 .. Len(s) + 1 /\ k \in 2 .. Len(s) + 1
    BY <1>1
  <2>2. /\ SubSeq(s, k + 1, Len(s)) \in Seq(S)
        /\ Len(SubSeq(s, k + 1, Len(s))) = Len(s) - k
    BY <2>1, <1>3, <1>1
  <2>3. /\ SubSeq(s, 1, k - 1) \in Seq(S)
        /\ Len(SubSeq(s, 1, k - 1)) = k - 1
    BY <2>1, <1>2
  <2>4. /\ RemoveAt(s, k) \in Seq(S)
        /\ Len(RemoveAt(s, k)) = (k - 1) + (Len(s) - k)
    BY <2>2, <2>3, ConcatProperties DEF RemoveAt
  <2> QED
    BY <2>4, <1>1
<1> QED
  BY <1>4, <1>5
------------------------------------------------------------------------------
(* Every step keeps the invariant.                                          *)

\* The attempt begins with the invariant.
LEMMA InitIInv == Init => IInv
<1> SUFFICES ASSUME Init PROVE IInv
  OBVIOUS
<1> USE DEF Init
<1>1. TypeOK
  <2>1. loaded \in Seq(Rpls)
    <3>1. PICK m \in Rpls : loaded = <<m>>
      OBVIOUS
    <3> QED
      BY <3>1
  <2>2. word \in Instructions
    <3>1. OwnJump \in Instructions
      <4>1. 512 \in 0 .. Displacements - 1
        <5>1. SignBit > 512
          BY SMT DEF SignBit
        <5> QED
          BY <5>1, Sizes, SMT
      <4> QED
        BY <4>1 DEF OwnJump, Instructions
    <3>2. CASE patch.kind = "library"
      <4>1. patch.first \in Instructions
        BY <3>2, PatchesAssumption DEF ForLibrary, ForExecutable
      <4> QED
        BY <3>1, <3>2, <4>1 DEF WordsAtExport
    <3> QED
      BY <3>1, <3>2
  <2>3. result \in Addresses
    BY Sizes, SMT
  <2> QED
    BY <2>1, <2>2, <2>3 DEF TypeOK, Running, Loaders
<1>2. KindInv /\ CountInv /\ ModuleInv /\ TextInv /\ SymbolInv
  BY DEF KindInv, CountInv, ModuleInv, TextInv, SymbolInv, InModule
<1>3. BranchFollowed /\ FoundByName /\ FoundByOffset /\ StopsOnlyAfterUnload
  BY DEF BranchFollowed, FoundByName, FoundByOffset, StopsOnlyAfterUnload
<1> QED
  BY <1>1, <1>2, <1>3 DEF IInv

\* The attempt is given up, or goes on as its kind asks.
LEMMA ShouldBePatchedStep == IInv /\ ShouldBePatched => IInv'
<1> SUFFICES ASSUME IInv, ShouldBePatched PROVE IInv'
  OBVIOUS
<1> USE DEF IInv
<1>0. FirstStep \in {"export", "count", "call"}
  <2>1. patch.kind \in PatchKinds
    BY PatchesAssumption DEF TypeOK, ForExecutable, ForLibrary, PatchKinds
  <2> QED
    BY <2>1 DEF FirstStep, PatchKinds
<1>1. /\ pc = "check"
      /\ UNCHANGED <<loaded, changed, given, at>>
      /\ pc' \in {"skipped", "stopped", FirstStep}
      /\ pc' = "stopped" => version.base = NotInstalled
  <2>1. TitleVersion(title) = NotInstalled => version.base = NotInstalled
    BY DEF TitleVersion
  <2> QED
    BY <1>0, <2>1 DEF ShouldBePatched
<1>2. /\ pc' \in {"skipped", "stopped", "export", "count", "call"}
      /\ pc' = "export" => patch.kind = "library"
      /\ pc' = "count" => patch.kind = "offset"
      /\ pc' = "call" => patch.kind = "name"
  <2>1. patch.kind \in PatchKinds
    BY PatchesAssumption DEF TypeOK, ForExecutable, ForLibrary, PatchKinds
  <2> QED
    BY <1>1, <2>1 DEF FirstStep, PatchKinds
<1>3. TypeOK'
  BY <1>1, <1>2 DEF TypeOK, Running, Ends
<1>4. KindInv' /\ CountInv' /\ ModuleInv' /\ TextInv' /\ SymbolInv'
  BY <1>1, <1>2 DEF KindInv, CountInv, ModuleInv, TextInv, SymbolInv, InModule, WordsAtExport, FunctionAt
<1>5. BranchFollowed' /\ FoundByName' /\ FoundByOffset'
  BY <1>2 DEF BranchFollowed, FoundByName, FoundByOffset
<1>6. StopsOnlyAfterUnload'
  BY <1>1 DEF StopsOnlyAfterUnload
<1> QED
  BY <1>3, <1>4, <1>5, <1>6

\* The branch at the export is followed to the function.
LEMMA LibraryStep == IInv /\ GetEffectiveAddressOfFunction => IInv'
<1> SUFFICES ASSUME IInv, GetEffectiveAddressOfFunction PROVE IInv'
  OBVIOUS
<1> USE DEF IInv
<1>1. /\ pc = "export" /\ pc' = "found"
      /\ patch.kind = "library"
      /\ result' = FollowBranch(patch.export, word)
      /\ UNCHANGED <<loaded, changed, given, number, rpl, section, symbol, textSection>>
  BY DEF GetEffectiveAddressOfFunction, KindInv
<1>2. patch.export \in Addresses /\ patch.first \in Instructions /\ word \in Instructions
  BY <1>1, PatchesAssumption DEF TypeOK, ForLibrary, ForExecutable
<1>3. FollowBranch(patch.export, word) \in Addresses
  BY <1>2, BranchArithmetic DEF FollowBranch
<1>4. FollowBranch(patch.export, word) = FunctionAt(patch)
  <2>1. word = patch.first \/ (word = OwnJump /\ FunctionAt(patch) = patch.export)
    BY <1>1 DEF KindInv, WordsAtExport
  <2>2. CASE word = patch.first
    BY <2>2, <1>2, BranchArithmetic DEF FollowBranch, FunctionAt, IsRelativeBranch, JumpsRelative
  <2>3. CASE word = OwnJump /\ FunctionAt(patch) = patch.export
    BY <2>3 DEF FollowBranch, IsRelativeBranch, OwnJump
  <2> QED
    BY <2>1, <2>2, <2>3
<1>5. TypeOK'
  BY <1>1, <1>3 DEF TypeOK, Ends
<1>6. KindInv' /\ CountInv' /\ ModuleInv' /\ TextInv' /\ SymbolInv'
  BY <1>1 DEF KindInv, CountInv, ModuleInv, TextInv, SymbolInv, InModule, WordsAtExport, FunctionAt
<1>7. BranchFollowed'
  BY <1>1, <1>4 DEF BranchFollowed, FunctionAt
<1>8. FoundByName' /\ FoundByOffset' /\ StopsOnlyAfterUnload'
  BY <1>1 DEF FoundByName, FoundByOffset, StopsOnlyAfterUnload
<1> QED
  BY <1>5, <1>6, <1>7, <1>8

\* The modules are counted.
LEMMA CountStep == IInv /\ GetNumberOfRPLs => IInv'
<1> SUFFICES ASSUME IInv, GetNumberOfRPLs PROVE IInv'
  OBVIOUS
<1> USE DEF IInv
<1>1. /\ pc = "count" /\ pc' = "info"
      /\ patch.kind = "offset"
      /\ number' = Len(loaded)
      /\ UNCHANGED <<loaded, changed, given, rpl, section, symbol, textSection, result>>
  BY DEF GetNumberOfRPLs, KindInv
<1>2. Len(loaded) \in Nat
  BY LenProperties DEF TypeOK
<1>3. TypeOK'
  BY <1>1, <1>2 DEF TypeOK, Running
<1>4. KindInv' /\ ModuleInv' /\ TextInv' /\ SymbolInv'
  BY <1>1 DEF KindInv, ModuleInv, TextInv, SymbolInv, InModule, WordsAtExport, FunctionAt
<1>5. CountInv'
  BY <1>1, <1>2 DEF CountInv
<1>6. BranchFollowed' /\ FoundByName' /\ FoundByOffset' /\ StopsOnlyAfterUnload'
  BY <1>1 DEF BranchFollowed, FoundByName, FoundByOffset, StopsOnlyAfterUnload
<1> QED
  BY <1>3, <1>4, <1>5, <1>6

\* The call that tells of the modules refuses.
LEMMA RefusedStep == IInv /\ GetRPLInfoRefused => IInv'
<1> SUFFICES ASSUME IInv, GetRPLInfoRefused PROVE IInv'
  OBVIOUS
<1> USE DEF IInv
<1>1. /\ pc = "info" /\ pc' = "stopped"
      /\ patch.kind = "offset"
      /\ Len(loaded) < number
      /\ UNCHANGED <<loaded, changed, given, at>>
  BY DEF GetRPLInfoRefused, KindInv
<1>2. "unload" \in changed
  <2>1. Len(loaded) \in Nat /\ number \in Nat
    BY LenProperties DEF TypeOK
  <2> QED
    BY <1>1, <2>1 DEF CountInv
<1>3. TypeOK'
  BY <1>1 DEF TypeOK, Ends
<1>4. KindInv' /\ CountInv' /\ ModuleInv' /\ TextInv' /\ SymbolInv'
  BY <1>1 DEF KindInv, CountInv, ModuleInv, TextInv, SymbolInv, InModule, WordsAtExport, FunctionAt
<1>5. BranchFollowed' /\ FoundByName' /\ FoundByOffset' /\ StopsOnlyAfterUnload'
  BY <1>1, <1>2 DEF BranchFollowed, FoundByName, FoundByOffset, StopsOnlyAfterUnload
<1> QED
  BY <1>3, <1>4, <1>5

\* The modules told of are searched for the name.
LEMMA InfoStep == IInv /\ GetRPLInfo => IInv'
<1> SUFFICES ASSUME IInv, GetRPLInfo PROVE IInv'
  OBVIOUS
<1> USE DEF IInv
<1>1. /\ pc = "info" /\ patch.kind = "offset"
      /\ Len(loaded) >= number
      /\ UNCHANGED <<loaded, changed, given, number, rpl, section, symbol, textSection>>
  BY DEF GetRPLInfo, KindInv
<1>2. Len(loaded) \in Nat /\ number \in Nat /\ DOMAIN loaded = 1 .. Len(loaded)
  BY LenProperties DEF TypeOK
<1>3. CASE Matching = {} /\ pc' = "notFound" /\ UNCHANGED result
  <2>1. ASSUME "load" \notin changed
        PROVE  {m \in Range(loaded) : IsSuffix(patch.executableName, m.file)} = {}
    <3>1. Len(loaded) <= number
      BY <1>1, <2>1 DEF CountInv
    <3>2. number = Len(loaded)
      <4> HIDE DEF IInv
      <4>1. \A m, n \in Nat : m >= n /\ m <= n => n = m
        OBVIOUS
      <4> QED
        BY <1>1, <1>2, <3>1, <4>1
    <3>3. \A q \in 1 .. Len(loaded) : ~IsSuffix(patch.executableName, loaded[q].file)
      BY <1>3, <3>2 DEF Matching
    <3>4. \A m \in Range(loaded) : \E q \in 1 .. Len(loaded) : m = loaded[q]
      BY <1>2 DEF Range
    <3> QED
      BY <3>3, <3>4
  <2>2. FoundByOffset'
    BY <1>1, <1>3, <2>1 DEF FoundByOffset
  <2>3. TypeOK'
    BY <1>1, <1>3 DEF TypeOK, Ends
  <2>4. KindInv' /\ CountInv' /\ ModuleInv' /\ TextInv' /\ SymbolInv'
    BY <1>1, <1>3 DEF KindInv, CountInv, ModuleInv, TextInv, SymbolInv, InModule, WordsAtExport, FunctionAt
  <2>5. BranchFollowed' /\ FoundByName' /\ StopsOnlyAfterUnload'
    BY <1>1, <1>3 DEF BranchFollowed, FoundByName, StopsOnlyAfterUnload
  <2> QED
    BY <2>2, <2>3, <2>4, <2>5
<1>4. ASSUME NEW q \in Matching,
             result' = Wrap(loaded[q].textAddr + patch.textOffset), pc' = "found"
      PROVE  IInv'
  <2>1. /\ q \in 1 .. Len(loaded)
        /\ IsSuffix(patch.executableName, loaded[q].file)
    BY <1>1, <1>2 DEF Matching
  <2>2. loaded[q].textAddr \in Addresses /\ patch.textOffset \in Addresses
    BY <1>1, <2>1, TablesTyped, PatchesAssumption DEF RplRecords, TypeOK, ForExecutable, ForLibrary
  <2>3. FoundByOffset'
    <3>1. loaded[q] \in Range(loaded)
      BY <2>1, <1>2 DEF Range
    <3> QED
      BY <1>1, <1>4, <2>1, <3>1 DEF FoundByOffset
  <2>4. TypeOK'
    BY <1>1, <1>4, <2>2, WrapTyped DEF TypeOK, Ends
  <2>5. KindInv' /\ CountInv' /\ ModuleInv' /\ TextInv' /\ SymbolInv'
    BY <1>1, <1>4 DEF KindInv, CountInv, ModuleInv, TextInv, SymbolInv, InModule, WordsAtExport, FunctionAt
  <2>6. BranchFollowed' /\ FoundByName' /\ StopsOnlyAfterUnload'
    BY <1>1, <1>4 DEF BranchFollowed, FoundByName, StopsOnlyAfterUnload
  <2> QED
    BY <2>3, <2>4, <2>5, <2>6
<1> QED
  BY <1>3, <1>4 DEF GetRPLInfo

\* The loader's view is refused, or entered.
LEMMA CallStep == IInv /\ (GetRAMPIDFails \/ EnterLoaderView) => IInv'
<1> SUFFICES ASSUME IInv, GetRAMPIDFails \/ EnterLoaderView PROVE IInv'
  OBVIOUS
<1> USE DEF IInv
<1>1. /\ pc = "call" /\ patch.kind = "name" /\ textSection = 0
      /\ pc' = "unread" \/ (pc' = "walk" /\ rpl' = 1)
      /\ rpl' \in Nat
      /\ UNCHANGED <<loaded, changed, given, number, section, symbol, textSection, result>>
  BY DEF GetRAMPIDFails, EnterLoaderView, KindInv, TextInv, TypeOK
<1>2. TypeOK'
  BY <1>1 DEF TypeOK, Ends, Running
<1>3. KindInv' /\ CountInv' /\ ModuleInv' /\ TextInv' /\ SymbolInv'
  BY <1>1 DEF KindInv, CountInv, ModuleInv, TextInv, SymbolInv, InModule, WordsAtExport, FunctionAt
<1>4. BranchFollowed' /\ FoundByName' /\ FoundByOffset' /\ StopsOnlyAfterUnload'
  BY <1>1 DEF BranchFollowed, FoundByName, FoundByOffset, StopsOnlyAfterUnload
<1> QED
  BY <1>2, <1>3, <1>4

\* The next module of the list is looked at.
LEMMA ModuleStep == IInv /\ NextLoadedRpl => IInv'
<1> SUFFICES ASSUME IInv, NextLoadedRpl PROVE IInv'
  OBVIOUS
<1> USE DEF IInv
<1>1. /\ pc = "walk" /\ patch.kind = "name" /\ textSection = 0
      /\ rpl \in Nat /\ rpl >= 1
      /\ \A r \in 1 .. Len(loaded) : r < rpl => loaded[r].name # PureRPLName
      /\ UNCHANGED <<loaded, changed, given, number, symbol, textSection, result>>
  BY DEF NextLoadedRpl, KindInv, TextInv, ModuleInv, TypeOK
<1>2. Len(loaded) \in Nat /\ DOMAIN loaded = 1 .. Len(loaded)
  BY LenProperties DEF TypeOK
<1>3. CASE rpl > Len(loaded) /\ Goto("notFound")
  <2>1. \A q \in DOMAIN loaded : loaded[q].name # PureRPLName
    BY <1>1, <1>2, <1>3
  <2>2. FoundByName'
    <3>1. \A q \in DOMAIN loaded : ~IsNamed(q)'
      BY <1>3, <2>1 DEF IsNamed, PureRPLName
    <3> QED
      BY <1>3, <3>1 DEF FoundByName
  <2>3. TypeOK'
    BY <1>1, <1>3 DEF TypeOK, Ends
  <2>4. KindInv' /\ CountInv' /\ ModuleInv' /\ TextInv' /\ SymbolInv'
    BY <1>1, <1>3 DEF KindInv, CountInv, ModuleInv, TextInv, SymbolInv, InModule, WordsAtExport, FunctionAt
  <2>5. BranchFollowed' /\ FoundByOffset' /\ StopsOnlyAfterUnload'
    BY <1>1, <1>3 DEF BranchFollowed, FoundByOffset, StopsOnlyAfterUnload
  <2> QED
    BY <2>2, <2>3, <2>4, <2>5
<1>4. CASE /\ rpl <= Len(loaded)
           /\ loaded[rpl].name # PureRPLName
           /\ rpl' = rpl + 1
           /\ UNCHANGED <<pc, section>>
  <2>1. ModuleInv'
    <3>1. \A r \in 1 .. Len(loaded) : r < rpl + 1 => loaded[r].name # PureRPLName
      BY <1>1, <1>2, <1>4
    <3> QED
      BY <1>1, <1>4, <3>1 DEF ModuleInv, InModule, PureRPLName
  <2>2. TypeOK'
    BY <1>1, <1>4 DEF TypeOK
  <2>3. KindInv' /\ CountInv' /\ TextInv' /\ SymbolInv'
    BY <1>1, <1>4 DEF KindInv, CountInv, TextInv, SymbolInv, InModule, WordsAtExport, FunctionAt
  <2>4. BranchFollowed' /\ FoundByName' /\ FoundByOffset' /\ StopsOnlyAfterUnload'
    BY <1>1, <1>4 DEF BranchFollowed, FoundByName, FoundByOffset, StopsOnlyAfterUnload
  <2> QED
    BY <2>1, <2>2, <2>3, <2>4
<1>5. CASE /\ rpl <= Len(loaded)
           /\ loaded[rpl].name = PureRPLName
           /\ pc' = "sections" /\ section' = 1
           /\ UNCHANGED rpl
  <2>1. TextInv'
    <3>1. LastTextBefore(section)'
      <4>1. Len(loaded[rpl].sections) \in Nat
        BY <1>1, <1>2, <1>5, TablesTyped, LenProperties
      <4> QED
        BY <1>1, <1>5, <4>1 DEF LastTextBefore
    <3> QED
      BY <1>1, <1>5, <3>1 DEF TextInv, InModule
  <2>2. TypeOK'
    BY <1>1, <1>5 DEF TypeOK, Running
  <2>3. KindInv' /\ CountInv' /\ ModuleInv' /\ SymbolInv'
    BY <1>1, <1>5 DEF KindInv, CountInv, ModuleInv, SymbolInv, InModule, PureRPLName, WordsAtExport, FunctionAt
  <2>4. BranchFollowed' /\ FoundByName' /\ FoundByOffset' /\ StopsOnlyAfterUnload'
    BY <1>1, <1>5 DEF BranchFollowed, FoundByName, FoundByOffset, StopsOnlyAfterUnload
  <2> QED
    BY <2>1, <2>2, <2>3, <2>4
<1> QED
  BY <1>3, <1>4, <1>5 DEF NextLoadedRpl

\* What every step inside a module may rely on.
LEMMA InModuleFacts ==
  ASSUME IInv, pc \in InModule
  PROVE  /\ patch.kind = "name"
         /\ rpl \in 1 .. Len(loaded)
         /\ Len(loaded) \in Nat /\ DOMAIN loaded = 1 .. Len(loaded)
         /\ Len(loaded[rpl].sections) \in Nat
         /\ DOMAIN loaded[rpl].sections = 1 .. Len(loaded[rpl].sections)
         /\ section \in Nat /\ section >= 1
<1> USE DEF IInv
<1>1. Len(loaded) \in Nat /\ DOMAIN loaded = 1 .. Len(loaded)
  BY LenProperties DEF TypeOK
<1>2. rpl \in 1 .. Len(loaded)
  BY <1>1 DEF ModuleInv, TypeOK
<1>3. loaded[rpl].sections \in Seq(SectionRecords)
  BY <1>2, TablesTyped
<1> QED
  BY <1>1, <1>2, <1>3, LenProperties DEF KindInv, TextInv, TypeOK

\* A section is looked at for the text.
LEMMA TextStep == IInv /\ FindTextSection => IInv'
<1> SUFFICES ASSUME IInv, FindTextSection PROVE IInv'
  OBVIOUS
<1> USE DEF IInv
<1>1. /\ pc = "sections"
      /\ UNCHANGED <<loaded, changed, given, number, rpl, symbol, result>>
  BY DEF FindTextSection
<1>2. /\ patch.kind = "name" /\ rpl \in 1 .. Len(loaded)
      /\ Len(loaded[rpl].sections) \in Nat /\ section \in Nat /\ section >= 1
      /\ LastTextBefore(section)
  BY <1>1, InModuleFacts DEF InModule, TextInv
<1>3. CASE /\ section <= Len(loaded[rpl].sections)
           /\ textSection' = IF IsText(loaded[rpl], section) THEN section ELSE textSection
           /\ section' = section + 1
           /\ UNCHANGED pc
  <2>1. LastTextBefore(section)'
    <3> DEFINE n == section
               T == textSection'
               L == Len(loaded[rpl].sections)
    <3>1. \/ /\ T = 0
             /\ \A i \in 1 .. L : i < n + 1 => ~IsText(loaded[rpl], i)
          \/ /\ T \in 1 .. L
             /\ T < n + 1
             /\ IsText(loaded[rpl], T)
             /\ \A i \in 1 .. L : T < i /\ i < n + 1 => ~IsText(loaded[rpl], i)
      <4>1. CASE IsText(loaded[rpl], section)
        BY <1>2, <1>3, <4>1
      <4>2. CASE ~IsText(loaded[rpl], section)
        <5>1. \A i \in 1 .. L : i < n + 1 => i < n \/ i = section
          BY <1>2
        <5> QED
          BY <1>2, <1>3, <4>2, <5>1 DEF LastTextBefore
      <4> QED
        BY <4>1, <4>2
    <3> QED
      BY <1>1, <1>3, <3>1 DEF LastTextBefore, IsText
  <2>2. TypeOK'
    BY <1>1, <1>2, <1>3 DEF TypeOK
  <2>3. KindInv' /\ CountInv' /\ ModuleInv' /\ TextInv' /\ SymbolInv'
    BY <1>1, <1>2, <1>3, <2>1 DEF KindInv, CountInv, ModuleInv, TextInv, SymbolInv, InModule, PureRPLName, WordsAtExport, FunctionAt
  <2>4. BranchFollowed' /\ FoundByName' /\ FoundByOffset' /\ StopsOnlyAfterUnload'
    BY <1>1, <1>2, <1>3 DEF BranchFollowed, FoundByName, FoundByOffset, StopsOnlyAfterUnload
  <2> QED
    BY <2>2, <2>3, <2>4
<1>4. CASE /\ section > Len(loaded[rpl].sections)
           /\ section' = 1
           /\ pc' = "symtabs"
           /\ UNCHANGED textSection
  <2>1. LastTextBefore(Len(loaded[rpl].sections) + 1)'
    <3>1. LastTextBefore(Len(loaded[rpl].sections) + 1)
      BY <1>2, <1>4 DEF LastTextBefore
    <3> QED
      BY <1>1, <1>4, <3>1 DEF LastTextBefore, IsText
  <2>2. TypeOK'
    BY <1>1, <1>4 DEF TypeOK, Running
  <2>3. SymbolInv'
    <3>1. \A i \in 1 .. Len(loaded[rpl].sections) : ~(i < 1)
      BY <1>2
    <3> QED
      BY <1>1, <1>4, <3>1 DEF SymbolInv
  <2>4. KindInv' /\ CountInv' /\ ModuleInv' /\ TextInv'
    BY <1>1, <1>2, <1>4, <2>1 DEF KindInv, CountInv, ModuleInv, TextInv, InModule, PureRPLName, WordsAtExport, FunctionAt
  <2>5. BranchFollowed' /\ FoundByName' /\ FoundByOffset' /\ StopsOnlyAfterUnload'
    BY <1>1, <1>2, <1>4 DEF BranchFollowed, FoundByName, FoundByOffset, StopsOnlyAfterUnload
  <2> QED
    BY <2>2, <2>3, <2>4, <2>5
<1> QED
  BY <1>3, <1>4 DEF FindTextSection

\* The module the walk is in is the one of the name.
LEMMA NamedIsCurrent ==
  ASSUME IInv, pc \in InModule
  PROVE  \A q \in DOMAIN loaded : IsNamed(q) <=> q = rpl
<1> USE DEF IInv
<1>1. /\ loaded[rpl].name = PureRPLName
      /\ \A r \in 1 .. Len(loaded) : r < rpl => loaded[r].name # PureRPLName
  BY DEF ModuleInv
<1>2. rpl \in 1 .. Len(loaded) /\ Len(loaded) \in Nat /\ DOMAIN loaded = 1 .. Len(loaded)
  BY InModuleFacts
<1>3. IsNamed(rpl)
  BY <1>1, <1>2 DEF IsNamed
<1>4. ASSUME NEW q \in 1 .. Len(loaded), IsNamed(q) PROVE q = rpl
  <2>1. /\ loaded[q].name = PureRPLName
        /\ \A r \in 1 .. q - 1 : loaded[r].name # PureRPLName
    BY <1>4 DEF IsNamed
  <2>2. ~(q < rpl)
    BY <1>1, <2>1
  <2>3. ~(rpl < q)
    BY <1>1, <1>2, <2>1
  <2> QED
    BY <1>2, <2>2, <2>3
<1> QED
  BY <1>2, <1>3, <1>4

\* The addresses of the functions are those of the symbols the walk takes.
LEMMA FunctionAddressesAre ==
  ASSUME IInv, pc \in {"symtabs", "symbols"}, NEW v
  PROVE  v \in FunctionAddresses(loaded[rpl], patch.functionName) <=>
           \E i \in 1 .. Len(loaded[rpl].sections) :
             /\ IsSymbolTable(loaded[rpl], i)
             /\ \E j \in 1 .. Len(loaded[rpl].sections[i].symbols) :
                  /\ SymbolMatches(loaded[rpl].sections[i].symbols[j])
                  /\ v = loaded[rpl].sections[i].symbols[j].value
<1> USE DEF IInv
<1> DEFINE Takes(s) == /\ s.name = patch.functionName
                       /\ s.type = "STT_FUNC"
                       /\ IsTextSection(loaded[rpl], s.shndx)
           tables == {n \in DOMAIN loaded[rpl].sections : IsSymbolTable(loaded[rpl], n)}
           symbols == UNION {Range(loaded[rpl].sections[n].symbols) : n \in tables}
<1>1. /\ TypeOK /\ rpl \in 1 .. Len(loaded)
      /\ DOMAIN loaded[rpl].sections = 1 .. Len(loaded[rpl].sections)
      /\ LastTextBefore(Len(loaded[rpl].sections) + 1)
  BY InModuleFacts DEF InModule, TextInv
<1>2. \A i \in 1 .. Len(loaded[rpl].sections) :
        /\ loaded[rpl].sections[i].symbols \in Seq(SymbolRecords)
        /\ DOMAIN loaded[rpl].sections[i].symbols = 1 .. Len(loaded[rpl].sections[i].symbols)
        /\ \A j \in 1 .. Len(loaded[rpl].sections[i].symbols) :
             loaded[rpl].sections[i].symbols[j] \in SymbolRecords
  BY <1>1, TablesTyped, LenProperties
<1>3. \A s \in SymbolRecords : SymbolMatches(s) <=> Takes(s)
  BY <1>1, MatchesAreFunctions
<1>4. v \in FunctionAddresses(loaded[rpl], patch.functionName) <=> \E s \in symbols : Takes(s) /\ v = s.value
  BY DEF FunctionAddresses
<1>5. \A s : s \in symbols <=>
        \E i \in 1 .. Len(loaded[rpl].sections) :
          /\ IsSymbolTable(loaded[rpl], i)
          /\ \E j \in 1 .. Len(loaded[rpl].sections[i].symbols) : s = loaded[rpl].sections[i].symbols[j]
  <2>1. ASSUME NEW i \in 1 .. Len(loaded[rpl].sections), NEW s
        PROVE  s \in Range(loaded[rpl].sections[i].symbols) <=>
                 \E j \in 1 .. Len(loaded[rpl].sections[i].symbols) :
                   s = loaded[rpl].sections[i].symbols[j]
    BY <1>2 DEF Range
  <2>2. \A s : s \in symbols <=> \E i \in tables : s \in Range(loaded[rpl].sections[i].symbols)
    OBVIOUS
  <2>3. \A i : i \in tables <=>
          i \in 1 .. Len(loaded[rpl].sections) /\ IsSymbolTable(loaded[rpl], i)
    BY <1>1
  <2> HIDE DEF symbols, tables, IInv
  <2>4. ASSUME NEW s, s \in symbols
        PROVE  \E i \in 1 .. Len(loaded[rpl].sections) :
                 /\ IsSymbolTable(loaded[rpl], i)
                 /\ \E j \in 1 .. Len(loaded[rpl].sections[i].symbols) :
                      s = loaded[rpl].sections[i].symbols[j]
    <3>1. PICK i \in tables : s \in Range(loaded[rpl].sections[i].symbols)
      BY <2>2, <2>4
    <3>2. i \in 1 .. Len(loaded[rpl].sections) /\ IsSymbolTable(loaded[rpl], i)
      BY <2>3
    <3>3. \E j \in 1 .. Len(loaded[rpl].sections[i].symbols) :
            s = loaded[rpl].sections[i].symbols[j]
      BY <2>1, <3>1, <3>2
    <3> QED
      BY <3>2, <3>3
  <2>5. ASSUME NEW s, NEW i \in 1 .. Len(loaded[rpl].sections),
               IsSymbolTable(loaded[rpl], i),
               NEW j \in 1 .. Len(loaded[rpl].sections[i].symbols),
               s = loaded[rpl].sections[i].symbols[j]
        PROVE  s \in symbols
    <3>1. s \in Range(loaded[rpl].sections[i].symbols)
      BY <2>1, <2>5
    <3> QED
      BY <2>2, <2>3, <2>5, <3>1
  <2> QED
    BY <2>4, <2>5
<1> HIDE DEF Takes, symbols, tables, IInv
<1>6. ASSUME NEW i \in 1 .. Len(loaded[rpl].sections),
             NEW j \in 1 .. Len(loaded[rpl].sections[i].symbols)
      PROVE  Takes(loaded[rpl].sections[i].symbols[j]) <=>
               SymbolMatches(loaded[rpl].sections[i].symbols[j])
  BY <1>2, <1>3
<1>7. ASSUME v \in FunctionAddresses(loaded[rpl], patch.functionName)
      PROVE  \E i \in 1 .. Len(loaded[rpl].sections) :
               /\ IsSymbolTable(loaded[rpl], i)
               /\ \E j \in 1 .. Len(loaded[rpl].sections[i].symbols) :
                    /\ SymbolMatches(loaded[rpl].sections[i].symbols[j])
                    /\ v = loaded[rpl].sections[i].symbols[j].value
  <2>1. PICK s \in symbols : Takes(s) /\ v = s.value
    BY <1>4, <1>7
  <2>2. PICK i \in 1 .. Len(loaded[rpl].sections) :
          /\ IsSymbolTable(loaded[rpl], i)
          /\ \E j \in 1 .. Len(loaded[rpl].sections[i].symbols) :
               s = loaded[rpl].sections[i].symbols[j]
    BY <1>5
  <2>3. PICK j \in 1 .. Len(loaded[rpl].sections[i].symbols) :
          s = loaded[rpl].sections[i].symbols[j]
    BY <2>2
  <2> QED
    BY <1>6, <2>1, <2>2, <2>3
<1>8. ASSUME NEW i \in 1 .. Len(loaded[rpl].sections),
             IsSymbolTable(loaded[rpl], i),
             NEW j \in 1 .. Len(loaded[rpl].sections[i].symbols),
             SymbolMatches(loaded[rpl].sections[i].symbols[j]),
             v = loaded[rpl].sections[i].symbols[j].value
      PROVE  v \in FunctionAddresses(loaded[rpl], patch.functionName)
  <2>1. loaded[rpl].sections[i].symbols[j] \in symbols
    BY <1>5, <1>8
  <2> QED
    BY <1>4, <1>6, <1>8, <2>1
<1> QED
  BY <1>7, <1>8

\* A section is looked at for symbols.
LEMMA SectionStep == IInv /\ NextSection => IInv'
<1> SUFFICES ASSUME IInv, NextSection PROVE IInv'
  OBVIOUS
<1> USE DEF IInv
<1>1. /\ pc = "symtabs"
      /\ UNCHANGED <<loaded, changed, given, number, rpl, textSection, result>>
  BY DEF NextSection
<1>2. /\ patch.kind = "name" /\ rpl \in 1 .. Len(loaded)
      /\ DOMAIN loaded = 1 .. Len(loaded)
      /\ Len(loaded[rpl].sections) \in Nat /\ section \in Nat /\ section >= 1
      /\ LastTextBefore(Len(loaded[rpl].sections) + 1)
  BY <1>1, InModuleFacts DEF InModule, TextInv
<1>3. \A i \in 1 .. Len(loaded[rpl].sections) :
        i < section /\ IsSymbolTable(loaded[rpl], i) =>
          NoneInTable(i, Len(loaded[rpl].sections[i].symbols) + 1)
  BY <1>1 DEF SymbolInv
<1>4. LastTextBefore(Len(loaded[rpl].sections) + 1)'
  BY <1>1, <1>2 DEF LastTextBefore, IsText
<1>5. CASE section > Len(loaded[rpl].sections) /\ Goto("notFound")
  <2>1. FunctionAddresses(loaded[rpl], patch.functionName) = {}
    <3>1. \A i \in 1 .. Len(loaded[rpl].sections) :
            IsSymbolTable(loaded[rpl], i) =>
              \A j \in 1 .. Len(loaded[rpl].sections[i].symbols) :
                ~SymbolMatches(loaded[rpl].sections[i].symbols[j])
      <4> SUFFICES ASSUME NEW i \in 1 .. Len(loaded[rpl].sections), IsSymbolTable(loaded[rpl], i),
                          NEW j \in 1 .. Len(loaded[rpl].sections[i].symbols)
                   PROVE  ~SymbolMatches(loaded[rpl].sections[i].symbols[j])
        OBVIOUS
      <4>1. NoneInTable(i, Len(loaded[rpl].sections[i].symbols) + 1)
        BY <1>2, <1>3, <1>5
      <4>2. Len(loaded[rpl].sections[i].symbols) \in Nat
        BY <1>2, TablesTyped, LenProperties
      <4> QED
        BY <4>1, <4>2 DEF NoneInTable
    <3> QED
      BY <1>1, <3>1, FunctionAddressesAre
  <2>2. \A q \in DOMAIN loaded : IsNamed(q)' <=> q = rpl
    BY <1>1, <1>5, NamedIsCurrent DEF InModule, IsNamed, PureRPLName
  <2>3. FoundByName'
    BY <1>5, <2>1, <2>2 DEF FoundByName
  <2>4. TypeOK'
    BY <1>1, <1>5 DEF TypeOK, Ends
  <2>5. KindInv' /\ CountInv' /\ ModuleInv' /\ TextInv' /\ SymbolInv'
    BY <1>1, <1>5 DEF KindInv, CountInv, ModuleInv, TextInv, SymbolInv, InModule, WordsAtExport, FunctionAt
  <2>6. BranchFollowed' /\ FoundByOffset' /\ StopsOnlyAfterUnload'
    BY <1>2, <1>5 DEF BranchFollowed, FoundByOffset, StopsOnlyAfterUnload
  <2> QED
    BY <2>3, <2>4, <2>5, <2>6
<1>6. CASE /\ section <= Len(loaded[rpl].sections)
           /\ ~IsSymbolTable(loaded[rpl], section)
           /\ section' = section + 1
           /\ UNCHANGED <<pc, symbol>>
  <2>1. SymbolInv'
    <3>1. \A i \in 1 .. Len(loaded[rpl].sections) :
            i < section + 1 /\ IsSymbolTable(loaded[rpl], i) =>
              NoneInTable(i, Len(loaded[rpl].sections[i].symbols) + 1)
      <4>1. \A i \in 1 .. Len(loaded[rpl].sections) : i < section + 1 => i < section \/ i = section
        BY <1>2
      <4> QED
        BY <1>3, <1>6, <4>1
    <3> QED
      BY <1>1, <1>6, <3>1 DEF SymbolInv, NoneInTable, IsSymbolTable, SymbolMatches
  <2>2. TypeOK'
    BY <1>1, <1>2, <1>6 DEF TypeOK
  <2>3. KindInv' /\ CountInv' /\ ModuleInv' /\ TextInv'
    BY <1>1, <1>2, <1>4, <1>6 DEF KindInv, CountInv, ModuleInv, TextInv, InModule, PureRPLName, WordsAtExport, FunctionAt
  <2>4. BranchFollowed' /\ FoundByName' /\ FoundByOffset' /\ StopsOnlyAfterUnload'
    BY <1>1, <1>2, <1>6 DEF BranchFollowed, FoundByName, FoundByOffset, StopsOnlyAfterUnload
  <2> QED
    BY <2>1, <2>2, <2>3, <2>4
<1>7. CASE /\ section <= Len(loaded[rpl].sections)
           /\ IsSymbolTable(loaded[rpl], section)
           /\ symbol' = 1 /\ pc' = "symbols"
           /\ UNCHANGED section
  <2>1. SymbolInv'
    <3>1. NoneInTable(section, 1)
      <4>1. Len(loaded[rpl].sections[section].symbols) \in Nat
        BY <1>2, <1>7, TablesTyped, LenProperties
      <4> QED
        BY <4>1 DEF NoneInTable
    <3>2. NoneInTable(section, 1)' /\ IsSymbolTable(loaded[rpl], section)'
      BY <1>1, <1>7, <3>1 DEF NoneInTable, IsSymbolTable, SymbolMatches
    <3>3. \A i \in 1 .. Len(loaded[rpl].sections)' :
            i < section' /\ IsSymbolTable(loaded[rpl], i)' =>
              NoneInTable(i, Len(loaded[rpl].sections[i].symbols) + 1)'
      <4>1. loaded' = loaded /\ rpl' = rpl /\ section' = section
        BY <1>1, <1>7
      <4>2. \A i \in 1 .. Len(loaded[rpl].sections) :
              NoneInTable(i, Len(loaded[rpl].sections[i].symbols) + 1) =>
                NoneInTable(i, Len(loaded[rpl].sections[i].symbols) + 1)'
        BY <1>1, <4>1 DEF NoneInTable, SymbolMatches
      <4>3. \A i \in 1 .. Len(loaded[rpl].sections) :
              i < section /\ IsSymbolTable(loaded[rpl], i) =>
                NoneInTable(i, Len(loaded[rpl].sections[i].symbols) + 1)'
        BY <1>3, <4>2
      <4> QED
        BY <4>1, <4>3 DEF IsSymbolTable
    <3>4. section' <= Len(loaded[rpl].sections)' /\ symbol' = 1
      BY <1>1, <1>7
    <3> QED
      BY <3>2, <3>3, <3>4 DEF SymbolInv
  <2>2. TypeOK'
    BY <1>1, <1>7 DEF TypeOK, Running
  <2>3. KindInv' /\ CountInv' /\ ModuleInv' /\ TextInv'
    BY <1>1, <1>2, <1>4, <1>7 DEF KindInv, CountInv, ModuleInv, TextInv, InModule, PureRPLName, WordsAtExport, FunctionAt
  <2>4. BranchFollowed' /\ FoundByName' /\ FoundByOffset' /\ StopsOnlyAfterUnload'
    BY <1>1, <1>2, <1>7 DEF BranchFollowed, FoundByName, FoundByOffset, StopsOnlyAfterUnload
  <2> QED
    BY <2>1, <2>2, <2>3, <2>4
<1> QED
  BY <1>5, <1>6, <1>7 DEF NextSection

\* A symbol is looked at.
LEMMA SymbolStep == IInv /\ NextSymbol => IInv'
<1> SUFFICES ASSUME IInv, NextSymbol PROVE IInv'
  OBVIOUS
<1> USE DEF IInv
<1> DEFINE symbols == loaded[rpl].sections[section].symbols
<1>1. /\ pc = "symbols"
      /\ UNCHANGED <<loaded, changed, given, number, rpl, textSection>>
  BY DEF NextSymbol
<1>2. /\ patch.kind = "name" /\ rpl \in 1 .. Len(loaded)
      /\ DOMAIN loaded = 1 .. Len(loaded)
      /\ Len(loaded[rpl].sections) \in Nat /\ section \in Nat /\ section >= 1
      /\ LastTextBefore(Len(loaded[rpl].sections) + 1)
  BY <1>1, InModuleFacts DEF InModule, TextInv
<1>3. /\ section \in 1 .. Len(loaded[rpl].sections)
      /\ IsSymbolTable(loaded[rpl], section)
      /\ symbol \in Nat /\ symbol >= 1
      /\ NoneInTable(section, symbol)
      /\ \A i \in 1 .. Len(loaded[rpl].sections) :
           i < section /\ IsSymbolTable(loaded[rpl], i) =>
             NoneInTable(i, Len(loaded[rpl].sections[i].symbols) + 1)
  BY <1>1, <1>2 DEF SymbolInv, TypeOK
<1>4. Len(symbols) \in Nat /\ \A j \in 1 .. Len(symbols) : symbols[j] \in SymbolRecords
  BY <1>2, <1>3, TablesTyped, LenProperties
<1>5. LastTextBefore(Len(loaded[rpl].sections) + 1)'
  BY <1>1, <1>2 DEF LastTextBefore, IsText
<1>6. CASE /\ symbol > Len(symbols)
           /\ section' = section + 1 /\ pc' = "symtabs"
           /\ UNCHANGED <<symbol, result>>
  <2>1. SymbolInv'
    <3>1. NoneInTable(section, Len(symbols) + 1)
      BY <1>3, <1>4, <1>6 DEF NoneInTable
    <3>2. \A i \in 1 .. Len(loaded[rpl].sections) :
            i < section + 1 /\ IsSymbolTable(loaded[rpl], i) =>
              NoneInTable(i, Len(loaded[rpl].sections[i].symbols) + 1)
      <4>1. \A i \in 1 .. Len(loaded[rpl].sections) :
              i < section + 1 => i < section \/ i = section
        BY <1>2
      <4> QED
        BY <1>3, <3>1, <4>1
    <3> QED
      BY <1>1, <1>6, <3>2 DEF SymbolInv, NoneInTable, SymbolMatches
  <2>2. TypeOK'
    BY <1>1, <1>2, <1>6 DEF TypeOK, Running
  <2>3. KindInv' /\ CountInv' /\ ModuleInv' /\ TextInv'
    BY <1>1, <1>2, <1>5, <1>6 DEF KindInv, CountInv, ModuleInv, TextInv, InModule, PureRPLName, WordsAtExport, FunctionAt
  <2>4. BranchFollowed' /\ FoundByName' /\ FoundByOffset' /\ StopsOnlyAfterUnload'
    BY <1>1, <1>2, <1>6 DEF BranchFollowed, FoundByName, FoundByOffset, StopsOnlyAfterUnload
  <2> QED
    BY <2>1, <2>2, <2>3, <2>4
<1>7. CASE /\ symbol <= Len(symbols)
           /\ ~SymbolMatches(symbols[symbol])
           /\ symbol' = symbol + 1
           /\ UNCHANGED <<section, pc, result>>
  <2>1. SymbolInv'
    <3>1. NoneInTable(section, symbol + 1)
      <4>1. \A j \in 1 .. Len(symbols) : j < symbol + 1 => j < symbol \/ j = symbol
        BY <1>3
      <4> QED
        BY <1>3, <1>7, <4>1 DEF NoneInTable
    <3>2. /\ NoneInTable(section, symbol)'
          /\ \A i \in 1 .. Len(loaded[rpl].sections) :
               NoneInTable(i, Len(loaded[rpl].sections[i].symbols) + 1) =>
                 NoneInTable(i, Len(loaded[rpl].sections[i].symbols) + 1)'
      BY <1>1, <1>7, <3>1 DEF NoneInTable, SymbolMatches
    <3>3. /\ pc' = "symbols" /\ loaded' = loaded /\ rpl' = rpl /\ section' = section
          /\ symbol' = symbol + 1
      BY <1>1, <1>7 DEF given
    <3>4. /\ section' <= Len(loaded[rpl].sections)'
          /\ IsSymbolTable(loaded[rpl], section)'
          /\ symbol' >= 1
      BY <1>3, <3>3 DEF IsSymbolTable
    <3>5. \A i \in 1 .. Len(loaded[rpl].sections) :
            i < section /\ IsSymbolTable(loaded[rpl], i) =>
              NoneInTable(i, Len(loaded[rpl].sections[i].symbols) + 1)'
      BY <1>3, <3>2
    <3>6. \A i \in 1 .. Len(loaded[rpl].sections)' :
            i < section' /\ IsSymbolTable(loaded[rpl], i)' =>
              NoneInTable(i, Len(loaded[rpl].sections[i].symbols) + 1)'
      BY <3>3, <3>5 DEF IsSymbolTable
    <3> HIDE DEF IInv
    <3> QED
      BY <3>2, <3>4, <3>6 DEF SymbolInv
  <2>2. TypeOK'
    BY <1>1, <1>3, <1>7 DEF TypeOK
  <2>3. KindInv' /\ CountInv' /\ ModuleInv' /\ TextInv'
    BY <1>1, <1>2, <1>5, <1>7 DEF KindInv, CountInv, ModuleInv, TextInv, InModule, PureRPLName, WordsAtExport, FunctionAt
  <2>4. BranchFollowed' /\ FoundByName' /\ FoundByOffset' /\ StopsOnlyAfterUnload'
    BY <1>1, <1>2, <1>7 DEF BranchFollowed, FoundByName, FoundByOffset, StopsOnlyAfterUnload
  <2> QED
    BY <2>1, <2>2, <2>3, <2>4
<1>8. CASE /\ symbol <= Len(symbols)
           /\ SymbolMatches(symbols[symbol])
           /\ result' = symbols[symbol].value
           /\ pc' = "found"
           /\ UNCHANGED <<section, symbol>>
  <2>1. result' \in FunctionAddresses(loaded[rpl], patch.functionName)
    <3>1. symbol \in 1 .. Len(symbols)
      BY <1>3, <1>4, <1>8
    <3> QED
      BY <1>1, <1>3, <1>8, <3>1, FunctionAddressesAre
  <2>2. IsNamed(rpl)'
    BY <1>1, <1>2, NamedIsCurrent DEF IsNamed, InModule, PureRPLName
  <2>3. FoundByName'
    BY <1>1, <1>2, <1>8, <2>1, <2>2 DEF FoundByName
  <2>4. TypeOK'
    <3>1. symbols[symbol] \in SymbolRecords
      BY <1>3, <1>4, <1>8
    <3>2. result' \in Addresses
      <4>1. symbols[symbol].value \in 1 .. AddressSpace - 1
        BY <3>1 DEF SymbolRecords
      <4> QED
        BY <1>8, <4>1, Sizes, SMT
    <3> QED
      BY <1>1, <1>8, <3>2 DEF TypeOK, Ends
  <2>5. KindInv' /\ CountInv' /\ ModuleInv' /\ TextInv' /\ SymbolInv'
    BY <1>1, <1>8 DEF KindInv, CountInv, ModuleInv, TextInv, SymbolInv, InModule, WordsAtExport, FunctionAt
  <2>6. BranchFollowed' /\ FoundByOffset' /\ StopsOnlyAfterUnload'
    BY <1>1, <1>2, <1>8 DEF BranchFollowed, FoundByOffset, StopsOnlyAfterUnload
  <2> QED
    BY <2>3, <2>4, <2>5, <2>6
<1> QED
  BY <1>6, <1>7, <1>8 DEF NextSymbol

\* The loader loads or unloads a module between two calls of an attempt.
LEMMA LoaderStep == IInv /\ (Load \/ Unload) => IInv'
<1> SUFFICES ASSUME IInv, Load \/ Unload PROVE IInv'
  OBVIOUS
<1> USE DEF IInv
<1>1. /\ pc \in {"check", "count", "info"}
      /\ UNCHANGED <<given, pc, at>>
  BY DEF Load, Unload, LoaderRuns
<1>2. loaded \in Seq(Rpls) /\ Len(loaded) \in Nat
  BY LenProperties DEF TypeOK
<1>3. Len(loaded) >= 1
  BY DEF CountInv
<1>4. CASE Load
  <2>1. PICK m \in Rpls, q \in {2, Len(loaded) + 1} : loaded' = InsertAt(loaded, q, m)
    BY <1>4 DEF Load
  <2>2. loaded' \in Seq(Rpls) /\ Len(loaded') = Len(loaded) + 1
    <3>1. q \in 2 .. Len(loaded) + 1
      BY <1>2, <1>3
    <3> QED
      BY <1>2, <1>3, <2>1, <3>1, LoaderList
  <2>3. changed' = changed \union {"load"}
    BY <1>4 DEF Load
  <2>4. CountInv'
    BY <1>1, <1>2, <1>3, <2>2, <2>3 DEF CountInv, TypeOK
  <2>5. TypeOK'
    BY <1>1, <2>2, <2>3 DEF TypeOK, Loaders
  <2>6. KindInv' /\ ModuleInv' /\ TextInv' /\ SymbolInv'
    BY <1>1 DEF KindInv, ModuleInv, TextInv, SymbolInv, InModule, WordsAtExport, FunctionAt
  <2>7. BranchFollowed' /\ FoundByName' /\ FoundByOffset' /\ StopsOnlyAfterUnload'
    BY <1>1 DEF BranchFollowed, FoundByName, FoundByOffset, StopsOnlyAfterUnload
  <2> QED
    BY <2>4, <2>5, <2>6, <2>7
<1>5. CASE Unload
  <2>1. PICK q \in 2 .. Len(loaded) : loaded' = RemoveAt(loaded, q)
    BY <1>5 DEF Unload
  <2>2. loaded' \in Seq(Rpls) /\ Len(loaded') = Len(loaded) - 1 /\ Len(loaded') >= 1
    BY <1>2, <1>3, <2>1, LoaderList
  <2>3. changed' = changed \union {"unload"}
    BY <1>5 DEF Unload
  <2>4. CountInv'
    BY <1>1, <1>2, <1>3, <2>2, <2>3 DEF CountInv, TypeOK
  <2>5. TypeOK'
    BY <1>1, <2>2, <2>3 DEF TypeOK, Loaders
  <2>6. KindInv' /\ ModuleInv' /\ TextInv' /\ SymbolInv'
    BY <1>1 DEF KindInv, ModuleInv, TextInv, SymbolInv, InModule, WordsAtExport, FunctionAt
  <2>7. BranchFollowed' /\ FoundByName' /\ FoundByOffset' /\ StopsOnlyAfterUnload'
    BY <1>1 DEF BranchFollowed, FoundByName, FoundByOffset, StopsOnlyAfterUnload
  <2> QED
    BY <2>4, <2>5, <2>6, <2>7
<1> QED
  BY <1>4, <1>5

\* Every step keeps the invariant.
LEMMA NextIInv == IInv /\ [Next]_vars => IInv'
<1>1. ASSUME IInv, UNCHANGED vars PROVE IInv'
  <2>1. TypeOK' /\ KindInv' /\ CountInv'
    BY <1>1 DEF vars, IInv, TypeOK, KindInv, CountInv, WordsAtExport, FunctionAt
  <2>2. ModuleInv' /\ TextInv'
    BY <1>1 DEF vars, IInv, ModuleInv, TextInv, LastTextBefore, PureRPLName
  <2>3. SymbolInv'
    BY <1>1 DEF vars, IInv, SymbolInv, NoneInTable, SymbolMatches
  <2>4. FoundByName'
    BY <1>1 DEF vars, IInv, FoundByName, IsNamed, PureRPLName
  <2>5. BranchFollowed' /\ FoundByOffset' /\ StopsOnlyAfterUnload'
    BY <1>1 DEF vars, IInv, BranchFollowed, FoundByOffset, StopsOnlyAfterUnload
  <2> QED
    BY <2>1, <2>2, <2>3, <2>4, <2>5 DEF IInv
<1> QED
  BY <1>1, ShouldBePatchedStep, LibraryStep, CountStep, RefusedStep, InfoStep, CallStep,
     ModuleStep, TextStep, SectionStep, SymbolStep, LoaderStep DEF Next, Lookup

\* The parts of a lookup fit together at every step, whatever the tables hold.
THEOREM LookupInvariant == Spec => []IInv
BY InitIInv, NextIInv, PTL DEF Spec

\* What every variable may hold.
THEOREM LookupTyped == Spec => []TypeOK
<1>1. IInv => TypeOK
  BY DEF IInv
<1> QED
  BY <1>1, LookupInvariant, PTL

\* A library function is found where the processor would find it, by every
\* patch of it (FunctionAddressProvider.cpp 38-46).
THEOREM LibraryFunctionIsFound == Spec => []BranchFollowed
<1>1. IInv => BranchFollowed
  BY DEF IInv
<1> QED
  BY <1>1, LookupInvariant, PTL

\* The walk finds a function of the name in the text of the module, if and only
\* if there is one (KernelFindExport.cpp 17-82).
THEOREM NameIsFound == Spec => []FoundByName
<1>1. IInv => FoundByName
  BY DEF IInv
<1> QED
  BY <1>1, LookupInvariant, PTL

\* An offset is into a module whose name ends as asked, and a module is missed
\* only if another one was loaded meanwhile (PatchedFunctionData.cpp 132-164).
THEOREM OffsetIsFound == Spec => []FoundByOffset
<1>1. IInv => FoundByOffset
  BY DEF IInv
<1> QED
  BY <1>1, LookupInvariant, PTL

\* The stops that "shouldn't happen" need a title without a version or a module
\* that is unloaded meanwhile (PatchedFunctionData.cpp 146, 354).
THEOREM StopIsExplained == Spec => []StopsOnlyAfterUnload
<1>1. IInv => StopsOnlyAfterUnload
  BY DEF IInv
<1> QED
  BY <1>1, LookupInvariant, PTL
==============================================================================
