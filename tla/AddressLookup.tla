---------------------------- MODULE AddressLookup ----------------------------
(****************************************************************************)
(* How PatchFunction finds the address it patches: shouldBePatched and      *)
(* updateFunctionAddresses of src/source/PatchedFunctionData.cpp, the       *)
(* branch followed in src/source/FunctionAddressProvider.cpp, and the walk  *)
(* through the loader's tables in src/source/utils/KernelFindExport.cpp.    *)
(*                                                                          *)
(* One attempt for one patch, from its start to its end, loop by loop.  The *)
(* loader loads and unloads modules between two calls of OSDynLoad; it does *)
(* not while the system call that walks its tables runs (see Load).         *)
(*                                                                          *)
(* Names are sequences of parts, for the code compares ends of names:       *)
(* "vol/code/game.rpx" is <<"vol/code/", "game", ".rpx">>.  Addresses and   *)
(* displacements of branches are counted in words of four bytes.            *)
(****************************************************************************)
EXTENDS Integers, Sequences, SequencesExt

CONSTANTS
  Parts,       \* the parts names are made of
  Functions,   \* the names of functions
  Rpls,        \* the RPLs and RPXs the loader may load
  Patches,     \* the patches an attempt may be for
  MaxLoaded,   \* at most so many modules are loaded
  TitleIds,    \* the applications that run: <<kind, number>>
  MaxVersion   \* versions of titles go up to this

SignBit == 8 * 1024 * 1024           \* the sign of a displacement of 24 bits
Displacements == 2 * SignBit
AddressSpace == 64 * Displacements   \* the words of 2^32 bytes
Addresses == 0 .. AddressSpace - 1

\* A sum of an address and an address or a displacement, in 32 bits.
Wrap(n) == IF n < 0 THEN n + AddressSpace
           ELSE IF n >= AddressSpace THEN n - AddressSpace ELSE n

SymbolRecords ==
  [name : Functions, type : {"STT_FUNC", "other"}, shndx : Nat,
   value : 1 .. AddressSpace - 1]

\* Section i of the table; section 0, which is never loaded, is left out.
SectionRecords ==
  [name : {".text", "other"}, type : {"SHT_SYMTAB", "other"},
   loaded : BOOLEAN, symbols : Seq(SymbolRecords)]

\* file: the name OSDynLoad gives; name: the one in the loader's own record.
\* shstrndx: the section with the names of the sections, 0 if there is none.
RplRecords ==
  [file : Seq(Parts), name : Seq(Parts), textAddr : Addresses,
   shstrndx : Nat, sections : Seq(SectionRecords)]

\* An instruction: a branch that is absolute (aa), that is a call (lk), with
\* the displacement li (24 bits); or another one.
Instructions ==
  [branch : BOOLEAN, aa : BOOLEAN, lk : BOOLEAN, li : 0 .. Displacements - 1]

PatchKinds == {"library", "offset", "name"}
ForExecutable ==
  [kind : {"offset", "name"}, titleIds : SUBSET TitleIds,
   titleVersionMin : Nat, titleVersionMax : Nat,
   executableName : Seq(Parts), functionName : Functions, textOffset : Addresses]
ForLibrary == [kind : {"library"}, export : Addresses, first : Instructions]

ASSUME RplsAssumption == Rpls \subseteq RplRecords
ASSUME PatchesAssumption ==
  \A p \in Patches : p \in ForExecutable \/ p \in ForLibrary
ASSUME BoundsAssumption == MaxLoaded \in Nat /\ MaxVersion \in Nat

NotInstalled == -1
Versions == 0 .. MaxVersion \union {NotInstalled}
Loaders == {"load", "unload"}

VARIABLES
  loaded,      \* the loader's list of modules
  changed,     \* what the loader has done since the attempt began
  title,       \* the running application (OSGetTitleID)
  version,     \* version of the title and of its update, as installed
  patch,       \* the patch the attempt is for
  word,        \* library: the instruction at the export
  pc,          \* how far the attempt is
  number,      \* num_rpls
  rpl,         \* the module the walk is at (index in loaded)
  section,     \* the section a loop is at (i)
  symbol,      \* the symbol the loop is at (j)
  textSection, \* textSectionIndex, 0 for the initial 0xFFFFFFFF
  result       \* the address found

Running == {"check", "export", "count", "info", "call", "walk", "sections",
            "symtabs", "symbols"}
\* The ends: "stopped" by OSFatal, "unread" as the loader's view was refused.
Ends == {"found", "notFound", "unread", "skipped", "stopped"}

given == <<title, version, patch, word>>
at == <<number, rpl, section, symbol, textSection, result>>
vars == <<loaded, changed, given, pc, at>>

TypeOK ==
  /\ loaded \in Seq(Rpls)
  /\ changed \subseteq Loaders
  /\ title \in TitleIds
  /\ version \in [base : Versions, update : Versions]
  /\ patch \in Patches
  /\ word \in Instructions
  /\ pc \in Running \union Ends
  /\ number \in Nat /\ rpl \in Nat /\ section \in Nat /\ symbol \in Nat
  /\ textSection \in Nat
  /\ result \in Addresses
------------------------------------------------------------------------------
(* shouldBePatched.                                                         *)

\* MCP_GetTitleInfo of the update, if the title may have one, then of the
\* title; NotInstalled if both fail.
TitleVersion(id) ==
  IF id[1] = "application" /\ version.update # NotInstalled
  THEN version.update ELSE version.base

IsForTitle == patch.kind = "library" \/ title \in patch.titleIds

InRange(v) == patch.titleVersionMin <= v /\ v <= patch.titleVersionMax

Goto(step) == pc' = step /\ UNCHANGED <<loaded, changed, given, at>>

\* Where updateFunctionAddresses begins.
FirstStep ==
  CASE patch.kind = "library" -> "export"
    [] patch.kind = "offset"  -> "count"
    [] patch.kind = "name"    -> "call"

ShouldBePatched ==
  /\ pc = "check"
  /\ \/ ~IsForTitle /\ Goto("skipped")
     \/ patch.kind = "library" /\ Goto(FirstStep)
     \/ /\ patch.kind # "library"
        /\ IsForTitle
        /\ LET v == TitleVersion(title)
           IN  Goto(IF v = NotInstalled THEN "stopped"
                    ELSE IF InRange(v) THEN FirstStep ELSE "skipped")
------------------------------------------------------------------------------
(* getEffectiveAddressOfFunction, once OSDynLoad_FindExport has the export. *)

\* Slip: any branch is followed, absolute ones too.
IsAnyBranch(w) == w.branch /\ ~w.lk

\* (realAddrData & 0xFC000003) == 0x48000000
IsRelativeBranch(w) == w.branch /\ ~w.aa /\ ~w.lk

\* The low bits, and 0xFE000000 if the bit above them is set.
SignExtension == AddressSpace - SignBit
AddressDiff(w) ==
  (w.li % SignBit) + (IF w.li >= SignBit THEN SignExtension ELSE 0)

\* Slip: the sum is taken without its overflow.
FollowBranchWide(a, w) ==
  IF IsRelativeBranch(w) THEN a + AddressDiff(w) ELSE a

FollowBranch(a, w) ==
  IF IsRelativeBranch(w) THEN Wrap(a + AddressDiff(w)) ELSE a

GetEffectiveAddressOfFunction ==
  /\ pc = "export"
  /\ result' = FollowBranch(patch.export, word)
  /\ pc' = "found"
  /\ UNCHANGED <<loaded, changed, given, number, rpl, section, symbol, textSection>>
------------------------------------------------------------------------------
(* getAddressForExecutable, by offset.                                      *)

\* Slip: one module more is asked for.
GetNumberOfRPLsAndOneMore ==
  /\ pc = "count"
  /\ number' = Len(loaded) + 1
  /\ pc' = "info"
  /\ UNCHANGED <<loaded, changed, given, rpl, section, symbol, textSection, result>>

\* The running application is a module: there is never none.
GetNumberOfRPLs ==
  /\ pc = "count"
  /\ number' = Len(loaded)
  /\ pc' = "info"
  /\ UNCHANGED <<loaded, changed, given, rpl, section, symbol, textSection, result>>

\* OSDynLoad_GetRPLInfo(0, number): refused when there are fewer by now.
GetRPLInfoRefused ==
  /\ pc = "info"
  /\ Len(loaded) < number
  /\ Goto("stopped")

\* The modules the call tells of that end like executableName.
Matching ==
  {q \in 1 .. number : IsSuffix(patch.executableName, loaded[q].file)}

\* Slip: the last module is not looked at.
MatchingButLast ==
  {q \in 1 .. number - 1 : IsSuffix(patch.executableName, loaded[q].file)}

GetRPLInfoButLast ==
  /\ pc = "info"
  /\ Len(loaded) >= number
  /\ \/ MatchingButLast = {} /\ Goto("notFound")
     \/ \E q \in MatchingButLast :
          /\ \A r \in MatchingButLast : q <= r
          /\ result' = Wrap(loaded[q].textAddr + patch.textOffset)
          /\ pc' = "found"
          /\ UNCHANGED <<loaded, changed, given, number, rpl, section, symbol, textSection>>

GetRPLInfo ==
  /\ pc = "info"
  /\ Len(loaded) >= number
  /\ \/ Matching = {} /\ Goto("notFound")
     \/ \E q \in Matching :
          /\ \A r \in Matching : q <= r
          /\ result' = Wrap(loaded[q].textAddr + patch.textOffset)
          /\ pc' = "found"
          /\ UNCHANGED <<loaded, changed, given, number, rpl, section, symbol, textSection>>
------------------------------------------------------------------------------
(* getAddressForExecutable, by name: KernelFindExport.                      *)

\* The loader's own records hold the name without its extension.
PureRPLName ==
  IF /\ patch.executableName # <<>>
     /\ Last(patch.executableName) \in {".rpx", ".rpl"}
  THEN Front(patch.executableName) ELSE patch.executableName

GetRAMPIDFails == pc = "call" /\ Goto("unread")

EnterLoaderView ==
  /\ pc = "call"
  /\ rpl' = 1
  /\ pc' = "walk"
  /\ UNCHANGED <<loaded, changed, given, number, section, symbol, textSection, result>>

NextLoadedRpl ==
  /\ pc = "walk"
  /\ \/ rpl > Len(loaded) /\ Goto("notFound")
     \/ /\ rpl <= Len(loaded)
        /\ loaded[rpl].name # PureRPLName
        /\ rpl' = rpl + 1
        /\ UNCHANGED <<loaded, changed, given, pc, number, section, symbol, textSection, result>>
     \/ /\ rpl <= Len(loaded)
        /\ loaded[rpl].name = PureRPLName
        /\ pc' = "sections"
        /\ section' = 1
        /\ UNCHANGED <<loaded, changed, given, number, rpl, symbol, textSection, result>>

\* Section i of module m is loaded and its name, where names are known, is
\* .text.
IsText(m, i) ==
  /\ m.sections[i].loaded
  /\ m.shstrndx # 0
  /\ m.sections[i].name = ".text"

FindTextSection ==
  /\ pc = "sections"
  /\ \/ /\ section <= Len(loaded[rpl].sections)
        /\ textSection' = IF IsText(loaded[rpl], section) THEN section ELSE textSection
        /\ section' = section + 1
        /\ UNCHANGED pc
     \/ /\ section > Len(loaded[rpl].sections)
        /\ section' = 1
        /\ pc' = "symtabs"
        /\ UNCHANGED textSection
  /\ UNCHANGED <<loaded, changed, given, number, rpl, symbol, result>>

IsSymbolTable(m, i) ==
  m.sections[i].loaded /\ m.sections[i].type = "SHT_SYMTAB"

\* Slip: a section that is not loaded is looked at for ever.
NextSectionStuck ==
  /\ pc = "symtabs"
  /\ \/ section > Len(loaded[rpl].sections) /\ Goto("notFound")
     \/ /\ section <= Len(loaded[rpl].sections)
        /\ ~IsSymbolTable(loaded[rpl], section)
        /\ section' = IF loaded[rpl].sections[section].loaded THEN section + 1 ELSE section
        /\ UNCHANGED <<loaded, changed, given, pc, number, rpl, symbol, textSection, result>>
     \/ /\ section <= Len(loaded[rpl].sections)
        /\ IsSymbolTable(loaded[rpl], section)
        /\ symbol' = 1
        /\ pc' = "symbols"
        /\ UNCHANGED <<loaded, changed, given, number, rpl, section, textSection, result>>

NextSection ==
  /\ pc = "symtabs"
  /\ \/ section > Len(loaded[rpl].sections) /\ Goto("notFound")
     \/ /\ section <= Len(loaded[rpl].sections)
        /\ ~IsSymbolTable(loaded[rpl], section)
        /\ section' = section + 1
        /\ UNCHANGED <<loaded, changed, given, pc, number, rpl, symbol, textSection, result>>
     \/ /\ section <= Len(loaded[rpl].sections)
        /\ IsSymbolTable(loaded[rpl], section)
        /\ symbol' = 1
        /\ pc' = "symbols"
        /\ UNCHANGED <<loaded, changed, given, number, rpl, section, textSection, result>>

\* Slip: the section of the symbol is not compared: imports match.
SymbolMatchesAnywhere(s) ==
  s.type = "STT_FUNC" /\ s.name = patch.functionName

\* The symbol is the function, and is in the text section.
SymbolMatches(s) ==
  /\ textSection # 0
  /\ s.shndx = textSection
  /\ s.type = "STT_FUNC"
  /\ s.name = patch.functionName

NextSymbol ==
  LET symbols == loaded[rpl].sections[section].symbols
  IN  /\ pc = "symbols"
      /\ \/ /\ symbol > Len(symbols)
            /\ section' = section + 1
            /\ pc' = "symtabs"
            /\ UNCHANGED <<symbol, result>>
         \/ /\ symbol <= Len(symbols)
            /\ ~SymbolMatches(symbols[symbol])
            /\ symbol' = symbol + 1
            /\ UNCHANGED <<section, pc, result>>
         \/ /\ symbol <= Len(symbols)
            /\ SymbolMatches(symbols[symbol])
            /\ result' = symbols[symbol].value
            /\ pc' = "found"
            /\ UNCHANGED <<section, symbol>>
      /\ UNCHANGED <<loaded, changed, given, number, rpl, textSection>>
------------------------------------------------------------------------------
(* The loader, external.  Where it puts a new module in its list is not     *)
(* known.  The first part of the list, the application, stays loaded.       *)

LoaderRuns == pc \in {"check", "count", "info"}

Load ==
  /\ LoaderRuns
  /\ Len(loaded) < MaxLoaded
  /\ \E m \in Rpls \ Range(loaded), q \in {2, Len(loaded) + 1} :
       loaded' = InsertAt(loaded, q, m)
  /\ changed' = changed \union {"load"}
  /\ UNCHANGED <<given, pc, at>>

Unload ==
  /\ LoaderRuns
  /\ \E q \in 2 .. Len(loaded) : loaded' = RemoveAt(loaded, q)
  /\ changed' = changed \union {"unload"}
  /\ UNCHANGED <<given, pc, at>>
------------------------------------------------------------------------------
\* The branch of an instruction as the processor takes it: the displacement is
\* a signed number of 24 bits.
JumpsRelative(w) == w.branch /\ ~w.aa /\ ~w.lk
Signed(li) == IF li < SignBit THEN li ELSE li - Displacements

\* The function a library exports: what the export was loaded with may be only
\* a jump to it.
FunctionAt(p) ==
  IF JumpsRelative(p.first) THEN Wrap(p.export + Signed(p.first.li))
                            ELSE p.export

\* The jump that PatchFunction writes (replaceWithInstruction): ba.
OwnJump == [branch |-> TRUE, aa |-> TRUE, lk |-> FALSE, li |-> 512]

\* The word at the export: the one loaded, or the jump of an earlier patch of
\* the function, if that is at the export itself.
WordsAtExport(p) ==
  {p.first} \union {w \in {OwnJump} : FunctionAt(p) = p.export}

Init ==
  /\ \E m \in Rpls : Last(m.file) = ".rpx" /\ loaded = <<m>>
  /\ changed = {}
  /\ title \in TitleIds
  /\ version \in [base : Versions, update : Versions]
  /\ patch \in Patches
  /\ word \in IF patch.kind = "library" THEN WordsAtExport(patch) ELSE {OwnJump}
  /\ pc = "check"
  /\ number = 0 /\ rpl = 1 /\ section = 1 /\ symbol = 1
  /\ textSection = 0 /\ result = 0

Lookup ==
  \/ ShouldBePatched \/ GetEffectiveAddressOfFunction
  \/ GetNumberOfRPLs \/ GetRPLInfoRefused \/ GetRPLInfo
  \/ GetRAMPIDFails \/ EnterLoaderView
  \/ NextLoadedRpl \/ FindTextSection \/ NextSection \/ NextSymbol

Next == Lookup \/ Load \/ Unload

\* The thread goes on: the system calls of an attempt return.
Spec == Init /\ [][Next]_vars /\ WF_vars(Lookup)
------------------------------------------------------------------------------
(* Properties.                                                              *)

\* The address found for a library function is that of the function, a branch
\* at the export followed in either direction; and it is the same for a second
\* patch of the function, whose lookup reads the jump of the first
\* (FunctionAddressProvider.cpp 38-46, replaceWithInstruction).
BranchFollowed ==
  pc = "found" /\ patch.kind = "library" => result = FunctionAt(patch)

\* q is the module of the name: the first of the list that has it.
IsNamed(q) ==
  /\ loaded[q].name = PureRPLName
  /\ \A r \in 1 .. q - 1 : loaded[r].name # PureRPLName

\* i is the text section of module m: the last one of that name in memory.
IsTextSection(m, i) ==
  /\ i \in DOMAIN m.sections
  /\ IsText(m, i)
  /\ \A k \in i + 1 .. Len(m.sections) : ~IsText(m, k)

\* The addresses of the functions called name that are defined in the text
\* section of module m, of all its symbol tables in memory.
FunctionAddresses(m, name) ==
  LET tables  == {n \in DOMAIN m.sections : IsSymbolTable(m, n)}
      symbols == UNION {Range(m.sections[n].symbols) : n \in tables}
  IN  {s.value : s \in {s \in symbols : /\ s.name = name
                                       /\ s.type = "STT_FUNC"
                                       /\ IsTextSection(m, s.shndx)}}

\* The walk of the loader's tables (KernelFindExport.cpp 17-82) ends with the
\* address of a function of that name, defined in the text of the first module
\* of that name - never an import or data -, and says there is none only if
\* there is none.
FoundByName ==
  patch.kind = "name" =>
    LET named     == {q \in DOMAIN loaded : IsNamed(q)}
        functions == UNION {FunctionAddresses(loaded[q], patch.functionName) : q \in named}
    IN  /\ pc = "found" => result \in functions
        /\ pc = "notFound" => functions = {}

\* A lookup by offset (PatchedFunctionData.cpp 132-164) finds an address in a
\* module whose name ends as asked; and when it finds none though such a module
\* is loaded, the loader has loaded a module during the attempt, and its
\* notification makes every patch be looked for again.
FoundByOffset ==
  patch.kind = "offset" =>
    LET matching == {m \in Range(loaded) : IsSuffix(patch.executableName, m.file)}
    IN  /\ pc = "found" =>
             \E m \in matching : result = Wrap(m.textAddr + patch.textOffset)
        /\ pc = "notFound" => matching = {} \/ "load" \in changed

\* The two stops that "shouldn't happen" (PatchedFunctionData.cpp 146, 354):
\* an attempt ends in one only if the title has no version, or if a module was
\* unloaded during it.
StopsOnlyAfterUnload ==
  pc = "stopped" =>
    \/ version.base = NotInstalled
    \/ patch.kind = "offset" /\ "unload" \in changed

\* Every attempt ends, with the loader at work between its calls and whatever
\* the tables hold: no loop stays where it is.
LookupEnds == <>(pc \in Ends)
==============================================================================
