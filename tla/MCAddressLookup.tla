--------------------------- MODULE MCAddressLookup ---------------------------
(* Small tables for AddressLookup: modules whose names end alike, sections  *)
(* and symbols that must not be taken, branches at the ends of their range. *)
EXTENDS AddressLookup

MCParts == {"code/", "big", "game", ".rpx", ".rpl"}
MCFunctions == {"main", "draw"}
MCTitleIds == {<<"application", 1>>, <<"system", 1>>}

Symbol(name, type, shndx, value) ==
  [name |-> name, type |-> type, shndx |-> shndx, value |-> value]
Section(name, inMemory, symbols) ==
  [name |-> name, type |-> IF symbols = <<>> THEN "other" ELSE "SHT_SYMTAB",
   loaded |-> inMemory, symbols |-> symbols]

\* An import, data and another function before the function, in a later table.
Plain ==
  <<Section(".text", TRUE, <<>>),
    Section("other", FALSE, <<Symbol("main", "STT_FUNC", 1, 11)>>),
    Section("other", TRUE, <<Symbol("main", "STT_FUNC", 0, 12), Symbol("main", "other", 1, 13)>>),
    Section("other", TRUE, <<Symbol("draw", "STT_FUNC", 1, 14), Symbol("main", "STT_FUNC", 1, 15)>>)>>

\* Two text sections, one more that is not in memory.
Twice ==
  <<Section(".text", TRUE, <<>>), Section(".text", TRUE, <<>>),
    Section(".text", FALSE, <<>>),
    Section("other", TRUE, <<Symbol("main", "STT_FUNC", 1, 21), Symbol("draw", "STT_FUNC", 2, 22)>>)>>

Rpl(base, extension, textAddr, shstrndx, sections) ==
  [file |-> <<"code/">> \o base \o <<extension>>, name |-> base,
   textAddr |-> textAddr, shstrndx |-> shstrndx, sections |-> sections]

MCRpls ==
  {Rpl(<<"game">>, ".rpx", 1000, 2, Plain),
   Rpl(<<"big", "game">>, ".rpx", 2000, 2, Twice),
   Rpl(<<"game">>, ".rpl", 3000, 0, Plain),
   Rpl(<<"big">>, ".rpl", 4000, 2, Twice)}

ForTitle(kind, executable, function) ==
  [kind |-> kind, titleIds |-> {<<"application", 1>>}, titleVersionMin |-> 1,
   titleVersionMax |-> 1, executableName |-> executable,
   functionName |-> function, textOffset |-> 8]

Extremes == {0, 1, SignBit - 1, SignBit, Displacements - 1}
MCPatches ==
  {ForTitle("offset", e, "main") : e \in {<<"game", ".rpx">>, <<"big", ".rpl">>}}
    \union {ForTitle("name", e, f) :
              e \in {<<"game", ".rpx">>, <<"big", "game">>, <<"big", ".rpl">>},
              f \in MCFunctions}
    \union [kind : {"library"}, export : {5, AddressSpace - 1},
            first : [branch : BOOLEAN, aa : BOOLEAN, lk : BOOLEAN, li : Extremes]]
==============================================================================
