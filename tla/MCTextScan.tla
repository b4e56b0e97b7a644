----------------------------- MODULE MCTextScan -----------------------------
(***************************************************************************)
(* Instances of TextScan for TLC: every text of up to MaxLength characters *)
(* out of a letter, a hyphen (which is in names, but not in front), both   *)
(* quotes and a newline (which is whitespace, and cannot be printed).      *)
(***************************************************************************)
EXTENDS TextScan

CONSTANT MaxLength

MCChars == {"a", "-", "'", "\"", "\n"}

MCNewline         == "\n"
MCFirstNameChars  == {"a"}
MCNameChars       == {"a", "-"}
MCQuotes          == {"'", "\""}
MCWhitespaceChars == {"\n"}
MCPrintable       == MCChars \ {"\n"}

MCTexts == UNION {[1 .. n -> MCChars] : n \in 1 .. MaxLength}

Plain(type) == [type |-> type, literal |-> <<>>]

MCScanners ==
    { Plain("name"), Plain("quoted string"),
      Plain("whitespace"), Plain("optional whitespace"),
      [type |-> "literal", literal |-> <<"a", "-">>],
      [type |-> "sentinel", literal |-> <<"'", "~">>],
      [type |-> "through literal", literal |-> <<"-", "a">>],
      [type |-> "through literal", literal |-> <<"-", "-", "a">>] }
=============================================================================
