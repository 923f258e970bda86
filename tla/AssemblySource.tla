--------------------------- MODULE AssemblySource ---------------------------
(***************************************************************************)
(* The assembly language (src/docs/USAGE.md section 6, src/src/asm.c): what *)
(* a line is, and what a whole source text means.  The meaning is written  *)
(* as two passes over the text, as the documentation tells it; Assembler   *)
(* is the single pass with fixups of the code.                             *)
(*                                                                         *)
(* A line has a label or None, a word (instruction or directive), the      *)
(* first token after it and whether anything follows that token: a comment *)
(* or a space, which the directives do not cut off.  How a token reads as  *)
(* a number, as a string and as a name of at most 63 characters are        *)
(* parameters, so that two names may be the same to the assembler.         *)
(***************************************************************************)
EXTENDS MachineWords, InstructionSet, FiniteSets

CONSTANTS Tokens,      \* operand tokens and labels
          EMPTY,       \* the empty token, which strtoll reads as 0
          JUNK,        \* a token with something behind it
          number,      \* parse_number
          text,        \* parse_string
          cut,         \* the first 63 characters of a name
          NaN, None,   \* not a number (or string); no label
          MAX_SYMBOLS, MAX_FIXUPS

(* parse_string keeps no more of a string.                                 *)
MAX_STRING == 8192

ASSUME TokenAssumption ==
  /\ {EMPTY, JUNK} \subseteq Tokens /\ None \notin Tokens
  /\ number \in [Tokens -> Word \cup {NaN}] /\ number[EMPTY] = 0 /\ number[JUNK] = NaN
  /\ DOMAIN text = Tokens
  /\ \A t \in Tokens : text[t] = NaN \/ (text[t] \in Seq(Byte) /\ Len(text[t]) <= MAX_STRING)
  /\ DOMAIN cut = Tokens
  /\ NaN \notin Word
  /\ MAX_SYMBOLS \in Nat /\ MAX_FIXUPS \in Nat

Directives == {".code", ".data", ".byte", ".word", ".ascii", ".asciz", ".org"}
Strings    == {".ascii", ".asciz"}

Line == [label : (Tokens \ {EMPTY, JUNK}) \cup {None}, word : Instructions \cup Directives \cup {"none", "unknown"},
         arg : Tokens, more : BOOLEAN]

(* The operand as the parsers get it: an instruction's ends at a space or  *)
(* a comment, a directive's at the end of the line.                        *)
operand(line) == IF line.word \in Directives /\ line.more THEN JUNK ELSE line.arg

takes_operand(line) == line.word = ".word" \/ (line.word \in Instructions /\ has_operand(line.word))

NeedsFixup(line) == takes_operand(line) /\ number[operand(line)] = NaN

(* A string is taken in either section; only the header (src/include/asm.h, *)
(* line 20) speaks of strings in .data alone.                              *)
Malformed(line) ==
  \/ line.word = "unknown"
  \/ line.word \in {".byte", ".org"} /\ number[operand(line)] = NaN
  \/ line.word \in Strings /\ text[line.arg] = NaN
  \/ line.word \in Instructions /\ has_operand(line.word) /\ line.arg = EMPTY

(* The bytes a line starts with, and what comes after them when its        *)
(* operand is worth v.                                                     *)
Lead(line) == IF line.word \in Instructions THEN <<zeus_op_by_name(line.word)>>
              ELSE IF line.word \in Strings THEN text[line.arg] ELSE <<>>

Rest(line, v) == CASE takes_operand(line)   -> word_bytes(v)
                   [] line.word = ".byte"   -> <<v % 256>>
                   [] line.word = ".asciz"  -> <<0>>
                   [] OTHER                 -> <<>>

-----------------------------------------------------------------------------
(* The meaning of a text.                                                  *)

Latest(S) == CHOOSE i \in S : \A j \in S : j <= i

(* The section in force at line i.                                         *)
SectionAt(src, i) ==
  LET switches == {j \in 1 .. i - 1 : src[j].word \in {".code", ".data"}}
  IN  IF switches = {} THEN ".code" ELSE src[Latest(switches)].word

Before(src, i) == {j \in 1 .. i - 1 : SectionAt(src, j) = SectionAt(src, i)}

(* Where line i ends in its section: .org says so, the others add to where *)
(* the last line of the section ended.  The offset of .org is read as the  *)
(* pad loop's (size_t) does, which matters to no text that is Correct.     *)
Ends(src) ==
  LET end[i \in 0 .. Len(src)] ==
        LET start == IF i = 0 \/ Before(src, i) = {} THEN 0 ELSE end[Latest(Before(src, i))]
        IN  IF i = 0 THEN 0
            ELSE IF src[i].word = ".org" THEN ToU64(number[operand(src[i])])
            ELSE start + Len(Lead(src[i])) + Len(Rest(src[i], 0))
  IN  end

Start(src, i) == IF Before(src, i) = {} THEN 0 ELSE Ends(src)[Latest(Before(src, i))]

Labelled(src, name) == {i \in DOMAIN src : src[i].label # None /\ cut[src[i].label] = name}
Value(src, i) == IF number[operand(src[i])] # NaN THEN number[operand(src[i])]
                 ELSE Start(src, CHOOSE j \in Labelled(src, cut[operand(src[i])]) : TRUE)

(* The bytes of line i, its operand resolved.                              *)
BytesOf(src, i) ==
  IF src[i].word = ".org" THEN [k \in 1 .. Ends(src)[i] - Start(src, i) |-> 0]
  ELSE Lead(src[i]) \o Rest(src[i], IF takes_operand(src[i]) \/ src[i].word = ".byte"
                                    THEN Value(src, i) ELSE 0)

SectionLength(src, section) ==
  LET lines == {i \in DOMAIN src : SectionAt(src, i) = section}
  IN  IF lines = {} THEN 0 ELSE Ends(src)[Latest(lines)]

Labels(src) == {i \in DOMAIN src : src[i].label # None}
References(src) == {i \in DOMAIN src : NeedsFixup(src[i])}

(* What is wrong with a text whose lines are each well formed.  ".org N    *)
(* pads up to offset N, it can't go back" (USAGE.md), N the number written: *)
(* the cast to 32 bits of asm.c is in Assembler's OrgMovesBack.            *)
MovesBack(src, i) == src[i].word = ".org" /\ number[operand(src[i])] < Start(src, i)

Correct(src) ==
  /\ \A i \in DOMAIN src : ~Malformed(src[i])
  /\ Cardinality(Labels(src)) <= MAX_SYMBOLS /\ Cardinality(References(src)) <= MAX_FIXUPS
  /\ \A i, j \in Labels(src) : cut[src[i].label] = cut[src[j].label] => i = j
  /\ \A i \in References(src) : Labelled(src, cut[operand(src[i])]) # {}
  /\ \A i \in DOMAIN src : ~MovesBack(src, i)
=============================================================================
