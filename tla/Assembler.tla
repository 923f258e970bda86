----------------------------- MODULE Assembler -----------------------------
(***************************************************************************)
(* The assembler (src/src/asm.c): zeus_assemble reads the text line by     *)
(* line, appends bytes to the current section, records labels and the      *)
(* operands it cannot fill in yet, then fills them in and hands a program  *)
(* over.  Every realloc, malloc and strdup may fail.                       *)
(***************************************************************************)
EXTENDS AssemblySource, Disassembler

CONSTANTS FIRST_CAP,   \* the capacity a buffer starts with (256)
          MEMORY,      \* bound: the largest buffer realloc may grant
          NULL,        \* the null pointer
          Sources      \* bound: the texts to assemble

ASSUME AssemblerAssumption ==
  /\ FIRST_CAP \in Nat \ {0, 1} /\ MEMORY \in Nat
  /\ \A src \in Sources : src \in Seq(Line)
  /\ \A n \in Address : NULL \notin [0 .. n - 1 -> Byte]

VARIABLES source, at,    \* the text and the line being read
          section,       \* a.section
          buf,           \* a.code and a.data
          symbols,       \* a.symbols: name -> section and offset
          fixups,        \* a.fixups
          resolved,      \* fixups filled in so far
          phase,         \* where zeus_assemble stands
          out_prog,      \* the program handed over
          dropped        \* history: an append has failed and nobody noticed

vars == <<source, at, section, buf, symbols, fixups, resolved, phase, out_prog, dropped>>

EmptyProgram == [entry_point |-> 0, code_len |-> 0, code |-> NULL, data_len |-> 0, data |-> NULL]

Init == /\ source \in Sources /\ at = 1
        /\ section = ".code"
        /\ buf = [s \in {".code", ".data"} |-> [bytes |-> <<>>, cap |-> 0]]
        /\ symbols = <<>> /\ fixups = <<>> /\ resolved = 0
        /\ phase = "start" /\ out_prog = EmptyProgram /\ dropped = FALSE

-----------------------------------------------------------------------------
(* Buffers.                                                                *)

(* The capacity doubles until the bytes fit.                               *)
Grown(cap, need) ==
  LET sizes == {(IF cap = 0 THEN FIRST_CAP ELSE 2 * cap) * Pow2[k] : k \in DOMAIN Pow2}
  IN  CHOOSE c \in sizes : c >= need /\ \A d \in sizes : d >= need => c <= d

(* What b may be once data was appended: unchanged when realloc fails,     *)
(* and no caller looks at the result.                                      *)
buf_append(b, data) ==
  LET need == Len(b.bytes) + Len(data)
      full == [bytes |-> b.bytes \o data, cap |-> IF need > b.cap THEN Grown(b.cap, need) ELSE b.cap]
  IN  {full} \cup (IF need > b.cap THEN {b} ELSE {})

current == buf[section]

-----------------------------------------------------------------------------
(* process_line.                                                           *)

line == source[at]
Reading == phase = "lines" /\ at <= Len(source)

(* Mutant: the duplicate check compares nothing.                           *)
LabelNeverTwice == line.label # None /\ Cardinality(DOMAIN symbols) >= MAX_SYMBOLS

(* Mutant: the table is checked for room off by one.                       *)
LabelOneTooMany == /\ line.label # None
                   /\ \/ Cardinality(DOMAIN symbols) > MAX_SYMBOLS
                      \/ cut[line.label] \in DOMAIN symbols

LabelRefused == /\ line.label # None
                /\ \/ Cardinality(DOMAIN symbols) >= MAX_SYMBOLS
                   \/ cut[line.label] \in DOMAIN symbols

(* Mutant: a label stands for where its line ends in the other section.    *)
LabelInCode == [section |-> ".code", offset |-> Len(buf[".code"].bytes)]

LabelHere == [section |-> section, offset |-> ToU32(Len(current.bytes))]

add_symbol == symbols' = IF line.label = None THEN symbols
                         ELSE [name \in DOMAIN symbols \cup {cut[line.label]} |->
                                 IF name = cut[line.label] THEN LabelHere ELSE symbols[name]]

(* Mutant: .org may not stay where it is either.                           *)
OrgMustMove == ToU32(number[operand(line)]) <= Len(current.bytes)

(* The operand as the guard of asm.c:277 reads it, (uint32_t)v.            *)
OrgMovesBack == ToU32(number[operand(line)]) < Len(current.bytes)

LineRefused == \/ LabelRefused
               \/ Malformed(line)
               \/ line.word = ".org" /\ OrgMovesBack
               \/ NeedsFixup(line) /\ Len(fixups) >= MAX_FIXUPS

(* The error return: everything is freed and out_prog is left alone.       *)
Refuse == /\ phase' = "failed"
          /\ UNCHANGED <<source, at, section, buf, symbols, fixups, resolved, out_prog, dropped>>

RefuseLine == Reading /\ LineRefused /\ Refuse

Accepts(words) == Reading /\ line.word \in words /\ ~LineRefused /\ add_symbol /\ at' = at + 1

EmptyLine == /\ Accepts({"none"})
             /\ UNCHANGED <<source, section, buf, fixups, resolved, phase, out_prog, dropped>>

SectionLine == /\ Accepts({".code", ".data"})
               /\ section' = line.word
               /\ UNCHANGED <<source, buf, fixups, resolved, phase, out_prog, dropped>>

(* Mutant: the fixup is recorded where the line starts.                    *)
FixupAtLine(offset) == [section |-> section, offset |-> Len(current.bytes),
                        name |-> cut[operand(line)]]

Fixup(offset) == [section |-> section, offset |-> ToU32(offset), name |-> cut[operand(line)]]

(* A line that emits bytes: an instruction or a data directive.  An        *)
(* operand that is not a number is a placeholder and a fixup.              *)
EmitLine ==
  LET v == IF number[operand(line)] = NaN THEN 0 ELSE number[operand(line)]
  IN  /\ Accepts(Instructions \cup {".byte", ".word"} \cup Strings)
      /\ \E b \in buf_append(current, Lead(line)) : \E c \in buf_append(b, Rest(line, v)) :
           /\ buf' = [buf EXCEPT ![section] = c]
           /\ dropped' = (dropped \/ c.bytes # current.bytes \o Lead(line) \o Rest(line, v))
           /\ fixups' = IF NeedsFixup(line) THEN Append(fixups, Fixup(Len(b.bytes))) ELSE fixups
      /\ UNCHANGED <<source, section, resolved, phase, out_prog>>

(* .org pads byte by byte and tries again when an append fails, so it      *)
(* never ends when memory does not come back, or there is not enough.      *)
OrgLine ==
  LET target == ToU64(number[operand(line)])
      needs  == target > current.cap
  IN  /\ Accepts({".org"})
      /\ \/ /\ ~needs \/ target <= MEMORY
            /\ buf' = [buf EXCEPT ![section] =
                         [bytes |-> @.bytes \o [k \in 1 .. target - Len(@.bytes) |-> 0],
                          cap |-> IF needs THEN Grown(@.cap, target) ELSE @.cap]]
            /\ UNCHANGED phase
         \/ needs /\ phase' = "hung" /\ UNCHANGED buf
      /\ UNCHANGED <<source, section, fixups, resolved, out_prog, dropped>>

-----------------------------------------------------------------------------
(* zeus_assemble around the lines.                                         *)

CopySource == /\ phase = "start"
              /\ phase' \in {"lines", "crashed"}   \* strdup may return NULL
              /\ UNCHANGED <<source, at, section, buf, symbols, fixups, resolved, out_prog, dropped>>

LastLineRead == /\ phase = "lines" /\ at > Len(source)
                /\ phase' = "fixups"
                /\ UNCHANGED <<source, at, section, buf, symbols, fixups, resolved, out_prog, dropped>>

next_fixup == fixups[resolved + 1]

FixupRefused == \/ next_fixup.name \notin DOMAIN symbols
                \/ ToU32(next_fixup.offset + WordBytes) > Len(buf[next_fixup.section].bytes)

(* Mutant: a label of the other section is not found.                      *)
PatchSameSection(b, f) ==
  LET v == IF symbols[f.name].section = f.section THEN symbols[f.name].offset ELSE 0
  IN  [k \in DOMAIN b |-> IF k \in f.offset + 1 .. f.offset + WordBytes
                          THEN word_bytes(v)[k - f.offset] ELSE b[k]]

(* The bytes b with the offset of the label written over the placeholder.  *)
Patch(b, f) == [k \in DOMAIN b |-> IF k \in f.offset + 1 .. f.offset + WordBytes
                                   THEN word_bytes(symbols[f.name].offset)[k - f.offset] ELSE b[k]]

(* resolve_fixups, one turn of its loop.                                   *)
ResolveFixup ==
  /\ phase = "fixups" /\ resolved < Len(fixups)
  /\ \/ FixupRefused /\ Refuse
     \/ /\ ~FixupRefused
        /\ buf' = [buf EXCEPT ![next_fixup.section].bytes = Patch(@, next_fixup)]
        /\ resolved' = resolved + 1
        /\ UNCHANGED <<source, at, section, symbols, fixups, phase, out_prog, dropped>>

Array(bytes) == [k \in 0 .. Len(bytes) - 1 |-> bytes[k + 1]]

Header == [EmptyProgram EXCEPT !.code_len = ToU32(Len(buf[".code"].bytes)),
                               !.data_len = ToU32(Len(buf[".data"].bytes))]

(* The copy handed over.  When a malloc fails, what out_prog holds so far  *)
(* stays there with the lengths of the whole.                              *)
HandOver ==
  LET code == Array(buf[".code"].bytes)
      data == Array(buf[".data"].bytes)
  IN  /\ phase = "fixups" /\ resolved = Len(fixups)
      /\ \/ /\ out_prog' = [Header EXCEPT !.code = IF code = <<>> THEN NULL ELSE code,
                                          !.data = IF data = <<>> THEN NULL ELSE data]
            /\ phase' = "done"
         \/ code # <<>> /\ out_prog' = Header /\ phase' = "no_memory"
         \/ /\ data # <<>> /\ phase' = "no_memory"
            /\ out_prog' = [Header EXCEPT !.code = IF code = <<>> THEN NULL ELSE code]
      /\ UNCHANGED <<source, at, section, buf, symbols, fixups, resolved, dropped>>

Next == \/ CopySource \/ RefuseLine \/ EmptyLine \/ SectionLine \/ EmitLine \/ OrgLine
        \/ LastLineRead \/ ResolveFixup \/ HandOver

Spec == Init /\ [][Next]_vars

-----------------------------------------------------------------------------
(* Properties.                                                             *)

(* The header has 32 bits for the length of a section, an operand that is  *)
(* a label 32 bits for its offset: what follows is about sections that fit.*)
Addressable == \A s \in DOMAIN buf : Len(buf[s].bytes) \in Address

(* The state stays within its types.  A program handed over without an     *)
(* error has its header, its code and its data in agreement.               *)
TypeOK ==
  /\ at \in 1 .. Len(source) + 1 /\ section \in {".code", ".data"}
  /\ phase \in {"start", "lines", "fixups", "failed", "hung", "done", "no_memory", "crashed"}
  /\ \A s \in DOMAIN buf : /\ Len(buf[s].bytes) <= buf[s].cap
                           /\ \A k \in DOMAIN buf[s].bytes : buf[s].bytes[k] \in Byte
  /\ Cardinality(DOMAIN symbols) <= MAX_SYMBOLS /\ Len(fixups) <= MAX_FIXUPS
  /\ resolved \in 0 .. Len(fixups)
  /\ \A name \in DOMAIN symbols : symbols[name].offset <= Len(buf[symbols[name].section].bytes)
  /\ phase = "done" /\ Addressable =>
       /\ out_prog.code = NULL <=> out_prog.code_len = 0
       /\ out_prog.data = NULL <=> out_prog.data_len = 0
       /\ out_prog.code # NULL => DOMAIN out_prog.code = 0 .. out_prog.code_len - 1
       /\ out_prog.data # NULL => DOMAIN out_prog.data = 0 .. out_prog.data_len - 1

Assembled(s) == IF s = ".code" THEN [len |-> out_prog.code_len, array |-> out_prog.code]
                ELSE [len |-> out_prog.data_len, array |-> out_prog.data]

(* The single pass with fixups produces what the text means: each section  *)
(* is as long as its lines, and each line is where it belongs with its     *)
(* operand resolved, whether the label came before it or after, in its     *)
(* section or the other.                                                   *)
AssembledMatchesSource ==
  phase = "done" /\ ~dropped /\ Addressable =>
    /\ \A s \in {".code", ".data"} : Assembled(s).len = SectionLength(source, s)
    /\ \A i \in DOMAIN source : \A k \in DOMAIN BytesOf(source, i) :
         Assembled(SectionAt(source, i)).array[Start(source, i) + k - 1] = BytesOf(source, i)[k]

(* Every .org has an offset that an address can hold.  The guard of .org   *)
(* cuts its operand to 32 bits (asm.c:277), so a wider one is refused as   *)
(* going back when it goes forward, and a negative one is taken and pads   *)
(* for ever, both against USAGE.md:209.                                    *)
OrgsFit == \A i \in DOMAIN source :
  source[i].word = ".org" => number[operand(source[i])] \in Address \cup {NaN}

(* A text is refused only when something is wrong with it, and accepted    *)
(* only when nothing is, unless an append failed or an .org does not fit.  *)
RefusedForAReason ==
  ~dropped /\ OrgsFit => /\ phase = "failed" => ~Correct(source)
                         /\ phase \in {"done", "no_memory"} => Correct(source)

InstructionLines == {i \in DOMAIN source : SectionAt(source, i) = ".code"
                                           /\ source[i].word \notin {"none", ".code", ".data"}}

(* The listing of an assembled program accounts for every byte, and when   *)
(* the code section holds instructions only it is the text again, line by  *)
(* line, with the labels resolved.                                         *)
ListingReadsBack ==
  phase = "done" /\ Addressable /\ Listable(out_prog) =>
    LET listing == zeus_disassemble(out_prog)
        item(i) == listing[Cardinality({j \in InstructionLines : j <= i})]
    IN  /\ Accounts(listing, out_prog)
        /\ ~dropped /\ (\A i \in InstructionLines : source[i].word \in Instructions) =>
             /\ Len(listing) = Cardinality(InstructionLines)
             /\ \A i \in InstructionLines :
                  item(i) = Item(Start(source, i), source[i].word,
                                 IF has_operand(source[i].word) THEN Value(source, i) ELSE 0)

(* src/docs/USAGE.md, section 6: a line may have an optional comment, up   *)
(* to its end.  So a text that is correct without its comments is accepted *)
(* with them.                                                              *)
CommentsAreIgnored ==
  phase = "failed" => ~Correct([i \in DOMAIN source |-> [source[i] EXCEPT !.more = FALSE]])
=============================================================================
