-------------------------- MODULE AssemblerProofs --------------------------
(***************************************************************************)
(* The assembler, for every text, every number of symbols and fixups and   *)
(* every failure of memory: its state keeps its types, it refuses a text   *)
(* exactly when something is wrong with it, what it hands over is what the *)
(* text means, and the disassembler reads it back.                         *)
(***************************************************************************)
EXTENDS Assembler, WordProofs, FiniteSetTheorems, SequenceTheorems, WellFoundedInduction

-----------------------------------------------------------------------------
(* Numbers.                                                                *)

(* The least-number principle, for a set.                                  *)
LEMMA Smallest ==
  ASSUME NEW T, T \subseteq Nat, T # {}
  PROVE  \E x \in T : \A y \in T : x <= y
<1>1. PICK x \in T : \A y \in T : ~(<<y, x>> \in OpToRel(<, Nat))
  BY NatLessThanWellFounded, WFMin
<1>2. \A y \in T : ~(y < x)
  BY <1>1, Zenon DEF OpToRel
<1>3. \A y \in T : x <= y
  BY <1>2
<1>4. QED
  BY <1>3

(* Latest picks the greatest of some lines.                                *)
LEMMA LatestIsThere ==
  ASSUME NEW n \in Nat, NEW S, S \subseteq 1 .. n, S # {}
  PROVE  Latest(S) \in S /\ \A j \in S : j <= Latest(S)
<1>1. PICK T : T = {k \in Nat : n - k \in S}
  OBVIOUS
<1>2. \A i \in S : n - i \in T
  BY <1>1
<1>3. PICK k \in T : \A j \in T : k <= j
  BY <1>1, <1>2, Smallest
<1>4. n - k \in S /\ \A i \in S : i <= n - k
  BY <1>1, <1>2, <1>3
<1>5. \E i \in S : \A j \in S : j <= i
  BY <1>4
<1>6. QED
  BY <1>5 DEF Latest

LEMMA LatestIs ==
  ASSUME NEW S, S \subseteq Nat, NEW i \in S, \A j \in S : j <= i
  PROVE  Latest(S) = i
<1>1. Latest(S) \in S /\ \A j \in S : j <= Latest(S)
  BY DEF Latest
<1>2. PICK k \in Nat : k = Latest(S)
  BY <1>1
<1>3. i \in Nat /\ k <= i /\ i <= k
  BY <1>1, <1>2
<1>4. QED
  BY <1>2, <1>3

LEMMA Powers2 == DOMAIN Pow2 = 1 .. 16 /\ Pow2[16] = 32768 /\ \A k \in DOMAIN Pow2 : Pow2[k] \in Nat
<1>1. DOMAIN Pow2 = 1 .. 16 /\ Pow2[16] = 32768
  BY DEF Pow2
<1>2. ASSUME NEW k \in 1 .. 16 PROVE Pow2[k] \in Nat
  BY DEF Pow2
<1>3. QED
  BY <1>1, <1>2

(* The family a word belongs to, by its spelling.                          *)
FamilyOf(word) ==
  CASE word \in {"HALT", "PUSH", "POP", "DUP", "SWAP", "PICK", "ROLL"} -> 1
    [] word \in {"ADD", "SUB", "MUL", "DIV", "MOD", "NEG"} -> 2
    [] word \in {"AND", "OR", "XOR", "NOT", "SHL", "SHR"} -> 3
    [] word \in {"EQ", "NE", "LT", "GT", "LE", "GE"} -> 4
    [] word \in {"JMP", "JZ", "JNZ", "CALL", "RET"} -> 5
    [] word \in {"LOAD", "STORE", "LOADB", "STOREB", "LOADI", "STOREI",
                 "LOADBI", "STOREBI"} -> 6
    [] word \in {"PRINT", "PRINTC", "READ"} -> 7
    [] word \in {"SOCK_TCP", "SOCK_UDP", "BIND", "LISTEN", "ACCEPT",
                 "CONNECT", "SEND", "RECV", "CLOSE"} -> 8
    [] word \in {"RAW_ALLOC", "RAW_FREE", "RAW_SET_PROTO", "RAW_SET_DST",
                 "RAW_SET_SRC", "RAW_SET_PAYLOAD", "RAW_SEND", "RAW_RECV"} -> 9

(* Where a word is in the table.                                           *)
NameAt(m, i, word) == m \in 1 .. 9 /\ i \in 1 .. Len(Families[m]) /\ word = Families[m][i]

(* No two opcodes of isa.c have the same name.                             *)
LEMMA NamesDiffer ==
  ASSUME NEW m, NEW k, NEW i, NEW j, NEW word, NameAt(m, i, word), NameAt(k, j, word)
  PROVE  m = k /\ i = j
<1> DEFINE Member(f) == \A p \in 1 .. Len(Families[f]) : FamilyOf(Families[f][p]) = f
           Single(f) == \A p, r \in 1 .. Len(Families[f]) : Families[f][p] = Families[f][r] => p = r
<1>1. Member(1) /\ Single(1)
  <2>1. Families[1] = <<"HALT", "PUSH", "POP", "DUP", "SWAP", "PICK", "ROLL">>
    BY DEF Families
  <2>2. QED
    BY <2>1 DEF FamilyOf
<1>2. Member(2) /\ Single(2)
  <2>1. Families[2] = <<"ADD", "SUB", "MUL", "DIV", "MOD", "NEG">>
    BY DEF Families
  <2>2. QED
    BY <2>1 DEF FamilyOf
<1>3. Member(3) /\ Single(3)
  <2>1. Families[3] = <<"AND", "OR", "XOR", "NOT", "SHL", "SHR">>
    BY DEF Families
  <2>2. QED
    BY <2>1 DEF FamilyOf
<1>4. Member(4) /\ Single(4)
  <2>1. Families[4] = <<"EQ", "NE", "LT", "GT", "LE", "GE">>
    BY DEF Families
  <2>2. QED
    BY <2>1 DEF FamilyOf
<1>5. Member(5) /\ Single(5)
  <2>1. Families[5] = <<"JMP", "JZ", "JNZ", "CALL", "RET">>
    BY DEF Families
  <2>2. QED
    BY <2>1 DEF FamilyOf
<1>6. Member(6) /\ Single(6)
  <2>1. Families[6] = <<"LOAD", "STORE", "LOADB", "STOREB", "LOADI", "STOREI",
                        "LOADBI", "STOREBI">>
    BY DEF Families
  <2>2. QED
    BY <2>1 DEF FamilyOf
<1>7. Member(7) /\ Single(7)
  <2>1. Families[7] = <<"PRINT", "PRINTC", "READ">>
    BY DEF Families
  <2>2. QED
    BY <2>1 DEF FamilyOf
<1>8. Member(8) /\ Single(8)
  <2>1. Families[8] = <<"SOCK_TCP", "SOCK_UDP", "BIND", "LISTEN", "ACCEPT",
                        "CONNECT", "SEND", "RECV", "CLOSE">>
    BY DEF Families
  <2>2. QED
    BY <2>1 DEF FamilyOf
<1>9. Member(9) /\ Single(9)
  <2>1. Families[9] = <<"RAW_ALLOC", "RAW_FREE", "RAW_SET_PROTO", "RAW_SET_DST",
                        "RAW_SET_SRC", "RAW_SET_PAYLOAD", "RAW_SEND", "RAW_RECV">>
    BY DEF Families
  <2>2. QED
    BY <2>1 DEF FamilyOf
<1> HIDE DEF Member, Single
<1>10. \A f \in 1 .. 9 : Member(f) /\ Single(f)
  BY <1>1, <1>2, <1>3, <1>4, <1>5, <1>6, <1>7, <1>8, <1>9
<1>11. FamilyOf(Families[m][i]) = m /\ FamilyOf(Families[k][j]) = k
  BY <1>10 DEF Member, NameAt
<1>12. m = k
  BY <1>11 DEF NameAt
<1>13. QED
  BY <1>10, <1>12 DEF Single, NameAt

(* Every instruction has a byte, and it is the byte of that name.          *)
LEMMA OpByte ==
  ASSUME NEW op \in Instructions
  PROVE  zeus_op_by_name(op) \in Byte /\ Mnemonic(zeus_op_by_name(op)) = op
<1>1. PICK f \in DOMAIN Families : op \in {Families[f][i] : i \in DOMAIN Families[f]}
  BY DEF Instructions
<1>2. PICK i \in DOMAIN Families[f] : op = Families[f][i]
  BY <1>1
<1>3. Len(Families) = 9 /\ f \in 1 .. 9
  BY DEF Families
<1>4. Len(Families[f]) \in 1 .. 9 /\ i \in 1 .. Len(Families[f])
  BY <1>2, <1>3 DEF Families
<1>5. PICK len \in 1 .. 9 : len = Len(Families[f])
  BY <1>4
<1>6. i \in 1 .. len
  BY <1>4, <1>5
<1>7. PICK m \in 0 .. 8, j \in 0 .. 8 : f = m + 1 /\ i = j + 1
  <2>1. f - 1 \in 0 .. 8 /\ f = (f - 1) + 1
    BY <1>3
  <2>2. i - 1 \in 0 .. 8 /\ i = (i - 1) + 1
    BY <1>5, <1>6
  <2>3. QED
    BY <2>1, <2>2
<1>8. PICK byte \in 0 .. 255 : byte = 16 * m + j
  OBVIOUS
<1>9. byte \div 16 = m /\ byte % 16 = j
  BY <1>8
<1>10. Mnemonic(byte) = op
  BY <1>2, <1>3, <1>4, <1>7, <1>9 DEF Mnemonic
<1>11. QED
  BY <1>10 DEF zeus_op_by_name, Byte

(* The name of a byte, where isa.c has one for it, is that byte's alone.   *)
LEMMA ByteNamed ==
  ASSUME NEW byte \in Byte, Mnemonic(byte) # "INVALID"
  PROVE  Mnemonic(byte) \in Instructions /\ zeus_op_by_name(Mnemonic(byte)) = byte
<1> DEFINE Place(b, m, i) == NameAt(m, i, Mnemonic(b)) /\ b = 16 * (m - 1) + (i - 1)
<1>1. ASSUME NEW b \in 0 .. 255, Mnemonic(b) # "INVALID"
      PROVE  \E m, i \in Nat : Place(b, m, i)
  <2>1. PICK m \in Nat, i \in Nat : /\ m = (b \div 16) + 1 /\ i = (b % 16) + 1
                                    /\ b = 16 * (m - 1) + (i - 1) /\ m >= 1 /\ i >= 1
    OBVIOUS
  <2>2. Len(Families) = 9
    BY DEF Families
  <2>3. Mnemonic(b) = IF m <= 9 /\ i <= Len(Families[m]) THEN Families[m][i] ELSE "INVALID"
    BY <2>1, <2>2 DEF Mnemonic
  <2>4. m <= 9 /\ i <= Len(Families[m]) /\ Mnemonic(b) = Families[m][i]
    BY <1>1, <2>3
  <2>5. m \in 1 .. 9
    BY <2>1, <2>4
  <2>6. Len(Families[m]) \in Nat
    BY <2>5 DEF Families
  <2>7. i \in 1 .. Len(Families[m])
    BY <2>1, <2>4, <2>6
  <2>8. QED
    BY <2>1, <2>4, <2>5, <2>7 DEF NameAt
<1>2. PICK m \in Nat, i \in Nat : Place(byte, m, i)
  BY <1>1 DEF Byte
<1>3. Mnemonic(byte) \in Instructions
  <2>1. m \in DOMAIN Families /\ i \in DOMAIN Families[m]
    BY <1>2 DEF Families, NameAt
  <2>2. QED
    BY <1>2, <2>1 DEF Instructions, NameAt
<1>4. PICK c \in 0 .. 255 : c = zeus_op_by_name(Mnemonic(byte)) /\ Mnemonic(c) = Mnemonic(byte)
  BY <1>3, OpByte DEF Byte
<1>5. PICK k \in Nat, j \in Nat : Place(c, k, j)
  BY <1>1, <1>4
<1>6. m = k /\ i = j
  <2>1. NameAt(m, i, Mnemonic(byte)) /\ NameAt(k, j, Mnemonic(byte))
    BY <1>2, <1>4, <1>5
  <2>2. QED
    BY <2>1, NamesDiffer
<1>7. c = byte
  BY <1>2, <1>5, <1>6
<1>8. QED
  BY <1>3, <1>4, <1>7

(* A word written and read back, and the other way round.                  *)
LEMMA WordAgain ==
  ASSUME NEW v \in Word
  PROVE  Wrap((v % 256) + 256 * ((v \div 256) % 256)) = v
<1>1. v \in Int /\ -32768 <= v /\ v <= 32767
  BY WordInt, WordBounds
<1>2. QED
  BY <1>1, SMTT(60) DEF Wrap

LEMMA BytesAgain ==
  ASSUME NEW x \in Byte, NEW y \in Byte
  PROVE  word_bytes(Wrap(x + 256 * y)) = <<x, y>>
<1>1. Wrap(x + 256 * y) % 256 = x /\ (Wrap(x + 256 * y) \div 256) % 256 = y
  BY SMTT(60) DEF Wrap, Byte
<1>2. QED
  BY <1>1 DEF word_bytes

-----------------------------------------------------------------------------
(* Where the lines of a text end.                                          *)

(* One turn of the recursion of Ends.                                      *)
EndAt(src, end, i) ==
  LET start == IF i = 0 \/ Before(src, i) = {} THEN 0 ELSE end[Latest(Before(src, i))]
  IN  IF i = 0 THEN 0
      ELSE IF src[i].word = ".org" THEN ToU64(number[operand(src[i])])
      ELSE start + Len(Lead(src[i])) + Len(Rest(src[i], 0))

LEMMA BeforeIsBefore ==
  ASSUME NEW src, NEW i \in Nat, Before(src, i) # {}
  PROVE  /\ Latest(Before(src, i)) \in Before(src, i)
         /\ Latest(Before(src, i)) \in 1 .. i - 1
         /\ \A j \in Before(src, i) : j <= Latest(Before(src, i))
<1>1. PICK S : S = Before(src, i)
  OBVIOUS
<1>2. S \subseteq 1 .. i - 1 /\ S # {}
  BY <1>1 DEF Before
<1>3. S \subseteq 1 .. i
  BY <1>2
<1>4. Latest(S) \in S /\ \A j \in S : j <= Latest(S)
  BY <1>2, <1>3, LatestIsThere
<1>5. QED
  BY <1>1, <1>2, <1>4

(* It looks only at the lines before.                                      *)
LEMMA EndAtLooksBack ==
  ASSUME NEW src, NEW i \in Nat, NEW f, NEW g, \A j \in 0 .. i - 1 : f[j] = g[j]
  PROVE  EndAt(src, f, i) = EndAt(src, g, i)
<1>1. CASE i = 0 \/ Before(src, i) = {}
  BY <1>1 DEF EndAt
<1>2. CASE i # 0 /\ Before(src, i) # {}
  <2>1. PICK j \in 1 .. i - 1 : j = Latest(Before(src, i))
    BY <1>2, BeforeIsBefore
  <2>2. f[j] = g[j]
    BY <2>1
  <2>3. QED
    BY <1>2, <2>1, <2>2 DEF EndAt
<1>3. QED
  BY <1>1, <1>2

HasEnds(src, n) == \E f : f = [i \in 0 .. n |-> EndAt(src, f, i)]

LEMMA EndsExist ==
  ASSUME NEW src, NEW n \in Nat
  PROVE  HasEnds(src, n)
<1>1. SUFFICES ASSUME ~HasEnds(src, n) PROVE FALSE
  OBVIOUS
<1>2. PICK T : T = {m \in Nat : ~HasEnds(src, m)}
  OBVIOUS
<1>3. PICK m \in T : \A k \in T : m <= k
  BY <1>1, <1>2, Smallest
<1>4. m \in Nat /\ ~HasEnds(src, m)
  BY <1>2, <1>3
<1>5. CASE m = 0
  <2>1. PICK f : f = [i \in 0 .. 0 |-> 0]
    OBVIOUS
  <2>2. \A i \in 0 .. 0 : EndAt(src, f, i) = 0
    BY DEF EndAt
  <2>3. f = [i \in 0 .. 0 |-> EndAt(src, f, i)]
    BY <2>1, <2>2
  <2>4. QED
    BY <1>4, <1>5, <2>3 DEF HasEnds
<1>6. CASE m # 0
  <2>1. m - 1 \in Nat /\ m - 1 \notin T
    BY <1>3, <1>4, <1>6
  <2>2. PICK f : f = [i \in 0 .. m - 1 |-> EndAt(src, f, i)]
    BY <1>2, <2>1 DEF HasEnds
  <2>3. PICK g : g = [i \in 0 .. m |-> EndAt(src, f, i)]
    OBVIOUS
  <2>4. \A j \in 0 .. m - 1 : f[j] = g[j]
    BY <1>4, <2>2, <2>3
  <2>5. \A i \in 0 .. m : EndAt(src, f, i) = EndAt(src, g, i)
    <3>1. TAKE i \in 0 .. m
    <3>2. i \in Nat /\ \A j \in 0 .. i - 1 : f[j] = g[j]
      BY <1>4, <2>4
    <3>3. QED
      BY <3>2, EndAtLooksBack
  <2>6. g = [i \in 0 .. m |-> EndAt(src, g, i)]
    BY <2>3, <2>5
  <2>7. QED
    BY <1>4, <2>6 DEF HasEnds
<1>7. QED
  BY <1>5, <1>6

(* So Ends satisfies its own equation.                                     *)
LEMMA EndsUnfold ==
  ASSUME NEW src \in Seq(Line), NEW i \in 0 .. Len(src)
  PROVE  Ends(src)[i] = EndAt(src, Ends(src), i)
<1>1. Len(src) \in Nat
  OBVIOUS
<1>2. \E f : f = [j \in 0 .. Len(src) |-> EndAt(src, f, j)]
  BY <1>1, EndsExist DEF HasEnds
<1>3. Ends(src) = [j \in 0 .. Len(src) |-> EndAt(src, Ends(src), j)]
  BY <1>2 DEF EndAt, Ends
<1>4. QED
  BY <1>3

Sections == {".code", ".data"}

(* The lines before i that switch the section.                             *)
Switches(src, i) == {j \in 1 .. i - 1 : src[j].word \in Sections}

LEMMA SectionByLines ==
  ASSUME NEW src, NEW i \in Nat
  PROVE  SectionAt(src, i) = IF Switches(src, i) = {} THEN ".code" ELSE src[Latest(Switches(src, i))].word
BY DEF SectionAt, Switches, Sections

LEMMA SectionType ==
  ASSUME NEW src, NEW i \in Nat
  PROVE  SectionAt(src, i) \in Sections
<1>1. CASE Switches(src, i) = {}
  BY <1>1, SectionByLines DEF Sections
<1>2. CASE Switches(src, i) # {}
  <2>1. PICK S : S = Switches(src, i)
    OBVIOUS
  <2>2. S \subseteq 1 .. i /\ S # {} /\ \A j \in S : src[j].word \in Sections
    BY <1>2, <2>1 DEF Switches
  <2>3. Latest(S) \in S
    BY <2>2, LatestIsThere
  <2>4. QED
    BY <1>2, <2>1, <2>2, <2>3, SectionByLines
<1>3. QED
  BY <1>1, <1>2

LEMMA SectionStep ==
  ASSUME NEW src, NEW i \in Nat \ {0}
  PROVE  /\ SectionAt(src, 1) = ".code"
         /\ SectionAt(src, i + 1) = IF src[i].word \in Sections THEN src[i].word ELSE SectionAt(src, i)
<1>1. SectionAt(src, 1) = ".code"
  <2>1. Switches(src, 1) = {}
    BY DEF Switches
  <2>2. QED
    BY <2>1, SectionByLines
<1>2. i + 1 \in Nat /\ (i + 1) - 1 = i /\ i \in 1 .. i
  OBVIOUS
<1>3. CASE src[i].word \in Sections
  <2>1. PICK S : S = Switches(src, i + 1)
    OBVIOUS
  <2>2. S \subseteq 1 .. i /\ i \in S
    BY <1>2, <1>3, <2>1 DEF Switches
  <2>3. S \subseteq Nat /\ \A j \in S : j <= i
    BY <2>2
  <2>4. Latest(S) = i
    BY <2>2, <2>3, LatestIs
  <2>5. QED
    BY <1>1, <1>2, <1>3, <2>1, <2>2, <2>4, SectionByLines
<1>4. CASE src[i].word \notin Sections
  <2>1. Switches(src, i + 1) = Switches(src, i)
    <3>1. \A j \in 1 .. i : j \in 1 .. i - 1 \/ j = i
      OBVIOUS
    <3>2. 1 .. i - 1 \subseteq 1 .. i
      OBVIOUS
    <3>3. QED
      BY <1>2, <1>4, <3>1, <3>2 DEF Switches
  <2>2. QED
    BY <1>1, <1>2, <1>4, <2>1, SectionByLines
<1>5. QED
  BY <1>3, <1>4

(* The lines of section s before line i, and where the last of them ends.  *)
Lines(src, i, s) == {j \in 1 .. i - 1 : SectionAt(src, j) = s}
EndOf(src, i, s) == IF Lines(src, i, s) = {} THEN 0 ELSE Ends(src)[Latest(Lines(src, i, s))]

LEMMA StartIs ==
  ASSUME NEW src, NEW i
  PROVE  Start(src, i) = EndOf(src, i, SectionAt(src, i))
<1>1. Before(src, i) = Lines(src, i, SectionAt(src, i))
  BY DEF Before, Lines
<1>2. QED
  BY <1>1 DEF Start, EndOf

LEMMA EndOfStep ==
  ASSUME NEW src, NEW i \in Nat \ {0}, NEW s
  PROVE  /\ EndOf(src, 1, s) = 0
         /\ EndOf(src, i + 1, s) = IF SectionAt(src, i) = s THEN Ends(src)[i] ELSE EndOf(src, i, s)
<1>1. EndOf(src, 1, s) = 0
  <2>1. Lines(src, 1, s) = {}
    BY DEF Lines
  <2>2. QED
    BY <2>1 DEF EndOf
<1>2. (i + 1) - 1 = i /\ i \in 1 .. i
  OBVIOUS
<1>3. CASE SectionAt(src, i) = s
  <2>1. PICK S : S = Lines(src, i + 1, s)
    OBVIOUS
  <2>2. S \subseteq 1 .. i /\ i \in S
    BY <1>2, <1>3, <2>1 DEF Lines
  <2>3. S \subseteq Nat /\ \A j \in S : j <= i
    BY <2>2
  <2>4. Latest(S) = i
    BY <2>2, <2>3, LatestIs
  <2>5. QED
    BY <1>1, <1>3, <2>1, <2>2, <2>4 DEF EndOf
<1>4. CASE SectionAt(src, i) # s
  <2>1. Lines(src, i + 1, s) = Lines(src, i, s)
    <3>1. \A j \in 1 .. i : j \in 1 .. i - 1 \/ j = i
      OBVIOUS
    <3>2. 1 .. i - 1 \subseteq 1 .. i
      OBVIOUS
    <3>3. QED
      BY <1>2, <1>4, <3>1, <3>2 DEF Lines
  <2>2. QED
    BY <1>1, <1>4, <2>1 DEF EndOf
<1>5. QED
  BY <1>3, <1>4

LEMMA EndOfLine ==
  ASSUME NEW src \in Seq(Line), NEW i \in 1 .. Len(src)
  PROVE  Ends(src)[i] = IF src[i].word = ".org" THEN ToU64(number[operand(src[i])])
                        ELSE Start(src, i) + Len(Lead(src[i])) + Len(Rest(src[i], 0))
<1>1. i \in 0 .. Len(src) /\ i # 0
  OBVIOUS
<1>2. Ends(src)[i] = EndAt(src, Ends(src), i)
  BY <1>1, EndsUnfold
<1>3. QED
  BY <1>1, <1>2 DEF EndAt, Start

LEMMA LengthIs ==
  ASSUME NEW src \in Seq(Line), NEW s
  PROVE  SectionLength(src, s) = EndOf(src, Len(src) + 1, s)
<1>1. (Len(src) + 1) - 1 = Len(src) /\ DOMAIN src = 1 .. Len(src)
  OBVIOUS
<1>2. {i \in DOMAIN src : SectionAt(src, i) = s} = Lines(src, Len(src) + 1, s)
  BY <1>1 DEF Lines
<1>3. QED
  BY <1>2 DEF SectionLength, EndOf

-----------------------------------------------------------------------------
(* Lines and their bytes.                                                  *)

LEMMA LineParts ==
  ASSUME NEW l \in Line
  PROVE  /\ operand(l) \in Tokens /\ l.arg \in Tokens
         /\ number[operand(l)] \in Word \cup {NaN}
         /\ l.label = None \/ l.label \in Tokens
BY TokenAssumption DEF Line, operand

LEMMA LeadBytes ==
  ASSUME NEW l \in Line, ~Malformed(l)
  PROVE  Lead(l) \in Seq(Byte) /\ Len(Lead(l)) <= MAX_STRING
<1>1. CASE l.word \in Instructions
  <2>1. PICK byte \in Byte : byte = zeus_op_by_name(l.word)
    BY <1>1, OpByte
  <2>2. Lead(l) = <<byte>>
    BY <1>1, <2>1 DEF Lead
  <2>3. QED
    BY <2>1, <2>2 DEF MAX_STRING
<1>2. CASE l.word \notin Instructions /\ l.word \in Strings
  <2>1. text[l.arg] \in Seq(Byte) /\ Len(text[l.arg]) <= MAX_STRING
    BY <1>2, LineParts, TokenAssumption DEF Malformed
  <2>2. QED
    BY <1>2, <2>1 DEF Lead
<1>3. CASE l.word \notin Instructions /\ l.word \notin Strings
  BY <1>3 DEF Lead, MAX_STRING
<1>4. QED
  BY <1>1, <1>2, <1>3

LEMMA WordBytesOf ==
  ASSUME NEW v \in Int
  PROVE  word_bytes(v) \in Seq(Byte) /\ Len(word_bytes(v)) = WordBytes
<1>1. PICK x \in Byte, y \in Byte : x = v % 256 /\ y = (v \div 256) % 256
  BY BytesOfWord
<1>2. word_bytes(v) = <<x, y>>
  BY <1>1 DEF word_bytes
<1>3. QED
  BY <1>2 DEF WordBytes

LEMMA RestBytes ==
  ASSUME NEW l, NEW v \in Int
  PROVE  /\ Rest(l, v) \in Seq(Byte)
         /\ Len(Rest(l, v)) = IF takes_operand(l) THEN WordBytes ELSE IF l.word \in {".byte", ".asciz"} THEN 1 ELSE 0
<1>1. CASE takes_operand(l)
  <2>1. l.word # ".byte" /\ l.word # ".asciz"
    BY <1>1 DEF takes_operand, has_operand
  <2>2. Rest(l, v) = word_bytes(v)
    BY <1>1, <2>1 DEF Rest
  <2>3. QED
    BY <1>1, <2>2, WordBytesOf
<1>2. CASE ~takes_operand(l) /\ l.word = ".byte"
  <2>1. PICK x \in Byte : x = v % 256
    BY BytesOfWord
  <2>2. Rest(l, v) = <<x>>
    BY <1>2, <2>1 DEF Rest
  <2>3. QED
    BY <1>2, <2>2
<1>3. CASE ~takes_operand(l) /\ l.word = ".asciz"
  <2>1. Rest(l, v) = <<0>> /\ 0 \in Byte
    BY <1>3 DEF Rest, Byte
  <2>2. QED
    BY <1>3, <2>1
<1>4. CASE ~takes_operand(l) /\ l.word \notin {".byte", ".asciz"}
  <2>1. Rest(l, v) = <<>>
    BY <1>4 DEF Rest
  <2>2. QED
    BY <1>4, <2>1
<1>5. QED
  BY <1>1, <1>2, <1>3, <1>4

(* A buffer and what an append makes of it.                                *)
Buffer == [bytes : Seq(Byte), cap : Nat]
GoodBuffer(b) == b \in Buffer /\ Len(b.bytes) <= b.cap

LEMMA LeastAbove ==
  ASSUME NEW S, S \subseteq Nat, NEW n \in Nat, NEW m \in S, n <= m
  PROVE  \E c \in S : c >= n /\ \A d \in S : d >= n => c <= d
<1> DEFINE T == {c \in S : n <= c}
<1>1. T \subseteq Nat /\ m \in T
  OBVIOUS
<1>2. PICK x \in T : \A y \in T : x <= y
  <2> HIDE DEF T
  <2>1. T # {}
    BY <1>1
  <2>2. QED
    BY <1>1, <2>1, Smallest
<1>3. QED
  BY <1>1, <1>2

(* A string, or the largest target of .org, is within reach of doubling.   *)
Reachable(cap, need) == need <= cap + MAX_STRING \/ need <= 65535

LEMMA Grows ==
  ASSUME NEW cap \in Nat, NEW need \in Nat, Reachable(cap, need)
  PROVE  Grown(cap, need) \in Nat /\ need <= Grown(cap, need)
<1> DEFINE sizes == {(IF cap = 0 THEN FIRST_CAP ELSE 2 * cap) * Pow2[k] : k \in DOMAIN Pow2}
<1>1. PICK first \in Nat : first = IF cap = 0 THEN FIRST_CAP ELSE 2 * cap
  BY AssemblerAssumption
<1>2. 16 \in DOMAIN Pow2 /\ Pow2[16] = 32768
  BY Powers2
<1>3. first * 32768 \in sizes
  BY <1>1, <1>2
<1>4. first * 32768 \in Nat /\ need <= first * 32768
  BY <1>1, AssemblerAssumption DEF Reachable, MAX_STRING
<1>5. sizes \subseteq Nat
  <2>1. \A n \in Nat : first * n \in Nat
    OBVIOUS
  <2>2. \A k \in DOMAIN Pow2 : first * Pow2[k] \in Nat
    BY <2>1, Powers2
  <2>3. QED
    BY <1>1, <2>2
<1>6. Grown(cap, need) = CHOOSE c \in sizes : c >= need /\ \A d \in sizes : d >= need => c <= d
  BY DEF Grown
<1> HIDE DEF sizes
<1>7. PICK m \in Nat : m = first * 32768
  BY <1>4
<1>8. m \in sizes /\ need <= m
  BY <1>3, <1>4, <1>7
<1>9. \E c \in sizes : c >= need /\ \A d \in sizes : d >= need => c <= d
  BY <1>5, <1>8, LeastAbove
<1>10. PICK g : g = CHOOSE c \in sizes : c >= need /\ \A d \in sizes : d >= need => c <= d
  OBVIOUS
<1>11. g \in sizes /\ g >= need
  BY <1>9, <1>10
<1>12. g \in Nat
  BY <1>5, <1>11
<1>13. QED
  BY <1>6, <1>10, <1>11, <1>12

LEMMA Appended ==
  ASSUME NEW b, GoodBuffer(b), NEW data \in Seq(Byte), Len(data) <= MAX_STRING, NEW r \in buf_append(b, data)
  PROVE  GoodBuffer(r) /\ (r.bytes = b.bytes \o data \/ r = b)
<1>1. b.bytes \in Seq(Byte) /\ b.cap \in Nat /\ Len(b.bytes) <= b.cap /\ Len(b.bytes) \in Nat /\ Len(data) \in Nat
  BY DEF GoodBuffer, Buffer
<1>2. PICK need \in Nat : need = Len(b.bytes) + Len(data)
  BY <1>1
<1>3. PICK cap : cap = IF need > b.cap THEN Grown(b.cap, need) ELSE b.cap
  OBVIOUS
<1>4. Reachable(b.cap, need)
  BY <1>1, <1>2 DEF Reachable, MAX_STRING
<1>5. cap \in Nat /\ need <= cap
  <2>1. CASE need > b.cap
    BY <1>1, <1>3, <1>4, <2>1, Grows
  <2>2. CASE ~(need > b.cap)
    BY <1>1, <1>3, <2>2
  <2>3. QED
    BY <2>1, <2>2
<1>6. PICK bytes : bytes = b.bytes \o data
  OBVIOUS
<1>7. bytes \in Seq(Byte) /\ Len(bytes) = need
  BY <1>1, <1>2, <1>6
<1>8. r = [bytes |-> bytes, cap |-> cap] \/ r = b
  BY <1>2, <1>3, <1>6 DEF buf_append
<1>9. CASE r = b
  BY <1>9
<1>10. CASE r = [bytes |-> bytes, cap |-> cap]
  <2>1. r \in Buffer /\ r.bytes = bytes /\ r.cap = cap
    BY <1>5, <1>7, <1>10 DEF Buffer
  <2>2. QED
    BY <1>5, <1>6, <1>7, <2>1 DEF GoodBuffer
<1>11. QED
  BY <1>8, <1>9, <1>10

LEMMA Casting ==
  ASSUME NEW n \in Nat
  PROVE  ToU32(n) \in Nat /\ ToU32(n) <= n /\ (n <= 255 => ToU32(n) = n)
BY DEF ToU32

LEMMA CastingWord ==
  ASSUME NEW v \in Word
  PROVE  /\ ToU32(v) \in Nat /\ ToU64(v) \in Nat
         /\ ToU32(v) <= ToU64(v) /\ ToU64(v) <= 65535
<1>1. \A n \in Int : /\ n % 256 \in Nat /\ n % 65536 \in Nat
                     /\ n % 256 <= n % 65536 /\ n % 65536 <= 65535
  OBVIOUS
<1>2. v \in Int
  BY WordInt
<1>3. QED
  BY <1>1, <1>2 DEF ToU32, ToU64

(* No instruction has the name of a directive.                             *)
LEMMA WordKinds ==
  /\ Directives \cap Instructions = {}
  /\ "none" \notin Instructions /\ "unknown" \notin Instructions
<1>1. \A f \in DOMAIN Families : \A i \in DOMAIN Families[f] :
        Families[f][i] \notin Directives \cup {"none", "unknown"}
  <2>1. ASSUME NEW f \in 1 .. 9, NEW i \in DOMAIN Families[f]
        PROVE  Families[f][i] \notin Directives \cup {"none", "unknown"}
    BY DEF Families, Directives
  <2>2. DOMAIN Families = 1 .. 9
    BY DEF Families
  <2>3. QED
    BY <2>1, <2>2
<1>2. QED
  BY <1>1 DEF Instructions

(* The members of P below i, and how they grow.                            *)
Below(P, i) == {j \in 1 .. i - 1 : j \in P}

LEMMA Prefix ==
  ASSUME NEW P, NEW i \in Nat \ {0}
  PROVE  /\ IsFiniteSet(Below(P, i)) /\ i \notin Below(P, i) /\ Cardinality(Below(P, i)) \in Nat
         /\ Below(P, i + 1) = Below(P, i) \cup (IF i \in P THEN {i} ELSE {})
         /\ Cardinality(Below(P, i + 1)) = Cardinality(Below(P, i)) + (IF i \in P THEN 1 ELSE 0)
<1> DEFINE A == Below(P, i)
           B == Below(P, i + 1)
<1>1. IsFiniteSet(1 .. i - 1)
  BY FS_Interval
<1>2. IsFiniteSet(A)
  BY <1>1, FS_Subset DEF Below
<1>3. i \notin A
  BY DEF Below
<1>4. B = A \cup (IF i \in P THEN {i} ELSE {})
  <2>1. \A j \in 1 .. i : j \in 1 .. i - 1 \/ j = i
    OBVIOUS
  <2>2. 1 .. i - 1 \subseteq 1 .. i /\ i \in 1 .. i /\ (i + 1) - 1 = i
    OBVIOUS
  <2>3. QED
    BY <2>1, <2>2 DEF Below
<1>5. Cardinality(A) \in Nat
  BY <1>2, FS_CardinalityType
<1>6. Cardinality(B) = Cardinality(A) + (IF i \in P THEN 1 ELSE 0)
  <2> HIDE DEF A, B
  <2>1. CASE i \in P
    <3>1. B = A \cup {i}
      BY <1>4, <2>1
    <3>2. Cardinality(A \cup {i}) = Cardinality(A) + 1
      BY <1>2, <1>3, FS_AddElement
    <3>3. QED
      BY <2>1, <3>1, <3>2
  <2>2. CASE i \notin P
    <3>1. B = A
      BY <1>4, <2>2
    <3>2. QED
      BY <1>5, <2>2, <3>1
  <2>3. QED
    BY <2>1, <2>2
<1>7. QED
  BY <1>2, <1>3, <1>4, <1>5, <1>6

-----------------------------------------------------------------------------
(* Labels and references, counted.                                         *)

Phases == {"start", "lines", "fixups", "failed", "hung", "done", "no_memory", "crashed"}
Names  == {cut[t] : t \in Tokens}
Fixups == [section : Sections, offset : Nat, name : Names]

LabelsBefore(src, i) == {j \in 1 .. i - 1 : src[j].label # None}
RefsBefore(src, i)   == {j \in 1 .. i - 1 : NeedsFixup(src[j])}
FixupOf(src, j)      == Cardinality(RefsBefore(src, j)) + 1
LabelOf(src, j)      == cut[src[j].label]
TargetOf(src, j)     == cut[operand(src[j])]

LEMMA CountLabels ==
  ASSUME NEW src, NEW i \in Nat \ {0}
  PROVE  /\ IsFiniteSet(LabelsBefore(src, i)) /\ i \notin LabelsBefore(src, i)
         /\ Cardinality(LabelsBefore(src, i)) \in Nat
         /\ LabelsBefore(src, i + 1) = LabelsBefore(src, i) \cup (IF src[i].label # None THEN {i} ELSE {})
         /\ Cardinality(LabelsBefore(src, i + 1))
              = Cardinality(LabelsBefore(src, i)) + (IF src[i].label # None THEN 1 ELSE 0)
<1> DEFINE P == {j \in Nat : src[j].label # None}
<1>1. \A k \in Nat \ {0} : LabelsBefore(src, k) = Below(P, k)
  BY DEF LabelsBefore, Below
<1>2. LabelsBefore(src, i) = Below(P, i)
  BY <1>1
<1>3. LabelsBefore(src, i + 1) = Below(P, i + 1)
  BY <1>1
<1>4. i \in P <=> src[i].label # None
  OBVIOUS
<1> HIDE DEF P
<1>5. QED
  BY <1>2, <1>3, <1>4, Prefix

LEMMA CountRefs ==
  ASSUME NEW src, NEW i \in Nat \ {0}
  PROVE  /\ IsFiniteSet(RefsBefore(src, i)) /\ i \notin RefsBefore(src, i)
         /\ Cardinality(RefsBefore(src, i)) \in Nat
         /\ RefsBefore(src, i + 1) = RefsBefore(src, i) \cup (IF NeedsFixup(src[i]) THEN {i} ELSE {})
         /\ Cardinality(RefsBefore(src, i + 1))
              = Cardinality(RefsBefore(src, i)) + (IF NeedsFixup(src[i]) THEN 1 ELSE 0)
<1> DEFINE P == {j \in Nat : NeedsFixup(src[j])}
<1>1. \A k \in Nat \ {0} : RefsBefore(src, k) = Below(P, k)
  BY DEF RefsBefore, Below
<1>2. RefsBefore(src, i) = Below(P, i)
  BY <1>1
<1>3. RefsBefore(src, i + 1) = Below(P, i + 1)
  BY <1>1
<1>4. i \in P <=> NeedsFixup(src[i])
  OBVIOUS
<1> HIDE DEF P
<1>5. QED
  BY <1>2, <1>3, <1>4, Prefix

(* Later references have later fixups.                                     *)
LEMMA FixupsInOrder ==
  ASSUME NEW src, NEW j \in Nat \ {0}, NEW i \in RefsBefore(src, j)
  PROVE  FixupOf(src, i) \in Nat /\ FixupOf(src, j) \in Nat /\ FixupOf(src, i) < FixupOf(src, j)
<1>1. i \in Nat \ {0} /\ i <= j - 1 /\ NeedsFixup(src[i])
  BY DEF RefsBefore
<1>2. RefsBefore(src, i + 1) \subseteq RefsBefore(src, j)
  BY <1>1 DEF RefsBefore
<1>3. IsFiniteSet(RefsBefore(src, j))
  BY CountRefs
<1>4. Cardinality(RefsBefore(src, i + 1)) <= Cardinality(RefsBefore(src, j))
  <2>1. PICK S, T : S = RefsBefore(src, j) /\ T = RefsBefore(src, i + 1)
    OBVIOUS
  <2>2. IsFiniteSet(S) /\ T \in SUBSET S
    BY <1>2, <1>3, <2>1
  <2>3. Cardinality(T) <= Cardinality(S)
    BY <2>2, FS_Subset
  <2>4. QED
    BY <2>1, <2>3
<1>5. /\ Cardinality(RefsBefore(src, i)) \in Nat
      /\ Cardinality(RefsBefore(src, i + 1)) = Cardinality(RefsBefore(src, i)) + 1
  BY <1>1, CountRefs
<1>6. Cardinality(RefsBefore(src, j)) \in Nat
  BY CountRefs
<1>7. QED
  BY <1>4, <1>5, <1>6 DEF FixupOf

LEMMA FixupsDiffer ==
  ASSUME NEW src, NEW n \in Nat, NEW i \in RefsBefore(src, n), NEW j \in RefsBefore(src, n), i # j
  PROVE  FixupOf(src, i) # FixupOf(src, j)
<1>1. i \in Nat \ {0} /\ j \in Nat \ {0} /\ NeedsFixup(src[i]) /\ NeedsFixup(src[j])
  BY DEF RefsBefore
<1>2. CASE i < j
  <2>1. i \in RefsBefore(src, j)
    BY <1>1, <1>2 DEF RefsBefore
  <2>2. QED
    BY <1>1, <2>1, FixupsInOrder
<1>3. CASE j < i
  <2>1. j \in RefsBefore(src, i)
    BY <1>1, <1>3 DEF RefsBefore
  <2>2. QED
    BY <1>1, <2>1, FixupsInOrder
<1>4. QED
  BY <1>1, <1>2, <1>3

(* At the end, those are the labels and references of the text.            *)
LEMMA AllOfThem ==
  ASSUME NEW src \in Seq(Line)
  PROVE  LabelsBefore(src, Len(src) + 1) = Labels(src) /\ RefsBefore(src, Len(src) + 1) = References(src)
<1>1. DOMAIN src = 1 .. (Len(src) + 1) - 1
  OBVIOUS
<1>2. QED
  BY <1>1 DEF LabelsBefore, RefsBefore, Labels, References

LEMMA SomeOfThem ==
  ASSUME NEW src \in Seq(Line), NEW i \in 1 .. Len(src)
  PROVE  /\ IsFiniteSet(Labels(src)) /\ IsFiniteSet(References(src))
         /\ Cardinality(LabelsBefore(src, i + 1)) <= Cardinality(Labels(src))
         /\ Cardinality(RefsBefore(src, i + 1)) <= Cardinality(References(src))
<1>1. Len(src) + 1 \in Nat \ {0}
  OBVIOUS
<1>2. IsFiniteSet(LabelsBefore(src, Len(src) + 1)) /\ IsFiniteSet(RefsBefore(src, Len(src) + 1))
  BY <1>1, CountLabels, CountRefs
<1>3. IsFiniteSet(Labels(src)) /\ IsFiniteSet(References(src))
  BY <1>2, AllOfThem
<1>4. LabelsBefore(src, i + 1) \in SUBSET Labels(src) /\ RefsBefore(src, i + 1) \in SUBSET References(src)
  BY DEF LabelsBefore, RefsBefore, Labels, References
<1>5. QED
  BY <1>3, <1>4, FS_Subset

-----------------------------------------------------------------------------
(* Where a line that can be read starts and ends.                          *)

(* .org goes back as the guard of asm.c:277 sees it.                       *)
CutBack(src, i) == src[i].word = ".org" /\ ToU32(number[operand(src[i])]) < Start(src, i)

LEMMA LineEnds ==
  ASSUME NEW src \in Seq(Line), NEW i \in 1 .. Len(src), ~Malformed(src[i]), ~CutBack(src, i),
         Start(src, i) \in Nat
  PROVE  /\ Ends(src)[i] \in Nat /\ Start(src, i) <= Ends(src)[i]
         /\ src[i].word = ".org" => /\ Ends(src)[i] = ToU64(number[operand(src[i])])
                                    /\ Ends(src)[i] <= 65535
         /\ src[i].word # ".org" => \A v \in Int :
              Ends(src)[i] = Start(src, i) + Len(Lead(src[i])) + Len(Rest(src[i], v))
<1>1. src[i] \in Line
  OBVIOUS
<1>2. CASE src[i].word = ".org"
  <2>1. number[operand(src[i])] \in Word
    BY <1>1, <1>2, LineParts DEF Malformed
  <2>2. PICK v \in Word : v = number[operand(src[i])]
    BY <2>1
  <2>3. Ends(src)[i] = ToU64(v)
    BY <1>2, <2>2, EndOfLine
  <2>4. ~(ToU32(v) < Start(src, i))
    BY <1>2, <2>2 DEF CutBack
  <2>5. ToU32(v) \in Nat /\ ToU64(v) \in Nat /\ ToU32(v) <= ToU64(v) /\ ToU64(v) <= 65535
    BY CastingWord
  <2>6. Start(src, i) <= ToU64(v)
    BY <2>4, <2>5
  <2>7. QED
    BY <1>2, <2>2, <2>3, <2>5, <2>6
<1>3. CASE src[i].word # ".org"
  <2>1. Len(Lead(src[i])) \in Nat
    BY <1>1, LeadBytes
  <2>2. PICK r \in Nat : r = IF takes_operand(src[i]) THEN WordBytes
                             ELSE IF src[i].word \in {".byte", ".asciz"} THEN 1 ELSE 0
    BY DEF WordBytes
  <2>3. \A v \in Int : Len(Rest(src[i], v)) = r
    BY <2>2, RestBytes
  <2>4. Ends(src)[i] = Start(src, i) + Len(Lead(src[i])) + r
    <3>1. Ends(src)[i] = Start(src, i) + Len(Lead(src[i])) + Len(Rest(src[i], 0))
      BY <1>3, EndOfLine
    <3>2. QED
      BY <2>3, <3>1
  <2>5. QED
    BY <1>3, <2>1, <2>3, <2>4
<1>4. QED
  BY <1>2, <1>3

-----------------------------------------------------------------------------
(* The inductive invariant.                                                *)

(* The types, for the parts of the state that change together.             *)
Reader  == source \in Sources /\ at \in 1 .. Len(source) + 1 /\ section \in Sections /\ phase \in Phases
Buffers == DOMAIN buf = Sections /\ \A s \in Sections : GoodBuffer(buf[s])
Symbols == /\ IsFiniteSet(DOMAIN symbols) /\ Cardinality(DOMAIN symbols) <= MAX_SYMBOLS
           /\ \A name \in DOMAIN symbols : /\ symbols[name].section \in Sections /\ symbols[name].offset \in Nat
                                           /\ symbols[name].offset <= Len(buf[symbols[name].section].bytes)
FixupTable == fixups \in Seq(Fixups) /\ Len(fixups) <= MAX_FIXUPS /\ resolved \in 0 .. Len(fixups)

(* What the phases mean.                                                   *)
Steps == /\ phase \in {"start", "lines"} => resolved = 0
         /\ phase \in {"fixups", "done", "no_memory"} => at = Len(source) + 1
         /\ phase \in {"done", "no_memory"} => resolved = Len(fixups)

(* The lines read so far: none is malformed, the symbols are their labels, *)
(* which differ, and the fixups are their references, in order.            *)
LinesRead == /\ section = SectionAt(source, at)
             /\ \A j \in 1 .. at - 1 : ~Malformed(source[j])
LabelsRead == /\ DOMAIN symbols = {LabelOf(source, j) : j \in LabelsBefore(source, at)}
              /\ Cardinality(DOMAIN symbols) = Cardinality(LabelsBefore(source, at))
              /\ \A i, j \in LabelsBefore(source, at) : LabelOf(source, i) = LabelOf(source, j) => i = j
RefsRead == /\ Len(fixups) = Cardinality(RefsBefore(source, at))
            /\ \A k \in 1 .. Len(fixups) : \E j \in RefsBefore(source, at) : FixupOf(source, j) = k
            /\ \A j \in RefsBefore(source, at) :
                 /\ FixupOf(source, j) \in 1 .. Len(fixups)
                 /\ fixups[FixupOf(source, j)].name = TargetOf(source, j)
                 /\ fixups[FixupOf(source, j)].section = SectionAt(source, j)
            /\ \A k \in 1 .. resolved : fixups[k].name \in DOMAIN symbols

(* Where their bytes are, unless an append failed or .org hangs: each      *)
(* section is as long as its lines, which follow one another.              *)
Intact == phase # "hung" /\ ~dropped
LaidOut == Intact =>
  /\ \A s \in Sections : Len(buf[s].bytes) = EndOf(source, at, s)
  /\ \A j \in 1 .. at - 1 : /\ ~CutBack(source, j)
                            /\ Start(source, j) \in Nat /\ Ends(source)[j] \in Nat
                            /\ Start(source, j) <= Ends(source)[j]
                            /\ Ends(source)[j] <= EndOf(source, at, SectionAt(source, j))
  /\ \A j \in 1 .. at - 1 : \A i \in 1 .. j - 1 :
       SectionAt(source, i) = SectionAt(source, j) => Ends(source)[i] <= Start(source, j)
Offsets == Intact =>
  /\ \A j \in LabelsBefore(source, at) :
       symbols[LabelOf(source, j)].offset = ToU32(Start(source, j))
  /\ \A j \in RefsBefore(source, at) :
       fixups[FixupOf(source, j)].offset = ToU32(Start(source, j) + Len(Lead(source[j])))

(* What those bytes are when n fixups are filled in from a symbol table: an *)
(* operand that is a label is 0 until its turn.                            *)
Operand(src, j, n, table) ==
  IF number[operand(src[j])] # NaN THEN number[operand(src[j])]
  ELSE IF NeedsFixup(src[j]) /\ FixupOf(src, j) <= n THEN table[TargetOf(src, j)].offset
  ELSE 0
Written(src, j, n, table) ==
  IF src[j].word = ".org" THEN [k \in 1 .. Ends(src)[j] - Start(src, j) |-> 0]
  ELSE Lead(src[j]) \o Rest(src[j], Operand(src, j, n, table))
Content == Intact /\ Addressable =>
  \A j \in 1 .. at - 1 : \A k \in DOMAIN Written(source, j, resolved, symbols) :
    buf[SectionAt(source, j)].bytes[Start(source, j) + k] = Written(source, j, resolved, symbols)[k]

(* The verdict, and the program handed over.                               *)
Verdict == phase = "failed" /\ ~dropped /\ OrgsFit => ~Correct(source)
Handed == phase = "done" =>
  \A s \in Sections : /\ Assembled(s).len = ToU32(Len(buf[s].bytes))
                      /\ Assembled(s).array = IF Array(buf[s].bytes) = <<>> THEN NULL ELSE Array(buf[s].bytes)

AsmInv == /\ Reader /\ Buffers /\ Symbols /\ FixupTable /\ Steps
          /\ LinesRead /\ LabelsRead /\ RefsRead /\ LaidOut /\ Offsets /\ Content /\ Verdict /\ Handed

LEMMA AsmInit == Init => AsmInv
<1> SUFFICES ASSUME Init PROVE AsmInv
  OBVIOUS
<1>1. source \in Sources /\ at = 1 /\ section = ".code" /\ phase = "start" /\ resolved = 0
  BY DEF Init
<1>2. source \in Seq(Line)
  BY <1>1, AssemblerAssumption
<1>3. LabelsBefore(source, at) = {} /\ RefsBefore(source, at) = {} /\ 1 .. at - 1 = {}
  BY <1>1 DEF LabelsBefore, RefsBefore
<1>4. Reader
  BY <1>1, <1>2 DEF Reader, Sections, Phases
<1>5. DOMAIN symbols = {}
  BY DEF Init
<1>6. \A s \in Sections : buf[s] = [bytes |-> <<>>, cap |-> 0]
  BY DEF Init, Sections
<1>7. Buffers
  <2>1. DOMAIN buf = Sections
    BY DEF Init, Sections
  <2>2. [bytes |-> <<>>, cap |-> 0] \in Buffer
    BY DEF Buffer
  <2>3. QED
    BY <1>6, <2>1, <2>2 DEF Buffers, GoodBuffer
<1>8. Symbols
  BY <1>5, FS_EmptySet, TokenAssumption DEF Symbols
<1>9. fixups = <<>> /\ Len(fixups) = 0
  BY DEF Init
<1>10. FixupTable
  BY <1>1, <1>9, TokenAssumption DEF FixupTable
<1>11. Steps /\ Verdict /\ Handed
  BY <1>1 DEF Steps, Verdict, OrgsFit, Handed
<1>12. LinesRead
  BY <1>1, <1>3, SectionStep DEF LinesRead
<1>13. LabelsRead
  BY <1>3, <1>5, FS_EmptySet DEF LabelsRead
<1>14. RefsRead
  <2>1. 1 .. Len(fixups) = {} /\ 1 .. resolved = {}
    BY <1>1, <1>9
  <2>2. Len(fixups) = Cardinality(RefsBefore(source, at))
    BY <1>3, <1>9, FS_EmptySet
  <2>3. QED
    BY <1>3, <2>1, <2>2 DEF RefsRead
<1>15. LaidOut
  <2>1. \A s \in Sections : Len(buf[s].bytes) = EndOf(source, at, s)
    <3>1. TAKE s \in Sections
    <3>2. EndOf(source, 1, s) = 0
      <4>1. 1 \in Nat \ {0}
        OBVIOUS
      <4>2. QED
        BY <4>1, EndOfStep
    <3>3. Len(buf[s].bytes) = 0
      BY <1>6
    <3>4. QED
      BY <1>1, <3>2, <3>3
  <2>2. QED
    BY <1>3, <2>1 DEF LaidOut
<1>16. Offsets /\ Content
  BY <1>3 DEF Offsets, Content
<1>17. QED
  BY <1>4, <1>7, <1>8, <1>10, <1>11, <1>12, <1>13, <1>14, <1>15, <1>16 DEF AsmInv

-----------------------------------------------------------------------------
(* Reading a line.                                                         *)

LEMMA AcceptedLine ==
  ASSUME Reader, Reading, ~LineRefused
  PROVE  /\ source \in Seq(Line) /\ at \in 1 .. Len(source) /\ at \in Nat \ {0} /\ section \in Sections
         /\ line \in Line /\ ~Malformed(line) /\ ~LabelRefused
         /\ ~(line.word = ".org" /\ OrgMovesBack) /\ ~(NeedsFixup(line) /\ Len(fixups) >= MAX_FIXUPS)
<1>1. source \in Seq(Line)
  BY AssemblerAssumption DEF Reader
<1>2. at \in 1 .. Len(source) /\ at \in Nat \ {0}
  BY <1>1 DEF Reader, Reading
<1>3. line \in Line
  BY <1>1, <1>2 DEF line
<1>4. QED
  BY <1>1, <1>2, <1>3 DEF LineRefused, Reader

(* No section gets shorter.                                                *)
NothingLost == \A s \in Sections : Len(buf[s].bytes) <= Len(buf'[s].bytes)

LEMMA LabelsStep ==
  ASSUME Reader, Buffers, Symbols, LabelsRead, Reading, ~LineRefused, add_symbol,
         source' = source, at' = at + 1, Buffers', NothingLost
  PROVE  Symbols' /\ LabelsRead' /\ DOMAIN symbols \subseteq DOMAIN symbols'
<1>1. at \in Nat \ {0} /\ section \in Sections /\ line \in Line /\ ~LabelRefused
  BY AcceptedLine
<1>2. /\ IsFiniteSet(LabelsBefore(source, at)) /\ at \notin LabelsBefore(source, at)
      /\ Cardinality(LabelsBefore(source, at)) \in Nat
      /\ LabelsBefore(source, at + 1) = LabelsBefore(source, at) \cup (IF line.label # None THEN {at} ELSE {})
      /\ Cardinality(LabelsBefore(source, at + 1))
           = Cardinality(LabelsBefore(source, at)) + (IF line.label # None THEN 1 ELSE 0)
  BY <1>1, CountLabels DEF line
<1>3. \A s \in Sections : Len(buf[s].bytes) \in Nat /\ Len(buf'[s].bytes) \in Nat
  BY DEF Buffers, GoodBuffer, Buffer
<1>4. \A name \in DOMAIN symbols :
        /\ symbols[name].section \in Sections /\ symbols[name].offset \in Nat
        /\ symbols[name].offset <= Len(buf'[symbols[name].section].bytes)
  BY <1>3 DEF Symbols, NothingLost
<1>5. CASE line.label = None
  <2>1. symbols' = symbols /\ LabelsBefore(source, at + 1) = LabelsBefore(source, at)
    BY <1>2, <1>5 DEF add_symbol
  <2>2. Symbols'
    BY <1>4, <2>1 DEF Symbols
  <2>3. LabelsRead'
    BY <2>1 DEF LabelsRead
  <2>4. QED
    BY <2>1, <2>2, <2>3
<1>6. CASE line.label # None
  <2>1. PICK name : name = LabelOf(source, at)
    OBVIOUS
  <2>2. PICK D : D = DOMAIN symbols
    OBVIOUS
  <2>3. name \notin D /\ ~(Cardinality(D) >= MAX_SYMBOLS)
    BY <1>1, <1>6, <2>1, <2>2 DEF LabelRefused, LabelOf, line
  <2>4. /\ DOMAIN symbols' = D \cup {name} /\ symbols'[name] = LabelHere
        /\ \A n \in D : symbols'[n] = symbols[n]
    BY <1>6, <2>1, <2>2, <2>3 DEF add_symbol, LabelOf, line
  <2>5. IsFiniteSet(D \cup {name}) /\ Cardinality(D) \in Nat /\ Cardinality(D \cup {name}) = Cardinality(D) + 1
    BY <2>2, <2>3, FS_AddElement, FS_CardinalityType DEF Symbols
  <2>6. Cardinality(D \cup {name}) <= MAX_SYMBOLS
    BY <2>3, <2>5, TokenAssumption
  <2>7. /\ LabelHere.section \in Sections /\ LabelHere.offset \in Nat
        /\ LabelHere.offset <= Len(buf'[LabelHere.section].bytes)
    <3>1. PICK n \in Nat, m \in Nat : n = Len(buf[section].bytes) /\ m = Len(buf'[section].bytes) /\ n <= m
      BY <1>1, <1>3 DEF NothingLost
    <3>2. PICK c \in Nat : c = ToU32(n) /\ c <= n
      BY Casting
    <3>3. c <= m
      BY <3>1, <3>2
    <3>4. LabelHere.section = section /\ LabelHere.offset = c
      BY <3>1, <3>2 DEF LabelHere, current
    <3>5. QED
      BY <1>1, <3>1, <3>3, <3>4
  <2>8. Symbols'
    BY <1>4, <2>2, <2>4, <2>5, <2>6, <2>7 DEF Symbols
  <2>9. PICK L : L = LabelsBefore(source, at)
    OBVIOUS
  <2>10. LabelsBefore(source, at + 1) = L \cup {at}
    BY <1>2, <1>6, <2>9
  <2>11. D = {LabelOf(source, j) : j \in L}
    BY <2>2, <2>9 DEF LabelsRead
  <2>12. D \cup {name} = {LabelOf(source, j) : j \in L \cup {at}}
    BY <2>1, <2>11
  <2>13. \A i, j \in L \cup {at} : LabelOf(source, i) = LabelOf(source, j) => i = j
    <3>1. \A i, j \in L : LabelOf(source, i) = LabelOf(source, j) => i = j
      BY <2>9 DEF LabelsRead
    <3>2. \A i \in L : LabelOf(source, i) # name
      BY <2>3, <2>11
    <3>3. QED
      BY <2>1, <3>1, <3>2
  <2>14. Cardinality(D \cup {name}) = Cardinality(L \cup {at})
    BY <1>2, <1>6, <2>2, <2>5, <2>9, <2>10 DEF LabelsRead
  <2>15. LabelsRead'
    <3>1. PICK M, E : M = L \cup {at} /\ E = D \cup {name}
      OBVIOUS
    <3>2. LabelsBefore(source, at)' = M /\ DOMAIN symbols' = E /\ source' = source
      BY <2>4, <2>10, <3>1
    <3>3. /\ E = {LabelOf(source, j) : j \in M} /\ Cardinality(E) = Cardinality(M)
          /\ \A i, j \in M : LabelOf(source, i) = LabelOf(source, j) => i = j
      BY <2>12, <2>13, <2>14, <3>1
    <3>4. QED
      BY <3>2, <3>3 DEF LabelsRead
  <2>16. QED
    BY <2>2, <2>4, <2>8, <2>15
<1>7. QED
  BY <1>5, <1>6

(* The fixup of a line whose operand is a label, at some offset.           *)
AddsFixup(offset) ==
  fixups' = IF NeedsFixup(line)
            THEN Append(fixups, [section |-> section, offset |-> offset, name |-> cut[operand(line)]])
            ELSE fixups

LEMMA Appending ==
  ASSUME NEW S, NEW seq \in Seq(S), NEW e \in S
  PROVE  /\ Append(seq, e) \in Seq(S) /\ Len(Append(seq, e)) = Len(seq) + 1
         /\ Append(seq, e)[Len(seq) + 1] = e
         /\ \A k \in 1 .. Len(seq) : Append(seq, e)[k] = seq[k]
OBVIOUS

LEMMA RefsStep ==
  ASSUME Reader, FixupTable, LinesRead, RefsRead, Reading, ~LineRefused,
         source' = source, at' = at + 1, resolved' = resolved, DOMAIN symbols \subseteq DOMAIN symbols',
         NEW offset \in Nat, AddsFixup(offset)
  PROVE  FixupTable' /\ RefsRead'
<1>1. /\ at \in Nat \ {0} /\ section \in Sections /\ line \in Line
      /\ ~(NeedsFixup(line) /\ Len(fixups) >= MAX_FIXUPS)
  BY AcceptedLine
<1>2. /\ at \notin RefsBefore(source, at)
      /\ RefsBefore(source, at + 1) = RefsBefore(source, at) \cup (IF NeedsFixup(line) THEN {at} ELSE {})
      /\ Cardinality(RefsBefore(source, at + 1))
           = Cardinality(RefsBefore(source, at)) + (IF NeedsFixup(line) THEN 1 ELSE 0)
  BY <1>1, CountRefs DEF line
<1>3. PICK R, fx : R = RefsBefore(source, at) /\ fx = fixups
  OBVIOUS
<1>4. PICK n \in Nat : n = Len(fx) /\ n = Cardinality(R) /\ fx \in Seq(Fixups) /\ n <= MAX_FIXUPS
                       /\ resolved \in 0 .. n
  BY <1>3 DEF FixupTable, RefsRead
<1>5. /\ \A k \in 1 .. n : \E j \in R : FixupOf(source, j) = k
      /\ \A j \in R : /\ FixupOf(source, j) \in 1 .. n
                      /\ fx[FixupOf(source, j)].name = TargetOf(source, j)
                      /\ fx[FixupOf(source, j)].section = SectionAt(source, j)
      /\ \A k \in 1 .. resolved : fx[k].name \in DOMAIN symbols'
  BY <1>3, <1>4 DEF RefsRead
<1>6. CASE ~NeedsFixup(line)
  <2>1. fixups' = fixups /\ RefsBefore(source, at + 1) = RefsBefore(source, at)
    BY <1>2, <1>6 DEF AddsFixup
  <2>2. FixupTable'
    BY <2>1 DEF FixupTable
  <2>3. RefsRead'
    BY <1>3, <1>4, <1>5, <2>1 DEF RefsRead
  <2>4. QED
    BY <2>2, <2>3
<1>7. CASE NeedsFixup(line)
  <2>1. PICK f : f = [section |-> section, offset |-> offset, name |-> cut[operand(line)]]
    OBVIOUS
  <2>2. f \in Fixups /\ f.section = section /\ f.name = TargetOf(source, at)
    <3>1. operand(line) \in Tokens
      BY <1>1, LineParts
    <3>2. cut[operand(line)] \in Names
      BY <3>1 DEF Names
    <3>3. QED
      BY <1>1, <2>1, <3>2 DEF Fixups, TargetOf, line
  <2>3. PICK gx : gx = Append(fx, f)
    OBVIOUS
  <2>4. fixups' = gx
    BY <1>3, <1>7, <2>1, <2>3 DEF AddsFixup
  <2>5. /\ gx \in Seq(Fixups) /\ Len(gx) = n + 1 /\ gx[n + 1] = f
        /\ \A k \in 1 .. n : gx[k] = fx[k]
    <3>1. fx \in Seq(Fixups) /\ f \in Fixups
      BY <1>4, <2>2
    <3>2. /\ gx \in Seq(Fixups) /\ Len(gx) = Len(fx) + 1 /\ gx[Len(fx) + 1] = f
          /\ \A k \in 1 .. Len(fx) : gx[k] = fx[k]
      BY <2>3, <3>1, Appending
    <3>3. QED
      BY <1>4, <3>2
  <2>6. n + 1 <= MAX_FIXUPS
    <3>1. ~(n >= MAX_FIXUPS)
      BY <1>1, <1>3, <1>4, <1>7
    <3>2. QED
      BY <1>4, <3>1, TokenAssumption
  <2>7. FixupTable'
    <3>1. resolved \in 0 .. n + 1
      BY <1>4
    <3>2. QED
      BY <2>4, <2>5, <2>6, <3>1 DEF FixupTable
  <2>8. FixupOf(source, at) = n + 1
    BY <1>3, <1>4 DEF FixupOf
  <2>9. \A k \in 1 .. n + 1 : \E j \in R \cup {at} : FixupOf(source, j) = k
    <3>1. \A k \in 1 .. n + 1 : k \in 1 .. n \/ k = n + 1
      OBVIOUS
    <3>2. QED
      BY <1>5, <2>8, <3>1
  <2>10. ASSUME NEW j \in R \cup {at}
         PROVE  /\ FixupOf(source, j) \in 1 .. n + 1
                /\ gx[FixupOf(source, j)].name = TargetOf(source, j)
                /\ gx[FixupOf(source, j)].section = SectionAt(source, j)
    <3>1. CASE j = at
      <4>1. section = SectionAt(source, at)
        BY DEF LinesRead
      <4>2. n + 1 \in 1 .. n + 1
        OBVIOUS
      <4>3. QED
        BY <2>2, <2>5, <2>8, <3>1, <4>1, <4>2
    <3>2. CASE j \in R
      <4>1. PICK k \in 1 .. n : k = FixupOf(source, j)
        BY <1>5, <3>2
      <4>2. k \in 1 .. n + 1 /\ gx[k] = fx[k]
        BY <2>5
      <4>3. QED
        BY <1>5, <3>2, <4>1, <4>2
    <3>3. QED
      BY <3>1, <3>2
  <2>11. \A k \in 1 .. resolved : gx[k].name \in DOMAIN symbols'
    <3>1. \A k \in 1 .. resolved : k \in 1 .. n
      BY <1>4
    <3>2. QED
      BY <1>5, <2>5, <3>1
  <2>12. PICK M : M = R \cup {at}
    OBVIOUS
  <2>13. RefsBefore(source, at)' = M /\ Cardinality(M) = n + 1
    <3>1. RefsBefore(source, at + 1) = M /\ Cardinality(RefsBefore(source, at + 1)) = n + 1
      BY <1>2, <1>3, <1>4, <1>7, <2>12
    <3>2. QED
      BY <3>1
  <2>14. RefsRead'
    <3>1. /\ Len(gx) = Cardinality(M)
          /\ \A k \in 1 .. Len(gx) : \E j \in M : FixupOf(source, j) = k
          /\ \A j \in M : /\ FixupOf(source, j) \in 1 .. Len(gx)
                          /\ gx[FixupOf(source, j)].name = TargetOf(source, j)
                          /\ gx[FixupOf(source, j)].section = SectionAt(source, j)
      BY <2>5, <2>9, <2>10, <2>12, <2>13
    <3>2. QED
      BY <2>4, <2>11, <2>13, <3>1 DEF RefsRead
  <2>15. QED
    BY <2>7, <2>14
<1>8. QED
  BY <1>6, <1>7

(* The sections stay laid out when the line adds its bytes to its section. *)
LineAdded == /\ Len(buf'[section].bytes) = Ends(source)[at]
             /\ \A s \in Sections \ {section} : Len(buf'[s].bytes) = Len(buf[s].bytes)

LEMMA LineStarts ==
  ASSUME Reader, Buffers, LinesRead, LaidOut, Intact, Reading, ~LineRefused
  PROVE  /\ Start(source, at) = Len(current.bytes) /\ Start(source, at) \in Nat
         /\ ~CutBack(source, at)
         /\ Ends(source)[at] \in Nat /\ Start(source, at) <= Ends(source)[at]
<1>1. /\ source \in Seq(Line) /\ at \in 1 .. Len(source) /\ section \in Sections
      /\ ~Malformed(source[at]) /\ ~(line.word = ".org" /\ OrgMovesBack)
  BY AcceptedLine DEF line
<1>2. Start(source, at) = Len(current.bytes)
  BY <1>1, StartIs DEF LaidOut, LinesRead, current
<1>3. Start(source, at) \in Nat
  BY <1>1, <1>2 DEF Buffers, GoodBuffer, Buffer, current
<1>4. ~CutBack(source, at)
  BY <1>1, <1>2 DEF CutBack, OrgMovesBack, line
<1>5. QED
  BY <1>1, <1>2, <1>3, <1>4, LineEnds

LEMMA LaidStep ==
  ASSUME Reader, Buffers, LinesRead, LaidOut, Intact, Reading, ~LineRefused,
         source' = source, at' = at + 1, LineAdded
  PROVE  LaidOut'
<1>1. at \in Nat \ {0} /\ section \in Sections /\ section = SectionAt(source, at)
  BY AcceptedLine DEF LinesRead
<1>2. /\ ~CutBack(source, at)
      /\ Start(source, at) \in Nat /\ Ends(source)[at] \in Nat /\ Start(source, at) <= Ends(source)[at]
  BY LineStarts
<1>3. \A s \in Sections : EndOf(source, at + 1, s) = IF section = s THEN Ends(source)[at] ELSE EndOf(source, at, s)
  BY <1>1, EndOfStep
<1>4. \A s \in Sections : Len(buf'[s].bytes) = EndOf(source, at + 1, s)
  BY <1>1, <1>3 DEF LaidOut, LineAdded
<1>5. Start(source, at) = EndOf(source, at, section)
  BY <1>1, StartIs
<1>6. ASSUME NEW j \in 1 .. at
      PROVE  /\ ~CutBack(source, j)
             /\ Start(source, j) \in Nat /\ Ends(source)[j] \in Nat /\ Start(source, j) <= Ends(source)[j]
             /\ Ends(source)[j] <= EndOf(source, at + 1, SectionAt(source, j))
  <2>1. CASE j = at
    BY <1>1, <1>2, <1>3, <2>1
  <2>2. CASE j # at
    <3>1. j \in 1 .. at - 1
      BY <1>1, <2>2
    <3>2. /\ ~CutBack(source, j)
          /\ Start(source, j) \in Nat /\ Ends(source)[j] \in Nat /\ Start(source, j) <= Ends(source)[j]
          /\ Ends(source)[j] <= EndOf(source, at, SectionAt(source, j))
      BY <3>1 DEF LaidOut
    <3>3. SectionAt(source, j) \in Sections
      BY <1>1, SectionType
    <3>4. CASE SectionAt(source, j) # section
      BY <1>3, <3>2, <3>3, <3>4
    <3>5. CASE SectionAt(source, j) = section
      <4>1. PICK e \in Nat, b \in Nat, c \in Nat : e = Ends(source)[j] /\ b = Start(source, at) /\ c = Ends(source)[at]
        BY <1>2, <3>2
      <4>2. e <= b /\ b <= c
        BY <1>2, <1>5, <3>2, <3>5, <4>1
      <4>3. e <= c
        BY <4>2
      <4>4. EndOf(source, at + 1, SectionAt(source, j)) = c
        BY <1>1, <1>3, <3>5, <4>1
      <4>5. QED
        BY <3>2, <4>1, <4>3, <4>4
    <3>6. QED
      BY <3>4, <3>5
  <2>3. QED
    BY <2>1, <2>2
<1>7. ASSUME NEW j \in 1 .. at, NEW i \in 1 .. j - 1, SectionAt(source, i) = SectionAt(source, j)
      PROVE  Ends(source)[i] <= Start(source, j)
  <2>1. CASE j = at
    BY <1>1, <1>5, <1>7, <2>1 DEF LaidOut
  <2>2. CASE j # at
    <3>1. j \in 1 .. at - 1
      BY <1>1, <2>2
    <3>2. QED
      BY <1>7, <3>1 DEF LaidOut
  <2>3. QED
    BY <2>1, <2>2
<1>8. at' - 1 = at /\ source' = source
  BY <1>1
<1>9. QED
  BY <1>4, <1>6, <1>7, <1>8 DEF LaidOut

LEMMA SymbolsKept ==
  ASSUME Reader, Reading, ~LineRefused, add_symbol
  PROVE  /\ \A n \in DOMAIN symbols : symbols'[n] = symbols[n]
         /\ line.label # None => symbols'[cut[line.label]] = LabelHere
<1>1. ~LabelRefused
  BY AcceptedLine
<1>2. CASE line.label = None
  BY <1>2 DEF add_symbol
<1>3. CASE line.label # None
  <2>1. PICK name : name = cut[line.label]
    OBVIOUS
  <2>2. name \notin DOMAIN symbols
    BY <1>1, <1>3, <2>1 DEF LabelRefused
  <2>3. symbols' = [n \in DOMAIN symbols \cup {name} |-> IF n = name THEN LabelHere ELSE symbols[n]]
    BY <1>3, <2>1 DEF add_symbol
  <2>4. QED
    BY <2>1, <2>2, <2>3
<1>4. QED
  BY <1>2, <1>3

LEMMA OffsetsStep ==
  ASSUME Reader, Buffers, FixupTable, LinesRead, LabelsRead, RefsRead, LaidOut, Offsets, Intact,
         Reading, ~LineRefused, add_symbol, source' = source, at' = at + 1, NEW offset \in Nat, AddsFixup(offset),
         NeedsFixup(line) => offset = ToU32(Start(source, at) + Len(Lead(line)))
  PROVE  Offsets'
<1>1. at \in Nat \ {0} /\ section \in Sections /\ line \in Line
  BY AcceptedLine
<1>2. Start(source, at) = Len(current.bytes)
  BY LineStarts
<1>3. ASSUME NEW j \in LabelsBefore(source, at + 1)
      PROVE  symbols'[LabelOf(source, j)].offset = ToU32(Start(source, j))
  <2>1. CASE j \in LabelsBefore(source, at)
    <3>1. LabelOf(source, j) \in DOMAIN symbols
      BY <2>1 DEF LabelsRead
    <3>2. symbols'[LabelOf(source, j)] = symbols[LabelOf(source, j)]
      BY <3>1, SymbolsKept
    <3>3. QED
      BY <2>1, <3>2 DEF Offsets
  <2>2. CASE j \notin LabelsBefore(source, at)
    <3>1. j = at /\ line.label # None
      BY <1>1, <1>3, <2>2, CountLabels DEF line
    <3>2. symbols'[LabelOf(source, j)] = LabelHere
      BY <3>1, SymbolsKept DEF LabelOf, line
    <3>3. QED
      BY <1>2, <3>1, <3>2 DEF LabelHere
  <2>3. QED
    BY <2>1, <2>2
<1>4. ASSUME NEW j \in RefsBefore(source, at + 1)
      PROVE  fixups'[FixupOf(source, j)].offset = ToU32(Start(source, j) + Len(Lead(source[j])))
  <2>1. PICK fx, n : fx = fixups /\ n = Len(fx) /\ fx \in Seq(Fixups)
    BY DEF FixupTable
  <2>2. CASE j \in RefsBefore(source, at)
    <3>1. PICK k \in 1 .. n : k = FixupOf(source, j)
      BY <2>1, <2>2 DEF RefsRead
    <3>2. fixups'[k] = fx[k]
      BY <2>1, <3>1 DEF AddsFixup
    <3>3. fx[k].offset = ToU32(Start(source, j) + Len(Lead(source[j])))
      BY <2>1, <2>2, <3>1 DEF Offsets
    <3>4. QED
      BY <3>1, <3>2, <3>3
  <2>3. CASE j \notin RefsBefore(source, at)
    <3>1. j = at /\ NeedsFixup(line)
      BY <1>1, <1>4, <2>3, CountRefs DEF line
    <3>2. FixupOf(source, j) = n + 1
      BY <2>1, <3>1 DEF FixupOf, RefsRead
    <3>3. PICK f : f = [section |-> section, offset |-> offset, name |-> cut[operand(line)]]
      OBVIOUS
    <3>4. fixups' = Append(fx, f)
      BY <2>1, <3>1, <3>3 DEF AddsFixup
    <3>5. Append(fx, f)[n + 1] = f
      BY <2>1
    <3>6. fixups'[FixupOf(source, j)] = f
      BY <3>2, <3>4, <3>5, Zenon
    <3>7. f.offset = offset
      BY <3>3
    <3>8. QED
      BY <3>1, <3>6, <3>7 DEF line
  <2>4. QED
    BY <2>2, <2>3
<1>5. QED
  BY <1>3, <1>4 DEF Offsets

(* Before the first fixup, an operand that is a label is written as 0.     *)
LEMMA Unresolved ==
  ASSUME NEW src, NEW j \in Nat \ {0}, NEW t
  PROVE  /\ Operand(src, j, 0, t) = IF number[operand(src[j])] # NaN THEN number[operand(src[j])] ELSE 0
         /\ \A u : Written(src, j, 0, t) = Written(src, j, 0, u)
<1>1. PICK n \in Nat : n = Cardinality(RefsBefore(src, j))
  BY CountRefs
<1>2. ~(FixupOf(src, j) <= 0)
  BY <1>1 DEF FixupOf
<1>3. \A u : Operand(src, j, 0, u) = IF number[operand(src[j])] # NaN THEN number[operand(src[j])] ELSE 0
  BY <1>2 DEF Operand
<1>4. QED
  BY <1>3 DEF Written

LEMMA WrittenLength ==
  ASSUME NEW src \in Seq(Line), NEW j \in 1 .. Len(src), ~Malformed(src[j]), ~CutBack(src, j),
         Start(src, j) \in Nat, NEW n, NEW t, Operand(src, j, n, t) \in Int
  PROVE  /\ Written(src, j, n, t) \in Seq(Byte)
         /\ Start(src, j) + Len(Written(src, j, n, t)) = Ends(src)[j]
<1>1. PICK b \in Nat, e \in Nat : b = Start(src, j) /\ e = Ends(src)[j] /\ b <= e
  BY LineEnds
<1>2. CASE src[j].word = ".org"
  <2>1. PICK m \in Nat : m = e - b
    BY <1>1
  <2>2. PICK w : w = [k \in 1 .. m |-> 0]
    OBVIOUS
  <2>3. w \in Seq(Byte) /\ Len(w) = m
    BY <2>2 DEF Byte
  <2>4. Written(src, j, n, t) = w
    BY <1>1, <1>2, <2>1, <2>2 DEF Written
  <2>5. b + m = e
    BY <2>1
  <2>6. QED
    BY <1>1, <2>3, <2>4, <2>5
<1>3. CASE src[j].word # ".org"
  <2>1. src[j] \in Line
    OBVIOUS
  <2>2. PICK v \in Int : v = Operand(src, j, n, t)
    OBVIOUS
  <2>3. PICK w, r : w = Lead(src[j]) /\ r = Rest(src[j], v)
    OBVIOUS
  <2>4. w \in Seq(Byte)
    BY <2>1, <2>3, LeadBytes
  <2>5. r \in Seq(Byte)
    BY <2>3, RestBytes
  <2>6. e = b + Len(w) + Len(r)
    <3>1. \A u \in Int : Ends(src)[j] = Start(src, j) + Len(Lead(src[j])) + Len(Rest(src[j], u))
      BY <1>3, LineEnds
    <3>2. QED
      BY <1>1, <2>3, <3>1, Zenon
  <2>7. w \o r \in Seq(Byte) /\ Len(w \o r) = Len(w) + Len(r) /\ Len(w) \in Nat /\ Len(r) \in Nat
    BY <2>4, <2>5
  <2>8. b + Len(w \o r) = e
    BY <2>6, <2>7
  <2>9. Written(src, j, n, t) = w \o r
    BY <1>3, <2>2, <2>3 DEF Written
  <2>10. QED
    BY <1>1, <2>7, <2>8, <2>9
<1>4. QED
  BY <1>2, <1>3

(* The bytes a line adds to its section, and nothing else changed.         *)
BytesAdded(data) == /\ buf'[section].bytes = current.bytes \o data
                    /\ \A s \in Sections \ {section} : buf'[s].bytes = buf[s].bytes

LEMMA Joined ==
  ASSUME NEW a \in Seq(Byte), NEW b \in Seq(Byte)
  PROVE  /\ a \o b \in Seq(Byte) /\ Len(a \o b) = Len(a) + Len(b)
         /\ \A p \in 1 .. Len(a) : (a \o b)[p] = a[p]
         /\ \A k \in 1 .. Len(b) : (a \o b)[Len(a) + k] = b[k]
OBVIOUS

LEMMA BytesKept ==
  ASSUME Reader, Buffers, NEW data \in Seq(Byte), BytesAdded(data)
  PROVE  /\ NothingLost
         /\ \A s \in Sections : \A p \in 1 .. Len(buf[s].bytes) : buf'[s].bytes[p] = buf[s].bytes[p]
         /\ \A k \in 1 .. Len(data) : buf'[section].bytes[Len(current.bytes) + k] = data[k]
<1>1. section \in Sections /\ \A s \in Sections : buf[s].bytes \in Seq(Byte)
  BY DEF Reader, Buffers, GoodBuffer, Buffer
<1>2. PICK a \in Seq(Byte) : a = current.bytes
  BY <1>1 DEF current
<1>3. PICK c : c = a \o data
  OBVIOUS
<1>4. buf'[section].bytes = c /\ buf[section].bytes = a
  BY <1>2, <1>3 DEF BytesAdded, current
<1>5. /\ Len(a) \in Nat /\ Len(c) \in Nat /\ Len(a) <= Len(c)
      /\ \A p \in 1 .. Len(a) : c[p] = a[p]
      /\ \A k \in 1 .. Len(data) : c[Len(a) + k] = data[k]
  BY <1>3, Joined
<1>6. NothingLost
  <2>1. ASSUME NEW s \in Sections PROVE Len(buf[s].bytes) <= Len(buf'[s].bytes)
    <3>1. CASE s = section
      BY <1>4, <1>5, <3>1
    <3>2. CASE s # section
      <4>1. buf'[s].bytes = buf[s].bytes
        BY <3>2 DEF BytesAdded
      <4>2. PICK d \in Seq(Byte) : d = buf[s].bytes
        BY <1>1
      <4>3. Len(d) <= Len(d)
        OBVIOUS
      <4>4. QED
        BY <4>1, <4>2, <4>3
    <3>3. QED
      BY <3>1, <3>2
  <2>2. QED
    BY <2>1 DEF NothingLost
<1>7. ASSUME NEW s \in Sections, NEW p \in 1 .. Len(buf[s].bytes)
      PROVE  buf'[s].bytes[p] = buf[s].bytes[p]
  <2>1. CASE s = section
    BY <1>4, <1>5, <1>7, <2>1
  <2>2. CASE s # section
    <3>1. buf'[s].bytes = buf[s].bytes
      BY <2>2 DEF BytesAdded
    <3>2. QED
      BY <3>1
  <2>3. QED
    BY <2>1, <2>2
<1>8. \A k \in 1 .. Len(data) : buf'[section].bytes[Len(current.bytes) + k] = data[k]
  BY <1>2, <1>4, <1>5
<1>9. QED
  BY <1>6, <1>7, <1>8

LEMMA NarrowBefore ==
  ASSUME Buffers, Buffers', NothingLost, Addressable'
  PROVE  Addressable
<1>1. ASSUME NEW s \in Sections PROVE Len(buf[s].bytes) \in Address
  <2>1. PICK n \in Nat, m \in Nat : n = Len(buf[s].bytes) /\ m = Len(buf'[s].bytes)
    BY DEF Buffers, GoodBuffer, Buffer
  <2>2. n <= m
    BY <2>1 DEF NothingLost
  <2>3. m \in Address
    BY <2>1 DEF Addressable, Buffers
  <2>4. n \in Address
    BY <2>2, <2>3 DEF Address
  <2>5. QED
    BY <2>1, <2>4
<1>2. QED
  BY <1>1 DEF Addressable, Buffers

LEMMA OperandIsInt ==
  ASSUME NEW src \in Seq(Line), NEW j \in 1 .. Len(src), NEW t
  PROVE  Operand(src, j, 0, t) \in Int
<1>1. src[j] \in Line /\ j \in Nat \ {0}
  OBVIOUS
<1>2. number[operand(src[j])] \in Word \cup {NaN}
  BY <1>1, LineParts
<1>3. Operand(src, j, 0, t) = IF number[operand(src[j])] # NaN THEN number[operand(src[j])] ELSE 0
  BY <1>1, Unresolved
<1>4. CASE number[operand(src[j])] = NaN
  BY <1>3, <1>4
<1>5. CASE number[operand(src[j])] # NaN
  <2>1. number[operand(src[j])] \in Int
    BY <1>2, <1>5, WordInt
  <2>2. QED
    BY <1>3, <1>5, <2>1
<1>6. QED
  BY <1>4, <1>5

LEMMA ContentStep ==
  ASSUME Reader, Buffers, Buffers', LinesRead, LaidOut, Content, Intact, Reading, ~LineRefused,
         source' = source, at' = at + 1, resolved = 0, resolved' = 0,
         BytesAdded(Written(source, at, 0, symbols))
  PROVE  Content'
<1>1. /\ source \in Seq(Line) /\ at \in 1 .. Len(source) /\ at \in Nat \ {0}
      /\ section = SectionAt(source, at) /\ ~Malformed(source[at])
  BY AcceptedLine DEF LinesRead, line
<1>2. Start(source, at) = Len(current.bytes) /\ Start(source, at) \in Nat /\ ~CutBack(source, at)
  BY LineStarts
<1>3. PICK data : data = Written(source, at, 0, symbols)
  OBVIOUS
<1>4. data \in Seq(Byte)
  BY <1>1, <1>2, <1>3, OperandIsInt, WrittenLength
<1>5. BytesAdded(data)
  BY <1>3
<1>6. /\ NothingLost
      /\ \A s \in Sections : \A p \in 1 .. Len(buf[s].bytes) : buf'[s].bytes[p] = buf[s].bytes[p]
      /\ \A k \in 1 .. Len(data) : buf'[section].bytes[Len(current.bytes) + k] = data[k]
  BY <1>4, <1>5, BytesKept
<1>7. PICK t, u : t = symbols /\ u = symbols'
  OBVIOUS
<1>8. ASSUME NEW j \in 1 .. at PROVE Written(source, j, 0, u) = Written(source, j, 0, t)
  BY Unresolved
<1>9. ASSUME Intact, Addressable, NEW j \in 1 .. at, NEW k \in DOMAIN Written(source, j, 0, t)
      PROVE  buf'[SectionAt(source, j)].bytes[Start(source, j) + k] = Written(source, j, 0, t)[k]
  <2>1. CASE j = at
    <3>1. k \in 1 .. Len(data) /\ Written(source, j, 0, t) = data
      BY <1>3, <1>4, <1>7, <1>9, <2>1
    <3>2. QED
      BY <1>1, <1>2, <1>6, <2>1, <3>1
  <2>2. CASE j # at
    <3>1. j \in 1 .. at - 1 /\ j \in 1 .. Len(source)
      BY <1>1, <2>2
    <3>2. /\ ~Malformed(source[j]) /\ ~CutBack(source, j) /\ Start(source, j) \in Nat
          /\ Ends(source)[j] <= EndOf(source, at, SectionAt(source, j))
      BY <3>1 DEF LinesRead, LaidOut
    <3>3. PICK s \in Sections : s = SectionAt(source, j)
      BY <3>1, SectionType
    <3>4. PICK w : w = Written(source, j, 0, t)
      OBVIOUS
    <3>5. w \in Seq(Byte) /\ Start(source, j) + Len(w) = Ends(source)[j]
      BY <1>1, <3>1, <3>2, <3>4, OperandIsInt, WrittenLength
    <3>6. PICK b \in Nat, n \in Nat, m \in Nat : b = Start(source, j) /\ n = Len(w) /\ m = Len(buf[s].bytes)
      BY <3>2, <3>5 DEF Buffers, GoodBuffer, Buffer
    <3>7. b + n <= m
      BY <3>2, <3>3, <3>5, <3>6 DEF LaidOut
    <3>8. k \in 1 .. n
      BY <1>9, <3>4, <3>5, <3>6
    <3>9. b + k \in 1 .. m
      BY <3>7, <3>8
    <3>10. buf'[s].bytes[b + k] = buf[s].bytes[b + k]
      BY <1>6, <3>6, <3>9
    <3>11. buf[s].bytes[b + k] = w[k]
      BY <1>7, <1>9, <3>1, <3>3, <3>4, <3>6 DEF Content
    <3>12. QED
      BY <3>3, <3>4, <3>6, <3>10, <3>11
  <2>3. QED
    BY <2>1, <2>2
<1>10. Addressable' => Addressable
  BY <1>6, NarrowBefore
<1>11. at' - 1 = at /\ source' = source /\ resolved' = 0 /\ symbols' = u
  BY <1>1, <1>7
<1>12. QED
  BY <1>8, <1>9, <1>10, <1>11 DEF Content

-----------------------------------------------------------------------------
(* The steps preserve the invariant.                                       *)

(* A step that changes the phase and the program only.                     *)
SameTables == UNCHANGED <<source, at, section, buf, symbols, fixups, resolved, dropped>>

LEMMA SameTablesStep ==
  ASSUME AsmInv, SameTables, phase' \in Phases, phase' # "hung" => phase # "hung"
  PROVE  /\ Reader' /\ Buffers' /\ Symbols' /\ FixupTable'
         /\ LinesRead' /\ LabelsRead' /\ RefsRead' /\ LaidOut' /\ Offsets' /\ Content'
<1>1. /\ source' = source /\ at' = at /\ section' = section /\ buf' = buf /\ symbols' = symbols
      /\ fixups' = fixups /\ resolved' = resolved /\ dropped' = dropped
  BY DEF SameTables
<1>2. Reader' /\ Buffers' /\ Symbols' /\ FixupTable'
  BY <1>1 DEF AsmInv, Reader, Buffers, Symbols, FixupTable
<1>3. LinesRead' /\ LabelsRead' /\ RefsRead'
  BY <1>1 DEF AsmInv, LinesRead, LabelsRead, RefsRead
<1>4. Intact' => Intact
  BY <1>1 DEF Intact
<1>5. Addressable' <=> Addressable
  BY <1>1 DEF Addressable
<1>6. LaidOut' /\ Offsets'
  BY <1>1, <1>4 DEF AsmInv, LaidOut, Offsets
<1>7. Content'
  BY <1>1, <1>4, <1>5 DEF AsmInv, Content
<1>8. QED
  BY <1>2, <1>3, <1>6, <1>7

LEMMA NarrowCast == \A n \in Address : ToU32(n) = n
BY DEF Address, ToU32

(* A line is refused for a reason.                                         *)
LEMMA RefusedLine ==
  ASSUME AsmInv, Reading, LineRefused, ~dropped, OrgsFit
  PROVE  ~Correct(source)
<1>1. Reader /\ Buffers /\ Symbols /\ FixupTable /\ LinesRead /\ LabelsRead /\ RefsRead /\ LaidOut /\ Intact
  BY DEF AsmInv, Reading, Intact
<1>2. source \in Seq(Line) /\ at \in 1 .. Len(source) /\ at \in Nat \ {0} /\ at \in DOMAIN source
  BY <1>1, AssemblerAssumption DEF Reader, Reading
<1>3. CASE Malformed(line)
  BY <1>2, <1>3 DEF Correct, line
<1>4. CASE line.label # None /\ Cardinality(DOMAIN symbols) >= MAX_SYMBOLS
  <2>1. PICK n \in Nat, m \in Nat : n = Cardinality(LabelsBefore(source, at)) /\ m = Cardinality(Labels(source))
    BY <1>2, CountLabels, SomeOfThem, FS_CardinalityType
  <2>2. n >= MAX_SYMBOLS
    BY <1>1, <1>4, <2>1 DEF LabelsRead
  <2>3. n + 1 <= m
    <3>1. Cardinality(LabelsBefore(source, at + 1)) = n + 1
      BY <1>2, <1>4, <2>1, CountLabels DEF line
    <3>2. Cardinality(LabelsBefore(source, at + 1)) <= m
      BY <1>2, <2>1, SomeOfThem
    <3>3. QED
      BY <3>1, <3>2
  <2>4. ~(m <= MAX_SYMBOLS)
    BY <2>2, <2>3, TokenAssumption
  <2>5. QED
    BY <2>1, <2>4 DEF Correct
<1>5. CASE line.label # None /\ cut[line.label] \in DOMAIN symbols
  <2>1. PICK j \in LabelsBefore(source, at) : LabelOf(source, j) = cut[line.label]
    BY <1>1, <1>5 DEF LabelsRead
  <2>2. j \in Labels(source) /\ at \in Labels(source) /\ j # at
    BY <1>2, <1>5 DEF LabelsBefore, Labels, line
  <2>3. QED
    BY <2>1, <2>2 DEF Correct, LabelOf, line
<1>6. CASE line.word = ".org" /\ OrgMovesBack
  <2>1. Start(source, at) = Len(current.bytes)
    BY <1>1, <1>2, StartIs DEF LinesRead, LaidOut, Reader, current
  <2>2. CASE number[operand(line)] = NaN
    <3>1. Malformed(line)
      BY <1>6, <2>2 DEF Malformed
    <3>2. QED
      BY <1>2, <3>1 DEF Correct, line
  <2>3. CASE number[operand(line)] # NaN
    <3>1. number[operand(line)] \in Address
      BY <1>2, <1>6, <2>3 DEF OrgsFit, line
    <3>2. PICK n \in Address : n = number[operand(line)]
      BY <3>1
    <3>3. ToU32(n) = n
      BY NarrowCast
    <3>4. MovesBack(source, at)
      BY <1>6, <2>1, <3>2, <3>3 DEF MovesBack, OrgMovesBack, line
    <3>5. QED
      BY <1>2, <3>4 DEF Correct
  <2>4. QED
    BY <2>2, <2>3
<1>7. CASE NeedsFixup(line) /\ Len(fixups) >= MAX_FIXUPS
  <2>1. PICK n \in Nat, m \in Nat : n = Cardinality(RefsBefore(source, at)) /\ m = Cardinality(References(source))
    BY <1>2, CountRefs, SomeOfThem, FS_CardinalityType
  <2>2. n >= MAX_FIXUPS
    BY <1>1, <1>7, <2>1 DEF RefsRead
  <2>3. n + 1 <= m
    BY <1>2, <1>7, <2>1, CountRefs, SomeOfThem DEF line
  <2>4. ~(m <= MAX_FIXUPS)
    BY <2>2, <2>3, TokenAssumption
  <2>5. QED
    BY <2>1, <2>4 DEF Correct
<1>8. QED
  BY <1>3, <1>4, <1>5, <1>6, <1>7 DEF LineRefused, LabelRefused

LEMMA RefuseStep ==
  ASSUME AsmInv, Refuse, ~dropped /\ OrgsFit => ~Correct(source), phase # "hung"
  PROVE  AsmInv'
<1>1. SameTables /\ phase' = "failed"
  BY DEF Refuse, SameTables
<1>2. /\ Reader' /\ Buffers' /\ Symbols' /\ FixupTable'
      /\ LinesRead' /\ LabelsRead' /\ RefsRead' /\ LaidOut' /\ Offsets' /\ Content'
  BY <1>1, SameTablesStep DEF Phases
<1>3. Steps' /\ Handed' /\ Verdict'
  BY <1>1 DEF Steps, Handed, Verdict, SameTables, OrgsFit
<1>4. QED
  BY <1>2, <1>3 DEF AsmInv

(* What every line that is read does.                                      *)
ReadsLine(offset) ==
  /\ Reading /\ ~LineRefused /\ add_symbol /\ source' = source /\ at' = at + 1 /\ resolved' = resolved
  /\ phase' \in {"lines", "hung"}
  /\ section' = IF line.word \in Sections THEN line.word ELSE section
  /\ AddsFixup(offset) /\ NothingLost
ReadsWell(offset) ==
  /\ ~dropped /\ BytesAdded(Written(source, at, 0, symbols))
  /\ NeedsFixup(line) => offset = ToU32(Start(source, at) + Len(Lead(line)))

LEMMA LineStep ==
  ASSUME AsmInv, NEW offset \in Nat, ReadsLine(offset), Buffers', Intact' => ReadsWell(offset)
  PROVE  AsmInv'
<1>1. /\ Reader /\ Buffers /\ Symbols /\ FixupTable /\ Steps /\ LinesRead /\ LabelsRead /\ RefsRead
      /\ LaidOut /\ Offsets /\ Content
  BY DEF AsmInv
<1>2. /\ Reading /\ ~LineRefused /\ add_symbol /\ source' = source /\ at' = at + 1 /\ resolved' = resolved
      /\ AddsFixup(offset) /\ NothingLost
  BY DEF ReadsLine
<1>3. /\ source \in Seq(Line) /\ at \in 1 .. Len(source) /\ at \in Nat \ {0}
      /\ section \in Sections /\ ~Malformed(source[at])
  BY <1>1, <1>2, AcceptedLine DEF line
<1>4. at + 1 \in 1 .. Len(source) + 1
  BY <1>3
<1>5. Reader'
  <2>1. section' \in Sections /\ phase' \in Phases
    BY <1>3 DEF ReadsLine, Phases
  <2>2. QED
    BY <1>1, <1>2, <1>4, <2>1 DEF Reader
<1>6. Symbols' /\ LabelsRead' /\ DOMAIN symbols \subseteq DOMAIN symbols'
  BY <1>1, <1>2, LabelsStep
<1>7. FixupTable' /\ RefsRead'
  BY <1>1, <1>2, <1>6, RefsStep
<1>8. phase = "lines" /\ resolved = 0
  BY <1>1, <1>2 DEF Reading, Steps
<1>9. Steps' /\ Verdict' /\ Handed'
  BY <1>2, <1>8 DEF ReadsLine, Steps, Verdict, OrgsFit, Handed
<1>10. LinesRead'
  <2>1. SectionAt(source, at + 1) = IF line.word \in Sections THEN line.word ELSE SectionAt(source, at)
    BY <1>3, SectionStep DEF line
  <2>2. section' = SectionAt(source, at + 1)
    BY <1>1, <2>1 DEF ReadsLine, LinesRead
  <2>3. \A j \in 1 .. at : ~Malformed(source[j])
    <3>1. \A j \in 1 .. at : j \in 1 .. at - 1 \/ j = at
      BY <1>3
    <3>2. QED
      BY <1>1, <1>3, <3>1 DEF LinesRead
  <2>4. at' - 1 = at
    BY <1>2, <1>3
  <2>5. QED
    BY <1>2, <2>2, <2>3, <2>4 DEF LinesRead
<1>11. CASE Intact'
  <2>1. Intact /\ ReadsWell(offset)
    BY <1>8, <1>11 DEF Intact, ReadsWell
  <2>2. BytesAdded(Written(source, at, 0, symbols))
    BY <2>1 DEF ReadsWell
  <2>3. LineAdded
    <3>1. PICK data : data = Written(source, at, 0, symbols)
      OBVIOUS
    <3>2. Start(source, at) = Len(current.bytes) /\ Start(source, at) \in Nat /\ ~CutBack(source, at)
      BY <1>1, <1>2, <2>1, LineStarts
    <3>3. data \in Seq(Byte) /\ Start(source, at) + Len(data) = Ends(source)[at]
      BY <1>3, <3>1, <3>2, OperandIsInt, WrittenLength
    <3>4. current.bytes \in Seq(Byte)
      BY <1>1, <1>3 DEF Buffers, GoodBuffer, Buffer, current
    <3>5. Len(current.bytes \o data) = Len(current.bytes) + Len(data)
      BY <3>3, <3>4, Joined
    <3>6. Len(buf'[section].bytes) = Ends(source)[at]
      BY <2>2, <3>1, <3>2, <3>3, <3>5 DEF BytesAdded
    <3>7. QED
      BY <2>2, <3>6 DEF BytesAdded, LineAdded
  <2>4. LaidOut'
    BY <1>1, <1>2, <2>1, <2>3, LaidStep
  <2>5. Offsets'
    BY <1>1, <1>2, <2>1, OffsetsStep DEF ReadsWell
  <2>6. Content'
    BY <1>1, <1>2, <1>8, <2>1, <2>2, ContentStep
  <2>7. QED
    BY <1>5, <1>6, <1>7, <1>9, <1>10, <2>4, <2>5, <2>6 DEF AsmInv
<1>12. CASE ~Intact'
  <2>1. LaidOut' /\ Offsets' /\ Content'
    BY <1>12 DEF LaidOut, Offsets, Content
  <2>2. QED
    BY <1>5, <1>6, <1>7, <1>9, <1>10, <2>1 DEF AsmInv
<1>13. QED
  BY <1>11, <1>12

(* What the words of a line say about its bytes.                           *)
LEMMA SilentLine ==
  ASSUME Reader, line.word \in {"none", ".code", ".data"}, NEW t
  PROVE  ~NeedsFixup(line) /\ Written(source, at, 0, t) = <<>>
<1>1. line.word \notin Instructions /\ line.word # ".word"
  BY WordKinds DEF Directives
<1>2. ~takes_operand(line)
  BY <1>1 DEF takes_operand
<1>3. Lead(line) = <<>>
  BY <1>1 DEF Lead, Strings
<1>4. \A v : Rest(line, v) = <<>>
  BY <1>2 DEF Rest
<1>5. Written(source, at, 0, t) = <<>>
  BY <1>3, <1>4 DEF Written, line
<1>6. QED
  BY <1>2, <1>5 DEF NeedsFixup

LEMMA SilentStep ==
  ASSUME AsmInv, line.word \in {"none", ".code", ".data"}, Accepts({"none", ".code", ".data"}),
         source' = source, buf' = buf, fixups' = fixups, resolved' = resolved, phase' = phase, dropped' = dropped,
         section' = IF line.word \in Sections THEN line.word ELSE section
  PROVE  AsmInv'
<1>1. Reader /\ Buffers /\ Reading /\ ~LineRefused /\ add_symbol /\ at' = at + 1
  BY DEF AsmInv, Accepts
<1>2. section \in Sections /\ \A s \in Sections : buf[s].bytes \in Seq(Byte)
  BY <1>1 DEF Reader, Buffers, GoodBuffer, Buffer
<1>3. ~NeedsFixup(line) /\ Written(source, at, 0, symbols) = <<>>
  BY <1>1, SilentLine
<1>4. BytesAdded(<<>>)
  <2>1. current.bytes \in Seq(Byte)
    BY <1>2 DEF current
  <2>2. PICK b : b = current.bytes
    OBVIOUS
  <2>3. b \o <<>> = b
    BY <2>1, <2>2
  <2>4. QED
    BY <2>2, <2>3 DEF BytesAdded, current
<1>5. <<>> \in Seq(Byte)
  OBVIOUS
<1>6. NothingLost
  BY <1>1, <1>4, <1>5, BytesKept
<1>7. ReadsLine(0)
  BY <1>1, <1>3, <1>6 DEF ReadsLine, AddsFixup, Reading
<1>8. Intact' => ReadsWell(0)
  BY <1>3, <1>4 DEF Intact, ReadsWell
<1>9. Buffers'
  BY <1>1 DEF Buffers
<1>10. 0 \in Nat
  OBVIOUS
<1>11. QED
  BY <1>7, <1>8, <1>9, <1>10, LineStep

LEMMA EmptyLineStep ==
  ASSUME AsmInv, EmptyLine
  PROVE  AsmInv'
<1>1. line.word = "none" /\ Accepts({"none", ".code", ".data"})
  BY DEF EmptyLine, Accepts
<1>2. section' = IF line.word \in Sections THEN line.word ELSE section
  BY <1>1 DEF EmptyLine, Sections
<1>3. QED
  BY <1>1, <1>2, SilentStep DEF EmptyLine

LEMMA SectionLineStep ==
  ASSUME AsmInv, SectionLine
  PROVE  AsmInv'
<1>1. line.word \in Sections /\ Accepts({"none", ".code", ".data"})
  BY DEF SectionLine, Accepts, Sections
<1>2. section' = IF line.word \in Sections THEN line.word ELSE section
  BY <1>1 DEF SectionLine
<1>3. line.word \in {"none", ".code", ".data"}
  BY <1>1 DEF Sections
<1>4. QED
  BY <1>1, <1>2, <1>3, SilentStep DEF SectionLine

(* Two appends, of which each may fail.                                    *)
LEMMA AppendedTwice ==
  ASSUME NEW b, GoodBuffer(b), NEW x \in Seq(Byte), NEW y \in Seq(Byte),
         Len(x) <= MAX_STRING, Len(y) <= MAX_STRING,
         NEW c \in buf_append(b, x), NEW d \in buf_append(c, y)
  PROVE  /\ GoodBuffer(c) /\ GoodBuffer(d)
         /\ Len(b.bytes) \in Nat /\ Len(c.bytes) \in Nat /\ Len(d.bytes) \in Nat
         /\ Len(b.bytes) <= Len(d.bytes)
         /\ d.bytes = b.bytes \o x \o y =>
              /\ Len(c.bytes) = Len(b.bytes) + Len(x)
              /\ d.bytes = b.bytes \o (x \o y)
<1>1. GoodBuffer(c) /\ (c.bytes = b.bytes \o x \/ c = b)
  BY Appended
<1>2. GoodBuffer(d) /\ (d.bytes = c.bytes \o y \/ d = c)
  BY <1>1, Appended
<1>3. PICK p \in Seq(Byte), q \in Seq(Byte), r \in Seq(Byte) : p = b.bytes /\ q = c.bytes /\ r = d.bytes
  BY <1>1, <1>2 DEF GoodBuffer, Buffer
<1>4. /\ q = p \o x \/ q = p
      /\ r = q \o y \/ r = q
  BY <1>1, <1>2, <1>3
<1>5. PICK n \in Nat, m \in Nat, e \in Nat, i \in Nat, j \in Nat :
        n = Len(p) /\ m = Len(q) /\ e = Len(r) /\ i = Len(x) /\ j = Len(y)
  OBVIOUS
<1>6. (m = n + i \/ m = n) /\ (e = m + j \/ e = m)
  BY <1>4, <1>5, Joined
<1>7. n <= e
  BY <1>6
<1>8. ASSUME r = p \o x \o y PROVE m = n + i /\ r = p \o (x \o y)
  <2>1. p \o x \in Seq(Byte) /\ Len(p \o x) = n + i
    BY <1>5, Joined
  <2>2. e = n + i + j
    <3>1. Len(p \o x \o y) = Len(p \o x) + Len(y)
      BY <2>1, Joined
    <3>2. QED
      BY <1>5, <1>8, <2>1, <3>1
  <2>3. m = n + i
    BY <1>6, <2>2
  <2>4. (p \o x) \o y = p \o (x \o y)
    BY ConcatAssociative, SMTT(30)
  <2>5. QED
    BY <1>8, <2>3, <2>4
<1>9. QED
  BY <1>1, <1>2, <1>3, <1>5, <1>7, <1>8

LEMMA EmitLineStep ==
  ASSUME AsmInv, EmitLine
  PROVE  AsmInv'
<1>1. PICK v : v = IF number[operand(line)] = NaN THEN 0 ELSE number[operand(line)]
  OBVIOUS
<1>2. Accepts(Instructions \cup {".byte", ".word"} \cup Strings)
  BY DEF EmitLine
<1>3. PICK b \in buf_append(current, Lead(line)) : \E c \in buf_append(b, Rest(line, v)) :
           /\ buf' = [buf EXCEPT ![section] = c]
           /\ dropped' = (dropped \/ c.bytes # current.bytes \o Lead(line) \o Rest(line, v))
           /\ fixups' = IF NeedsFixup(line) THEN Append(fixups, Fixup(Len(b.bytes))) ELSE fixups
  BY <1>1 DEF EmitLine
<1>4. PICK c \in buf_append(b, Rest(line, v)) :
           /\ buf' = [buf EXCEPT ![section] = c]
           /\ dropped' = (dropped \/ c.bytes # current.bytes \o Lead(line) \o Rest(line, v))
           /\ fixups' = IF NeedsFixup(line) THEN Append(fixups, Fixup(Len(b.bytes))) ELSE fixups
  BY <1>3
<1>5. Reader /\ Buffers /\ Steps /\ LinesRead /\ LaidOut /\ Reading /\ ~LineRefused /\ add_symbol /\ at' = at + 1
  BY <1>2 DEF AsmInv, Accepts
<1>6. /\ source \in Seq(Line) /\ at \in 1 .. Len(source) /\ at \in Nat \ {0}
      /\ section \in Sections /\ line \in Line /\ ~Malformed(line)
  BY <1>5, AcceptedLine
<1>7. line.word # ".org" /\ line.word \notin Sections
  BY <1>2, WordKinds DEF Accepts, Directives, Strings, Sections
<1>8. v \in Int
  <2>1. number[operand(line)] \in Word \cup {NaN}
    BY <1>6, LineParts
  <2>2. CASE number[operand(line)] = NaN
    BY <1>1, <2>2
  <2>3. CASE number[operand(line)] # NaN
    <3>1. number[operand(line)] \in Int
      BY <2>1, <2>3, WordInt
    <3>2. QED
      BY <1>1, <2>3, <3>1
  <2>4. QED
    BY <2>2, <2>3
<1>9. PICK x, y : x = Lead(line) /\ y = Rest(line, v)
  OBVIOUS
<1>10. x \in Seq(Byte) /\ Len(x) <= MAX_STRING
  BY <1>6, <1>9, LeadBytes
<1>11. y \in Seq(Byte) /\ Len(y) <= MAX_STRING
  <2>1. y \in Seq(Byte) /\ Len(y) = IF takes_operand(line) THEN WordBytes
                                   ELSE IF line.word \in {".byte", ".asciz"} THEN 1 ELSE 0
    BY <1>8, <1>9, RestBytes
  <2>2. QED
    BY <2>1 DEF WordBytes, MAX_STRING
<1>12. GoodBuffer(current)
  BY <1>5, <1>6 DEF Buffers, current
<1>13. /\ GoodBuffer(b) /\ GoodBuffer(c)
       /\ Len(current.bytes) \in Nat /\ Len(b.bytes) \in Nat /\ Len(c.bytes) \in Nat
       /\ Len(current.bytes) <= Len(c.bytes)
       /\ c.bytes = current.bytes \o x \o y =>
            /\ Len(b.bytes) = Len(current.bytes) + Len(x)
            /\ c.bytes = current.bytes \o (x \o y)
  <2>1. b \in buf_append(current, x) /\ c \in buf_append(b, y)
    BY <1>9
  <2>2. QED
    BY <1>10, <1>11, <1>12, <2>1, AppendedTwice
<1>14. DOMAIN buf = Sections /\ DOMAIN buf' = Sections /\ buf'[section] = c
       /\ \A s \in Sections \ {section} : buf'[s] = buf[s]
  BY <1>4, <1>5, <1>6 DEF Buffers
<1>15. Buffers'
  BY <1>5, <1>13, <1>14 DEF Buffers
<1>16. NothingLost
  <2>1. ASSUME NEW s \in Sections PROVE Len(buf[s].bytes) <= Len(buf'[s].bytes)
    <3>1. CASE s = section
      BY <1>13, <1>14, <3>1 DEF current
    <3>2. CASE s # section
      <4>1. PICK n \in Nat : n = Len(buf[s].bytes)
        BY <1>5 DEF Buffers, GoodBuffer, Buffer
      <4>2. n <= n
        OBVIOUS
      <4>3. QED
        BY <1>14, <3>2, <4>1, <4>2
    <3>3. QED
      BY <3>1, <3>2
  <2>2. QED
    BY <2>1 DEF NothingLost
<1>17. PICK offset \in Nat : offset = ToU32(Len(b.bytes))
  BY <1>13, Casting
<1>18. AddsFixup(offset)
  BY <1>4, <1>17 DEF AddsFixup, Fixup
<1>19. ReadsLine(offset)
  BY <1>5, <1>7, <1>16, <1>18 DEF ReadsLine, EmitLine, Reading
<1>20. ASSUME Intact' PROVE ReadsWell(offset)
  <2>1. ~dropped' /\ Reader /\ phase = "lines"
    BY <1>5, <1>20 DEF Intact, Reading
  <2>2. ~dropped /\ c.bytes = current.bytes \o x \o y
    BY <1>4, <1>9, <2>1
  <2>3. Intact
    BY <2>1, <2>2 DEF Intact
  <2>4. Written(source, at, 0, symbols) = x \o y
    <3>1. Operand(source, at, 0, symbols) = v
      BY <1>1, <1>6, Unresolved DEF line
    <3>2. QED
      BY <1>7, <1>9, <3>1 DEF Written, line
  <2>5. BytesAdded(x \o y)
    BY <1>13, <1>14, <2>2 DEF BytesAdded
  <2>6. Len(b.bytes) = Start(source, at) + Len(x)
    BY <1>5, <1>13, <2>2, <2>3, LineStarts
  <2>7. QED
    BY <1>9, <1>17, <2>2, <2>4, <2>5, <2>6 DEF ReadsWell
<1>21. QED
  BY <1>15, <1>19, <1>20, LineStep

LEMMA OrgLineStep ==
  ASSUME AsmInv, OrgLine
  PROVE  AsmInv'
<1>1. /\ Accepts({".org"})
      /\ UNCHANGED <<source, section, fixups, resolved, out_prog, dropped>>
  BY DEF OrgLine
<1>2. /\ Reader /\ Buffers /\ Steps /\ LinesRead /\ LaidOut /\ Reading /\ ~LineRefused /\ add_symbol
      /\ at' = at + 1 /\ line.word = ".org"
  BY <1>1 DEF AsmInv, Accepts
<1>3. /\ source \in Seq(Line) /\ at \in 1 .. Len(source) /\ at \in Nat \ {0}
      /\ section \in Sections /\ line \in Line /\ ~Malformed(line) /\ ~OrgMovesBack
  BY <1>2, AcceptedLine
<1>4. ~NeedsFixup(line) /\ line.word \notin Sections
  BY <1>2, WordKinds DEF NeedsFixup, takes_operand, Directives, Sections
<1>5. PICK v \in Word : v = number[operand(line)]
  BY <1>2, <1>3, LineParts DEF Malformed
<1>6. GoodBuffer(current) /\ current.bytes \in Seq(Byte) /\ Len(current.bytes) <= current.cap
  BY <1>2, <1>3 DEF Buffers, GoodBuffer, Buffer, current
<1>7. PICK n \in Nat, cap \in Nat : n = Len(current.bytes) /\ cap = current.cap /\ n <= cap
  BY <1>6 DEF GoodBuffer, Buffer
<1>8. PICK target \in Nat : target = ToU64(v) /\ n <= target /\ target <= 65535
  <2>1. ToU32(v) \in Nat /\ ToU64(v) \in Nat /\ ToU32(v) <= ToU64(v) /\ ToU64(v) <= 65535
    BY CastingWord
  <2>2. ~(ToU32(v) < n)
    BY <1>3, <1>5, <1>7 DEF OrgMovesBack
  <2>3. n <= ToU64(v)
    BY <2>1, <2>2
  <2>4. QED
    BY <2>1, <2>3
<1>9. 0 \in Nat
  OBVIOUS
<1>10. AddsFixup(0)
  BY <1>1, <1>4 DEF AddsFixup
<1>11. CASE phase' = "hung" /\ buf' = buf
  <2>1. Buffers'
    BY <1>2, <1>11 DEF Buffers
  <2>2. NothingLost
    <3>1. \A s \in Sections : Len(buf[s].bytes) \in Nat
      BY <1>2 DEF Buffers, GoodBuffer, Buffer
    <3>2. QED
      BY <1>11, <3>1 DEF NothingLost
  <2>3. ReadsLine(0)
    BY <1>1, <1>2, <1>4, <1>10, <1>11, <2>2 DEF ReadsLine
  <2>4. ~Intact'
    BY <1>11 DEF Intact
  <2>5. QED
    BY <1>9, <2>1, <2>3, <2>4, LineStep
<1>12. CASE /\ buf' = [buf EXCEPT ![section] =
                        [bytes |-> @.bytes \o [k \in 1 .. target - Len(@.bytes) |-> 0],
                         cap |-> IF target > cap THEN Grown(@.cap, target) ELSE @.cap]]
            /\ phase' = phase
  <2>1. PICK m \in Nat : m = target - n
    BY <1>8
  <2>2. PICK zeros : zeros = [k \in 1 .. m |-> 0]
    OBVIOUS
  <2>3. zeros \in Seq(Byte) /\ Len(zeros) = m
    BY <2>2 DEF Byte
  <2>4. PICK newcap : newcap = IF target > cap THEN Grown(cap, target) ELSE cap
    OBVIOUS
  <2>5. newcap \in Nat /\ target <= newcap
    <3>1. CASE target > cap
      <4>1. Reachable(cap, target)
        BY <1>8 DEF Reachable
      <4>2. QED
        BY <2>4, <3>1, <4>1, Grows
    <3>2. CASE ~(target > cap)
      BY <2>4, <3>2
    <3>3. QED
      BY <3>1, <3>2
  <2>6. PICK bytes : bytes = current.bytes \o zeros
    OBVIOUS
  <2>7. bytes \in Seq(Byte) /\ Len(bytes) = target
    <3>1. bytes \in Seq(Byte) /\ Len(bytes) = n + m
      BY <1>6, <1>7, <2>3, <2>6, Joined
    <3>2. QED
      BY <2>1, <3>1
  <2>8. PICK r : r = [bytes |-> bytes, cap |-> newcap]
    OBVIOUS
  <2>9. GoodBuffer(r) /\ r.bytes = bytes
    <3>1. r \in Buffer /\ r.bytes = bytes /\ r.cap = newcap
      BY <2>5, <2>7, <2>8 DEF Buffer
    <3>2. QED
      BY <2>5, <2>7, <3>1 DEF GoodBuffer
  <2>10. buf' = [buf EXCEPT ![section] = r]
    <3>1. 1 .. target - Len(buf[section].bytes) = 1 .. m
      BY <1>7, <2>1 DEF current
    <3>2. buf[section] = current /\ buf[section].cap = cap
      BY <1>7 DEF current
    <3>3. r = [bytes |-> buf[section].bytes \o [k \in 1 .. target - Len(buf[section].bytes) |-> 0],
               cap |-> IF target > cap THEN Grown(buf[section].cap, target) ELSE buf[section].cap]
      BY <2>2, <2>4, <2>6, <2>8, <3>1, <3>2
    <3>4. QED
      BY <1>12, <3>3, Zenon
  <2>11. DOMAIN buf = Sections /\ DOMAIN buf' = Sections /\ buf'[section] = r
         /\ \A s \in Sections \ {section} : buf'[s] = buf[s]
    BY <1>2, <1>3, <2>10 DEF Buffers
  <2>12. Buffers'
    BY <1>2, <2>9, <2>11 DEF Buffers
  <2>13. BytesAdded(zeros)
    BY <2>6, <2>9, <2>11 DEF BytesAdded
  <2>14. NothingLost
    BY <1>2, <2>3, <2>13, BytesKept
  <2>15. ReadsLine(0)
    BY <1>1, <1>2, <1>4, <1>10, <1>12, <2>14 DEF ReadsLine, Reading
  <2>16. ASSUME Intact' PROVE ReadsWell(0)
    <3>1. ~dropped /\ Intact
      BY <1>1, <1>12, <2>16 DEF Intact
    <3>2. Start(source, at) = n /\ ~CutBack(source, at)
      BY <1>2, <1>7, <3>1, LineStarts
    <3>3. Ends(source)[at] = target
      BY <1>2, <1>3, <1>5, <1>8, EndOfLine DEF line
    <3>4. Written(source, at, 0, symbols) = zeros
      BY <1>2, <2>1, <2>2, <3>2, <3>3 DEF Written, line
    <3>5. QED
      BY <1>4, <2>13, <3>1, <3>4 DEF ReadsWell
  <2>17. QED
    BY <1>9, <2>12, <2>15, <2>16, LineStep
<1>13. QED
  <2>1. target = ToU64(number[operand(line)]) /\ cap = current.cap
    BY <1>5, <1>7, <1>8
  <2>2. \/ /\ buf' = [buf EXCEPT ![section] =
                        [bytes |-> @.bytes \o [k \in 1 .. target - Len(@.bytes) |-> 0],
                         cap |-> IF target > cap THEN Grown(@.cap, target) ELSE @.cap]]
           /\ phase' = phase
        \/ phase' = "hung" /\ buf' = buf
    BY <2>1, Zenon DEF OrgLine
  <2>3. QED
    BY <1>11, <1>12, <2>2

LEMMA OtherSteps ==
  ASSUME AsmInv, CopySource \/ LastLineRead \/ HandOver \/ UNCHANGED vars
  PROVE  AsmInv'
<1>1. CASE CopySource
  <2>1. SameTables /\ phase = "start" /\ phase' \in {"lines", "crashed"}
    BY <1>1 DEF CopySource, SameTables
  <2>2. phase' \in Phases /\ (phase' # "hung" => phase # "hung")
    BY <2>1 DEF Phases
  <2>3. /\ Reader' /\ Buffers' /\ Symbols' /\ FixupTable'
        /\ LinesRead' /\ LabelsRead' /\ RefsRead' /\ LaidOut' /\ Offsets' /\ Content'
    BY <2>1, <2>2, SameTablesStep
  <2>4. Steps' /\ Verdict' /\ Handed'
    BY <2>1 DEF AsmInv, SameTables, Steps, Verdict, OrgsFit, Handed
  <2>5. QED
    BY <2>3, <2>4 DEF AsmInv
<1>2. CASE LastLineRead
  <2>1. SameTables /\ phase = "lines" /\ phase' = "fixups" /\ at > Len(source)
    BY <1>2 DEF LastLineRead, SameTables
  <2>2. phase' \in Phases /\ (phase' # "hung" => phase # "hung")
    BY <2>1 DEF Phases
  <2>3. /\ Reader' /\ Buffers' /\ Symbols' /\ FixupTable'
        /\ LinesRead' /\ LabelsRead' /\ RefsRead' /\ LaidOut' /\ Offsets' /\ Content'
    BY <2>1, <2>2, SameTablesStep
  <2>4. at = Len(source) + 1
    <3>1. source \in Seq(Line) /\ at \in 1 .. Len(source) + 1
      BY AssemblerAssumption DEF AsmInv, Reader
    <3>2. PICK n \in Nat : n = Len(source)
      BY <3>1
    <3>3. QED
      BY <2>1, <3>1, <3>2
  <2>5. Steps' /\ Verdict' /\ Handed'
    BY <2>1, <2>4 DEF SameTables, Steps, Verdict, OrgsFit, Handed
  <2>6. QED
    BY <2>3, <2>5 DEF AsmInv
<1>3. CASE HandOver
  <2>1. SameTables /\ phase = "fixups" /\ phase' \in {"done", "no_memory"} /\ resolved = Len(fixups)
    BY <1>3 DEF HandOver, SameTables
  <2>2. phase' \in Phases /\ (phase' # "hung" => phase # "hung")
    BY <2>1 DEF Phases
  <2>3. /\ Reader' /\ Buffers' /\ Symbols' /\ FixupTable'
        /\ LinesRead' /\ LabelsRead' /\ RefsRead' /\ LaidOut' /\ Offsets' /\ Content'
    BY <2>1, <2>2, SameTablesStep
  <2>4. Steps' /\ Verdict'
    BY <2>1 DEF AsmInv, SameTables, Steps, Verdict, OrgsFit
  <2>5. Handed'
    <3>1. CASE phase' = "done"
      <4>1. PICK code, data : code = Array(buf[".code"].bytes) /\ data = Array(buf[".data"].bytes)
        OBVIOUS
      <4>2. out_prog' = [Header EXCEPT !.code = IF code = <<>> THEN NULL ELSE code,
                                       !.data = IF data = <<>> THEN NULL ELSE data]
        BY <1>3, <3>1, <4>1 DEF HandOver
      <4>3. /\ out_prog'.code_len = ToU32(Len(buf[".code"].bytes))
            /\ out_prog'.data_len = ToU32(Len(buf[".data"].bytes))
            /\ out_prog'.code = IF code = <<>> THEN NULL ELSE code
            /\ out_prog'.data = IF data = <<>> THEN NULL ELSE data
        BY <4>2 DEF Header, EmptyProgram
      <4>4. buf' = buf
        BY <2>1 DEF SameTables
      <4>5. QED
        BY <4>1, <4>3, <4>4 DEF Handed, Assembled, Sections
    <3>2. CASE phase' # "done"
      BY <3>2 DEF Handed
    <3>3. QED
      BY <3>1, <3>2
  <2>6. QED
    BY <2>3, <2>4, <2>5 DEF AsmInv
<1>4. CASE UNCHANGED vars
  <2>1. SameTables /\ phase' = phase /\ out_prog' = out_prog
    BY <1>4 DEF vars, SameTables
  <2>2. phase' \in Phases /\ (phase' # "hung" => phase # "hung")
    BY <2>1 DEF AsmInv, Reader
  <2>3. /\ Reader' /\ Buffers' /\ Symbols' /\ FixupTable'
        /\ LinesRead' /\ LabelsRead' /\ RefsRead' /\ LaidOut' /\ Offsets' /\ Content'
    BY <2>1, <2>2, SameTablesStep
  <2>4. Steps' /\ Verdict' /\ Handed'
    BY <2>1 DEF AsmInv, SameTables, Steps, Verdict, OrgsFit, Handed, Assembled
  <2>5. QED
    BY <2>3, <2>4 DEF AsmInv
<1>5. QED
  BY <1>1, <1>2, <1>3, <1>4

(* The next fixup is that of a reference, and its placeholder is in place. *)
LEMMA FixupPlace ==
  ASSUME AsmInv, phase = "fixups", resolved < Len(fixups)
  PROVE  /\ resolved \in Nat /\ next_fixup \in Fixups
         /\ \E j \in RefsBefore(source, at) :
              /\ FixupOf(source, j) = resolved + 1
              /\ next_fixup.name = TargetOf(source, j) /\ next_fixup.section = SectionAt(source, j)
<1>1. FixupTable /\ RefsRead
  BY DEF AsmInv
<1>2. PICK n \in Nat : n = Len(fixups) /\ fixups \in Seq(Fixups) /\ resolved \in 0 .. n
  BY <1>1 DEF FixupTable
<1>3. resolved \in Nat /\ resolved + 1 \in 1 .. n
  BY <1>2
<1>4. next_fixup \in Fixups
  BY <1>2, <1>3 DEF next_fixup
<1>5. PICK j \in RefsBefore(source, at) : FixupOf(source, j) = resolved + 1
  BY <1>1, <1>2, <1>3 DEF RefsRead
<1>6. next_fixup.name = TargetOf(source, j) /\ next_fixup.section = SectionAt(source, j)
  BY <1>1, <1>5 DEF RefsRead, next_fixup
<1>7. QED
  BY <1>3, <1>4, <1>5, <1>6

LEMMA FixupRoom ==
  ASSUME AsmInv, Intact, NEW j \in RefsBefore(source, at)
  PROVE  /\ Start(source, j) \in Nat /\ Lead(source[j]) \in Seq(Byte) /\ Len(Lead(source[j])) \in Nat
         /\ Ends(source)[j] = Start(source, j) + Len(Lead(source[j])) + WordBytes
         /\ Ends(source)[j] <= Len(buf[SectionAt(source, j)].bytes)
<1>1. Reader /\ Buffers /\ LinesRead /\ LaidOut /\ source \in Seq(Line)
  BY AssemblerAssumption DEF AsmInv, Reader
<1>2. j \in 1 .. at - 1 /\ j \in 1 .. Len(source) /\ j \in Nat /\ NeedsFixup(source[j])
  BY <1>1 DEF RefsBefore, Reader
<1>3. ~Malformed(source[j]) /\ source[j] \in Line /\ takes_operand(source[j]) /\ source[j].word # ".org"
  <2>1. ~Malformed(source[j]) /\ source[j] \in Line /\ takes_operand(source[j])
    BY <1>1, <1>2 DEF LinesRead, NeedsFixup
  <2>2. source[j].word # ".org"
    BY <2>1, WordKinds DEF takes_operand, Directives
  <2>3. QED
    BY <2>1, <2>2
<1>4. /\ Start(source, j) \in Nat /\ ~CutBack(source, j)
      /\ Ends(source)[j] <= EndOf(source, at, SectionAt(source, j))
  BY <1>1, <1>2 DEF LaidOut
<1>5. Ends(source)[j] = Start(source, j) + Len(Lead(source[j])) + Len(Rest(source[j], 0))
  BY <1>1, <1>2, <1>3, <1>4, LineEnds
<1>6. Len(Rest(source[j], 0)) = WordBytes
  BY <1>3, RestBytes
<1>7. SectionAt(source, j) \in Sections
  BY <1>2, SectionType
<1>8. Lead(source[j]) \in Seq(Byte)
  BY <1>3, LeadBytes
<1>9. QED
  BY <1>1, <1>4, <1>5, <1>6, <1>7, <1>8 DEF LaidOut

(* A fixup is refused for a reason.                                        *)
LEMMA RefusedFixup ==
  ASSUME AsmInv, phase = "fixups", resolved < Len(fixups), FixupRefused, ~dropped
  PROVE  ~Correct(source)
<1>1. /\ Reader /\ LabelsRead /\ LaidOut /\ Offsets /\ Intact /\ source \in Seq(Line)
      /\ at = Len(source) + 1
  BY AssemblerAssumption DEF AsmInv, Steps, Intact, Reader
<1>2. PICK j \in RefsBefore(source, at) : /\ FixupOf(source, j) = resolved + 1
              /\ next_fixup.name = TargetOf(source, j) /\ next_fixup.section = SectionAt(source, j)
  BY FixupPlace
<1>3. CASE next_fixup.name \notin DOMAIN symbols
  <2>1. j \in References(source)
    BY <1>1, <1>2, AllOfThem
  <2>2. DOMAIN symbols = {LabelOf(source, i) : i \in Labels(source)}
    BY <1>1, AllOfThem DEF LabelsRead
  <2>3. Labelled(source, TargetOf(source, j)) = {}
    BY <1>2, <1>3, <2>2 DEF Labelled, Labels, LabelOf
  <2>4. QED
    BY <2>1, <2>3 DEF Correct, TargetOf
<1>4. CASE ToU32(next_fixup.offset + WordBytes) > Len(buf[next_fixup.section].bytes)
  <2>1. /\ Start(source, j) \in Nat /\ Len(Lead(source[j])) \in Nat
        /\ Ends(source)[j] = Start(source, j) + Len(Lead(source[j])) + WordBytes
        /\ Ends(source)[j] <= Len(buf[SectionAt(source, j)].bytes)
    BY <1>1, <1>2, FixupRoom
  <2>2. PICK p \in Nat : p = Start(source, j) + Len(Lead(source[j])) /\ Ends(source)[j] = p + 2
    BY <2>1 DEF WordBytes
  <2>3. PICK o \in Nat : o = ToU32(p) /\ o <= p
    BY Casting
  <2>4. next_fixup.offset = o
    BY <1>1, <1>2, <2>2, <2>3 DEF Offsets, next_fixup
  <2>5. PICK e \in Nat : e = ToU32(o + 2) /\ e <= o + 2
    BY Casting
  <2>6. SectionAt(source, j) \in Sections
    BY <1>2, SectionType DEF RefsBefore
  <2>7. PICK m \in Nat : m = Len(buf[SectionAt(source, j)].bytes)
    BY <2>6 DEF AsmInv, Buffers, GoodBuffer, Buffer
  <2>8. p + 2 <= m
    BY <2>1, <2>2, <2>7
  <2>9. ~(e > m)
    BY <2>3, <2>5, <2>8
  <2>10. e > m
    BY <1>2, <1>4, <2>4, <2>5, <2>7 DEF WordBytes
  <2>11. QED
    BY <2>9, <2>10
<1>5. QED
  BY <1>3, <1>4 DEF FixupRefused

LEMMA ElementsOf ==
  ASSUME NEW S, NEW seq \in Seq(S)
  PROVE  \A i \in 1 .. Len(seq) : seq[i] \in S
OBVIOUS

(* Patching changes two bytes, to bytes.                                   *)
LEMMA Patched ==
  ASSUME NEW b \in Seq(Byte), NEW f, f.offset \in Nat, symbols[f.name].offset \in Nat
  PROVE  /\ Patch(b, f) \in Seq(Byte) /\ Len(Patch(b, f)) = Len(b)
         /\ \A k \in 1 .. Len(b) : k \notin f.offset + 1 .. f.offset + 2 => Patch(b, f)[k] = b[k]
         /\ \A k \in 1 .. 2 : f.offset + k \in 1 .. Len(b) =>
              Patch(b, f)[f.offset + k] = word_bytes(symbols[f.name].offset)[k]
<1>1. PICK o \in Nat, v \in Nat : o = f.offset /\ v = symbols[f.name].offset
  OBVIOUS
<1>2. PICK w : w = word_bytes(v)
  OBVIOUS
<1>3. w \in Seq(Byte) /\ Len(w) = 2 /\ \A i \in 1 .. 2 : w[i] \in Byte
  BY <1>2, WordBytesOf, ElementsOf DEF WordBytes
<1>4. PICK n \in Nat : n = Len(b) /\ DOMAIN b = 1 .. n
  OBVIOUS
<1>5. Patch(b, f) = [k \in 1 .. n |-> IF k \in o + 1 .. o + 2 THEN w[k - o] ELSE b[k]]
  BY <1>1, <1>2, <1>4 DEF Patch, WordBytes
<1>6. PICK p : p = [k \in 1 .. n |-> IF k \in o + 1 .. o + 2 THEN w[k - o] ELSE b[k]]
  OBVIOUS
<1>7. ASSUME NEW k \in 1 .. n PROVE p[k] \in Byte
  <2>1. CASE k \in o + 1 .. o + 2
    <3>1. PICK i \in 1 .. 2 : i = k - o
      BY <2>1
    <3>2. w[i] \in Byte
      BY <1>3
    <3>3. p[k] = w[i]
      BY <1>6, <2>1, <3>1
    <3>4. QED
      BY <3>2, <3>3
  <2>2. CASE k \notin o + 1 .. o + 2
    BY <1>4, <1>6, <2>2
  <2>3. QED
    BY <2>1, <2>2
<1>8. p \in Seq(Byte) /\ Len(p) = n
  BY <1>6, <1>7
<1>9. \A k \in 1 .. n : k \notin o + 1 .. o + 2 => p[k] = b[k]
  BY <1>6
<1>10. ASSUME NEW k \in 1 .. 2, o + k \in 1 .. n PROVE p[o + k] = w[k]
  <2>1. o + k \in o + 1 .. o + 2 /\ (o + k) - o = k
    OBVIOUS
  <2>2. QED
    BY <1>6, <1>10, <2>1
<1>11. QED
  BY <1>1, <1>2, <1>4, <1>5, <1>6, <1>8, <1>9, <1>10

(* The lines read so far are as long as what is written for them.          *)
LEMMA PlacedLength ==
  ASSUME AsmInv, Intact, NEW j \in 1 .. at - 1
  PROVE  /\ Start(source, j) \in Nat /\ Ends(source)[j] \in Nat
         /\ Written(source, j, resolved, symbols) \in Seq(Byte)
         /\ Start(source, j) + Len(Written(source, j, resolved, symbols)) = Ends(source)[j]
<1>1. /\ Reader /\ Symbols /\ FixupTable /\ LinesRead /\ RefsRead /\ LaidOut /\ source \in Seq(Line)
  BY AssemblerAssumption DEF AsmInv, Reader
<1>2. j \in 1 .. Len(source) /\ j \in Nat \ {0} /\ source[j] \in Line
  BY <1>1 DEF Reader
<1>3. /\ ~Malformed(source[j]) /\ ~CutBack(source, j)
      /\ Start(source, j) \in Nat /\ Ends(source)[j] \in Nat
  BY <1>1 DEF LinesRead, LaidOut
<1>4. Operand(source, j, resolved, symbols) \in Int
  <2>1. CASE number[operand(source[j])] # NaN
    <3>1. number[operand(source[j])] \in Int
      BY <1>2, <2>1, LineParts, WordInt
    <3>2. QED
      BY <2>1, <3>1 DEF Operand
  <2>2. CASE number[operand(source[j])] = NaN /\ NeedsFixup(source[j]) /\ FixupOf(source, j) <= resolved
    <3>1. j \in RefsBefore(source, at)
      BY <2>2 DEF RefsBefore
    <3>2. PICK k : k = FixupOf(source, j) /\ k \in 1 .. Len(fixups) /\ fixups[k].name = TargetOf(source, j)
      BY <1>1, <3>1 DEF RefsRead
    <3>3. k \in 1 .. resolved
      BY <1>1, <2>2, <3>2 DEF FixupTable
    <3>4. TargetOf(source, j) \in DOMAIN symbols
      BY <1>1, <3>2, <3>3 DEF RefsRead
    <3>5. symbols[TargetOf(source, j)].offset \in Nat
      BY <1>1, <3>4 DEF Symbols
    <3>6. QED
      BY <2>2, <3>5 DEF Operand
  <2>3. CASE number[operand(source[j])] = NaN /\ ~(NeedsFixup(source[j]) /\ FixupOf(source, j) <= resolved)
    BY <2>3 DEF Operand
  <2>4. QED
    BY <2>1, <2>2, <2>3
<1>5. QED
  BY <1>1, <1>2, <1>3, <1>4, WrittenLength

(* The invariant after the patch of the next fixup.                        *)
Patches ==
  /\ phase = "fixups" /\ resolved < Len(fixups) /\ ~FixupRefused
  /\ buf' = [buf EXCEPT ![next_fixup.section].bytes = Patch(@, next_fixup)]
  /\ resolved' = resolved + 1
  /\ UNCHANGED <<source, at, section, symbols, fixups, phase, out_prog, dropped>>

LEMMA PatchedBuffers ==
  ASSUME AsmInv, Patches
  PROVE  /\ Buffers'
         /\ \A s \in Sections : Len(buf'[s].bytes) = Len(buf[s].bytes)
         /\ \A s \in Sections \ {next_fixup.section} : buf'[s] = buf[s]
         /\ buf'[next_fixup.section].bytes = Patch(buf[next_fixup.section].bytes, next_fixup)
         /\ next_fixup.section \in Sections /\ next_fixup.offset \in Nat
         /\ next_fixup.name \in DOMAIN symbols /\ symbols[next_fixup.name].offset \in Nat
<1>1. next_fixup \in Fixups
  BY FixupPlace DEF Patches
<1>2. PICK f : f = next_fixup
  OBVIOUS
<1>3. PICK s : s = f.section
  OBVIOUS
<1>4. s \in Sections /\ f.offset \in Nat
  BY <1>1, <1>2, <1>3 DEF Fixups
<1>5. f.name \in DOMAIN symbols
  BY <1>2 DEF Patches, FixupRefused
<1>6. symbols[f.name].offset \in Nat
  BY <1>5 DEF AsmInv, Symbols
<1>7. DOMAIN buf = Sections /\ \A t \in Sections : GoodBuffer(buf[t])
  BY DEF AsmInv, Buffers
<1>8. PICK a, b, p : a = buf[s] /\ b = a.bytes /\ p = Patch(b, f)
  OBVIOUS
<1>9. a \in Buffer /\ b \in Seq(Byte) /\ Len(b) <= a.cap
  BY <1>4, <1>7, <1>8 DEF GoodBuffer, Buffer
<1>10. p \in Seq(Byte) /\ Len(p) = Len(b)
  BY <1>4, <1>6, <1>8, <1>9, Patched
<1>11. buf' = [buf EXCEPT ![s].bytes = p]
  BY <1>2, <1>3, <1>8, Zenon DEF Patches
<1>12. PICK r : r = [a EXCEPT !.bytes = p]
  OBVIOUS
<1>13. r \in Buffer /\ r.bytes = p /\ r.cap = a.cap
  BY <1>9, <1>10, <1>12 DEF Buffer
<1>14. DOMAIN buf' = Sections /\ buf'[s] = r /\ \A t \in Sections \ {s} : buf'[t] = buf[t]
  BY <1>4, <1>7, <1>8, <1>11, <1>12
<1>15. GoodBuffer(r)
  BY <1>9, <1>10, <1>13 DEF GoodBuffer
<1>16. Buffers'
  BY <1>7, <1>14, <1>15 DEF Buffers
<1>17. \A t \in Sections : Len(buf'[t].bytes) = Len(buf[t].bytes)
  BY <1>8, <1>10, <1>13, <1>14
<1>18. QED
  BY <1>2, <1>3, <1>4, <1>5, <1>6, <1>8, <1>13, <1>14, <1>16, <1>17

LEMMA Ahead ==
  ASSUME NEW x \in Seq(Byte), NEW y \in Seq(Byte), NEW k \in 1 .. Len(x)
  PROVE  k \in DOMAIN (x \o y) /\ (x \o y)[k] = x[k]
OBVIOUS

Follows(x, y, l) == l = Len(x) /\ Len(y) = 2
LEMMA Behind ==
  ASSUME NEW x \in Seq(Byte), NEW y \in Seq(Byte), NEW l \in Nat, Follows(x, y, l)
  PROVE  /\ DOMAIN (x \o y) = 1 .. l + 2
         /\ \A m \in 1 .. 2 : (x \o y)[l + m] = y[m]
<1>1. PICK z \in Seq(Byte) : z = x \o y
  BY Joined
<1>2. Len(x \o y) = Len(x) + Len(y) /\ \A m \in 1 .. Len(y) : (x \o y)[Len(x) + m] = y[m]
  BY Joined
<1>3. Len(z) = l + 2 /\ \A m \in 1 .. 2 : z[l + m] = y[m]
  BY <1>1, <1>2, Zenon DEF Follows
<1>4. DOMAIN z = 1 .. l + 2
  BY <1>3
<1>5. QED
  BY <1>1, <1>3, <1>4, Zenon

LEMMA PatchedContent ==
  ASSUME AsmInv, Patches
  PROVE  Content'
<1>1. /\ source' = source /\ at' = at /\ symbols' = symbols /\ fixups' = fixups
      /\ resolved' = resolved + 1 /\ phase' = phase /\ dropped' = dropped
  BY DEF Patches
<1>2. /\ Reader /\ Buffers /\ Buffers' /\ LinesRead /\ LaidOut /\ Offsets /\ Content /\ source \in Seq(Line)
  BY PatchedBuffers, AssemblerAssumption DEF AsmInv, Reader
<1>3. SUFFICES ASSUME Intact', Addressable'
               PROVE  \A j \in 1 .. at - 1 : \A k \in DOMAIN Written(source, j, resolved + 1, symbols) :
                        buf'[SectionAt(source, j)].bytes[Start(source, j) + k]
                          = Written(source, j, resolved + 1, symbols)[k]
  BY <1>1 DEF Content
<1>4. Intact
  BY <1>1, <1>3 DEF Intact
<1>5. \A s \in Sections : Len(buf'[s].bytes) = Len(buf[s].bytes)
  BY PatchedBuffers
<1>6. \A s \in Sections : Len(buf[s].bytes) \in Address
  BY <1>2, <1>3, <1>5 DEF Addressable, Buffers
<1>7. Addressable
  BY <1>2, <1>6 DEF Addressable, Buffers
<1>18. PICK r \in Nat, r1 \in Nat : r = resolved /\ r1 = resolved + 1 /\ r1 = r + 1
  BY FixupPlace DEF Patches
<1>8. PICK i \in RefsBefore(source, at) :
        /\ FixupOf(source, i) = r1
        /\ next_fixup.name = TargetOf(source, i) /\ next_fixup.section = SectionAt(source, i)
  BY <1>18, FixupPlace DEF Patches
<1>9. i \in 1 .. at - 1 /\ NeedsFixup(source[i]) /\ at \in Nat
  BY <1>2 DEF RefsBefore, Reader
<1>10. PICK s \in Sections, bs \in Nat, ls \in Nat :
         /\ s = SectionAt(source, i) /\ bs = Start(source, i) /\ ls = Len(Lead(source[i]))
         /\ Ends(source)[i] = bs + ls + 2 /\ Ends(source)[i] <= Len(buf[s].bytes)
  <2>1. SectionAt(source, i) \in Sections
    BY <1>9, SectionType
  <2>2. QED
    BY <1>4, <2>1, FixupRoom DEF WordBytes
<1>11. PICK n \in Nat : n = Len(buf[s].bytes) /\ n <= 255 /\ bs + ls + 2 <= n
  <2>1. PICK n \in Address : n = Len(buf[s].bytes)
    BY <1>6
  <2>2. PICK m \in Nat : m = n /\ m <= 255
    BY DEF Address
  <2>3. PICK e \in Nat : e = bs + ls + 2
    OBVIOUS
  <2>4. e <= m
    BY <1>10, <2>1, <2>2, <2>3
  <2>5. QED
    BY <2>1, <2>2, <2>3, <2>4
<1>12. next_fixup.offset = bs + ls
  <2>1. next_fixup.offset = ToU32(bs + ls)
    <3>1. next_fixup = fixups[FixupOf(source, i)]
      BY <1>8, <1>18, Zenon DEF next_fixup
    <3>2. fixups[FixupOf(source, i)].offset = ToU32(Start(source, i) + Len(Lead(source[i])))
      BY <1>2, <1>4, <1>8, Zenon DEF Offsets
    <3>3. QED
      BY <1>10, <3>1, <3>2, Zenon
  <2>2. bs + ls \in Nat /\ bs + ls <= 255
    BY <1>11
  <2>3. PICK p \in Nat : p = bs + ls /\ p <= 255
    BY <2>2
  <2>4. QED
    BY <2>1, <2>3, Casting
<1>13. PICK b, p : b = buf[s].bytes /\ p = buf'[s].bytes
  OBVIOUS
<1>14. PICK v \in Nat : v = symbols[TargetOf(source, i)].offset
  BY <1>8, PatchedBuffers
<1>15. /\ \A k \in 1 .. n : k \notin bs + ls + 1 .. bs + ls + 2 => p[k] = b[k]
       /\ \A k \in 1 .. 2 : bs + ls + k \in 1 .. n => p[bs + ls + k] = word_bytes(v)[k]
  <2>1. b \in Seq(Byte) /\ Len(b) = n
    BY <1>2, <1>11, <1>13 DEF Buffers, GoodBuffer, Buffer
  <2>2. PICK f : f = next_fixup
    OBVIOUS
  <2>3. f.offset \in Nat /\ f.offset = bs + ls /\ symbols[f.name].offset \in Nat /\ symbols[f.name].offset = v
    BY <1>8, <1>12, <1>14, <2>2, PatchedBuffers
  <2>4. p = Patch(b, f)
    BY <1>8, <1>10, <1>13, <2>2, PatchedBuffers
  <2>5. /\ \A k \in 1 .. Len(b) : k \notin f.offset + 1 .. f.offset + 2 => Patch(b, f)[k] = b[k]
        /\ \A k \in 1 .. 2 : f.offset + k \in 1 .. Len(b) =>
             Patch(b, f)[f.offset + k] = word_bytes(symbols[f.name].offset)[k]
    BY <2>1, <2>3, Patched, SMTT(30)
  <2>6. QED
    BY <2>1, <2>3, <2>4, <2>5
<1>16. ASSUME NEW j \in 1 .. at - 1, NEW k \in DOMAIN Written(source, j, r1, symbols)
       PROVE  buf'[SectionAt(source, j)].bytes[Start(source, j) + k]
                = Written(source, j, r1, symbols)[k]
  <2>1. CASE j = i
    <3>1. PICK x, y, z : x = Lead(source[i]) /\ y = word_bytes(v)
                         /\ z = Rest(source[i], Operand(source, i, r, symbols))
      OBVIOUS
    <3>2. number[operand(source[i])] = NaN /\ takes_operand(source[i]) /\ source[i].word # ".org"
      BY <1>9, WordKinds DEF NeedsFixup, takes_operand, Directives
    <3>3. x \in Seq(Byte) /\ Len(x) = ls
      BY <1>4, <1>8, <1>10, <3>1, FixupRoom
    <3>4. Operand(source, i, r1, symbols) = v
      <4>1. FixupOf(source, i) <= r1
        BY <1>8
      <4>2. QED
        BY <1>9, <1>14, <3>2, <4>1 DEF Operand
    <3>5. Rest(source[i], v) = y /\ y \in Seq(Byte) /\ Len(y) = 2
      <4>1. source[i].word # ".byte" /\ source[i].word # ".asciz"
        BY <3>2 DEF takes_operand, has_operand
      <4>2. Rest(source[i], v) = y
        BY <3>1, <3>2, <4>1 DEF Rest
      <4>3. QED
        BY <3>1, <4>2, WordBytesOf DEF WordBytes
    <3>6. Written(source, i, r1, symbols) = x \o y
      BY <3>1, <3>2, <3>4, <3>5 DEF Written
    <3>7. DOMAIN (x \o y) = 1 .. ls + 2 /\ \A m \in 1 .. 2 : (x \o y)[ls + m] = y[m]
      <4>1. Follows(x, y, ls)
        BY <3>3, <3>5, Zenon DEF Follows
      <4>2. QED
        BY <3>3, <3>5, <4>1, Behind, ZenonT(40)
    <3>8. k \in 1 .. ls + 2
      <4>1. k \in DOMAIN (x \o y)
        BY <1>16, <2>1, <3>6, Zenon
      <4>2. QED
        BY <3>7, <4>1, Zenon
    <3>9. CASE k <= ls
      <4>1. k \in 1 .. ls /\ bs + k \in 1 .. n /\ bs + k \notin bs + ls + 1 .. bs + ls + 2
        BY <1>11, <3>8, <3>9
      <4>2. p[bs + k] = b[bs + k]
        BY <1>15, <4>1
      <4>3. Written(source, i, r, symbols) = x \o z
        BY <3>1, <3>2 DEF Written
      <4>4. z \in Seq(Byte)
        <5>1. Operand(source, i, r, symbols) = 0
          <6>1. ~(FixupOf(source, i) <= r)
            BY <1>8, <1>18
          <6>2. QED
            BY <3>2, <6>1 DEF Operand
        <5>2. QED
          BY <3>1, <5>1, RestBytes
      <4>9. k \in 1 .. Len(x)
        BY <3>3, <4>1, Zenon
      <4>5. (x \o z)[k] = x[k] /\ (x \o y)[k] = x[k]
        BY <3>3, <3>5, <4>4, <4>9, Ahead, Zenon
      <4>6. k \in DOMAIN (x \o z)
        BY <3>3, <4>4, <4>9, Ahead, Zenon
      <4>7. b[bs + k] = x[k]
        BY <1>2, <1>4, <1>7, <1>9, <1>10, <1>13, <1>18, <4>3, <4>5, <4>6 DEF Content
      <4>8. QED
        BY <1>10, <1>13, <2>1, <3>6, <4>2, <4>5, <4>7
    <3>10. CASE ~(k <= ls)
      <4>1. PICK m \in 1 .. 2 : k = ls + m
        <5>1. k - ls \in 1 .. 2 /\ k = ls + (k - ls)
          BY <3>8, <3>10
        <5>2. QED
          BY <5>1
      <4>2. bs + ls + m \in 1 .. n /\ bs + k = bs + ls + m
        BY <1>11, <4>1
      <4>3. p[bs + k] = y[m]
        BY <1>15, <3>1, <4>2
      <4>4. (x \o y)[k] = y[m]
        BY <3>7, <4>1, Zenon
      <4>5. QED
        BY <1>10, <1>13, <2>1, <3>6, <4>3, <4>4
    <3>11. QED
      BY <3>9, <3>10
  <2>2. CASE j # i
    <3>1. Written(source, j, r1, symbols) = Written(source, j, r, symbols)
      <4>2. ASSUME NeedsFixup(source[j])
            PROVE  FixupOf(source, j) <= r1 <=> FixupOf(source, j) <= r
        <5>1. j \in RefsBefore(source, at)
          BY <4>2 DEF RefsBefore
        <5>2. FixupOf(source, j) # r1
          BY <1>8, <1>9, <2>2, <5>1, FixupsDiffer
        <5>3. j \in Nat \ {0}
          BY <1>9
        <5>4. PICK c \in Nat : c = FixupOf(source, j)
          BY <5>3, CountRefs DEF FixupOf
        <5>5. c <= r1 <=> c <= r
          BY <1>18, <5>2, <5>4
        <5>6. QED
          BY <5>4, <5>5
      <4>3. Operand(source, j, r1, symbols) = Operand(source, j, r, symbols)
        <5>1. CASE NeedsFixup(source[j])
          BY <4>2, <5>1 DEF Operand
        <5>2. CASE ~NeedsFixup(source[j])
          BY <5>2 DEF Operand
        <5>3. QED
          BY <5>1, <5>2
      <4>4. QED
        BY <4>3 DEF Written
    <3>2. PICK t, c, w : /\ t \in Sections /\ t = SectionAt(source, j) /\ c = Start(source, j)
                         /\ w = Written(source, j, r, symbols)
      BY <1>9, SectionType
    <3>3. buf[t].bytes[c + k] = w[k]
      BY <1>2, <1>4, <1>7, <1>16, <1>18, <3>1, <3>2 DEF Content
    <3>4. CASE t # s
      BY <1>8, <1>10, <3>1, <3>2, <3>3, <3>4, PatchedBuffers
    <3>5. CASE t = s
      <4>1. c \in Nat /\ w \in Seq(Byte) /\ c + Len(w) = Ends(source)[j] /\ Ends(source)[j] \in Nat
        BY <1>2, <1>4, <1>18, <3>2, PlacedLength
      <4>8. Ends(source)[j] <= EndOf(source, at, t) /\ EndOf(source, at, t) = n
        BY <1>2, <1>4, <1>11, <3>2, <3>5 DEF LaidOut
      <4>2. PICK e \in Nat, len \in Nat : e = Ends(source)[j] /\ len = Len(w) /\ c + len = e /\ e <= n
        BY <4>1, <4>8
      <4>3. k \in 1 .. len
        BY <1>16, <3>1, <3>2, <4>1, <4>2
      <4>4. e <= bs \/ bs + ls + 2 <= c
        <5>1. CASE j < i
          <6>1. j \in 1 .. i - 1 /\ SectionAt(source, j) = SectionAt(source, i)
            BY <1>9, <1>10, <3>2, <3>5, <5>1
          <6>2. Ends(source)[j] <= Start(source, i)
            BY <1>2, <1>4, <1>9, <6>1 DEF LaidOut
          <6>3. QED
            BY <1>10, <4>2, <6>2
        <5>2. CASE i < j
          <6>1. i \in 1 .. j - 1 /\ SectionAt(source, i) = SectionAt(source, j)
            BY <1>9, <1>10, <3>2, <3>5, <5>2
          <6>2. Ends(source)[i] <= Start(source, j)
            BY <1>2, <1>4, <6>1 DEF LaidOut
          <6>3. QED
            BY <1>10, <3>2, <6>2
        <5>3. QED
          BY <1>9, <2>2, <5>1, <5>2
      <4>5. c + k \in 1 .. n /\ c + k \notin bs + ls + 1 .. bs + ls + 2
        BY <4>1, <4>2, <4>3, <4>4
      <4>6. p[c + k] = b[c + k]
        BY <1>15, <4>5
      <4>7. QED
        BY <1>13, <3>1, <3>2, <3>3, <3>5, <4>6
    <3>6. QED
      BY <3>4, <3>5
  <2>3. QED
    BY <2>1, <2>2
<1>17. QED
  BY <1>16, <1>18

LEMMA PatchStep ==
  ASSUME AsmInv, Patches
  PROVE  AsmInv'
<1>1. /\ source' = source /\ at' = at /\ section' = section /\ symbols' = symbols /\ fixups' = fixups
      /\ resolved' = resolved + 1 /\ phase' = phase /\ phase = "fixups" /\ dropped' = dropped
      /\ resolved < Len(fixups)
  BY DEF Patches
<1>2. PICK r \in Nat, n \in Nat : r = resolved /\ n = Len(fixups) /\ fixups \in Seq(Fixups) /\ n <= MAX_FIXUPS
  BY <1>1, FixupPlace DEF AsmInv, FixupTable
<1>3. r + 1 \in 0 .. n /\ \A k \in 1 .. r + 1 : k \in 1 .. r \/ k = r + 1
  BY <1>1, <1>2
<1>4. Reader' /\ Steps' /\ LinesRead' /\ LabelsRead' /\ Verdict' /\ Handed'
  BY <1>1 DEF AsmInv, Reader, Steps, LinesRead, LabelsRead, Verdict, OrgsFit, Handed
<1>5. Buffers' /\ \A s \in Sections : Len(buf'[s].bytes) = Len(buf[s].bytes)
  BY PatchedBuffers
<1>6. Symbols'
  BY <1>1, <1>5 DEF AsmInv, Symbols
<1>7. FixupTable'
  BY <1>1, <1>2, <1>3 DEF FixupTable
<1>8. RefsRead'
  <2>1. fixups[r + 1].name \in DOMAIN symbols
    BY <1>2, PatchedBuffers DEF next_fixup
  <2>2. \A k \in 1 .. r + 1 : fixups[k].name \in DOMAIN symbols
    BY <1>2, <1>3, <2>1 DEF AsmInv, RefsRead
  <2>3. \A k \in 1 .. resolved' : fixups'[k].name \in DOMAIN symbols'
    BY <1>1, <1>2, <2>2
  <2>4. QED
    BY <1>1, <2>3 DEF AsmInv, RefsRead
<1>9. Intact' <=> Intact
  BY <1>1 DEF Intact
<1>10. LaidOut'
  BY <1>1, <1>5, <1>9 DEF AsmInv, LaidOut
<1>11. Offsets'
  BY <1>1, <1>9 DEF AsmInv, Offsets
<1>12. Content'
  BY PatchedContent
<1>13. QED
  BY <1>4, <1>5, <1>6, <1>7, <1>8, <1>10, <1>11, <1>12 DEF AsmInv

LEMMA ResolveFixupStep ==
  ASSUME AsmInv, ResolveFixup
  PROVE  AsmInv'
<1>1. phase = "fixups" /\ resolved < Len(fixups)
  BY DEF ResolveFixup
<1>2. CASE FixupRefused /\ Refuse
  BY <1>1, <1>2, RefusedFixup, RefuseStep
<1>3. CASE ~FixupRefused
  <2>1. Patches
    BY <1>1, <1>3 DEF ResolveFixup, Patches
  <2>2. QED
    BY <2>1, PatchStep
<1>4. QED
  BY <1>2, <1>3 DEF ResolveFixup

LEMMA RefuseLineStep ==
  ASSUME AsmInv, RefuseLine
  PROVE  AsmInv'
<1>1. Reading /\ LineRefused /\ Refuse /\ phase # "hung"
  BY DEF RefuseLine, Reading
<1>2. ~dropped /\ OrgsFit => ~Correct(source)
  BY <1>1, RefusedLine
<1>3. QED
  BY <1>1, <1>2, RefuseStep

LEMMA AsmStep == AsmInv /\ [Next]_vars => AsmInv'
<1> SUFFICES ASSUME AsmInv, [Next]_vars PROVE AsmInv'
  OBVIOUS
<1>1. CASE CopySource \/ LastLineRead \/ HandOver \/ UNCHANGED vars
  BY <1>1, OtherSteps
<1>2. CASE RefuseLine
  BY <1>2, RefuseLineStep
<1>3. CASE EmptyLine
  BY <1>3, EmptyLineStep
<1>4. CASE SectionLine
  BY <1>4, SectionLineStep
<1>5. CASE EmitLine
  BY <1>5, EmitLineStep
<1>6. CASE OrgLine
  BY <1>6, OrgLineStep
<1>7. CASE ResolveFixup
  BY <1>7, ResolveFixupStep
<1>8. QED
  BY <1>1, <1>2, <1>3, <1>4, <1>5, <1>6, <1>7 DEF Next

LEMMA AsmInvariant == Spec => []AsmInv
<1>1. QED
  BY AsmInit, AsmStep, PTL DEF Spec

-----------------------------------------------------------------------------
(* The disassembler.                                                       *)

(* A program that has its code, and a counter that can pass its end.       *)
Sound(prog) == /\ prog.code_len \in Nat /\ prog.code_len + WordBytes <= 255
               /\ \A k \in 0 .. prog.code_len - 1 : prog.code[k] \in Byte

(* One turn of the sweep, f being the rest of the listing from each pc on. *)
Turn(prog, f, pc) ==
  IF pc >= prog.code_len THEN <<>>
  ELSE IF ItemAt(prog, pc).op = "truncated" THEN <<ItemAt(prog, pc)>>
  ELSE <<ItemAt(prog, pc)>> \o f[pc + Width(prog, pc)]

IsSweep(prog, f, from) == f = [pc \in from .. prog.code_len + WordBytes |-> Turn(prog, f, pc)]
HasSweep(prog, from) == \E f : IsSweep(prog, f, from)

LEMMA Widths ==
  ASSUME NEW prog, NEW pc
  PROVE  Width(prog, pc) \in {1, 3}
BY DEF Width, WordBytes

(* A sweep from any pc to the end exists.                                  *)
LEMMA SweepsExist ==
  ASSUME NEW prog, NEW n \in Nat, n = prog.code_len, NEW m \in 0 .. n + 2
  PROVE  HasSweep(prog, n + 2 - m)
<1> DEFINE Bad == {k \in Nat : k <= n + 2 /\ ~HasSweep(prog, n + 2 - k)}
<1>1. SUFFICES ASSUME Bad # {} PROVE FALSE
  BY DEF Bad
<1>2. PICK k \in Bad : \A j \in Bad : k <= j
  BY <1>1, Smallest
<1> HIDE DEF Bad
<1>3. k \in 0 .. n + 2 /\ ~HasSweep(prog, n + 2 - k) /\ \A j \in 0 .. k - 1 : HasSweep(prog, n + 2 - j)
  BY <1>2 DEF Bad
<1>4. PICK from \in 0 .. n + 2 : from = n + 2 - k
  BY <1>3
<1>5. CASE k = 0
  <2>1. PICK f : f = [pc \in from .. n + 2 |-> <<>>]
    OBVIOUS
  <2>2. \A pc \in from .. n + 2 : Turn(prog, f, pc) = <<>>
    BY <1>4, <1>5 DEF Turn
  <2>3. IsSweep(prog, f, from)
    BY <2>1, <2>2 DEF IsSweep, WordBytes
  <2>4. QED
    BY <1>3, <1>4, <2>3 DEF HasSweep
<1>6. CASE k # 0
  <2>1. HasSweep(prog, n + 2 - (k - 1)) /\ n + 2 - (k - 1) = from + 1
    BY <1>3, <1>4, <1>6
  <2>2. PICK f : IsSweep(prog, f, from + 1)
    BY <2>1 DEF HasSweep
  <2>3. f = [pc \in from + 1 .. n + 2 |-> Turn(prog, f, pc)]
    BY <2>2 DEF IsSweep, WordBytes
  <2>4. PICK g : g = [pc \in from .. n + 2 |-> Turn(prog, f, pc)]
    OBVIOUS
  <2>5. \A pc \in from + 1 .. n + 2 : g[pc] = f[pc]
    BY <1>4, <2>3, <2>4
  <2>6. ASSUME NEW pc \in from .. n + 2 PROVE Turn(prog, g, pc) = Turn(prog, f, pc)
    <3>1. CASE pc >= n
      BY <3>1 DEF Turn
    <3>2. CASE pc < n
      <4>1. PICK w \in {1, 3} : w = Width(prog, pc)
        BY Widths
      <4>2. pc + w \in from + 1 .. n + 2
        BY <1>4, <3>2
      <4>3. g[pc + w] = f[pc + w]
        BY <2>5, <4>2
      <4>4. QED
        BY <4>1, <4>3 DEF Turn
    <3>3. QED
      BY <3>1, <3>2
  <2>7. g = [pc \in from .. n + 2 |-> Turn(prog, g, pc)]
    BY <2>4, <2>6
  <2>8. IsSweep(prog, g, from)
    BY <2>7 DEF IsSweep, WordBytes
  <2>9. QED
    BY <1>3, <1>4, <2>8 DEF HasSweep
<1>7. QED
  BY <1>5, <1>6

(* The listing is the whole sweep.                                         *)
LEMMA ListingIsSweep ==
  ASSUME NEW prog, prog.code_len \in Nat
  PROVE  \E f : IsSweep(prog, f, 0) /\ zeus_disassemble(prog) = f[0]
<1>1. PICK n \in Nat : n = prog.code_len
  OBVIOUS
<1>2. HasSweep(prog, n + 2 - (n + 2))
  BY <1>1, SweepsExist
<1>3. HasSweep(prog, 0)
  BY <1>2
<1>4. PICK g : g = CHOOSE f : IsSweep(prog, f, 0)
  OBVIOUS
<1>5. IsSweep(prog, g, 0)
  BY <1>3, <1>4 DEF HasSweep
<1>6. zeus_disassemble(prog) = g[0]
  BY <1>4 DEF zeus_disassemble, IsSweep, Turn
<1>7. QED
  BY <1>5, <1>6

(* What is printed at pc, in the bytes it stands for.                      *)
Whole(prog, pc) == ~(has_operand(Mnemonic(prog.code[pc])) /\ prog.code_len < pc + 1 + WordBytes)

Stands(prog, pc, bytes) ==
  /\ Encoded(ItemAt(prog, pc)) = bytes
  /\ Len(bytes) = Width(prog, pc) /\ pc + Len(bytes) <= prog.code_len
  /\ \A k \in 1 .. Len(bytes) : prog.code[pc + k - 1] = bytes[k]

(* An opcode and the two bytes of its operand.                             *)
LEMMA Triple ==
  ASSUME NEW b \in Byte, NEW x \in Byte, NEW y \in Byte
  PROVE  <<b>> \o <<x, y>> = <<b, x, y>>
<1>1. PICK p \in Seq(Byte), q \in Seq(Byte) : p = <<b>> /\ q = <<x, y>> /\ Len(p) = 1 /\ Len(q) = 2
  <2>1. <<b>> \in Seq(Byte) /\ <<x, y>> \in Seq(Byte)
    OBVIOUS
  <2>2. QED
    BY <2>1
<1>2. PICK s \in Seq(Byte) : s = p \o q
  <2>1. p \o q \in Seq(Byte)
    OBVIOUS
  <2>2. QED
    BY <2>1
<1>3. Len(s) = 3 /\ s[1] = b /\ s[2] = x /\ s[3] = y
  BY <1>1, <1>2
<1>4. s = <<b, x, y>>
  BY <1>3
<1>5. QED
  BY <1>1, <1>2, <1>4

LEMMA NoOperand ==
  /\ ~has_operand("INVALID") /\ ~has_operand("DB")
  /\ "INVALID" \notin Instructions /\ "DB" \notin Instructions /\ "truncated" \notin Instructions
<1>1. \A m \in DOMAIN Families : \A i \in DOMAIN Families[m] : Families[m][i] \notin {"INVALID", "DB", "truncated"}
  <2>1. TAKE m \in DOMAIN Families
  <2>2. m \in 1 .. 9
    BY DEF Families
  <2>3. QED
    BY <2>2, SMTT(30) DEF Families
<1>2. QED
  BY <1>1 DEF Instructions, has_operand

(* Short of the end of the range, the check does not wrap.                 *)
LEMMA CutShortWhen ==
  ASSUME NEW prog, Sound(prog), NEW pc \in 0 .. prog.code_len - 1
  PROVE  CutShort(prog, pc) <=> prog.code_len < pc + 1 + WordBytes
<1>1. PICK n \in Nat : n = prog.code_len /\ n + 2 <= 255 /\ pc \in 0 .. n - 1
  BY DEF Sound, WordBytes
<1>2. ToU32(pc + 1 + 2) = pc + 1 + 2
  BY <1>1 DEF ToU32
<1>3. QED
  BY <1>1, <1>2 DEF CutShort, WordBytes

(* What is printed at pc stands for the bytes of the instruction there.    *)
LEMMA ItemStands ==
  ASSUME NEW prog, Sound(prog), NEW pc \in 0 .. prog.code_len - 1
  PROVE  /\ ItemAt(prog, pc).pc = pc
         /\ ItemAt(prog, pc).op = "truncated" <=> ~Whole(prog, pc)
         /\ ~Whole(prog, pc) => Encoded(ItemAt(prog, pc)) = <<>>
         /\ Whole(prog, pc) => \E bytes \in Seq(Byte) : Stands(prog, pc, bytes)
<1>1. PICK n \in Nat : n = prog.code_len /\ n + 2 <= 255 /\ pc \in 0 .. n - 1
  BY DEF Sound, WordBytes
<1>2. PICK b \in Byte : b = prog.code[pc]
  BY DEF Sound
<1>3. PICK op : op = Mnemonic(b)
  OBVIOUS
<1>4. CutShort(prog, pc) <=> n < pc + 3
  BY <1>1, CutShortWhen DEF WordBytes
<1>5. Whole(prog, pc) <=> ~(has_operand(op) /\ n < pc + 3)
  BY <1>1, <1>2, <1>3 DEF Whole, WordBytes
<1>6. Width(prog, pc) = IF has_operand(op) THEN 3 ELSE 1
  BY <1>2, <1>3 DEF Width, WordBytes
<1>7. CASE op = "INVALID"
  <2>1. ItemAt(prog, pc) = Item(pc, "DB", b)
    BY <1>2, <1>3, <1>7, NoOperand DEF ItemAt
  <2>2. Encoded(ItemAt(prog, pc)) = <<b>>
    BY <2>1 DEF Encoded, Item
  <2>3. Stands(prog, pc, <<b>>)
    BY <1>1, <1>2, <1>6, <1>7, <2>2, NoOperand DEF Stands
  <2>4. Whole(prog, pc) /\ ItemAt(prog, pc).pc = pc /\ ItemAt(prog, pc).op = "DB" /\ <<b>> \in Seq(Byte)
    BY <1>5, <1>7, <2>1, NoOperand DEF Item
  <2>5. QED
    BY <2>3, <2>4
<1>8. CASE op # "INVALID" /\ has_operand(op) /\ n < pc + 3
  <2>1. ItemAt(prog, pc) = Item(pc, "truncated", 0)
    BY <1>2, <1>3, <1>4, <1>8 DEF ItemAt
  <2>2. Encoded(ItemAt(prog, pc)) = <<>>
    BY <2>1 DEF Encoded, Item
  <2>3. QED
    BY <1>5, <1>8, <2>1, <2>2 DEF Item
<1>9. op # "INVALID" => op \in Instructions /\ zeus_op_by_name(op) = b /\ op \notin {"DB", "truncated"}
  BY <1>3, ByteNamed, NoOperand
<1>10. CASE op # "INVALID" /\ has_operand(op) /\ ~(n < pc + 3)
  <2>1. PICK v : v = read_i64(prog.code, pc + 1)
    OBVIOUS
  <2>2. ItemAt(prog, pc) = Item(pc, op, v)
    BY <1>2, <1>3, <1>4, <1>10, <2>1 DEF ItemAt
  <2>3. pc + 1 \in 0 .. n - 1 /\ pc + 2 \in 0 .. n - 1 /\ (pc + 1) + 1 = pc + 2
    BY <1>1, <1>10
  <2>4. PICK x \in Byte, y \in Byte : x = prog.code[pc + 1] /\ y = prog.code[pc + 2]
    BY <1>1, <2>3 DEF Sound
  <2>5. word_bytes(v) = <<x, y>>
    BY <2>1, <2>3, <2>4, BytesAgain DEF read_i64
  <2>6. Encoded(ItemAt(prog, pc)) = <<b>> \o word_bytes(v)
    <3>1. ItemAt(prog, pc).op = op /\ ItemAt(prog, pc).operand = v
      BY <2>2 DEF Item
    <3>2. QED
      BY <1>9, <1>10, <3>1 DEF Encoded
  <2>7. Encoded(ItemAt(prog, pc)) = <<b, x, y>>
    BY <2>5, <2>6, Triple
  <2>8. \A k \in 1 .. 3 : prog.code[pc + k - 1] = <<b, x, y>>[k]
    <3>1. TAKE k \in 1 .. 3
    <3>2. CASE k = 1
      <4>1. pc + k - 1 = pc
        BY <3>2
      <4>2. QED
        BY <1>2, <3>2, <4>1
    <3>3. CASE k = 2
      <4>1. pc + k - 1 = pc + 1
        BY <3>3
      <4>2. QED
        BY <2>4, <3>3, <4>1
    <3>4. CASE k = 3
      <4>1. pc + k - 1 = pc + 2
        BY <3>4
      <4>2. QED
        BY <2>4, <3>4, <4>1
    <3>5. QED
      BY <3>2, <3>3, <3>4
  <2>9. Len(<<b, x, y>>) = 3 /\ <<b, x, y>> \in Seq(Byte) /\ pc + 3 <= n
    BY <1>1, <1>10
  <2>10. Stands(prog, pc, <<b, x, y>>)
    BY <1>1, <1>6, <1>10, <2>7, <2>8, <2>9 DEF Stands
  <2>11. Whole(prog, pc) /\ ItemAt(prog, pc).pc = pc /\ ItemAt(prog, pc).op = op /\ op # "truncated"
    BY <1>5, <1>9, <1>10, <2>2 DEF Item
  <2>12. QED
    BY <2>9, <2>10, <2>11
<1>11. CASE op # "INVALID" /\ ~has_operand(op)
  <2>1. ItemAt(prog, pc) = Item(pc, op, 0)
    BY <1>2, <1>3, <1>11 DEF ItemAt
  <2>2. Encoded(ItemAt(prog, pc)) = <<b>> \o <<>>
    BY <1>9, <1>11, <2>1 DEF Encoded, Item
  <2>3. Encoded(ItemAt(prog, pc)) = <<b>>
    BY <2>2
  <2>4. Stands(prog, pc, <<b>>)
    BY <1>1, <1>2, <1>6, <1>11, <2>3 DEF Stands
  <2>5. /\ Whole(prog, pc) /\ ItemAt(prog, pc).pc = pc /\ ItemAt(prog, pc).op = op /\ op # "truncated"
        /\ <<b>> \in Seq(Byte)
    BY <1>5, <1>9, <1>11, <2>1 DEF Item
  <2>6. QED
    BY <2>4, <2>5
<1>12. QED
  BY <1>7, <1>8, <1>10, <1>11

(* What the rest of the listing from pc on is.                             *)
Items(prog) == {ItemAt(prog, pc) : pc \in 0 .. prog.code_len - 1}

Linked(prog, L, i) ==
  /\ L[i].pc \in 0 .. prog.code_len - 1 /\ L[i] = ItemAt(prog, L[i].pc)
  /\ i < Len(L) => Whole(prog, L[i].pc) /\ L[i + 1].pc = L[i].pc + Width(prog, L[i].pc)
  /\ i = Len(L) /\ Whole(prog, L[i].pc) => L[i].pc + Width(prog, L[i].pc) = prog.code_len

Chain(prog, L, pc) ==
  /\ L \in Seq(Items(prog))
  /\ L = <<>> <=> pc = prog.code_len
  /\ L # <<>> => L[1] = ItemAt(prog, pc)
  /\ \A i \in 1 .. Len(L) : Linked(prog, L, i)

LEMMA NoItems ==
  ASSUME NEW T, NEW s \in Seq(T)
  PROVE  Len(s) = 0 <=> s = <<>>
OBVIOUS

LEMMA Consed ==
  ASSUME NEW T, NEW a \in T, NEW s \in Seq(T), NEW n \in Nat, n = Len(s), NEW t, t = <<a>> \o s
  PROVE  /\ t \in Seq(T) /\ Len(t) = n + 1 /\ t[1] = a /\ t # <<>>
         /\ \A i \in 1 .. n : t[i + 1] = s[i]
<1>1. PICK p \in Seq(T) : p = <<a>> /\ Len(p) = 1 /\ p[1] = a
  <2>1. <<a>> \in Seq(T)
    OBVIOUS
  <2>2. QED
    BY <2>1
<1>2. t = p \o s
  BY <1>1
<1>3. t \in Seq(T) /\ Len(t) = n + 1
  BY <1>1, <1>2
<1>4. t[1] = a
  BY <1>1, <1>2
<1>5. \A i \in 1 .. n : t[i + 1] = s[i]
  BY <1>1, <1>2
<1>6. QED
  BY <1>3, <1>4, <1>5

(* An instruction in front of the rest of the listing.                     *)
LEMMA ChainStep ==
  ASSUME NEW prog, Sound(prog), NEW pc \in 0 .. prog.code_len - 1, Whole(prog, pc),
         NEW L, Chain(prog, L, pc + Width(prog, pc))
  PROVE  Chain(prog, <<ItemAt(prog, pc)>> \o L, pc)
<1>1. PICK n \in Nat : n = prog.code_len /\ pc \in 0 .. n - 1
  BY DEF Sound
<1>2. PICK a : a = ItemAt(prog, pc) /\ a \in Items(prog) /\ a.pc = pc
  BY ItemStands DEF Items
<1>3. PICK w \in {1, 3} : w = Width(prog, pc)
  BY Widths
<1>4. /\ L \in Seq(Items(prog)) /\ (L = <<>> <=> pc + w = n)
      /\ L # <<>> => L[1] = ItemAt(prog, pc + w)
      /\ \A i \in 1 .. Len(L) : Linked(prog, L, i)
  BY <1>1, <1>3 DEF Chain
<1>5. PICK m \in Nat : m = Len(L)
  BY <1>4
<1>6. PICK t : t = <<a>> \o L
  OBVIOUS
<1>7. /\ t \in Seq(Items(prog)) /\ Len(t) = m + 1 /\ t[1] = a /\ t # <<>>
      /\ \A i \in 1 .. m : t[i + 1] = L[i]
  BY <1>2, <1>4, <1>5, <1>6, Consed
<1>8. Linked(prog, t, 1)
  <2>1. CASE m = 0
    <3>1. L = <<>>
      BY <1>4, <1>5, <2>1, NoItems
    <3>2. pc + w = n
      BY <1>4, <3>1
    <3>3. QED
      BY <1>1, <1>2, <1>3, <1>7, <2>1, <3>2 DEF Linked
  <2>2. CASE m # 0
    <3>1. L # <<>> /\ 1 \in 1 .. m /\ 1 \in 1 .. Len(L) /\ t[1 + 1] = L[1]
      BY <1>4, <1>5, <1>7, <2>2
    <3>2. L[1].pc \in 0 .. n - 1
      BY <1>1, <1>4, <3>1 DEF Linked
    <3>3. pc + w \in 0 .. n - 1
      <4>1. PICK bytes \in Seq(Byte) : Stands(prog, pc, bytes)
        BY ItemStands
      <4>2. PICK len \in Nat : len = Len(bytes)
        OBVIOUS
      <4>3. pc + w <= n
        BY <1>1, <1>3, <4>1, <4>2 DEF Stands
      <4>4. pc + w # n
        BY <1>4, <3>1
      <4>5. QED
        BY <1>1, <4>3, <4>4
    <3>4. L[1].pc = pc + w
      BY <1>1, <1>4, <3>1, <3>3, ItemStands
    <3>5. QED
      BY <1>1, <1>2, <1>3, <1>7, <2>2, <3>1, <3>4 DEF Linked
  <2>3. QED
    BY <2>1, <2>2
<1>9. ASSUME NEW i \in 1 .. m PROVE Linked(prog, t, i + 1)
  <2>1. Linked(prog, L, i) /\ t[i + 1] = L[i] /\ i + 1 \in Nat
    BY <1>4, <1>5, <1>7
  <2>2. i < m => t[(i + 1) + 1] = L[i + 1]
    BY <1>7
  <2>3. QED
    BY <1>5, <1>7, <2>1, <2>2 DEF Linked
<1>10. \A i \in 1 .. Len(t) : Linked(prog, t, i)
  <2>1. TAKE i \in 1 .. Len(t)
  <2>2. i = 1 \/ (i - 1 \in 1 .. m /\ (i - 1) + 1 = i)
    BY <1>7
  <2>3. QED
    BY <1>8, <1>9, <2>2
<1>11. pc # n
  BY <1>1
<1>12. QED
  BY <1>1, <1>2, <1>6, <1>7, <1>10, <1>11 DEF Chain

(* The rest of the listing from each pc on, from the end backwards.        *)
LEMMA SweepChains ==
  ASSUME NEW prog, Sound(prog), NEW f, IsSweep(prog, f, 0), NEW pc \in 0 .. prog.code_len
  PROVE  Chain(prog, f[pc], pc)
<1>1. PICK n \in Nat : n = prog.code_len
  BY DEF Sound
<1>2. \A p \in 0 .. n + 2 : f[p] = Turn(prog, f, p)
  BY <1>1 DEF IsSweep, WordBytes
<1> DEFINE Bad == {k \in Nat : k <= n /\ ~Chain(prog, f[n - k], n - k)}
<1>3. SUFFICES ASSUME Bad # {} PROVE FALSE
  <2>1. n - pc \in Nat /\ n - pc <= n /\ n - (n - pc) = pc
    BY <1>1
  <2>2. QED
    BY <1>1, <2>1 DEF Bad
<1>4. PICK k \in Bad : \A j \in Bad : k <= j
  BY <1>3, Smallest
<1> HIDE DEF Bad
<1>5. k \in 0 .. n /\ ~Chain(prog, f[n - k], n - k) /\ \A j \in 0 .. k - 1 : Chain(prog, f[n - j], n - j)
  BY <1>4 DEF Bad
<1>6. PICK p \in 0 .. n : p = n - k
  BY <1>5
<1>7. ~Chain(prog, f[p], p) /\ \A q \in p + 1 .. n : Chain(prog, f[q], q)
  <2>1. \A q \in p + 1 .. n : n - q \in 0 .. k - 1 /\ n - (n - q) = q
    BY <1>5, <1>6
  <2>2. QED
    BY <1>5, <1>6, <2>1
<1>8. f[p] = Turn(prog, f, p)
  BY <1>2, <1>6
<1>9. CASE p = n
  <2>1. f[p] = <<>>
    BY <1>1, <1>8, <1>9 DEF Turn
  <2>2. <<>> \in Seq(Items(prog)) /\ Len(<<>>) = 0
    OBVIOUS
  <2>3. Chain(prog, <<>>, n)
    BY <1>1, <2>2 DEF Chain
  <2>4. QED
    BY <1>7, <1>9, <2>1, <2>3
<1>10. CASE p # n
  <2>1. p \in 0 .. n - 1
    BY <1>6, <1>10
  <2>2. CASE Whole(prog, p)
    <3>1. f[p] = <<ItemAt(prog, p)>> \o f[p + Width(prog, p)]
      BY <1>1, <1>8, <2>1, <2>2, ItemStands DEF Turn
    <3>2. PICK w \in {1, 3} : w = Width(prog, p)
      BY Widths
    <3>3. PICK bytes \in Seq(Byte) : Stands(prog, p, bytes)
      BY <1>1, <2>1, <2>2, ItemStands
    <3>4. PICK len \in Nat : len = Len(bytes)
      OBVIOUS
    <3>5. p + w \in p + 1 .. n
      BY <1>1, <2>1, <3>2, <3>3, <3>4 DEF Stands
    <3>6. Chain(prog, f[p + w], p + w)
      BY <1>7, <3>5
    <3>7. QED
      BY <1>1, <1>7, <2>1, <2>2, <3>1, <3>2, <3>6, ChainStep
  <2>3. CASE ~Whole(prog, p)
    <3>1. PICK a : a = ItemAt(prog, p) /\ a \in Items(prog) /\ a.pc = p /\ a.op = "truncated"
      BY <1>1, <2>1, <2>3, ItemStands DEF Items
    <3>2. f[p] = <<a>>
      BY <1>1, <1>8, <2>1, <3>1 DEF Turn
    <3>3. <<a>> \in Seq(Items(prog)) /\ Len(<<a>>) = 1 /\ <<a>>[1] = a /\ <<a>> # <<>>
      BY <3>1
    <3>4. Linked(prog, <<a>>, 1)
      BY <1>1, <2>1, <2>3, <3>1, <3>3 DEF Linked
    <3>5. Chain(prog, <<a>>, p)
      BY <1>1, <2>1, <3>1, <3>3, <3>4 DEF Chain
    <3>6. QED
      BY <1>7, <3>2, <3>5
  <2>4. QED
    BY <2>2, <2>3
<1>11. QED
  BY <1>9, <1>10

LEMMA ListingChains ==
  ASSUME NEW prog, Sound(prog)
  PROVE  Chain(prog, zeus_disassemble(prog), 0)
<1>1. prog.code_len \in Nat /\ 0 \in 0 .. prog.code_len
  BY DEF Sound
<1>2. PICK f : IsSweep(prog, f, 0) /\ zeus_disassemble(prog) = f[0]
  BY <1>1, ListingIsSweep
<1>3. QED
  BY <1>1, <1>2, SweepChains

LEMMA LeastOf ==
  ASSUME NEW x \in Int
  PROVE  Min({Row, x}) = IF x < Row THEN x ELSE Row
<1>1. PICK r \in {Row, x} : r = IF x < Row THEN x ELSE Row
  OBVIOUS
<1>2. \A y \in {Row, x} : r <= y
  BY <1>1 DEF Row
<1>3. \A s \in {Row, x} : (\A y \in {Row, x} : s <= y) => s = r
  BY <1>1 DEF Row
<1>4. QED
  BY <1>1, <1>2, <1>3 DEF Min

(* The rows hold each byte of the data section in its place, once.         *)
LEMMA RowsAccount ==
  ASSUME NEW prog, prog.data_len \in Nat
  PROVE  /\ \A k \in 0 .. prog.data_len - 1 : dump(prog)[(k \div Row) + 1][(k % Row) + 1] = prog.data[k]
         /\ \A r \in DOMAIN dump(prog) :
              Len(dump(prog)[r]) <= Row /\ Row * (r - 1) + Len(dump(prog)[r]) <= prog.data_len
<1>1. PICK n \in Nat : n = prog.data_len
  OBVIOUS
<1>2. PICK h \in Nat : h = (n + 15) \div 16
  OBVIOUS
<1>3. PICK rows : rows = dump(prog)
  OBVIOUS
<1>4. /\ DOMAIN rows = 1 .. h
      /\ \A r \in 1 .. h :
           rows[r] = [k \in 1 .. Min({Row, n - 16 * (r - 1)}) |-> prog.data[16 * (r - 1) + k - 1]]
  BY <1>1, <1>2, <1>3 DEF dump, Row
<1>5. ASSUME NEW r \in 1 .. h
      PROVE  \E l \in 1 .. 16 : /\ l = Min({Row, n - 16 * (r - 1)})
                                /\ l = IF n - 16 * (r - 1) < 16 THEN n - 16 * (r - 1) ELSE 16
  <2>1. PICK x \in Int : x = n - 16 * (r - 1) /\ x >= 1
    BY <1>2
  <2>2. Min({Row, x}) = IF x < 16 THEN x ELSE 16
    BY LeastOf DEF Row
  <2>3. QED
    BY <2>1, <2>2
<1>6. ASSUME NEW k \in 0 .. n - 1 PROVE rows[(k \div 16) + 1][(k % 16) + 1] = prog.data[k]
  <2>1. PICK r \in Nat, j \in Nat : /\ r = (k \div 16) + 1 /\ j = (k % 16) + 1
                                    /\ k = 16 * (r - 1) + (j - 1) /\ 1 <= r /\ 1 <= j /\ j <= 16
    OBVIOUS
  <2>2. r \in 1 .. h
    BY <1>2, <2>1
  <2>3. PICK l \in 1 .. 16 : /\ l = Min({Row, n - 16 * (r - 1)})
                             /\ l = IF n - 16 * (r - 1) < 16 THEN n - 16 * (r - 1) ELSE 16
    BY <1>5, <2>2
  <2>4. j \in 1 .. l /\ 16 * (r - 1) + j - 1 = k
    <3>1. l = IF n - 16 * (r - 1) < 16 THEN n - 16 * (r - 1) ELSE 16
      BY <2>3
    <3>2. k = 16 * (r - 1) + (j - 1) /\ 1 <= j /\ j <= 16
      BY <2>1
    <3>3. QED
      BY <3>1, <3>2
  <2>5. rows[r] = [i \in 1 .. l |-> prog.data[16 * (r - 1) + i - 1]]
    BY <1>4, <2>2, <2>3
  <2>6. rows[r][j] = prog.data[k]
    BY <2>4, <2>5
  <2>7. QED
    BY <2>1, <2>6
<1>7. ASSUME NEW r \in 1 .. h PROVE Len(rows[r]) <= 16 /\ 16 * (r - 1) + Len(rows[r]) <= n
  <2>1. PICK l \in 1 .. 16 : /\ l = Min({Row, n - 16 * (r - 1)})
                             /\ l = IF n - 16 * (r - 1) < 16 THEN n - 16 * (r - 1) ELSE 16
    BY <1>5
  <2>2. rows[r] = [i \in 1 .. l |-> prog.data[16 * (r - 1) + i - 1]]
    BY <1>4, <2>1
  <2>3. Len(rows[r]) = l
    BY <2>2
  <2>4. QED
    BY <2>1, <2>3
<1>8. QED
  BY <1>1, <1>3, <1>4, <1>6, <1>7 DEF Row

(* So the listing of any program accounts for its bytes.                   *)
LEMMA ListingAccounts ==
  ASSUME NEW prog, Sound(prog), prog.data_len \in Nat
  PROVE  Accounts(zeus_disassemble(prog), prog)
<1>1. PICK c \in Nat : c = prog.code_len
  BY DEF Sound
<1>2. PICK L : L = zeus_disassemble(prog)
  OBVIOUS
<1>3. Chain(prog, L, 0)
  BY <1>2, ListingChains
<1>4. PICK n \in Nat : n = Len(L) /\ (n = 0 <=> L = <<>>) /\ (n = 0 <=> c = 0)
  <2>1. L \in Seq(Items(prog)) /\ (L = <<>> <=> 0 = c)
    BY <1>1, <1>3 DEF Chain
  <2>2. QED
    BY <2>1, NoItems
<1>5. \A i \in 1 .. n : Linked(prog, L, i)
  BY <1>3, <1>4 DEF Chain
<1>6. ASSUME NEW i \in 1 .. n
      PROVE  /\ L[i].pc \in 0 .. c - 1 /\ L[i].op = "truncated" <=> ~Whole(prog, L[i].pc)
             /\ ~Whole(prog, L[i].pc) => Encoded(L[i]) = <<>>
             /\ Whole(prog, L[i].pc) => \E bytes \in Seq(Byte) : Stands(prog, L[i].pc, bytes) /\ bytes = Encoded(L[i])
  <2>1. L[i].pc \in 0 .. c - 1 /\ L[i] = ItemAt(prog, L[i].pc)
    BY <1>1, <1>5 DEF Linked
  <2>2. PICK p \in 0 .. c - 1 : p = L[i].pc /\ L[i] = ItemAt(prog, p)
    BY <2>1
  <2>3. /\ ItemAt(prog, p).op = "truncated" <=> ~Whole(prog, p)
        /\ ~Whole(prog, p) => Encoded(ItemAt(prog, p)) = <<>>
        /\ Whole(prog, p) => \E bytes \in Seq(Byte) : Stands(prog, p, bytes)
    BY <1>1, ItemStands
  <2>4. QED
    BY <2>2, <2>3 DEF Stands
<1>7. ASSUME NEW i \in 1 .. n, Whole(prog, L[i].pc) PROVE After(L[i]) = L[i].pc + Width(prog, L[i].pc)
  <2>1. PICK bytes \in Seq(Byte) : Stands(prog, L[i].pc, bytes) /\ bytes = Encoded(L[i])
    BY <1>6, <1>7
  <2>2. Len(bytes) = Width(prog, L[i].pc)
    BY <2>1 DEF Stands
  <2>3. QED
    BY <2>1, <2>2 DEF After
<1>8. n > 0 => L[1].pc = 0
  <2>1. n > 0 => L[1] = ItemAt(prog, 0) /\ 0 \in 0 .. c - 1
    BY <1>1, <1>3, <1>4 DEF Chain
  <2>2. QED
    BY <1>1, <2>1, ItemStands
<1>9. \A i \in 1 .. n - 1 : L[i + 1].pc = After(L[i])
  <2>1. TAKE i \in 1 .. n - 1
  <2>2. i \in 1 .. n /\ i < Len(L)
    BY <1>4
  <2>3. Whole(prog, L[i].pc) /\ L[i + 1].pc = L[i].pc + Width(prog, L[i].pc)
    BY <1>5, <2>2 DEF Linked
  <2>4. QED
    BY <1>7, <2>2, <2>3
<1>10. ASSUME NEW i \in 1 .. n, NEW k \in DOMAIN Encoded(L[i])
       PROVE  prog.code[L[i].pc + k - 1] = Encoded(L[i])[k]
  <2>1. CASE ~Whole(prog, L[i].pc)
    <3>1. Encoded(L[i]) = <<>>
      BY <1>6, <2>1
    <3>2. QED
      BY <1>10, <3>1
  <2>2. CASE Whole(prog, L[i].pc)
    <3>1. PICK bytes \in Seq(Byte) : Stands(prog, L[i].pc, bytes) /\ bytes = Encoded(L[i])
      BY <1>6, <2>2
    <3>2. k \in 1 .. Len(bytes)
      BY <1>10, <3>1
    <3>3. QED
      BY <3>1, <3>2 DEF Stands
  <2>3. QED
    BY <2>1, <2>2
<1>11. ASSUME n # 0
       PROVE  \/ c = After(L[n])
              \/ /\ L[n].op = "truncated" /\ has_operand(Mnemonic(prog.code[L[n].pc]))
                 /\ L[n].pc < c /\ c < L[n].pc + 1 + WordBytes
  <2>1. n \in 1 .. n /\ n = Len(L)
    BY <1>4, <1>11
  <2>2. CASE Whole(prog, L[n].pc)
    BY <1>1, <1>5, <1>7, <2>1, <2>2 DEF Linked
  <2>3. CASE ~Whole(prog, L[n].pc)
    BY <1>1, <1>6, <2>1, <2>3 DEF Whole
  <2>4. QED
    BY <2>2, <2>3
<1>12. \/ c = IF n = 0 THEN 0 ELSE After(L[n])
       \/ /\ n > 0 /\ L[n].op = "truncated" /\ has_operand(Mnemonic(prog.code[L[n].pc]))
          /\ L[n].pc < c /\ c < L[n].pc + 1 + WordBytes
  BY <1>4, <1>11
<1>13. QED
  BY <1>1, <1>2, <1>4, <1>8, <1>9, <1>10, <1>12, RowsAccount, ZenonT(60) DEF Accounts

-----------------------------------------------------------------------------
(* What the invariant says of the properties.                              *)

LEMMA ArrayOf ==
  ASSUME NEW b \in Seq(Byte)
  PROVE  /\ Array(b) \in [0 .. Len(b) - 1 -> Byte] /\ DOMAIN Array(b) = 0 .. Len(b) - 1
         /\ \A k \in 1 .. Len(b) : Array(b)[k - 1] = b[k]
         /\ Array(b) = <<>> <=> Len(b) = 0
<1>1. PICK n \in Nat : n = Len(b) /\ \A k \in 1 .. n : b[k] \in Byte
  OBVIOUS
<1>2. PICK a : a = [k \in 0 .. n - 1 |-> b[k + 1]]
  OBVIOUS
<1>3. a = Array(b)
  BY <1>1, <1>2 DEF Array
<1>4. \A k \in 0 .. n - 1 : k + 1 \in 1 .. n
  BY <1>1
<1>5. a \in [0 .. n - 1 -> Byte] /\ DOMAIN a = 0 .. n - 1
  BY <1>1, <1>2, <1>4
<1>6. \A k \in 1 .. n : a[k - 1] = b[k]
  BY <1>1, <1>2
<1>7. CASE n = 0
  <2>1. DOMAIN a = {}
    BY <1>5, <1>7
  <2>2. a = <<>>
    <3>1. a = [k \in DOMAIN a |-> a[k]] /\ <<>> = [k \in {} |-> a[k]]
      BY <1>2
    <3>2. QED
      BY <2>1, <3>1
  <2>3. QED
    BY <1>1, <1>3, <1>5, <1>6, <1>7, <2>2
<1>8. CASE n # 0
  <2>1. 0 \in DOMAIN a
    BY <1>5, <1>8
  <2>2. a # <<>>
    BY <2>1
  <2>3. QED
    BY <1>1, <1>3, <1>5, <1>6, <1>8, <2>2
<1>9. QED
  BY <1>7, <1>8

(* A section of the program handed over is the buffer.                     *)
LEMMA HandedOver ==
  ASSUME AsmInv, phase = "done", Addressable, NEW s \in Sections
  PROVE  \E n \in Address :
           /\ n = Len(buf[s].bytes) /\ Assembled(s).len = n /\ buf[s].bytes \in Seq(Byte)
           /\ n = 0 => Assembled(s).array = NULL
           /\ n # 0 => /\ Assembled(s).array # NULL
                       /\ DOMAIN Assembled(s).array = 0 .. n - 1
                       /\ \A k \in 1 .. n : Assembled(s).array[k - 1] = buf[s].bytes[k]
<1>1. Buffers /\ Handed
  BY DEF AsmInv
<1>2. PICK b \in Seq(Byte) : b = buf[s].bytes
  BY <1>1 DEF Buffers, GoodBuffer, Buffer
<1>3. PICK n \in Address : n = Len(b)
  BY <1>1, <1>2 DEF Addressable, Buffers
<1>4. Assembled(s).len = n
  <2>1. Assembled(s).len = ToU32(n)
    BY <1>1, <1>2, <1>3 DEF Handed
  <2>2. QED
    BY <2>1, Casting DEF Address
<1>5. PICK a : a = Array(b)
  OBVIOUS
<1>6. Assembled(s).array = IF a = <<>> THEN NULL ELSE a
  BY <1>1, <1>2, <1>5 DEF Handed
<1>7. /\ a \in [0 .. n - 1 -> Byte] /\ DOMAIN a = 0 .. n - 1
      /\ \A k \in 1 .. n : a[k - 1] = b[k]
      /\ a = <<>> <=> n = 0
  BY <1>3, <1>5, ArrayOf
<1>8. a # NULL
  BY <1>7, AssemblerAssumption
<1>9. QED
  BY <1>2, <1>3, <1>4, <1>6, <1>7, <1>8

LEMMA AsmTyped == AsmInv => TypeOK
<1> SUFFICES ASSUME AsmInv PROVE TypeOK
  OBVIOUS
<1>1. Reader /\ Buffers /\ Symbols /\ FixupTable
  BY DEF AsmInv
<1>2. /\ at \in 1 .. Len(source) + 1 /\ section \in {".code", ".data"}
      /\ phase \in {"start", "lines", "fixups", "failed", "hung", "done", "no_memory", "crashed"}
  BY <1>1 DEF Reader, Phases, Sections
<1>3. \A s \in DOMAIN buf : /\ Len(buf[s].bytes) <= buf[s].cap
                            /\ \A k \in DOMAIN buf[s].bytes : buf[s].bytes[k] \in Byte
  <2>1. ASSUME NEW s \in Sections
        PROVE  Len(buf[s].bytes) <= buf[s].cap /\ \A k \in DOMAIN buf[s].bytes : buf[s].bytes[k] \in Byte
    <3>1. PICK b \in Seq(Byte) : b = buf[s].bytes /\ Len(b) <= buf[s].cap
      BY <1>1 DEF Buffers, GoodBuffer, Buffer
    <3>2. QED
      BY <3>1
  <2>2. QED
    BY <1>1, <2>1 DEF Buffers
<1>4. /\ Cardinality(DOMAIN symbols) <= MAX_SYMBOLS /\ Len(fixups) <= MAX_FIXUPS
      /\ resolved \in 0 .. Len(fixups)
      /\ \A name \in DOMAIN symbols : symbols[name].offset <= Len(buf[symbols[name].section].bytes)
  BY <1>1 DEF Symbols, FixupTable
<1>5. ASSUME phase = "done" /\ Addressable
      PROVE  /\ out_prog.code = NULL <=> out_prog.code_len = 0
             /\ out_prog.data = NULL <=> out_prog.data_len = 0
             /\ out_prog.code # NULL => DOMAIN out_prog.code = 0 .. out_prog.code_len - 1
             /\ out_prog.data # NULL => DOMAIN out_prog.data = 0 .. out_prog.data_len - 1
  <2>1. ASSUME NEW s \in Sections
        PROVE  /\ Assembled(s).array = NULL <=> Assembled(s).len = 0
               /\ Assembled(s).array # NULL => DOMAIN Assembled(s).array = 0 .. Assembled(s).len - 1
    BY <1>5, HandedOver
  <2>2. /\ Assembled(".code") = [len |-> out_prog.code_len, array |-> out_prog.code]
        /\ Assembled(".data") = [len |-> out_prog.data_len, array |-> out_prog.data]
    BY DEF Assembled
  <2>3. QED
    BY <2>1, <2>2 DEF Sections
<1>6. QED
  BY <1>2, <1>3, <1>4, <1>5 DEF TypeOK

(* What the reader has checked of a text it accepts: all that makes it      *)
(* correct, but for .org, which it has cut to 32 bits.                     *)
Accepted(src) ==
  /\ \A i \in DOMAIN src : ~Malformed(src[i])
  /\ Cardinality(Labels(src)) <= MAX_SYMBOLS /\ Cardinality(References(src)) <= MAX_FIXUPS
  /\ \A i, j \in Labels(src) : cut[src[i].label] = cut[src[j].label] => i = j
  /\ \A i \in References(src) : Labelled(src, cut[operand(src[i])]) # {}
  /\ \A i \in DOMAIN src : ~CutBack(src, i)

LEMMA AcceptedText ==
  ASSUME AsmInv, ~dropped, phase \in {"done", "no_memory"}
  PROVE  Accepted(source)
<1>1. /\ Reader /\ Symbols /\ FixupTable /\ LinesRead /\ LabelsRead /\ RefsRead /\ LaidOut
      /\ source \in Seq(Line) /\ at = Len(source) + 1 /\ resolved = Len(fixups) /\ Intact
  BY AssemblerAssumption DEF AsmInv, Reader, Steps, Intact
<1>2. LabelsBefore(source, at) = Labels(source) /\ RefsBefore(source, at) = References(source)
  BY <1>1, AllOfThem
<1>3. DOMAIN source = 1 .. at - 1
  BY <1>1
<1>4. \A i \in DOMAIN source : ~Malformed(source[i])
  BY <1>1, <1>3 DEF LinesRead
<1>5. Cardinality(Labels(source)) <= MAX_SYMBOLS
  BY <1>1, <1>2 DEF LabelsRead, Symbols
<1>6. Cardinality(References(source)) <= MAX_FIXUPS
  BY <1>1, <1>2 DEF RefsRead, FixupTable
<1>7. \A i, j \in Labels(source) : cut[source[i].label] = cut[source[j].label] => i = j
  BY <1>1, <1>2 DEF LabelsRead, LabelOf
<1>8. ASSUME NEW i \in References(source)
      PROVE  Labelled(source, cut[operand(source[i])]) # {}
  <2>1. FixupOf(source, i) \in 1 .. Len(fixups) /\ fixups[FixupOf(source, i)].name = TargetOf(source, i)
    BY <1>1, <1>2, <1>8 DEF RefsRead
  <2>2. TargetOf(source, i) \in DOMAIN symbols
    BY <1>1, <2>1 DEF RefsRead
  <2>3. PICK j \in Labels(source) : LabelOf(source, j) = TargetOf(source, i)
    BY <1>1, <1>2, <2>2 DEF LabelsRead
  <2>4. j \in Labelled(source, cut[operand(source[i])])
    BY <2>3 DEF Labelled, Labels, LabelOf, TargetOf
  <2>5. QED
    BY <2>4
<1>9. \A i \in DOMAIN source : ~CutBack(source, i)
  BY <1>1, <1>3 DEF LaidOut
<1>10. QED
  BY <1>4, <1>5, <1>6, <1>7, <1>8, <1>9 DEF Accepted

LEMMA AsmVerdict == AsmInv => RefusedForAReason
<1> SUFFICES ASSUME AsmInv, ~dropped, OrgsFit, phase \in {"done", "no_memory"} PROVE Correct(source)
  BY DEF AsmInv, Verdict, RefusedForAReason
<1>1. Accepted(source)
  BY AcceptedText
<1>2. ASSUME NEW i \in DOMAIN source, MovesBack(source, i)
      PROVE  FALSE
  <2>1. source[i].word = ".org" /\ ~Malformed(source[i]) /\ ~CutBack(source, i)
    BY <1>1, <1>2 DEF Accepted, MovesBack
  <2>2. number[operand(source[i])] # NaN
    BY <2>1 DEF Malformed
  <2>3. PICK n \in Address : n = number[operand(source[i])]
    BY <2>1, <2>2 DEF OrgsFit
  <2>4. ToU32(n) = n
    BY NarrowCast
  <2>5. QED
    BY <1>2, <2>1, <2>3, <2>4 DEF MovesBack, CutBack
<1>3. QED
  BY <1>1, <1>2 DEF Accepted, Correct

LEMMA NarrowStart ==
  ASSUME AsmInv, Intact, Addressable, NEW j \in 1 .. at - 1
  PROVE  Start(source, j) \in Nat /\ Start(source, j) <= 255
<1>1. Reader /\ Buffers /\ LaidOut
  BY DEF AsmInv
<1>2. PICK s \in Sections : s = SectionAt(source, j)
  BY <1>1, SectionType DEF Reader
<1>3. PICK n \in Nat : n = Len(buf[s].bytes) /\ n <= 255
  <2>1. PICK n \in Address : n = Len(buf[s].bytes)
    BY <1>1 DEF Addressable, Buffers
  <2>2. n \in Nat /\ n <= 255
    BY DEF Address
  <2>3. QED
    BY <2>1, <2>2
<1>4. PICK b \in Nat, e \in Nat : b = Start(source, j) /\ e = Ends(source)[j] /\ b <= e
  BY <1>1 DEF LaidOut
<1>5. e <= n
  BY <1>1, <1>2, <1>3, <1>4 DEF LaidOut
<1>6. QED
  BY <1>3, <1>4, <1>5

(* A line is written as it is meant once every fixup is filled in.         *)
LEMMA AllResolved ==
  ASSUME AsmInv, phase = "done", ~dropped, Addressable, NEW i \in DOMAIN source
  PROVE  Written(source, i, resolved, symbols) = BytesOf(source, i)
<1>1. /\ Reader /\ Buffers /\ LinesRead /\ RefsRead /\ LaidOut /\ Offsets
      /\ source \in Seq(Line) /\ at = Len(source) + 1 /\ resolved = Len(fixups) /\ Intact
  BY AssemblerAssumption DEF AsmInv, Reader, Steps, Intact
<1>2. LabelsBefore(source, at) = Labels(source) /\ RefsBefore(source, at) = References(source)
  BY <1>1, AllOfThem
<1>3. DOMAIN source = 1 .. at - 1
  BY <1>1
<1>4. PICK l : l = source[i]
  OBVIOUS
<1>5. ~Malformed(l)
  BY <1>1, <1>3, <1>4 DEF LinesRead
<1>6. PICK o, v : o = Operand(source, i, resolved, symbols)
                  /\ v = IF takes_operand(l) \/ l.word = ".byte" THEN Value(source, i) ELSE 0
  OBVIOUS
<1>7. Rest(l, o) = Rest(l, v)
  <2>1. CASE ~(takes_operand(l) \/ l.word = ".byte")
    BY <2>1 DEF Rest
  <2>2. CASE takes_operand(l) \/ l.word = ".byte"
    <3>1. v = Value(source, i)
      BY <1>6, <2>2
    <3>2. CASE number[operand(l)] # NaN
      <4>1. o = v
        BY <1>4, <1>6, <3>1, <3>2 DEF Operand, Value
      <4>2. QED
        BY <4>1
    <3>3. CASE number[operand(l)] = NaN
      <4>1. NeedsFixup(l)
        BY <1>5, <2>2, <3>3 DEF NeedsFixup, Malformed
      <4>2. i \in References(source)
        BY <1>4, <4>1 DEF References
      <4>3. FixupOf(source, i) <= resolved
        BY <1>1, <1>2, <4>2 DEF RefsRead, AsmInv, FixupTable
      <4>4. o = symbols[TargetOf(source, i)].offset
        BY <1>4, <1>6, <3>3, <4>1, <4>3 DEF Operand
      <4>5. Labelled(source, TargetOf(source, i)) # {}
        BY <4>2, AcceptedText DEF Accepted, TargetOf
      <4>6. PICK j : j = CHOOSE c \in Labelled(source, TargetOf(source, i)) : TRUE
        OBVIOUS
      <4>7. j \in Labelled(source, TargetOf(source, i))
        BY <4>5, <4>6
      <4>8. v = Start(source, j)
        BY <1>4, <3>1, <3>3, <4>6 DEF Value, TargetOf
      <4>9. j \in Labels(source) /\ LabelOf(source, j) = TargetOf(source, i)
        BY <4>7 DEF Labelled, Labels, LabelOf
      <4>10. o = ToU32(Start(source, j))
        BY <1>1, <1>2, <4>4, <4>9 DEF Offsets
      <4>11. Start(source, j) \in Nat /\ Start(source, j) <= 255
        BY <1>1, <1>3, <4>9, NarrowStart DEF Labels
      <4>12. QED
        BY <4>8, <4>10, <4>11, Casting
    <3>4. QED
      BY <3>2, <3>3
  <2>3. QED
    BY <2>1, <2>2
<1>8. QED
  BY <1>4, <1>6, <1>7 DEF Written, BytesOf

LEMMA AsmMeans == AsmInv => AssembledMatchesSource
<1> SUFFICES ASSUME AsmInv, phase = "done", ~dropped, Addressable
             PROVE  /\ \A s \in {".code", ".data"} : Assembled(s).len = SectionLength(source, s)
                    /\ \A i \in DOMAIN source : \A k \in DOMAIN BytesOf(source, i) :
                         Assembled(SectionAt(source, i)).array[Start(source, i) + k - 1] = BytesOf(source, i)[k]
  BY DEF AssembledMatchesSource
<1>1. /\ Reader /\ LaidOut /\ Content /\ source \in Seq(Line) /\ at = Len(source) + 1 /\ Intact
  BY AssemblerAssumption DEF AsmInv, Reader, Steps, Intact
<1>2. DOMAIN source = 1 .. at - 1
  BY <1>1
<1>3. ASSUME NEW s \in Sections PROVE Assembled(s).len = SectionLength(source, s)
  <2>1. Assembled(s).len = Len(buf[s].bytes)
    BY HandedOver
  <2>2. Len(buf[s].bytes) = EndOf(source, at, s)
    BY <1>1 DEF LaidOut
  <2>3. QED
    BY <1>1, <2>1, <2>2, LengthIs
<1>4. ASSUME NEW i \in DOMAIN source, NEW k \in DOMAIN BytesOf(source, i)
      PROVE  Assembled(SectionAt(source, i)).array[Start(source, i) + k - 1] = BytesOf(source, i)[k]
  <2>1. i \in 1 .. at - 1
    BY <1>2
  <2>2. PICK w \in Seq(Byte), b \in Nat, e \in Nat :
          w = Written(source, i, resolved, symbols) /\ b = Start(source, i) /\ e = Ends(source)[i] /\ b + Len(w) = e
    BY <1>1, <2>1, PlacedLength
  <2>3. w = BytesOf(source, i)
    BY <2>2, AllResolved
  <2>4. PICK s \in Sections : s = SectionAt(source, i)
    BY <1>1, <2>1, SectionType DEF Reader
  <2>5. PICK n \in Nat : /\ n = Len(buf[s].bytes)
                         /\ n # 0 => \A p \in 1 .. n : Assembled(s).array[p - 1] = buf[s].bytes[p]
    <3>1. PICK n \in Address : /\ n = Len(buf[s].bytes)
                               /\ n # 0 => \A p \in 1 .. n : Assembled(s).array[p - 1] = buf[s].bytes[p]
      BY HandedOver, Zenon
    <3>2. n \in Nat
      BY DEF Address
    <3>3. QED
      BY <3>1, <3>2, Zenon
  <2>6. e <= n
    BY <1>1, <2>1, <2>2, <2>4, <2>5 DEF LaidOut
  <2>7. buf[s].bytes[b + k] = w[k]
    <3>1. k \in DOMAIN Written(source, i, resolved, symbols)
      BY <2>2, <2>3, Zenon
    <3>2. buf[SectionAt(source, i)].bytes[Start(source, i) + k] = Written(source, i, resolved, symbols)[k]
      BY <1>1, <2>1, <3>1, Zenon DEF Content
    <3>3. QED
      BY <2>2, <2>4, <3>2, Zenon
  <2>8. k \in 1 .. Len(w)
    BY <2>2, <2>3
  <2>9. n # 0 /\ b + k \in 1 .. n
    BY <2>2, <2>6, <2>8
  <2>10. Assembled(s).array[(b + k) - 1] = buf[s].bytes[b + k]
    BY <2>5, <2>9
  <2>11. QED
    BY <2>2, <2>3, <2>4, <2>7, <2>10
<1>5. QED
  BY <1>3, <1>4 DEF Sections

-----------------------------------------------------------------------------
(* The listing of a program the assembler handed over.                     *)

(* When the listing is asked for.                                          *)
ReadBack == AsmInv /\ phase = "done" /\ Addressable /\ Listable(out_prog)

(* The program is one the disassembler can read.                           *)
LEMMA HandedCode ==
  ASSUME ReadBack
  PROVE  /\ Sound(out_prog) /\ out_prog.data_len \in Nat
         /\ out_prog.code_len = Len(buf[".code"].bytes)
<1>1. AsmInv /\ phase = "done" /\ Addressable /\ Listable(out_prog)
  BY DEF ReadBack
<1>2. ".code" \in Sections /\ ".data" \in Sections
  BY DEF Sections
<1>3. Assembled(".code").len = out_prog.code_len /\ Assembled(".code").array = out_prog.code
  BY DEF Assembled
<1>4. Assembled(".data").len = out_prog.data_len
  BY DEF Assembled
<1>5. PICK n \in Address :
        /\ n = Len(buf[".code"].bytes) /\ Assembled(".code").len = n /\ buf[".code"].bytes \in Seq(Byte)
        /\ n # 0 => \A k \in 1 .. n : Assembled(".code").array[k - 1] = buf[".code"].bytes[k]
  BY <1>1, <1>2, HandedOver, Zenon
<1>6. \E m \in Address : Assembled(".data").len = m
  BY <1>1, <1>2, HandedOver, Zenon
<1>7. n \in Nat /\ n + 2 <= 255
  <2>1. out_prog.code_len + WordBytes \in Address
    BY <1>1, Zenon DEF Listable
  <2>2. n + 2 \in Address
    BY <1>3, <1>5, <2>1 DEF WordBytes
  <2>3. QED
    BY <2>2 DEF Address
<1>8. ASSUME NEW k \in 0 .. n - 1 PROVE out_prog.code[k] \in Byte
  <2>1. PICK b \in Seq(Byte) : b = buf[".code"].bytes /\ n = Len(b)
    BY <1>5
  <2>2. k + 1 \in 1 .. n /\ (k + 1) - 1 = k /\ n # 0
    BY <1>7
  <2>3. out_prog.code[k] = b[k + 1]
    BY <1>3, <1>5, <2>1, <2>2
  <2>4. QED
    BY <1>7, <2>1, <2>2, <2>3, ElementsOf
<1>9. Sound(out_prog)
  BY <1>3, <1>5, <1>7, <1>8 DEF Sound, WordBytes
<1>10. out_prog.data_len \in Nat
  BY <1>4, <1>6 DEF Address
<1>11. QED
  BY <1>3, <1>5, <1>9, <1>10

(* A text whose code section holds instructions only.                      *)
PlainCode == ~dropped /\ \A i \in InstructionLines : source[i].word \in Instructions

LEMMA CodeLine ==
  ASSUME ReadBack, PlainCode, NEW i \in InstructionLines
  PROVE  /\ source \in Seq(Line) /\ at = Len(source) + 1 /\ i \in 1 .. at - 1 /\ i \in DOMAIN source
         /\ SectionAt(source, i) = ".code" /\ source[i].word \in Instructions /\ Intact
<1>1. /\ source \in Seq(Line) /\ at = Len(source) + 1 /\ Intact
  BY AssemblerAssumption DEF ReadBack, PlainCode, AsmInv, Reader, Steps, Intact
<1>2. QED
  BY <1>1 DEF PlainCode, InstructionLines

(* An operand is a word, a number or the offset of a label.                *)
LEMMA ValueIsWord ==
  ASSUME ReadBack, PlainCode, NEW i \in InstructionLines, takes_operand(source[i])
  PROVE  Value(source, i) \in Word
<1>1. /\ source \in Seq(Line) /\ at = Len(source) + 1 /\ i \in 1 .. at - 1 /\ i \in DOMAIN source /\ Intact
  BY CodeLine
<1>2. source[i] \in Line
  BY <1>1, ElementsOf
<1>3. CASE number[operand(source[i])] # NaN
  BY <1>2, <1>3, LineParts DEF Value
<1>4. CASE number[operand(source[i])] = NaN
  <2>1. i \in References(source)
    BY <1>1, <1>4 DEF References, NeedsFixup
  <2>2. Labelled(source, TargetOf(source, i)) # {}
    BY <2>1, AcceptedText DEF Accepted, TargetOf, ReadBack, PlainCode
  <2>3. PICK j : j = CHOOSE c \in Labelled(source, TargetOf(source, i)) : TRUE
    OBVIOUS
  <2>4. j \in 1 .. at - 1
    BY <1>1, <2>2, <2>3 DEF Labelled
  <2>5. Value(source, i) = Start(source, j)
    BY <1>4, <2>3 DEF Value, TargetOf
  <2>6. Start(source, j) \in Nat /\ Start(source, j) <= 255
    BY <1>1, <2>4, NarrowStart DEF ReadBack
  <2>7. QED
    BY <2>5, <2>6, WordBounds
<1>5. QED
  BY <1>3, <1>4

(* The bytes of an instruction's line.                                     *)
LEMMA CodeBytes ==
  ASSUME NEW l, l.word \in Instructions, NEW v
  PROVE  Lead(l) \o Rest(l, v) = IF has_operand(l.word) THEN <<zeus_op_by_name(l.word)>> \o word_bytes(v)
                                 ELSE <<zeus_op_by_name(l.word)>>
<1>1. l.word \notin {".word", ".byte", ".asciz"}
  BY WordKinds DEF Directives
<1>2. takes_operand(l) <=> has_operand(l.word)
  BY <1>1 DEF takes_operand
<1>3. Lead(l) = <<zeus_op_by_name(l.word)>>
  BY DEF Lead
<1>4. Rest(l, v) = IF has_operand(l.word) THEN word_bytes(v) ELSE <<>>
  BY <1>1, <1>2 DEF Rest
<1>5. PICK b \in Byte : b = zeus_op_by_name(l.word)
  BY OpByte
<1>6. <<b>> \o <<>> = <<b>>
  OBVIOUS
<1>7. QED
  BY <1>3, <1>4, <1>5, <1>6

(* Where an instruction's line starts, the listing has that instruction.   *)
LEMMA LineListed ==
  ASSUME ReadBack, PlainCode, NEW i \in InstructionLines
  PROVE  \E b \in Nat, e \in Nat :
           /\ b = Start(source, i) /\ e = Ends(source)[i]
           /\ b \in 0 .. out_prog.code_len - 1 /\ Whole(out_prog, b) /\ b + Width(out_prog, b) = e
           /\ ItemAt(out_prog, b) = Item(b, source[i].word,
                                         IF has_operand(source[i].word) THEN Value(source, i) ELSE 0)
<1>1. /\ source \in Seq(Line) /\ at = Len(source) + 1 /\ i \in 1 .. at - 1 /\ i \in DOMAIN source
      /\ SectionAt(source, i) = ".code" /\ source[i].word \in Instructions /\ Intact
  BY CodeLine
<1>2. AsmInv /\ phase = "done" /\ Addressable /\ ~dropped /\ LaidOut
  BY DEF ReadBack, PlainCode, AsmInv
<1>3. PICK n \in Nat : n = out_prog.code_len /\ n = Len(buf[".code"].bytes) /\ n + 2 <= 255
  BY HandedCode DEF Sound, WordBytes
<1>4. PICK w \in Seq(Byte), b \in Nat, e \in Nat :
        /\ w = Written(source, i, resolved, symbols) /\ b = Start(source, i) /\ e = Ends(source)[i] /\ b + Len(w) = e
  BY <1>1, <1>2, PlacedLength
<1>5. w = BytesOf(source, i)
  BY <1>1, <1>2, <1>4, AllResolved
<1>6. e <= n
  <2>1. Ends(source)[i] <= EndOf(source, at, ".code") /\ Len(buf[".code"].bytes) = EndOf(source, at, ".code")
    BY <1>1, <1>2 DEF LaidOut, Sections
  <2>2. QED
    BY <1>3, <1>4, <2>1
<1>7. \A k \in 1 .. Len(w) : out_prog.code[b + k - 1] = w[k]
  <2>1. \A k \in DOMAIN BytesOf(source, i) :
          Assembled(SectionAt(source, i)).array[Start(source, i) + k - 1] = BytesOf(source, i)[k]
    BY <1>1, <1>2, AsmMeans DEF AssembledMatchesSource
  <2>2. DOMAIN w = 1 .. Len(w)
    OBVIOUS
  <2>3. Assembled(".code").array = out_prog.code
    BY DEF Assembled
  <2>4. QED
    BY <1>1, <1>4, <1>5, <2>1, <2>2, <2>3
<1>8. PICK op : op = source[i].word /\ op \in Instructions /\ op # ".org"
  BY <1>1, WordKinds DEF Directives
<1>9. PICK x \in Byte : x = zeus_op_by_name(op) /\ Mnemonic(x) = op
  BY <1>8, OpByte
<1>10. PICK v : v = IF takes_operand(source[i]) \/ source[i].word = ".byte" THEN Value(source, i) ELSE 0
  OBVIOUS
<1>11. w = IF has_operand(op) THEN <<x>> \o word_bytes(v) ELSE <<x>>
  BY <1>5, <1>8, <1>9, <1>10, CodeBytes DEF BytesOf
<1>12. CASE has_operand(op)
  <2>1. takes_operand(source[i])
    BY <1>8, <1>12 DEF takes_operand
  <2>2. v = Value(source, i) /\ v \in Word
    BY <1>10, <2>1, ValueIsWord
  <2>3. PICK y \in Byte, z \in Byte : y = v % 256 /\ z = (v \div 256) % 256
    BY <2>2, WordInt, BytesOfWord
  <2>4. w = <<x, y, z>>
    <3>1. word_bytes(v) = <<y, z>>
      BY <2>3 DEF word_bytes
    <3>2. QED
      BY <1>11, <1>12, <3>1, Triple
  <2>5. Len(w) = 3 /\ w[1] = x /\ w[2] = y /\ w[3] = z
    BY <2>4
  <2>6. b + 3 = e /\ b + 3 <= n
    BY <1>4, <1>6, <2>5
  <2>7. out_prog.code[b] = x /\ out_prog.code[b + 1] = y /\ out_prog.code[b + 2] = z
    <3>1. /\ 1 \in 1 .. Len(w) /\ 2 \in 1 .. Len(w) /\ 3 \in 1 .. Len(w)
          /\ b + 1 - 1 = b /\ b + 2 - 1 = b + 1 /\ b + 3 - 1 = b + 2
      BY <2>5
    <3>2. QED
      BY <1>7, <2>5, <3>1
  <2>8. b \in 0 .. n - 1 /\ ~(n < b + 1 + 2)
    BY <2>6
  <2>9. Width(out_prog, b) = 3 /\ Whole(out_prog, b)
    BY <1>3, <1>9, <1>12, <2>7, <2>8 DEF Width, Whole, WordBytes
  <2>10. ~CutShort(out_prog, b)
    BY <1>3, <2>8, HandedCode, CutShortWhen DEF WordBytes
  <2>11. read_i64(out_prog.code, b + 1) = v
    <3>1. (b + 1) + 1 = b + 2
      OBVIOUS
    <3>2. Wrap(y + 256 * z) = v
      BY <2>2, <2>3, WordAgain
    <3>3. QED
      BY <2>7, <3>1, <3>2 DEF read_i64
  <2>12. ItemAt(out_prog, b) = Item(b, op, v)
    BY <1>8, <1>9, <1>12, <2>7, <2>10, <2>11, NoOperand DEF ItemAt
  <2>13. QED
    BY <1>3, <1>4, <1>8, <1>12, <2>2, <2>6, <2>8, <2>9, <2>12
<1>13. CASE ~has_operand(op)
  <2>1. Len(w) = 1 /\ w[1] = x
    BY <1>11, <1>13
  <2>2. b + 1 = e /\ b + 1 <= n /\ b \in 0 .. n - 1
    BY <1>4, <1>6, <2>1
  <2>3. out_prog.code[b] = x
    <3>1. 1 \in 1 .. Len(w) /\ b + 1 - 1 = b
      BY <2>1
    <3>2. QED
      BY <1>7, <2>1, <3>1
  <2>4. Width(out_prog, b) = 1 /\ Whole(out_prog, b)
    BY <1>9, <1>13, <2>3 DEF Width, Whole
  <2>5. ItemAt(out_prog, b) = Item(b, op, 0)
    BY <1>8, <1>9, <1>13, <2>3, NoOperand DEF ItemAt
  <2>6. QED
    BY <1>3, <1>4, <1>8, <1>13, <2>2, <2>4, <2>5
<1>14. QED
  BY <1>12, <1>13

(* How far the listing is when line i comes: the instructions of the lines *)
(* before it, and the next one where the section ends so far.              *)
Listed(L, i, k, e) ==
  /\ k = Cardinality(Below(InstructionLines, i)) /\ e = EndOf(source, i, ".code") /\ k <= Len(L)
  /\ k < Len(L) => L[k + 1].pc = e
  /\ k = Len(L) => e = out_prog.code_len

LEMMA ListedStep ==
  ASSUME ReadBack, PlainCode, NEW L, Chain(out_prog, L, 0), NEW i \in 1 .. at - 1,
         NEW k \in Nat, NEW e \in Nat, Listed(L, i, k, e)
  PROVE  \E d \in Nat : Listed(L, i + 1, IF i \in InstructionLines THEN k + 1 ELSE k, d)
<1>1. /\ source \in Seq(Line) /\ at = Len(source) + 1 /\ DOMAIN source = 1 .. at - 1 /\ Intact
  BY AssemblerAssumption DEF ReadBack, PlainCode, AsmInv, Reader, Steps, Intact
<1>2. i \in Nat \ {0} /\ i \in 1 .. Len(source)
  BY <1>1
<1>3. LaidOut /\ LinesRead
  BY DEF ReadBack, AsmInv
<1>4. PICK n \in Nat : n = Len(L)
  BY DEF Chain
<1>5. PICK c \in Nat : c = out_prog.code_len
  BY HandedCode DEF Sound
<1>6. /\ k = Cardinality(Below(InstructionLines, i)) /\ e = EndOf(source, i, ".code") /\ k <= n
      /\ k < n => L[k + 1].pc = e
      /\ k = n => e = c
  BY <1>4, <1>5 DEF Listed
<1>7. EndOf(source, i + 1, ".code") = IF SectionAt(source, i) = ".code" THEN Ends(source)[i] ELSE e
  BY <1>2, <1>6, EndOfStep
<1>8. PICK m \in Nat : m = IF i \in InstructionLines THEN k + 1 ELSE k
  OBVIOUS
<1>9. m = Cardinality(Below(InstructionLines, i + 1))
  <2>1. Cardinality(Below(InstructionLines, i + 1))
          = Cardinality(Below(InstructionLines, i)) + (IF i \in InstructionLines THEN 1 ELSE 0)
    BY <1>2, Prefix
  <2>2. QED
    BY <1>6, <1>8, <2>1
<1>10. CASE i \notin InstructionLines
  <2>1. EndOf(source, i + 1, ".code") = e
    <3>1. CASE SectionAt(source, i) # ".code"
      BY <1>7, <3>1
    <3>2. CASE SectionAt(source, i) = ".code"
      <4>1. source[i].word \in {"none", ".code", ".data"}
        BY <1>1, <1>10, <3>2 DEF InstructionLines
      <4>2. Lead(source[i]) = <<>> /\ Rest(source[i], 0) = <<>> /\ source[i].word # ".org"
        BY <4>1, WordKinds DEF Lead, Rest, takes_operand, Strings, Directives
      <4>3. Start(source, i) = e
        BY <1>6, <3>2, StartIs
      <4>4. Ends(source)[i] = e + Len(<<>>) + Len(<<>>)
        BY <1>1, <1>2, <4>2, <4>3, EndOfLine
      <4>5. Ends(source)[i] = e
        BY <4>4
      <4>6. QED
        BY <1>7, <3>2, <4>5
    <3>3. QED
      BY <3>1, <3>2
  <2>2. Listed(L, i + 1, m, e)
    BY <1>4, <1>5, <1>6, <1>8, <1>9, <1>10, <2>1 DEF Listed
  <2>3. QED
    BY <1>8, <2>2
<1>11. CASE i \in InstructionLines
  <2>1. PICK b \in Nat, d \in Nat :
          /\ b = Start(source, i) /\ d = Ends(source)[i]
          /\ b \in 0 .. out_prog.code_len - 1 /\ Whole(out_prog, b) /\ b + Width(out_prog, b) = d
    BY <1>11, LineListed
  <2>2. SectionAt(source, i) = ".code"
    BY <1>11 DEF InstructionLines
  <2>3. b = e
    BY <1>6, <2>1, <2>2, StartIs
  <2>4. k < n
    BY <1>5, <1>6, <2>1, <2>3
  <2>5. k + 1 \in 1 .. n
    BY <2>4
  <2>6. Linked(out_prog, L, k + 1)
    BY <1>4, <2>5 DEF Chain
  <2>7. L[k + 1].pc = b
    BY <1>6, <2>3, <2>4
  <2>8. /\ k + 1 < n => L[(k + 1) + 1].pc = d
        /\ k + 1 = n => d = c
    BY <1>4, <1>5, <2>1, <2>6, <2>7 DEF Linked
  <2>9. Listed(L, i + 1, m, d)
    BY <1>4, <1>5, <1>7, <1>8, <1>9, <1>11, <2>1, <2>2, <2>5, <2>8 DEF Listed
  <2>10. QED
    BY <1>8, <2>9
<1>12. QED
  BY <1>10, <1>11

(* By induction over the lines.                                            *)
LEMMA ListedBefore ==
  ASSUME ReadBack, PlainCode, NEW L, Chain(out_prog, L, 0), NEW i \in 1 .. at
  PROVE  \E k \in Nat, e \in Nat : Listed(L, i, k, e)
<1> DEFINE Good(j) == \E k \in Nat, e \in Nat : Listed(L, j, k, e)
           Bad     == {j \in Nat \ {0} : j <= at /\ ~Good(j)}
<1>1. at \in Nat \ {0}
  BY AssemblerAssumption DEF ReadBack, AsmInv, Reader
<1>2. SUFFICES ASSUME Bad # {} PROVE FALSE
  <2>1. i \in Nat \ {0} /\ i <= at
    BY <1>1
  <2>2. ~Good(i) => i \in Bad
    BY <2>1
  <2>3. QED
    BY <2>2
<1>3. PICK j \in Bad : \A h \in Bad : j <= h
  <2>1. Bad \subseteq Nat
    OBVIOUS
  <2>2. QED
    BY <1>2, <2>1, Smallest
<1>4. j \in 1 .. at /\ ~Good(j)
  BY <1>1
<1>5. j # 1 => j - 1 \in 1 .. at - 1 /\ (j - 1) + 1 = j /\ Good(j - 1)
  BY <1>1, <1>3, <1>4
<1> HIDE DEF Bad
<1>6. CASE j = 1
  <2>1. Below(InstructionLines, 1) = {}
    BY DEF Below
  <2>2. Cardinality(Below(InstructionLines, 1)) = 0
    BY <2>1, FS_EmptySet
  <2>3. EndOf(source, 1, ".code") = 0
    BY EndOfStep
  <2>4. PICK c \in Nat : c = out_prog.code_len
    BY HandedCode DEF Sound
  <2>5. PICK n \in Nat : n = Len(L) /\ (n = 0 <=> L = <<>>)
    BY NoItems DEF Chain
  <2>6. n = 0 => c = 0
    BY <2>4, <2>5 DEF Chain
  <2>7. n > 0 => L[1].pc = 0
    <3>1. ASSUME n > 0 PROVE L[1] = ItemAt(out_prog, 0) /\ 0 \in 0 .. c - 1
      BY <2>4, <2>5, <3>1 DEF Chain
    <3>2. QED
      BY <2>4, <3>1, HandedCode, ItemStands
  <2>8. Listed(L, 1, 0, 0)
    BY <2>2, <2>3, <2>4, <2>5, <2>6, <2>7 DEF Listed
  <2>9. QED
    BY <1>4, <1>6, <2>8
<1>7. CASE j # 1
  <2>1. PICK p \in 1 .. at - 1 : p + 1 = j /\ Good(p)
    BY <1>5, <1>7
  <2>2. PICK k \in Nat, e \in Nat : Listed(L, p, k, e)
    BY <2>1
  <2>3. PICK m \in Nat : m = IF p \in InstructionLines THEN k + 1 ELSE k
    OBVIOUS
  <2>4. \E d \in Nat : Listed(L, p + 1, m, d)
    BY <2>2, <2>3, ListedStep
  <2>5. QED
    BY <1>4, <2>1, <2>4
<1>8. QED
  BY <1>6, <1>7

LEMMA AsmListed == AsmInv => ListingReadsBack
<1> SUFFICES ASSUME ReadBack PROVE ListingReadsBack
  BY DEF ReadBack, ListingReadsBack
<1>1. PICK L : L = zeus_disassemble(out_prog)
  OBVIOUS
<1>2. Accounts(L, out_prog)
  BY <1>1, HandedCode, ListingAccounts
<1>3. Chain(out_prog, L, 0)
  BY <1>1, HandedCode, ListingChains
<1>4. ASSUME PlainCode
      PROVE  Len(L) = Cardinality(InstructionLines)
  <2>1. at \in Nat \ {0} /\ at \in 1 .. at /\ InstructionLines \subseteq 1 .. at - 1
    BY <1>4, AssemblerAssumption DEF ReadBack, PlainCode, AsmInv, Reader, Steps, Intact, InstructionLines
  <2>2. Below(InstructionLines, at) = InstructionLines
    BY <2>1 DEF Below
  <2>3. PICK k \in Nat, e \in Nat : Listed(L, at, k, e)
    BY <1>3, <1>4, <2>1, ListedBefore
  <2>4. PICK n \in Nat : n = Len(L)
    BY <1>3 DEF Chain
  <2>5. PICK c \in Nat : c = out_prog.code_len /\ c = Len(buf[".code"].bytes)
    BY HandedCode DEF Sound
  <2>6. e = c
    BY <1>4, <2>3, <2>5 DEF Listed, ReadBack, PlainCode, AsmInv, LaidOut, Intact, Sections
  <2>7. CASE k < n
    <3>1. L[k + 1].pc = c /\ k + 1 \in 1 .. n
      BY <2>3, <2>4, <2>6, <2>7 DEF Listed
    <3>2. Linked(out_prog, L, k + 1)
      BY <1>3, <2>4, <3>1 DEF Chain
    <3>3. L[k + 1].pc \in 0 .. c - 1
      BY <2>5, <3>2 DEF Linked
    <3>4. QED
      BY <3>1, <3>3
  <2>8. CASE k = n
    BY <2>2, <2>3, <2>4, <2>8 DEF Listed
  <2>9. QED
    BY <2>3, <2>4, <2>7, <2>8 DEF Listed
<1>5. ASSUME PlainCode, NEW i \in InstructionLines
      PROVE  L[Cardinality({j \in InstructionLines : j <= i})]
               = Item(Start(source, i), source[i].word,
                      IF has_operand(source[i].word) THEN Value(source, i) ELSE 0)
  <2>1. i \in 1 .. at - 1 /\ i \in 1 .. at /\ i \in Nat \ {0} /\ SectionAt(source, i) = ".code"
    BY <1>5, CodeLine
  <2>2. PICK k \in Nat, e \in Nat : Listed(L, i, k, e)
    BY <1>3, <1>5, <2>1, ListedBefore
  <2>3. {j \in InstructionLines : j <= i} = Below(InstructionLines, i + 1)
    <3>1. \A j \in InstructionLines : j \in Nat \ {0}
      BY <1>5, CodeLine
    <3>2. (i + 1) - 1 = i
      BY <2>1
    <3>3. \A j \in InstructionLines : j <= i <=> j \in 1 .. (i + 1) - 1
      BY <2>1, <3>1, <3>2
    <3>4. QED
      BY <3>3 DEF Below
  <2>4. Cardinality(Below(InstructionLines, i + 1)) = k + 1
    BY <1>5, <2>1, <2>2, Prefix DEF Listed
  <2>5. PICK b \in Nat :
          /\ b = Start(source, i) /\ b \in 0 .. out_prog.code_len - 1
          /\ ItemAt(out_prog, b) = Item(b, source[i].word,
                                        IF has_operand(source[i].word) THEN Value(source, i) ELSE 0)
    BY <1>5, LineListed
  <2>6. PICK n \in Nat : n = Len(L)
    BY <1>3 DEF Chain
  <2>7. PICK c \in Nat : c = out_prog.code_len
    BY HandedCode DEF Sound
  <2>8. b = e
    BY <2>1, <2>2, <2>5, StartIs DEF Listed
  <2>9. k < n
    BY <2>2, <2>5, <2>6, <2>7, <2>8 DEF Listed
  <2>10. L[k + 1].pc = b /\ k + 1 \in 1 .. n
    BY <2>2, <2>6, <2>8, <2>9 DEF Listed
  <2>11. Linked(out_prog, L, k + 1)
    BY <1>3, <2>6, <2>10 DEF Chain
  <2>12. L[k + 1] = ItemAt(out_prog, b)
    BY <2>10, <2>11 DEF Linked
  <2>13. QED
    BY <2>3, <2>4, <2>5, <2>12
<1>6. QED
  BY <1>1, <1>2, <1>4, <1>5, ZenonT(60) DEF ListingReadsBack, PlainCode

-----------------------------------------------------------------------------
(* The theorems.                                                           *)

(* Buffers stay within their capacity and the tables within their limits,  *)
(* a label within its section, whatever realloc does (buf_append,          *)
(* add_symbol, add_fixup), and a program handed over without an error has  *)
(* a header, a code and a data section that agree (zeus_assemble).         *)
THEOREM AsmTypes == Spec => []TypeOK
BY AsmInvariant, AsmTyped, PTL

(* What the single pass with fixups hands over is what two passes over the *)
(* text say: every line is where it belongs, with its operand resolved,    *)
(* wherever its label stands, unless an append failed (process_line,       *)
(* resolve_fixups).                                                        *)
THEOREM AsmMatchesSource == Spec => []AssembledMatchesSource
BY AsmInvariant, AsmMeans, PTL

(* zeus_assemble refuses a text only when something is wrong with it, and  *)
(* accepts one only when nothing is, unless an append failed or an .org    *)
(* has an offset that no address can hold (asm.c:277).                     *)
THEOREM AsmRefusals == Spec => []RefusedForAReason
BY AsmInvariant, AsmVerdict, PTL
(* The disassembly of what was assembled accounts for every byte of code   *)
(* and data, whatever the code section holds; where it holds instructions  *)
(* only, the listing is the text again, with the labels resolved           *)
(* (zeus_assemble, zeus_disassemble).                                      *)
THEOREM AsmReadsBack == Spec => []ListingReadsBack
BY AsmInvariant, AsmListed, PTL
=============================================================================
