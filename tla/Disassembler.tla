---------------------------- MODULE Disassembler ----------------------------
(***************************************************************************)
(* The disassembler (src/src/disasm.c): the listing zeus_disassemble       *)
(* prints of a program whose arrays start at index 0, without its layout.  *)
(***************************************************************************)
EXTENDS MachineWords, InstructionSet, SequencesExt

Item(pc, op, operand) == [pc |-> pc, op |-> op, operand |-> operand]

(* pc is 32 bits wide, and so is the sum the check makes of it.            *)
(* Mutant: the last instruction with an operand is taken for cut off.      *)
CutShortEarly(prog, pc) == ToU32(pc + 1 + WordBytes) >= prog.code_len

CutShort(prog, pc) == ToU32(pc + 1 + WordBytes) > prog.code_len

(* The bytes the instruction at pc takes: an unknown byte is data.         *)
Width(prog, pc) == IF has_operand(Mnemonic(prog.code[pc])) THEN 1 + WordBytes ELSE 1

(* What is printed for it.                                                 *)
ItemAt(prog, pc) ==
  LET byte == prog.code[pc]
      op   == Mnemonic(byte)
  IN  CASE op = "INVALID"                         -> Item(pc, "DB", byte)
        [] has_operand(op) /\ CutShort(prog, pc)  -> Item(pc, "truncated", 0)
        [] has_operand(op) /\ ~CutShort(prog, pc) -> Item(pc, op, read_i64(prog.code, pc + 1))
        [] op # "INVALID" /\ ~has_operand(op)     -> Item(pc, op, 0)

(* The sweep over the code, from pc to the end or a cut-off instruction.   *)
zeus_disassemble(prog) ==
  LET sweep[pc \in 0 .. prog.code_len + WordBytes] ==
        IF pc >= prog.code_len THEN <<>>
        ELSE IF ItemAt(prog, pc).op = "truncated" THEN <<ItemAt(prog, pc)>>
        ELSE <<ItemAt(prog, pc)>> \o sweep[pc + Width(prog, pc)]
  IN  sweep[0]

(* The data section, in rows of at most Row bytes.                         *)
Row == 16
dump(prog) == [r \in 1 .. (prog.data_len + Row - 1) \div Row |->
                 [k \in 1 .. Min({Row, prog.data_len - Row * (r - 1)}) |->
                    prog.data[Row * (r - 1) + k - 1]]]

-----------------------------------------------------------------------------
(* What a listing says the code is: the items follow one another from      *)
(* byte 0, and each stands for the bytes from its pc on.                   *)
Encoded(item) ==
  CASE item.op = "DB"        -> <<item.operand>>
    [] item.op = "truncated" -> <<>>
    [] OTHER -> <<zeus_op_by_name(item.op)>>
                  \o (IF has_operand(item.op) THEN word_bytes(item.operand) ELSE <<>>)

After(item) == item.pc + Len(Encoded(item))

(* The counters of the sweep and of the rows are 32 bits wide: where the   *)
(* next instruction, or the next row, would be past that range they wrap,  *)
(* and the listing starts over.  Other programs have a listing that ends.  *)
Listable(prog) == /\ prog.code_len + WordBytes \in Address
                  /\ prog.data_len + Row - 1 \in Address

(* The listing of a program accounts for all of its code, in order, up to  *)
(* a last instruction that is cut off, and its rows for all of its data.   *)
Accounts(listing, prog) ==
  LET n    == Len(listing)
      rows == dump(prog)
  IN  /\ n > 0 => listing[1].pc = 0
      /\ \A i \in 1 .. n - 1 : listing[i + 1].pc = After(listing[i])
      /\ \A i \in 1 .. n : \A k \in DOMAIN Encoded(listing[i]) :
           prog.code[listing[i].pc + k - 1] = Encoded(listing[i])[k]
      /\ \/ prog.code_len = IF n = 0 THEN 0 ELSE After(listing[n])
         \/ /\ n > 0 /\ listing[n].op = "truncated"
            /\ has_operand(Mnemonic(prog.code[listing[n].pc]))
            /\ listing[n].pc < prog.code_len /\ prog.code_len < listing[n].pc + 1 + WordBytes
      /\ \A k \in 0 .. prog.data_len - 1 : rows[(k \div Row) + 1][(k % Row) + 1] = prog.data[k]
      /\ \A r \in DOMAIN rows : Len(rows[r]) <= Row /\ Row * (r - 1) + Len(rows[r]) <= prog.data_len
=============================================================================
