--------------------------- MODULE InstructionSet ---------------------------
(***************************************************************************)
(* The instruction set of the virtual machine: the opcodes of              *)
(* src/include/isa.h and the table of src/src/isa.c that the machine, the  *)
(* assembler and the disassembler share.                                   *)
(***************************************************************************)
EXTENDS Integers, Sequences

(* Opcode bytes by family: the high nibble names the family, the low one   *)
(* the instruction.                                                        *)
Families ==
  << <<"HALT", "PUSH", "POP", "DUP", "SWAP", "PICK", "ROLL">>,
     <<"ADD", "SUB", "MUL", "DIV", "MOD", "NEG">>,
     <<"AND", "OR", "XOR", "NOT", "SHL", "SHR">>,
     <<"EQ", "NE", "LT", "GT", "LE", "GE">>,
     <<"JMP", "JZ", "JNZ", "CALL", "RET">>,
     <<"LOAD", "STORE", "LOADB", "STOREB", "LOADI", "STOREI", "LOADBI", "STOREBI">>,
     <<"PRINT", "PRINTC", "READ">>,
     <<"SOCK_TCP", "SOCK_UDP", "BIND", "LISTEN", "ACCEPT", "CONNECT", "SEND", "RECV", "CLOSE">>,
     <<"RAW_ALLOC", "RAW_FREE", "RAW_SET_PROTO", "RAW_SET_DST", "RAW_SET_SRC",
       "RAW_SET_PAYLOAD", "RAW_SEND", "RAW_RECV">> >>

Mnemonic(byte) ==
  LET family == (byte \div 16) + 1
      member == (byte % 16) + 1
  IN  IF family <= Len(Families) /\ member <= Len(Families[family])
      THEN Families[family][member] ELSE "INVALID"

Instructions == UNION {{Families[f][i] : i \in DOMAIN Families[f]} : f \in DOMAIN Families}

has_operand(op) == op \in {"PUSH", "PICK", "ROLL", "JMP", "JZ", "JNZ", "CALL",
                           "LOAD", "STORE", "LOADB", "STOREB"}

(* The stack effect in the table: no code reads it.                        *)
stack_delta(op) ==
  CASE op \in {"PUSH", "DUP", "PICK", "LOAD", "LOADB", "READ", "SOCK_TCP", "SOCK_UDP"} -> 1
    [] op \in {"HALT", "SWAP", "ROLL", "NEG", "NOT", "JMP", "CALL", "RET", "LOADI", "LOADBI",
               "ACCEPT", "RAW_ALLOC"} -> 0
    [] op \in {"STOREI", "STOREBI", "CONNECT", "SEND", "RAW_SET_PAYLOAD"} -> -2
    [] OTHER -> -1

(* The byte of an opcode the assembler found by name (zeus_op_by_name).    *)
zeus_op_by_name(op) == CHOOSE byte \in 0 .. 255 : Mnemonic(byte) = op
=============================================================================
