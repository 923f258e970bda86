------------------------------ MODULE MCZeusVM ------------------------------
(***************************************************************************)
(* The whole host interface over a library of programs that together       *)
(* execute every instruction and meet every error path.  The host loads,   *)
(* runs, re-runs, resets and frees in any order.                           *)
(***************************************************************************)
EXTENDS ZeusVM, TLC

\* The byte of an instruction.
Enc(name) == zeus_op_by_name(name)

\* An instruction without and one with an immediate operand.
I(name)    == <<Enc(name)>>
P(name, n) == <<Enc(name), n % 256, (n \div 256) % 256>>

Array(bytes) == [k \in 0 .. Len(bytes) - 1 |-> bytes[k + 1]]

Program(entry, code, data) ==
  [entry_point |-> entry, code_len |-> Len(code), code |-> Array(code),
   data_len |-> Len(data), data |-> Array(data)]

Plain(code) == Program(0, code, <<>>)

MCPrograms ==
  { \* stack and arithmetic
    Plain(P("PUSH", 7) \o P("PUSH", -2) \o I("DIV") \o P("PUSH", 0) \o I("MOD") \o I("HALT")),
    Plain(P("PUSH", -32768) \o P("PUSH", -1) \o I("DIV") \o I("NEG") \o I("HALT")),
    Plain(P("PUSH", 5) \o I("DUP") \o P("ROLL", 1) \o P("PICK", 1) \o I("SWAP") \o I("PRINT")),
    Plain(P("PICK", 0) \o P("ROLL", 0) \o I("SWAP")),
    Plain(I("READ") \o I("DUP") \o I("DUP") \o P("PICK", 2) \o I("NOT") \o I("DUP")),
    Plain(I("READ") \o I("NOT") \o I("PRINTC") \o I("JMP")),
    \* control: recursion to the limit, a call and its return, a bad jump
    Plain(P("CALL", 3) \o P("CALL", 0)),
    Plain(P("CALL", 4) \o I("HALT") \o I("RET")),
    Plain(P("PUSH", 1) \o P("JZ", 0) \o P("PUSH", 0) \o P("JNZ", 0) \o P("JMP", 256 + 9)),
    Program(2, <<0, 0, 7>>, <<>>),
    \* memory: direct, indirect, at the edge and beyond it
    Program(0, P("LOAD", 0) \o P("STORE", 1) \o P("LOADB", 2) \o P("STOREB", 3) \o I("HALT"),
            <<1, 200>>),
    Plain(P("PUSH", 255) \o P("PUSH", 2) \o I("STOREI") \o P("PUSH", 3) \o I("LOADBI")
            \o P("STORE", 3) \o I("HALT")),
    Plain(P("PUSH", 9) \o P("PUSH", 256) \o I("STOREBI") \o P("PUSH", 0) \o I("LOADI")
            \o P("LOADB", 4) \o I("HALT")),
    \* sockets
    Plain(I("SOCK_TCP") \o P("PUSH", 80) \o I("BIND") \o I("ACCEPT") \o I("CLOSE") \o I("HALT")),
    Plain(I("SOCK_UDP") \o P("PUSH", 1) \o P("PUSH", 80) \o I("CONNECT") \o I("HALT")),
    Plain(P("PUSH", 3) \o P("PUSH", 200) \o P("PUSH", 80) \o I("CONNECT") \o I("LISTEN")),
    Program(0, P("PUSH", 3) \o P("PUSH", 2) \o P("PUSH", 80) \o I("CONNECT") \o I("HALT"),
            <<1, 1, 1, 1>>),
    Plain(P("PUSH", 3) \o P("PUSH", 2) \o P("PUSH", 2) \o I("RECV") \o I("HALT")),
    Plain(P("PUSH", 3) \o P("PUSH", 3) \o P("PUSH", 257) \o I("RECV") \o I("HALT")),
    Plain(P("PUSH", 3) \o P("PUSH", 3) \o P("PUSH", 2) \o I("RECV")),
    Plain(P("PUSH", 3) \o P("PUSH", 0) \o P("PUSH", 1) \o I("SEND") \o I("HALT")),
    Plain(P("PUSH", 3) \o P("PUSH", 3) \o P("PUSH", 2) \o I("SEND")),
    Plain(P("PUSH", 3) \o P("PUSH", 0) \o P("PUSH", 257) \o I("SEND") \o I("HALT")),
    \* raw packets
    Program(0, P("PUSH", 2) \o I("RAW_ALLOC") \o I("DUP") \o P("PUSH", 6) \o I("RAW_SET_PROTO")
                 \o I("HALT"), <<>>),
    Program(0, P("PUSH", 0) \o P("PUSH", 0) \o P("PUSH", 2) \o I("RAW_SET_PAYLOAD")
                 \o P("PUSH", 0) \o I("RAW_SEND"), <<8, 9>>),
    Plain(P("PUSH", 1) \o P("PUSH", 44) \o I("RAW_SET_DST") \o P("PUSH", 44) \o I("RAW_SET_SRC")),
    Plain(P("PUSH", 0) \o P("PUSH", 1) \o P("PUSH", 1) \o I("RAW_RECV") \o I("RAW_FREE")
            \o P("PUSH", 0) \o I("RAW_FREE")),
    Plain(P("PUSH", 0) \o P("PUSH", 99) \o I("RAW_SEND")) }

MCArrivals == {<<>>, <<17, 18>>}
=============================================================================
