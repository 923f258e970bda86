------------------------------- MODULE ZeusVM -------------------------------
(***************************************************************************)
(* The Zeus virtual machine (src/src/vm.c, src/include/vm.h): a stack      *)
(* machine that interprets a byte-coded program, over the raw-packet table *)
(* of NetPackets.  zeus_vm_step is split into one action per instruction   *)
(* or family of instructions with the same control; each is the whole      *)
(* case of the switch with its error paths, after the fetch that precedes  *)
(* it.  The host (src/src/main.c) initialises, loads, resets, runs and     *)
(* frees the machine.  malloc, stdin and the socket calls are external.    *)
(***************************************************************************)
EXTENDS NetPackets, InstructionSet, SequencesExt

CONSTANTS STACK_SIZE,    \* ZEUS_STACK_SIZE
          CALL_SIZE,     \* ZEUS_CALL_SIZE
          MEMORY_SIZE,   \* ZEUS_MEMORY_SIZE
          Programs,      \* bound: the programs a host loads
          Stdin,         \* bound: the characters a READ may see
          Sockets,       \* bound: the descriptors the OS may hand out
          Arrivals       \* bound: the byte strings a receive may deliver

(* A program as bytecode.c delivers it: its lengths describe its bytes.    *)
WellFormed(prog) ==
  /\ DOMAIN prog = {"entry_point", "code_len", "code", "data_len", "data"}
  /\ prog.code_len \in Address /\ prog.code \in [0 .. prog.code_len - 1 -> Byte]
  /\ prog.data_len \in Nat /\ prog.data \in [0 .. prog.data_len - 1 -> Byte]
  /\ prog.entry_point \in Address

ASSUME VMLimits ==
  /\ STACK_SIZE \in Nat \ {0}
  /\ CALL_SIZE \in Nat \ {0}
  /\ MEMORY_SIZE \in Address /\ MEMORY_SIZE >= WordBytes
  /\ MAX_PACKETS \in Word
  /\ \A prog \in Programs : WellFormed(prog)
  /\ Stdin \subseteq Byte
  /\ Sockets \subseteq 0 .. 127
  /\ Arrivals \subseteq Seq(Byte)

VARIABLES program,     \* vm->program, a copy of what was loaded
          pc,          \* vm->pc
          stack,       \* vm->stack[0 .. sp-1], top last
          call_stack,  \* vm->call_stack[0 .. csp-1], top last
          memory,      \* vm->memory
          error,       \* vm->error
          running,     \* vm->running
          host         \* where the host stands with this VM

machine == <<pc, stack, call_stack, memory, error, running>>
vars    == <<program, machine, host, netvars>>

-----------------------------------------------------------------------------
(* What the instructions take and compute.                                 *)

BinaryOps == {"ADD", "SUB", "MUL", "DIV", "MOD", "AND", "OR", "XOR", "SHL", "SHR",
              "EQ", "NE", "LT", "GT", "LE", "GE"}
UnaryOps  == {"NEG", "NOT"}

(* How many operands the case of an opcode pops before it does anything.   *)
pops(op) ==
  CASE op \in UnaryOps \cup {"POP", "JZ", "JNZ", "STORE", "STOREB", "LOADI", "LOADBI", "PRINT",
                            "PRINTC", "ACCEPT", "CLOSE", "RAW_ALLOC", "RAW_FREE"} -> 1
    [] op \in BinaryOps \cup {"STOREI", "STOREBI", "BIND", "LISTEN", "RAW_SET_PROTO",
                             "RAW_SET_DST", "RAW_SET_SRC", "RAW_SEND"} -> 2
    [] op \in {"CONNECT", "SEND", "RECV", "RAW_SET_PAYLOAD", "RAW_RECV"} -> 3
    [] OTHER -> 0

Truth(p) == IF p THEN 1 ELSE 0

(* The result of a binary instruction with b on top of the stack.          *)
Binary(op, a, b) ==
  CASE op = "ADD" -> Wrap(a + b)
    [] op = "SUB" -> Wrap(a - b)
    [] op = "MUL" -> Wrap(a * b)
    [] op = "DIV" -> Wrap(CDiv(a, b))
    [] op = "MOD" -> CMod(a, b)
    [] op = "AND" -> BitAnd(a, b)
    [] op = "OR"  -> BitOr(a, b)
    [] op = "XOR" -> BitXor(a, b)
    [] op = "SHL" -> Shl(a, b)
    [] op = "SHR" -> Shr(a, b)
    [] op = "EQ"  -> Truth(a = b)
    [] op = "NE"  -> Truth(a # b)
    [] op = "LT"  -> Truth(a < b)
    [] op = "GT"  -> Truth(a > b)
    [] op = "LE"  -> Truth(a <= b)
    [] op = "GE"  -> Truth(a >= b)

Unary(op, a) == IF op = "NEG" THEN Wrap(-a) ELSE -a - 1

-----------------------------------------------------------------------------
(* Fetch and the stack helpers shared by the instructions.                 *)

code_ok(offset, bytes) == offset + bytes <= program.code_len
mem_ok(addr, bytes)    == addr + bytes <= MEMORY_SIZE

(* The next instruction is op, and its operand is inside the code.         *)
Fetches(op) ==
  /\ running
  /\ code_ok(pc, 1)
  /\ op = Mnemonic(program.code[pc])
  /\ has_operand(op) => code_ok(pc + 1, WordBytes)

Operand   == read_i64(program.code, pc + 1)
After(op) == pc + 1 + (IF has_operand(op) THEN WordBytes ELSE 0)

Top(i)  == stack[Len(stack) - i]                    \* 0 is the top of the stack
Drop(n) == SubSeq(stack, 1, Len(stack) - n)

Stop(e) == running' = FALSE /\ error' = e
Go      == UNCHANGED <<running, error>>

(* Mutant: the last slot of the stack is never used.                       *)
PushOneEarly(rest, v) ==
  \/ Len(rest) < STACK_SIZE - 1 /\ stack' = Append(rest, v) /\ Go
  \/ Len(rest) >= STACK_SIZE - 1 /\ stack' = rest /\ Stop("STACK_OVERFLOW")

(* vm_push onto what is left of the stack once the operands are popped.    *)
vm_push(rest, v) ==
  \/ Len(rest) < STACK_SIZE /\ stack' = Append(rest, v) /\ Go
  \/ Len(rest) >= STACK_SIZE /\ stack' = rest /\ Stop("STACK_OVERFLOW")

(* Most instructions touch the stack, pc and the status, nothing else.     *)
StackOnly == UNCHANGED <<program, call_stack, memory, host, netvars>>

(* The next instruction is op and the operands it pops are on the stack.   *)
Executes(op) == Fetches(op) /\ Len(stack) >= pops(op)

(* The instruction refuses: its operands are gone and the run is over.     *)
Refuses(op, e) == stack' = Drop(pops(op)) /\ Stop(e) /\ pc' = After(op) /\ StackOnly

(* The process dies, or runs on with a state the C code does not define.   *)
Dies  == /\ host' = "crashed" /\ running' = FALSE
         /\ UNCHANGED <<program, pc, stack, call_stack, error, netvars>>
Crash == Dies /\ UNCHANGED memory

-----------------------------------------------------------------------------
(* zeus_vm_step: one action for each way an instruction can go.            *)

FetchOutOfBounds ==
  /\ running /\ ~code_ok(pc, 1)
  /\ Stop("OUT_OF_BOUNDS") /\ UNCHANGED <<pc, stack>> /\ StackOnly

MissingOperand ==
  /\ running /\ code_ok(pc, 1)
  /\ has_operand(Mnemonic(program.code[pc])) /\ ~code_ok(pc + 1, WordBytes)
  /\ pc' = pc + 1
  /\ Stop("OUT_OF_BOUNDS") /\ UNCHANGED stack /\ StackOnly

InvalidOpcode == Fetches("INVALID") /\ Refuses("INVALID", "INVALID_OPCODE")

(* A vm_pop finds the stack empty: the pops before it took what there was. *)
StackUnderflow ==
  \E op \in Instructions :
    /\ Fetches(op) /\ Len(stack) < pops(op)
    /\ stack' = <<>> /\ Stop("STACK_UNDERFLOW") /\ pc' = After(op) /\ StackOnly

Halt == /\ Fetches("HALT")
        /\ running' = FALSE /\ pc' = After("HALT")
        /\ UNCHANGED <<stack, error>> /\ StackOnly

Push == Executes("PUSH") /\ vm_push(stack, Operand) /\ pc' = After("PUSH") /\ StackOnly

Discard == \E op \in {"POP", "PRINT", "PRINTC"} :
             Executes(op) /\ stack' = Drop(1) /\ Go /\ pc' = After(op) /\ StackOnly

(* DUP and SWAP look before they touch: a failure leaves the stack alone.  *)
TooShallow(op) == Fetches(op) /\ Refuses(op, "STACK_UNDERFLOW")

Dup == \/ stack = <<>> /\ TooShallow("DUP")
       \/ /\ Fetches("DUP") /\ stack # <<>>
          /\ vm_push(stack, Top(0)) /\ pc' = After("DUP") /\ StackOnly

Swap == \/ Len(stack) < 2 /\ TooShallow("SWAP")
        \/ /\ Fetches("SWAP") /\ Len(stack) >= 2
           /\ stack' = Drop(2) \o <<Top(0), Top(1)>>
           /\ Go /\ pc' = After("SWAP") /\ StackOnly

Pick == /\ Executes("PICK")
        /\ \/ Operand \notin 0 .. Len(stack) - 1 /\ Refuses("PICK", "OUT_OF_BOUNDS")
           \/ /\ Operand \in 0 .. Len(stack) - 1
              /\ vm_push(stack, Top(Operand)) /\ pc' = After("PICK") /\ StackOnly

(* Mutant: ROLL copies the word up and does not close the gap it leaves.   *)
RollCopies == /\ Executes("ROLL")
              /\ \/ Operand \notin 0 .. Len(stack) - 1 /\ Refuses("ROLL", "OUT_OF_BOUNDS")
                 \/ /\ Operand \in 0 .. Len(stack) - 1
                    /\ vm_push(stack, Top(Operand)) /\ pc' = After("ROLL") /\ StackOnly

Roll == /\ Executes("ROLL")
        /\ \/ Operand \notin 0 .. Len(stack) - 1 /\ Refuses("ROLL", "OUT_OF_BOUNDS")
           \/ /\ Operand \in 0 .. Len(stack) - 1
              /\ stack' = Drop(Operand + 1)
                            \o SubSeq(stack, Len(stack) - Operand + 1, Len(stack))
                            \o <<Top(Operand)>>
              /\ Go /\ pc' = After("ROLL") /\ StackOnly

Divisions == {"DIV", "MOD"}

BinaryOp == \E op \in BinaryOps :
              /\ Executes(op) /\ ~(op \in Divisions /\ Top(0) = 0)
              /\ vm_push(Drop(2), Binary(op, Top(1), Top(0)))
              /\ pc' = After(op) /\ StackOnly

DivideByZero == \E op \in Divisions :
                  Executes(op) /\ Top(0) = 0 /\ Refuses(op, "DIV_ZERO")

(* The quotient does not fit: undefined in C, a trap on some processors.   *)
DivideTraps == \E op \in Divisions :
                 Executes(op) /\ Top(1) = -32768 /\ Top(0) = -1 /\ Crash

UnaryOp == \E op \in UnaryOps : /\ Executes(op) /\ vm_push(Drop(1), Unary(op, Top(0)))
                                /\ pc' = After(op) /\ StackOnly

(* Mutant: the target is not cut to 32 bits.                               *)
JumpUncut == /\ Executes("JMP") /\ pc' = Operand
             /\ Go /\ UNCHANGED stack /\ StackOnly

Jump == /\ Executes("JMP") /\ pc' = ToU32(Operand)
        /\ Go /\ UNCHANGED stack /\ StackOnly

Taken(op) == (op = "JZ") = (Top(0) = 0)

(* Mutant: a branch looks at the tested word and leaves it on the stack.   *)
BranchPeeks == \E op \in {"JZ", "JNZ"} :
                 /\ Executes(op) /\ Go /\ UNCHANGED stack
                 /\ pc' = IF Taken(op) THEN ToU32(Operand) ELSE After(op)
                 /\ StackOnly

Branch == \E op \in {"JZ", "JNZ"} :
            /\ Executes(op) /\ stack' = Drop(1) /\ Go
            /\ pc' = IF Taken(op) THEN ToU32(Operand) ELSE After(op)
            /\ StackOnly

(* Mutant: the return address is stored before the limit is looked at.     *)
CallStoresFirst ==
  /\ Executes("CALL")
  /\ \/ /\ Len(call_stack) >= CALL_SIZE
        /\ call_stack' = [call_stack EXCEPT ![CALL_SIZE] = After("CALL")]
        /\ Stop("CALL_OVERFLOW") /\ pc' = After("CALL")
        /\ UNCHANGED <<program, stack, memory, host, netvars>>
     \/ /\ Len(call_stack) < CALL_SIZE
        /\ call_stack' = Append(call_stack, After("CALL"))
        /\ pc' = ToU32(Operand) /\ Go
        /\ UNCHANGED <<program, stack, memory, host, netvars>>

(* Mutant: the return address is taken before the operand is skipped.      *)
CallReturnsToOperand ==
  /\ Executes("CALL")
  /\ \/ Len(call_stack) >= CALL_SIZE /\ Refuses("CALL", "CALL_OVERFLOW")
     \/ /\ Len(call_stack) < CALL_SIZE
        /\ call_stack' = Append(call_stack, pc + 1)
        /\ pc' = ToU32(Operand) /\ Go
        /\ UNCHANGED <<program, stack, memory, host, netvars>>

Call == /\ Executes("CALL")
        /\ \/ Len(call_stack) >= CALL_SIZE /\ Refuses("CALL", "CALL_OVERFLOW")
           \/ /\ Len(call_stack) < CALL_SIZE
              /\ call_stack' = Append(call_stack, After("CALL"))
              /\ pc' = ToU32(Operand) /\ Go
              /\ UNCHANGED <<program, stack, memory, host, netvars>>

(* Mutant: RET reads the return address and leaves it on the call stack.   *)
ReturnPeeks == /\ Executes("RET")
               /\ \/ call_stack = <<>> /\ Refuses("RET", "CALL_UNDERFLOW")
                  \/ /\ call_stack # <<>>
                     /\ pc' = call_stack[Len(call_stack)] /\ Go
                     /\ UNCHANGED <<program, call_stack, stack, memory, host, netvars>>

Return == /\ Executes("RET")
          /\ \/ call_stack = <<>> /\ Refuses("RET", "CALL_UNDERFLOW")
             \/ /\ call_stack # <<>>
                /\ pc' = call_stack[Len(call_stack)]
                /\ call_stack' = SubSeq(call_stack, 1, Len(call_stack) - 1) /\ Go
                /\ UNCHANGED <<program, stack, memory, host, netvars>>

(* Memory: the address is the operand, or the top of the stack for the     *)
(* indirect forms; either way it is cut to 32 bits before it is checked.   *)
Loads  == {"LOAD", "LOADB", "LOADI", "LOADBI"}
Stores == {"STORE", "STOREB", "STOREI", "STOREBI"}

Width(op)     == IF op \in {"LOADB", "LOADBI", "STOREB", "STOREBI"} THEN 1 ELSE WordBytes
AddressOf(op) == ToU32(IF has_operand(op) THEN Operand ELSE Top(0))
InMemory(op)  == mem_ok(AddressOf(op), Width(op))

Load == \E op \in Loads :
          /\ Executes(op)
          /\ \/ ~InMemory(op) /\ Refuses(op, "OUT_OF_BOUNDS")
             \/ /\ InMemory(op)
                /\ vm_push(Drop(pops(op)), IF Width(op) = 1 THEN ToI8(memory[AddressOf(op)])
                                           ELSE read_i64(memory, AddressOf(op)))
                /\ pc' = After(op) /\ StackOnly

Stored(op)      == Top(pops(op) - 1)
StoredBytes(op) == IF Width(op) = 1 THEN <<Stored(op) % 256>> ELSE word_bytes(Stored(op))

Store == \E op \in Stores :
           /\ Executes(op)
           /\ \/ ~InMemory(op) /\ Refuses(op, "OUT_OF_BOUNDS")
              \/ /\ InMemory(op)
                 /\ memory' = write_bytes(memory, AddressOf(op), StoredBytes(op))
                 /\ stack' = Drop(pops(op)) /\ Go /\ pc' = After(op)
                 /\ UNCHANGED <<program, call_stack, host, netvars>>

-----------------------------------------------------------------------------
(* Input and sockets: what the system calls answer is the environment's    *)
(* choice.  A descriptor is the low 32 bits of a word; a negative one      *)
(* never reaches a system call.                                            *)

Read == \E c \in Stdin \cup {-1} :
          Executes("READ") /\ vm_push(stack, c) /\ pc' = After("READ") /\ StackOnly

OpenSocket == \E op \in {"SOCK_TCP", "SOCK_UDP"}, fd \in Sockets \cup {-1} :
                Executes(op) /\ vm_push(stack, fd) /\ pc' = After(op) /\ StackOnly

(* The instruction answers r in place of its operands.                     *)
Answers(op, r) == Executes(op) /\ vm_push(Drop(pops(op)), r) /\ pc' = After(op)

ValidFd(op) == ToI32(Top(pops(op) - 1)) >= 0     \* the descriptor is the deepest operand

BindListen == \E op \in {"BIND", "LISTEN"}, r \in {0, -1} :
                Answers(op, r) /\ (ValidFd(op) \/ r = -1) /\ StackOnly

Accept == \E fd \in Sockets \cup {-1} :
            Answers("ACCEPT", fd) /\ (ValidFd("ACCEPT") \/ fd = -1) /\ StackOnly

(* The host name is read up to its NUL, wherever that is: with none before *)
(* the end of memory, connect reads on behind it.                          *)
Terminated(p) == \E a \in p .. MEMORY_SIZE - 1 : memory[a] = 0

Connect == \/ /\ Executes("CONNECT") /\ ~mem_ok(ToU32(Top(1)), 1)
              /\ Refuses("CONNECT", "OUT_OF_BOUNDS")
           \/ \E r \in {0, -1} :
                /\ Executes("CONNECT") /\ mem_ok(ToU32(Top(1)), 1)
                /\ ValidFd("CONNECT") \/ r = -1
                /\ Answers("CONNECT", r) /\ StackOnly
           \/ /\ Executes("CONNECT") /\ mem_ok(ToU32(Top(1)), 1)
              /\ ValidFd("CONNECT") /\ ~Terminated(ToU32(Top(1))) /\ Crash

(* zeus_net_close of a negative descriptor succeeds.                       *)
Close == \E r \in {0, -1} :
           Answers("CLOSE", r) /\ (ValidFd("CLOSE") \/ r = 0) /\ StackOnly

(* Mutant: only the pointer is checked.                                    *)
PointerInMemory == mem_ok(ToU32(Top(1)), 1)

(* A buffer operand pair: the pointer below the length.  Both are cut to   *)
(* 32 bits for the check; the length is then used at its full width.       *)
BufferInMemory == mem_ok(ToU32(Top(1)), ToU32(Top(0)))

BufferOps == {"SEND", "RECV", "RAW_SET_PAYLOAD", "RAW_RECV"}

BufferOutside == \E op \in BufferOps :
                   Executes(op) /\ ~BufferInMemory /\ Refuses(op, "OUT_OF_BOUNDS")

(* Bound: one count of bytes past the end of memory stands for all.        *)
SentBound == MEMORY_SIZE + 1

(* A length of more than 32 bits makes send read on behind memory.         *)
Send == \/ \E r \in -1 .. SentBound :
             /\ Executes("SEND") /\ BufferInMemory
             /\ r = -1 \/ (ValidFd("SEND") /\ r <= ToU64(Top(0)))
             /\ Answers("SEND", r) /\ StackOnly
        \/ /\ Executes("SEND") /\ BufferInMemory /\ ValidFd("SEND")
           /\ ~mem_ok(ToU32(Top(1)), ToU64(Top(0))) /\ Crash

(* recv on a socket, or on a raw socket opened for a packet's protocol.    *)
MayReceive(op) == IF op = "RECV" THEN ValidFd(op) ELSE packet_get(Top(2))

ReceiveNothing == \E op \in {"RECV", "RAW_RECV"} :
                    Executes(op) /\ BufferInMemory /\ Answers(op, -1) /\ StackOnly

(* The bytes go where the pointer says, as many as came.  A length of more *)
(* than 32 bits lets them run over the end of memory, over what is there.  *)
Receive ==
  \E op \in {"RECV", "RAW_RECV"}, data \in Arrivals :
    /\ Executes(op) /\ BufferInMemory /\ MayReceive(op)
    /\ Len(data) <= ToU64(Top(0))
    /\ memory' = write_bytes(memory, ToU32(Top(1)), data)
    /\ \/ /\ mem_ok(ToU32(Top(1)), Len(data))
          /\ Answers(op, Len(data)) /\ UNCHANGED <<program, call_stack, host, netvars>>
       \/ ~mem_ok(ToU32(Top(1)), Len(data)) /\ Dies

-----------------------------------------------------------------------------
(* Raw packets: the instruction calls NetPackets and pushes what it says.  *)

MachineOnly == UNCHANGED <<program, call_stack, memory, host>>

RawAlloc == \E r \in Slots \cup {-1} :
              /\ Answers("RAW_ALLOC", r)
              /\ zeus_net_packet_alloc(Top(0), r)
              /\ MachineOnly

(* A call on a packet answers 0 and does call, or answers -1 if refused.   *)
Status(op, accepted) == Answers(op, IF accepted THEN 0 ELSE -1)

RawRefused ==
  \/ /\ Status("RAW_FREE", FALSE) /\ ~packet_get(Top(0)) /\ StackOnly
  \/ \E op \in {"RAW_SET_PROTO", "RAW_SET_DST", "RAW_SET_SRC"} :
       Status(op, FALSE) /\ ~packet_get(Top(1)) /\ StackOnly
  \/ /\ Status("RAW_SET_PAYLOAD", FALSE) /\ BufferInMemory
     /\ ~PayloadFitsSlot(Top(2), ToU64(Top(0))) /\ StackOnly

RawFree == Status("RAW_FREE", TRUE) /\ zeus_net_packet_free(Top(0)) /\ MachineOnly

RawSetHeader ==
  /\ \/ Status("RAW_SET_PROTO", TRUE) /\ zeus_net_packet_set_proto(Top(1), Top(0))
     \/ Status("RAW_SET_DST", TRUE) /\ zeus_net_packet_set_dst(Top(1), Top(0))
     \/ Status("RAW_SET_SRC", TRUE) /\ zeus_net_packet_set_src(Top(1), Top(0))
  /\ MachineOnly

RawSetPayload ==
  /\ Status("RAW_SET_PAYLOAD", TRUE) /\ BufferInMemory
  /\ zeus_net_packet_set_payload(Top(2), memory, ToU32(Top(1)), ToU64(Top(0)))
  /\ MachineOnly

(* The interface name is checked unless it is null, and then not used.     *)
InterfaceOk == Top(0) = 0 \/ mem_ok(ToU32(Top(0)), 1)

RawSend == \/ Executes("RAW_SEND") /\ ~InterfaceOk /\ Refuses("RAW_SEND", "OUT_OF_BOUNDS")
           \/ \E r \in -1 .. MAX_PACKET_SIZE :
                /\ Answers("RAW_SEND", r) /\ InterfaceOk
                /\ zeus_net_packet_send(Top(1), r)
                /\ MachineOnly

zeus_vm_step ==
  \/ FetchOutOfBounds \/ MissingOperand \/ InvalidOpcode \/ StackUnderflow
  \/ Halt \/ Push \/ Discard \/ Dup \/ Swap \/ Pick \/ Roll
  \/ BinaryOp \/ UnaryOp \/ DivideByZero \/ DivideTraps
  \/ Jump \/ Branch \/ Call \/ Return \/ Load \/ Store
  \/ Read \/ OpenSocket \/ BindListen \/ Accept \/ Connect \/ Close
  \/ BufferOutside \/ Send \/ ReceiveNothing \/ Receive
  \/ RawAlloc \/ RawRefused \/ RawFree \/ RawSetHeader \/ RawSetPayload \/ RawSend

-----------------------------------------------------------------------------
(* The host: init, load, reset, run, free.  All of them return before the  *)
(* next one is called, and run only returns when running is false.         *)

NoProgram == [entry_point |-> 0, code_len |-> 0, code |-> <<>>, data_len |-> 0, data |-> <<>>]

ZeroImage == [a \in 0 .. MEMORY_SIZE - 1 |-> 0]

Init == /\ program = NoProgram /\ pc = 0 /\ stack = <<>> /\ call_stack = <<>>
        /\ memory = ZeroImage /\ error = "OK" /\ running = FALSE
        /\ host = "initialised" /\ NetInit

CanCall == ~running /\ host \in {"initialised", "loaded", "started"}

(* Mutant: the call stack of the last program is left in place.            *)
ResetKeepsCalls(entry, image) ==
  /\ pc' = entry /\ stack' = <<>> /\ memory' = image
  /\ error' = "OK" /\ running' = FALSE /\ UNCHANGED call_stack

(* zeus_vm_reset clears the machine and leaves the image of memory to its  *)
(* caller: zeros, over which zeus_vm_load copies the data that fits.       *)
ResetTo(entry, image) ==
  /\ pc' = entry /\ stack' = <<>> /\ call_stack' = <<>> /\ memory' = image
  /\ error' = "OK" /\ running' = FALSE

BootImage(prog) ==
  [a \in 0 .. MEMORY_SIZE - 1 |-> IF a < prog.data_len THEN prog.data[a] ELSE 0]

zeus_vm_load(prog) ==
  /\ CanCall /\ program' = prog
  /\ ResetTo(prog.entry_point, BootImage(prog))
  /\ host' = "loaded" /\ UNCHANGED netvars

(* malloc fails for the code, or for the data after the code was copied:   *)
(* the header is in place, the machine is as the last program left it.     *)
LoadFails(prog) ==
  /\ CanCall /\ host' = "failed"
  /\ \/ prog.code_len > 0 /\ program' = [prog EXCEPT !.code = <<>>, !.data = <<>>]
     \/ prog.data_len > 0 /\ program' = [prog EXCEPT !.data = <<>>]
  /\ UNCHANGED <<machine, netvars>>

zeus_vm_reset ==
  /\ CanCall /\ ResetTo(program.entry_point, ZeroImage)
  /\ host' = IF host = "started" THEN "loaded" ELSE host
  /\ UNCHANGED <<program, netvars>>

(* Mutant: a second run starts with the error of the first.                *)
RunKeepsError ==
  /\ CanCall /\ running' = TRUE /\ host' = "started"
  /\ UNCHANGED <<program, pc, stack, call_stack, memory, error, netvars>>

zeus_vm_run ==
  /\ CanCall /\ running' = TRUE /\ error' = "OK" /\ host' = "started"
  /\ UNCHANGED <<program, pc, stack, call_stack, memory, netvars>>

(* Mutant: the program is freed and the packet table is left behind.       *)
FreeKeepsPackets ==
  /\ ~running /\ host \notin {"crashed", "freed"} /\ host' = "freed"
  /\ program' = [NoProgram EXCEPT !.entry_point = program.entry_point]
  /\ UNCHANGED <<machine, netvars>>

zeus_vm_free ==
  /\ ~running /\ host \notin {"crashed", "freed"} /\ host' = "freed"
  /\ program' = [NoProgram EXCEPT !.entry_point = program.entry_point]
  /\ zeus_net_destroy /\ UNCHANGED machine

zeus_vm_init ==
  /\ host = "freed" /\ host' = "initialised"
  /\ program' = NoProgram /\ ResetTo(0, ZeroImage) /\ zeus_net_create

Next == \/ zeus_vm_step
        \/ \E prog \in Programs : zeus_vm_load(prog) \/ LoadFails(prog)
        \/ zeus_vm_reset \/ zeus_vm_run \/ zeus_vm_free \/ zeus_vm_init

Spec == Init /\ [][Next]_vars

(* Calls that wait for another process, for as long as it likes.           *)
Blocking == {"READ", "ACCEPT", "CONNECT", "SEND", "RECV", "RAW_SEND", "RAW_RECV"}

(* zeus_vm_run loops on zeus_vm_step, so a step that waits for nobody is   *)
(* taken.                                                                  *)
StepsAreTaken ==
  WF_vars(zeus_vm_step /\ (code_ok(pc, 1) => Mnemonic(program.code[pc]) \notin Blocking))

-----------------------------------------------------------------------------
ZeusErrors == {"OK", "STACK_UNDERFLOW", "STACK_OVERFLOW", "CALL_UNDERFLOW", "CALL_OVERFLOW",
               "OUT_OF_BOUNDS", "DIV_ZERO", "INVALID_OPCODE"}
Hosts == {"initialised", "loaded", "started", "failed", "freed", "crashed"}

(* Types: both stacks within their arrays, every word and byte within its  *)
(* width, a failed load leaving no code to run.                            *)
TypeOK ==
  /\ host \in Hosts /\ (host # "failed" => WellFormed(program))
  /\ pc \in Address
  /\ stack \in Seq(Word) /\ Len(stack) <= STACK_SIZE
  /\ call_stack \in Seq(Address) /\ Len(call_stack) <= CALL_SIZE
  /\ host # "crashed" => memory \in [0 .. MEMORY_SIZE - 1 -> Byte]
  /\ error \in ZeusErrors /\ running \in BOOLEAN
  /\ NetTypeOK

(* The offset just after a CALL instruction of the loaded code.            *)
FollowsCall(offset) ==
  /\ offset - 1 - WordBytes \in DOMAIN program.code
  /\ Mnemonic(program.code[offset - 1 - WordBytes]) = "CALL"
  /\ offset <= program.code_len

(* RET always returns to just after a CALL of the program that is loaded:  *)
(* no jump, load, reset or second run leaves a return address of another   *)
(* program, or of nowhere, on the call stack.                              *)
ReturnsFollowCalls ==
  host \in {"loaded", "started"} =>
    \A i \in DOMAIN call_stack : FollowsCall(call_stack[i])

(* A machine that has stopped says why: its error is OK only if it stopped *)
(* right after a HALT, and a machine with an error never runs on.          *)
StoppedAtHalt == pc - 1 \in DOMAIN program.code /\ Mnemonic(program.code[pc - 1]) = "HALT"

StopIsExplained ==
  /\ running => error = "OK"
  /\ host = "started" /\ ~running /\ error = "OK" => StoppedAtHalt

(* An instruction that fails has consumed operands at most: memory, the    *)
(* call stack, the packets and what is below the operands are as before.   *)
FailureIsContained ==
  [][running /\ error' # "OK" =>
       /\ UNCHANGED <<program, call_stack, memory, netvars>>
       /\ IsPrefix(stack', stack)]_vars

(* What an instruction leaves on the stack, net of what it takes: the      *)
(* table of isa.c (USAGE.md:542), but for the four instructions that       *)
(* USAGE.md section 7 gives another effect.                                *)
DocumentedEffect(op) ==
  CASE op \in {"RECV", "RAW_RECV"}  -> -2
    [] op \in {"CLOSE", "RAW_FREE"} -> 0
    [] OTHER -> stack_delta(op)

(* How deep an instruction may reach into the stack.                       *)
Reach(op) == CASE op = "SWAP" -> 2 [] op = "ROLL" -> Operand + 1 [] OTHER -> pops(op)

(* A step that succeeds has exactly the documented stack effect, and       *)
(* leaves everything below its operands as it was.                         *)
StackDiscipline ==
  [][running /\ error' = "OK" /\ host' = "started" =>
       LET op == Mnemonic(program.code[pc])
       IN  /\ Len(stack') = Len(stack) + DocumentedEffect(op)
           /\ IsPrefix(Drop(Reach(op)), stack')]_vars

(* The bytes of memory an instruction names: where they start and how many *)
(* there are, as the words say, nothing cut off.                           *)
Accesses == Loads \cup Stores \cup BufferOps \cup {"CONNECT", "RAW_SEND"}

NamedStart(op) == CASE has_operand(op) -> Operand
                    [] op \in BufferOps \cup {"CONNECT"} -> Top(1)
                    [] OTHER -> Top(0)
NamedLength(op) == CASE op \in Loads \cup Stores -> Width(op)
                     [] op \in {"CONNECT", "RAW_SEND"} -> 1
                     [] OTHER -> ToU64(Top(0))
Named(op) == NamedStart(op) .. NamedStart(op) + NamedLength(op) - 1

(* The words after the arrow of USAGE.md section 7.                        *)
Results(op) ==
  CASE op \in {"DUP", "SWAP"} -> 2
    [] op \in {"HALT", "POP", "ROLL", "JMP", "JZ", "JNZ", "CALL", "RET", "PRINT", "PRINTC"}
             \cup Stores -> 0
    [] OTHER -> 1

(* Whether an instruction has to be refused for the reason given.          *)
Deserved(op, e) ==
  CASE e = "STACK_UNDERFLOW" -> Len(stack) < Results(op) - DocumentedEffect(op)
    [] e = "STACK_OVERFLOW"  -> Len(stack) + DocumentedEffect(op) > STACK_SIZE
    [] e = "CALL_UNDERFLOW"  -> op = "RET" /\ call_stack = <<>>
    [] e = "CALL_OVERFLOW"   -> op = "CALL" /\ Len(call_stack) = CALL_SIZE
    [] e = "DIV_ZERO"        -> op \in Divisions /\ Top(0) = 0
    [] e = "INVALID_OPCODE"  -> op = "INVALID"
    [] e = "OUT_OF_BOUNDS"   ->
         \/ has_operand(op) /\ ~code_ok(pc + 1, WordBytes)
         \/ op \in {"PICK", "ROLL"} /\ Operand \notin 0 .. Len(stack) - 1
         \/ op \in Accesses /\ (NamedStart(op) < 0 \/ ~mem_ok(NamedStart(op), NamedLength(op)))

(* The machine never refuses what it could do: an instruction fails for    *)
(* lack of words, of room or of an address only if the documented effect   *)
(* does not fit the stack, or the bytes it names are not all there.        *)
RefusalsAreDeserved ==
  [][running /\ error' # "OK" /\ code_ok(pc, 1) =>
       Deserved(Mnemonic(program.code[pc]), error')]_vars

(* Memory changes only under a store or a receive, and only in the bytes   *)
(* it names.  The code cuts start and length to 32 bits before it looks at *)
(* them, so this is said of a start that is an address (IndirectInBounds   *)
(* shows the others), and that nothing beyond memory is written is said of *)
(* a length that is one.                                                   *)
Written == {a \in DOMAIN memory' : a \notin DOMAIN memory \/ memory'[a] # memory[a]}

WritesStayInWindow ==
  [][running /\ memory' # memory =>
       LET op == Mnemonic(program.code[pc])
       IN  /\ op \in Stores \cup {"RECV", "RAW_RECV"}
           /\ NamedStart(op) \in Address => Written \subseteq Named(op)
           /\ NamedLength(op) \in Address => Written \subseteq 0 .. MEMORY_SIZE - 1]_vars

(* When the host is done with a machine nothing it allocated for packets   *)
(* is left behind, whatever the programs it ran did or failed to do.       *)
NoPacketLeak == host = "freed" => \A b \in Blocks : heap[b] = NULL

(* A program whose jumps and calls all go forward: it may call the same    *)
(* subroutine from several places, and RET goes back to each of them.      *)
ForwardOnly(prog) ==
  \A o \in DOMAIN prog.code :
    /\ Mnemonic(prog.code[o]) \in {"JMP", "JZ", "JNZ", "CALL"}
    /\ o + WordBytes \in DOMAIN prog.code
    => ToU32(read_i64(prog.code, o + 1)) > o

(* Running a forward-only program ends: by HALT, by running off the code   *)
(* or by an error, but never by looping through CALL and RET.              *)
ForwardProgramsStop == running /\ ForwardOnly(program) ~> ~running

-----------------------------------------------------------------------------
(* Two statements of the documentation that the code does not keep.        *)

(* vm.h says of zeus_vm_reset that it resets the VM but keeps the loaded   *)
(* program, so a machine that was just loaded or reset should have that    *)
(* program's data at the bottom of its memory.                             *)
ResetKeepsProgram == host = "loaded" => memory = BootImage(program)

(* USAGE.md section 10 says a bad memory address is an out-of-bounds       *)
(* error, so an indirect access that succeeds should have been given an    *)
(* address that exists.                                                    *)
IndirectInBounds ==
  [][running /\ error' = "OK" /\ host' = "started" =>
       LET op == Mnemonic(program.code[pc])
       IN  op \in {"LOADI", "STOREI", "LOADBI", "STOREBI"}
             => Top(0) \in 0 .. MEMORY_SIZE - Width(op)]_vars

=============================================================================
