---------------------------- MODULE ZeusVMProofs ----------------------------
(***************************************************************************)
(* The virtual machine of ZeusVM keeps its types, returns only to after a  *)
(* CALL of the loaded program, stops only for a reason it reports and      *)
(* leaves no packet buffer behind; its instructions change what they say   *)
(* and nothing else, and with its packets it implements PacketStore.  All  *)
(* this for every program, every size of its arrays and every answer of    *)
(* the system calls.                                                       *)
(***************************************************************************)
EXTENDS ZeusVM, NetPacketsProofs, WordProofs

(* The inductive invariant.  Beyond the four properties it says that the   *)
(* entry point outlives a failed load, that only a started machine runs,   *)
(* and that a machine that never had a program has an empty call stack.    *)
VMInv ==
  /\ TypeOK /\ NetInv
  /\ program.entry_point \in Address
  /\ running => host = "started"
  /\ host = "initialised" => call_stack = <<>>
  /\ ReturnsFollowCalls
  /\ StopIsExplained
  /\ NoPacketLeak

(* How a step of the machine leaves running and error.                     *)
StatusAfter == Go \/ \E e \in ZeusErrors \ {"OK"} : Stop(e)

-----------------------------------------------------------------------------
(* The stack helpers.                                                      *)

(* Popping n words off a stack that has them leaves a stack.               *)
LEMMA DropTyped ==
  ASSUME stack \in Seq(Word), NEW n \in Nat, n <= Len(stack)
  PROVE  Drop(n) \in Seq(Word) /\ Len(Drop(n)) = Len(stack) - n
BY DEF Drop

(* The beginning of a sequence.                                            *)
LEMMA ShorterTyped ==
  ASSUME NEW S, NEW s \in Seq(S), NEW n \in 0 .. Len(s)
  PROVE  /\ SubSeq(s, 1, n) \in Seq(S) /\ Len(SubSeq(s, 1, n)) = n
         /\ \A i \in 1 .. n : i \in DOMAIN s /\ SubSeq(s, 1, n)[i] = s[i]
OBVIOUS

(* The words a stack holds are words.                                      *)
LEMMA TopTyped ==
  ASSUME stack \in Seq(Word), NEW n \in Nat, n < Len(stack)
  PROVE  Top(n) \in Word
<1>1. Len(stack) - n \in 1 .. Len(stack)
  OBVIOUS
<1>2. QED
  BY <1>1 DEF Top

(* vm_push checks the limit of the stack.                                  *)
LEMMA PushTyped ==
  ASSUME NEW rest \in Seq(Word), Len(rest) <= STACK_SIZE, NEW v \in Word, vm_push(rest, v)
  PROVE  stack' \in Seq(Word) /\ Len(stack') <= STACK_SIZE /\ StatusAfter
<1>1. CASE Len(rest) < STACK_SIZE /\ stack' = Append(rest, v) /\ Go
  <2>1. Append(rest, v) \in Seq(Word) /\ Len(Append(rest, v)) = Len(rest) + 1
    OBVIOUS
  <2>2. QED
    BY <1>1, <2>1, VMLimits DEF StatusAfter
<1>2. CASE Len(rest) >= STACK_SIZE /\ stack' = rest /\ Stop("STACK_OVERFLOW")
  BY <1>2 DEF StatusAfter, ZeusErrors
<1>3. QED
  BY <1>1, <1>2 DEF vm_push

(* No instruction pops more than three words.                              *)
LEMMA PopsNat == ASSUME NEW op PROVE pops(op) \in 0 .. 3
BY DEF pops

(* One byte, or a word, that fits the code at an offset.                   *)
LEMMA Offsets ==
  ASSUME NEW p \in Address, NEW len \in Address
  PROVE  /\ p + 1 <= len => p + 1 \in Address /\ p \in 0 .. len - 1
         /\ p + 2 <= len => p + 2 \in Address /\ p \in 0 .. len - 1 /\ p + 1 \in 0 .. len - 1
BY DEF Address

(* What a successful fetch tells of the machine.                           *)
LEMMA Fetched ==
  ASSUME VMInv, NEW op, Fetches(op)
  PROVE  /\ running /\ host = "started"
         /\ program.code_len \in Address /\ program.code \in [0 .. program.code_len - 1 -> Byte]
         /\ pc \in DOMAIN program.code /\ op = Mnemonic(program.code[pc])
         /\ After(op) \in Address /\ After(op) <= program.code_len
         /\ has_operand(op) => Operand \in Word
<1>1. running /\ host = "started" /\ pc \in Address /\ program.code_len \in Address
  BY DEF Fetches, VMInv, TypeOK, WellFormed
<1>2. program.code \in [0 .. program.code_len - 1 -> Byte]
  BY <1>1 DEF VMInv, TypeOK, WellFormed
<1>3. /\ pc + 1 <= program.code_len
      /\ has_operand(op) => (pc + 1) + 2 <= program.code_len
      /\ op = Mnemonic(program.code[pc])
  BY DEF Fetches, code_ok, WordBytes
<1>4. pc + 1 \in Address /\ pc \in 0 .. program.code_len - 1
  BY <1>1, <1>3, Offsets
<1>5. pc \in DOMAIN program.code
  BY <1>2, <1>4
<1>6. CASE has_operand(op)
  <2> DEFINE p == pc + 1
  <2>1. p \in Address /\ p + 2 <= program.code_len
    BY <1>3, <1>4, <1>6
  <2>2. After(op) = p + 2
    BY <1>6, Zenon DEF After, WordBytes
  <2>3. Operand = read_i64(program.code, p)
    BY DEF Operand
  <2> HIDE DEF p
  <2>4. /\ p + 2 \in Address
        /\ p \in 0 .. program.code_len - 1 /\ p + 1 \in 0 .. program.code_len - 1
    BY <1>1, <2>1, Offsets
  <2>5. program.code[p] \in Byte /\ program.code[p + 1] \in Byte
    BY <1>2, <2>4
  <2>6. Operand \in Word
    BY <2>3, <2>5, ReadWord, Zenon
  <2>7. QED
    BY <1>1, <1>2, <1>3, <1>5, <1>6, <2>1, <2>2, <2>4, <2>6, Zenon
<1>7. CASE ~has_operand(op)
  <2>1. After(op) = (pc + 1) + 0
    BY <1>7, Zenon DEF After
  <2>2. (pc + 1) + 0 = pc + 1
    BY <1>4, WordInt
  <2>3. After(op) = pc + 1
    BY <2>1, <2>2, Zenon
  <2>4. QED
    BY <1>1, <1>2, <1>3, <1>4, <1>5, <1>7, <2>3, Zenon
<1>8. QED
  BY <1>6, <1>7

(* The stack an instruction leaves when its operands are popped.           *)
LEMMA Popped ==
  ASSUME VMInv, NEW op, Len(stack) >= pops(op)
  PROVE  /\ stack \in Seq(Word) /\ Len(stack) \in Nat /\ pops(op) \in 0 .. 3
         /\ Drop(pops(op)) \in Seq(Word) /\ Len(Drop(pops(op))) <= STACK_SIZE
         /\ \A n \in 0 .. 2 : n < pops(op) => Top(n) \in Word
<1>1. stack \in Seq(Word) /\ Len(stack) <= STACK_SIZE /\ STACK_SIZE \in Nat
  BY VMLimits DEF VMInv, TypeOK
<1>2. pops(op) \in 0 .. 3
  BY PopsNat
<1>3. Drop(pops(op)) \in Seq(Word) /\ Len(Drop(pops(op))) = Len(stack) - pops(op)
  BY <1>1, <1>2, DropTyped, SMTT(30)
<1>4. \A n \in 0 .. 2 : n < pops(op) => Top(n) \in Word
  BY <1>1, <1>2, TopTyped
<1>5. QED
  BY <1>1, <1>2, <1>3, <1>4
-----------------------------------------------------------------------------
(* What every step of a running machine has to show.                       *)

(* A step that leaves program and host alone and keeps each of its arrays  *)
(* typed, its return addresses after a CALL and its packets sound.         *)
LEMMA MachineStep ==
  ASSUME VMInv, running, program' = program, host' = host, pc' \in Address,
         stack' \in Seq(Word), Len(stack') <= STACK_SIZE,
         call_stack' \in Seq(Address), Len(call_stack') <= CALL_SIZE,
         \A i \in DOMAIN call_stack' : FollowsCall(call_stack'[i]),
         memory' \in [0 .. MEMORY_SIZE - 1 -> Byte], NetInv', StatusAfter
  PROVE  VMInv'
<1>1. host = "started" /\ host' = "started" /\ error = "OK"
  BY DEF VMInv, StopIsExplained
<1>2. /\ running' \in BOOLEAN /\ error' \in ZeusErrors
      /\ running' <=> error' = "OK"
  <2>1. CASE Go
    BY <2>1, <1>1 DEF Go, VMInv, TypeOK
  <2>2. CASE \E e \in ZeusErrors \ {"OK"} : Stop(e)
    BY <2>2 DEF Stop
  <2>3. QED
    BY <2>1, <2>2 DEF StatusAfter
<1>3. TypeOK'
  <2>1. host' \in Hosts /\ (host' # "failed" => WellFormed(program)')
    BY <1>1 DEF VMInv, TypeOK, WellFormed
  <2>2. NetTypeOK'
    BY DEF NetInv
  <2>3. QED
    BY <1>2, <2>1, <2>2 DEF TypeOK
<1>4. ReturnsFollowCalls'
  BY DEF ReturnsFollowCalls, FollowsCall
<1>5. StopIsExplained'
  BY <1>2 DEF StopIsExplained
<1>6. program'.entry_point \in Address
  BY DEF VMInv
<1>7. QED
  BY <1>1, <1>3, <1>4, <1>5, <1>6 DEF VMInv, NoPacketLeak

(* The return addresses of a started machine all follow a CALL.            *)
LEMMA CallsTyped ==
  ASSUME VMInv, running
  PROVE  /\ call_stack \in Seq(Address) /\ Len(call_stack) <= CALL_SIZE
         /\ \A i \in DOMAIN call_stack : FollowsCall(call_stack[i])
         /\ memory \in [0 .. MEMORY_SIZE - 1 -> Byte]
BY DEF VMInv, TypeOK, ReturnsFollowCalls

(* The same for the instructions that touch only the stack, pc and status. *)
LEMMA StackStep ==
  ASSUME VMInv, running, pc' \in Address, stack' \in Seq(Word), Len(stack') <= STACK_SIZE,
         StackOnly, StatusAfter
  PROVE  VMInv'
<1>1. /\ program' = program /\ host' = host /\ call_stack' = call_stack /\ memory' = memory
      /\ UNCHANGED netvars
  BY DEF StackOnly
<1>2. NetInv'
  BY <1>1, StutterPreserves DEF VMInv
<1>3. /\ call_stack' \in Seq(Address) /\ Len(call_stack') <= CALL_SIZE
      /\ \A i \in DOMAIN call_stack' : FollowsCall(call_stack'[i])
      /\ memory' \in [0 .. MEMORY_SIZE - 1 -> Byte]
  BY <1>1, CallsTyped
<1>4. QED
  BY <1>1, <1>2, <1>3, MachineStep

(* And for those that touch the packets as well.                           *)
LEMMA PacketStep ==
  ASSUME VMInv, running, pc' \in Address, stack' \in Seq(Word), Len(stack') <= STACK_SIZE,
         MachineOnly, StatusAfter, NetInv'
  PROVE  VMInv'
<1>1. program' = program /\ host' = host /\ call_stack' = call_stack /\ memory' = memory
  BY DEF MachineOnly
<1>2. /\ call_stack' \in Seq(Address) /\ Len(call_stack') <= CALL_SIZE
      /\ \A i \in DOMAIN call_stack' : FollowsCall(call_stack'[i])
      /\ memory' \in [0 .. MEMORY_SIZE - 1 -> Byte]
  BY <1>1, CallsTyped
<1>3. QED
  BY <1>1, <1>2, MachineStep

(* A refusal pops what the instruction pops and reports an error.          *)
LEMMA RefusalStep ==
  ASSUME VMInv, NEW op, Executes(op), NEW e \in ZeusErrors \ {"OK"}, Refuses(op, e)
  PROVE  VMInv'
<1>1. running /\ After(op) \in Address
  BY Fetched DEF Executes
<1>2. Drop(pops(op)) \in Seq(Word) /\ Len(Drop(pops(op))) <= STACK_SIZE
  BY Popped DEF Executes
<1>3. stack' = Drop(pops(op)) /\ pc' = After(op) /\ StackOnly /\ StatusAfter
  BY DEF Refuses, StatusAfter
<1>4. QED
  BY <1>1, <1>2, <1>3, StackStep

(* An instruction that only pushes one word on what is left of the stack.  *)
LEMMA PushStep ==
  ASSUME VMInv, NEW op, Executes(op), NEW rest \in Seq(Word), Len(rest) <= STACK_SIZE,
         NEW v \in Word, vm_push(rest, v), pc' = After(op), StackOnly
  PROVE  VMInv'
<1>1. running /\ After(op) \in Address
  BY Fetched DEF Executes
<1>2. stack' \in Seq(Word) /\ Len(stack') <= STACK_SIZE /\ StatusAfter
  BY PushTyped
<1>3. QED
  BY <1>1, <1>2, StackStep

(* A system call that answers a word and changes nothing else.             *)
LEMMA AnswerStep ==
  ASSUME VMInv, NEW op, NEW r \in Word, Answers(op, r), StackOnly
  PROVE  VMInv'
<1>1. Executes(op) /\ vm_push(Drop(pops(op)), r) /\ pc' = After(op)
  BY DEF Answers
<1>2. Drop(pops(op)) \in Seq(Word) /\ Len(Drop(pops(op))) <= STACK_SIZE
  BY <1>1, Popped DEF Executes
<1>3. QED
  BY <1>1, <1>2, PushStep

(* A call on the packets that answers a word.                              *)
LEMMA PacketAnswerStep ==
  ASSUME VMInv, NEW op, NEW r \in Word, Answers(op, r), MachineOnly, NetInv'
  PROVE  VMInv'
<1>1. Executes(op) /\ vm_push(Drop(pops(op)), r) /\ pc' = After(op)
  BY DEF Answers
<1>2. Drop(pops(op)) \in Seq(Word) /\ Len(Drop(pops(op))) <= STACK_SIZE
  BY <1>1, Popped DEF Executes
<1>3. running /\ After(op) \in Address
  BY <1>1, Fetched DEF Executes
<1>4. stack' \in Seq(Word) /\ Len(stack') <= STACK_SIZE /\ StatusAfter
  BY <1>1, <1>2, PushTyped
<1>5. QED
  BY <1>1, <1>3, <1>4, PacketStep
-----------------------------------------------------------------------------
(* The instructions, family by family.                                     *)

(* A fetch that fails stops the run at once.                               *)
LEMMA FetchFailures ==
  ASSUME VMInv, FetchOutOfBounds \/ MissingOperand \/ InvalidOpcode \/ StackUnderflow
  PROVE  VMInv'
<1>1. /\ pc \in Address /\ stack \in Seq(Word) /\ Len(stack) <= STACK_SIZE
      /\ running => program.code_len \in Address
  BY DEF VMInv, TypeOK, WellFormed
<1>2. \A e \in {"OUT_OF_BOUNDS", "STACK_UNDERFLOW", "INVALID_OPCODE"} : Stop(e) => StatusAfter
  BY DEF StatusAfter, ZeusErrors
<1>3. CASE FetchOutOfBounds
  BY <1>1, <1>2, <1>3, StackStep DEF FetchOutOfBounds
<1>4. CASE MissingOperand
  <2>1. running /\ pc' = pc + 1 /\ pc + 1 <= program.code_len
    BY <1>4 DEF MissingOperand, code_ok
  <2>2. pc' \in Address
    BY <1>1, <2>1, Offsets
  <2>3. Stop("OUT_OF_BOUNDS") /\ stack' = stack /\ StackOnly
    BY <1>4 DEF MissingOperand
  <2>4. QED
    BY <1>1, <1>2, <2>1, <2>2, <2>3, StackStep
<1>5. CASE InvalidOpcode
  <2>1. pops("INVALID") = 0
    BY DEF pops, UnaryOps, BinaryOps
  <2>2. Executes("INVALID") /\ Refuses("INVALID", "INVALID_OPCODE")
    BY <1>1, <1>5, <2>1 DEF InvalidOpcode, Executes
  <2>3. QED
    BY <2>2, RefusalStep DEF ZeusErrors
<1>6. CASE StackUnderflow
  <2>1. PICK op \in Instructions :
          /\ Fetches(op) /\ stack' = <<>> /\ Stop("STACK_UNDERFLOW") /\ pc' = After(op)
          /\ StackOnly
    BY <1>6 DEF StackUnderflow
  <2>2. stack' \in Seq(Word) /\ Len(stack') <= STACK_SIZE
    BY <2>1, VMLimits
  <2>3. QED
    BY <1>2, <2>1, <2>2, Fetched, StackStep
<1>7. QED
  BY <1>3, <1>4, <1>5, <1>6

(* HALT stops without an error, one byte after the HALT it executed.       *)
LEMMA HaltPreserves == ASSUME VMInv, Halt PROVE VMInv'
<1>1. /\ running /\ host = "started" /\ error = "OK"
      /\ running' = FALSE /\ error' = "OK" /\ pc' = After("HALT") /\ stack' = stack
      /\ program' = program /\ host' = host /\ call_stack' = call_stack /\ memory' = memory
      /\ UNCHANGED netvars
  BY DEF Halt, Fetches, StackOnly, VMInv, StopIsExplained
<1>2. /\ pc \in DOMAIN program.code /\ Mnemonic(program.code[pc]) = "HALT"
      /\ After("HALT") \in Address
  BY Fetched DEF Halt
<1>3. pc' - 1 = pc
  <2>1. After("HALT") = pc + 1
    BY DEF VMInv, TypeOK, Address, After, has_operand
  <2>2. pc \in Nat
    BY DEF VMInv, TypeOK, Address
  <2>3. QED
    BY <1>1, <2>1, <2>2
<1>4. NetInv'
  BY <1>1, StutterPreserves DEF VMInv
<1>5. TypeOK'
  BY <1>1, <1>2, <1>4 DEF VMInv, TypeOK, NetInv, WellFormed
<1>6. ReturnsFollowCalls'
  BY <1>1 DEF VMInv, ReturnsFollowCalls, FollowsCall
<1>7. StopIsExplained'
  BY <1>1, <1>2, <1>3 DEF StopIsExplained, StoppedAtHalt
<1>8. QED
  BY <1>1, <1>4, <1>5, <1>6, <1>7 DEF VMInv, NoPacketLeak

(* An index of the stack that PICK and ROLL accept.                        *)
LEMMA Reachable ==
  ASSUME VMInv, NEW n \in 0 .. Len(stack) - 1
  PROVE  /\ n \in Nat /\ n < Len(stack) /\ stack \in Seq(Word)
         /\ Top(n) \in Word
<1>1. stack \in Seq(Word)
  BY DEF VMInv, TypeOK
<1>2. n \in Nat /\ n < Len(stack)
  BY <1>1
<1>3. QED
  BY <1>1, <1>2, TopTyped

(* PUSH, POP, DUP, SWAP, PICK, ROLL and the two prints.                    *)
LEMMA StackInstructions ==
  ASSUME VMInv, Push \/ Discard \/ Dup \/ Swap \/ Pick \/ Roll
  PROVE  VMInv'
<1>1. stack \in Seq(Word) /\ Len(stack) <= STACK_SIZE /\ Len(stack) \in Nat
  BY DEF VMInv, TypeOK
<1>2. /\ \A op \in {"POP", "PRINT", "PRINTC"} : pops(op) = 1
      /\ \A op \in {"PUSH", "DUP", "SWAP", "PICK", "ROLL"} : pops(op) = 0
  BY DEF pops, UnaryOps, BinaryOps
<1>3. \A op : Fetches(op) /\ pops(op) = 0 => Executes(op)
  BY <1>1 DEF Executes
<1>4. {"STACK_UNDERFLOW", "OUT_OF_BOUNDS"} \subseteq ZeusErrors \ {"OK"}
  BY DEF ZeusErrors
<1>5. Go => StatusAfter
  BY DEF StatusAfter
<1>6. CASE Push
  <2>1. Operand \in Word
    BY <1>6, Fetched DEF Push, Executes, has_operand
  <2>2. QED
    BY <1>1, <1>6, <2>1, PushStep DEF Push
<1>7. CASE Discard
  <2>1. PICK op \in {"POP", "PRINT", "PRINTC"} :
          Executes(op) /\ stack' = Drop(1) /\ Go /\ pc' = After(op) /\ StackOnly
    BY <1>7 DEF Discard
  <2>2. stack' \in Seq(Word) /\ Len(stack') <= STACK_SIZE
    BY <1>2, <2>1, Popped DEF Executes
  <2>3. QED
    BY <1>5, <2>1, <2>2, Fetched, StackStep DEF Executes
<1>8. CASE Dup
  <2>1. CASE TooShallow("DUP")
    BY <1>2, <1>3, <1>4, <2>1, RefusalStep DEF TooShallow
  <2>2. CASE /\ Fetches("DUP") /\ stack # <<>>
             /\ vm_push(stack, Top(0)) /\ pc' = After("DUP") /\ StackOnly
    <3>1. 0 \in 0 .. Len(stack) - 1
      BY <1>1, <2>2
    <3>2. Top(0) \in Word
      BY <3>1, Reachable
    <3>3. QED
      BY <1>1, <1>2, <1>3, <2>2, <3>2, PushStep
  <2>3. QED
    BY <1>8, <2>1, <2>2 DEF Dup
<1>9. CASE Swap
  <2>1. CASE TooShallow("SWAP")
    BY <1>2, <1>3, <1>4, <2>1, RefusalStep DEF TooShallow
  <2>2. CASE /\ Fetches("SWAP") /\ Len(stack) >= 2
             /\ stack' = Drop(2) \o <<Top(0), Top(1)>>
             /\ Go /\ pc' = After("SWAP") /\ StackOnly
    <3>1. Top(0) \in Word /\ Top(1) \in Word
      BY <1>1, <2>2, TopTyped
    <3>2. Drop(2) \in Seq(Word) /\ Len(Drop(2)) = Len(stack) - 2
      BY <1>1, <2>2, DropTyped
    <3>3. stack' \in Seq(Word) /\ Len(stack') = Len(stack)
      BY <1>1, <2>2, <3>1, <3>2
    <3>4. QED
      BY <1>1, <1>5, <2>2, <3>3, Fetched, StackStep
  <2>3. QED
    BY <1>9, <2>1, <2>2 DEF Swap
<1>10. CASE Pick
  <2>1. CASE Executes("PICK") /\ Refuses("PICK", "OUT_OF_BOUNDS")
    BY <1>4, <2>1, RefusalStep
  <2>2. CASE /\ Executes("PICK") /\ Operand \in 0 .. Len(stack) - 1
             /\ vm_push(stack, Top(Operand)) /\ pc' = After("PICK") /\ StackOnly
    BY <1>1, <2>2, Reachable, PushStep
  <2>3. QED
    BY <1>10, <2>1, <2>2 DEF Pick
<1>11. CASE Roll
  <2>1. CASE Executes("ROLL") /\ Refuses("ROLL", "OUT_OF_BOUNDS")
    BY <1>4, <2>1, RefusalStep
  <2>2. CASE /\ Executes("ROLL") /\ Operand \in 0 .. Len(stack) - 1
             /\ stack' = Drop(Operand + 1)
                           \o SubSeq(stack, Len(stack) - Operand + 1, Len(stack))
                           \o <<Top(Operand)>>
             /\ Go /\ pc' = After("ROLL") /\ StackOnly
    <3>1. PICK n \in 0 .. Len(stack) - 1 : n = Operand
      BY <2>2
    <3>2. n \in Nat /\ n < Len(stack) /\ Top(n) \in Word
      BY Reachable
    <3>3. Drop(n + 1) \in Seq(Word) /\ Len(Drop(n + 1)) = Len(stack) - (n + 1)
      BY <1>1, <3>2, DropTyped
    <3>4. /\ SubSeq(stack, Len(stack) - n + 1, Len(stack)) \in Seq(Word)
          /\ Len(SubSeq(stack, Len(stack) - n + 1, Len(stack))) = n
      BY <1>1, <3>2
    <3>5. stack' = Drop(n + 1) \o SubSeq(stack, Len(stack) - n + 1, Len(stack)) \o <<Top(n)>>
      BY <2>2, <3>1
    <3>6. stack' \in Seq(Word) /\ Len(stack') = Len(stack)
      <4> DEFINE above == SubSeq(stack, Len(stack) - n + 1, Len(stack))
      <4>1. above \in Seq(Word) /\ Len(above) = n
        BY <3>4
      <4> HIDE DEF above
      <4>2. Drop(n + 1) \o above \in Seq(Word) /\ Len(Drop(n + 1) \o above) = Len(stack) - 1
        BY <1>1, <3>2, <3>3, <4>1
      <4>3. stack' = (Drop(n + 1) \o above) \o <<Top(n)>>
        BY <3>5 DEF above
      <4>4. QED
        BY <1>1, <3>2, <4>2, <4>3
    <3>7. QED
      BY <1>1, <1>5, <2>2, <3>6, Fetched, StackStep DEF Executes
  <2>3. QED
    BY <1>11, <2>1, <2>2 DEF Roll
<1>12. QED
  BY <1>6, <1>7, <1>8, <1>9, <1>10, <1>11

(* A comparison leaves 0 or 1.                                             *)
LEMMA TruthWord == ASSUME NEW p PROVE Truth(p) \in Word
BY DEF Truth, Word

(* The result of every binary instruction is a word.                       *)
LEMMA BinaryWord ==
  ASSUME NEW op \in BinaryOps, NEW a \in Word, NEW b \in Word, ~(op \in Divisions /\ b = 0)
  PROVE  Binary(op, a, b) \in Word
<1>1. a \in Int /\ b \in Int
  BY WordInt
<1>2. CASE op \in {"ADD", "SUB", "MUL"}
  <2>1. a + b \in Int /\ a - b \in Int /\ a * b \in Int
    BY <1>1
  <2>2. Wrap(a + b) \in Word /\ Wrap(a - b) \in Word /\ Wrap(a * b) \in Word
    BY <2>1, WrapWord
  <2>3. QED
    BY <1>2, <2>2 DEF Binary
<1>3. CASE op \in Divisions
  <2>1. CDiv(a, b) \in Int /\ CMod(a, b) \in Word
    BY <1>3, DivideWord
  <2>2. Wrap(CDiv(a, b)) \in Word
    BY <2>1, WrapWord
  <2>3. QED
    BY <1>3, <2>1, <2>2 DEF Binary, Divisions
<1>4. CASE op \in {"AND", "OR", "XOR"}
  BY <1>1, <1>4, BitwiseWord DEF Binary
<1>5. CASE op \in {"SHL", "SHR"}
  BY <1>1, <1>5, ShiftWord DEF Binary
<1>6. CASE op \in {"EQ", "NE", "LT", "GT", "LE", "GE"}
  BY <1>6, TruthWord DEF Binary
<1>7. QED
  BY <1>2, <1>3, <1>4, <1>5, <1>6 DEF BinaryOps, Divisions

(* So is the result of every unary one.                                    *)
LEMMA UnaryWord ==
  ASSUME NEW op \in UnaryOps, NEW a \in Word
  PROVE  Unary(op, a) \in Word
<1>1. a \in Int /\ -32768 <= a /\ a <= 32767
  BY WordInt, WordBounds
<1>2. Wrap(-a) \in Word
  <2>1. -a \in Int
    BY <1>1
  <2>2. QED
    BY <2>1, WrapWord
<1>3. -a - 1 \in Word
  <2>1. -a - 1 \in Int /\ -32768 <= -a - 1 /\ -a - 1 <= 32767
    BY <1>1
  <2>2. QED
    BY <2>1, WordBounds
<1>4. QED
  BY <1>2, <1>3, Zenon DEF Unary

(* A crash ends the run and the process; nothing else is looked at again.  *)
LEMMA DeathPreserves == ASSUME VMInv, running, Dies PROVE VMInv'
<1>1. /\ host = "started" /\ error = "OK" /\ host' = "crashed" /\ running' = FALSE
      /\ UNCHANGED <<program, pc, stack, call_stack, error, netvars>>
  BY DEF Dies, VMInv, StopIsExplained
<1>2. NetInv'
  BY <1>1, StutterPreserves DEF VMInv
<1>3. TypeOK'
  BY <1>1, <1>2 DEF VMInv, TypeOK, NetInv, WellFormed, Hosts
<1>4. QED
  BY <1>1, <1>2, <1>3 DEF VMInv, ReturnsFollowCalls, StopIsExplained, NoPacketLeak

(* Arithmetic, logic, shifts and comparisons, with their three endings.    *)
LEMMA ArithmeticInstructions ==
  ASSUME VMInv, BinaryOp \/ UnaryOp \/ DivideByZero \/ DivideTraps
  PROVE  VMInv'
<1>1. /\ \A op \in BinaryOps : pops(op) = 2
      /\ \A op \in UnaryOps : pops(op) = 1
      /\ Divisions \subseteq BinaryOps
  BY DEF pops, UnaryOps, BinaryOps, Divisions
<1>2. CASE BinaryOp
  <2>1. PICK op \in BinaryOps :
          /\ Executes(op) /\ ~(op \in Divisions /\ Top(0) = 0)
          /\ vm_push(Drop(2), Binary(op, Top(1), Top(0)))
          /\ pc' = After(op) /\ StackOnly
    BY <1>2 DEF BinaryOp
  <2>2. /\ Top(0) \in Word /\ Top(1) \in Word
        /\ Drop(2) \in Seq(Word) /\ Len(Drop(2)) <= STACK_SIZE
    BY <1>1, <2>1, Popped DEF Executes
  <2>3. Binary(op, Top(1), Top(0)) \in Word
    BY <2>1, <2>2, BinaryWord
  <2>4. QED
    BY <2>1, <2>2, <2>3, PushStep
<1>3. CASE UnaryOp
  <2>1. PICK op \in UnaryOps :
          /\ Executes(op) /\ vm_push(Drop(1), Unary(op, Top(0)))
          /\ pc' = After(op) /\ StackOnly
    BY <1>3 DEF UnaryOp
  <2>2. /\ Top(0) \in Word
        /\ Drop(1) \in Seq(Word) /\ Len(Drop(1)) <= STACK_SIZE
    BY <1>1, <2>1, Popped DEF Executes
  <2>3. Unary(op, Top(0)) \in Word
    BY <2>2, UnaryWord
  <2>4. QED
    BY <2>1, <2>2, <2>3, PushStep
<1>4. CASE DivideByZero
  <2>1. PICK op \in Divisions : Executes(op) /\ Refuses(op, "DIV_ZERO")
    BY <1>4 DEF DivideByZero
  <2>2. QED
    BY <2>1, RefusalStep DEF ZeusErrors
<1>5. CASE DivideTraps
  BY <1>5, DeathPreserves DEF DivideTraps, Crash, Executes, Fetches
<1>6. QED
  BY <1>2, <1>3, <1>4, <1>5

(* A jump target is an address, whatever the operand.                      *)
LEMMA JumpInstructions == ASSUME VMInv, Jump \/ Branch PROVE VMInv'
<1>1. stack \in Seq(Word) /\ Len(stack) <= STACK_SIZE
  BY DEF VMInv, TypeOK
<1>2. \A op \in {"JMP", "JZ", "JNZ"} : has_operand(op)
  BY DEF has_operand
<1>3. \A op \in {"JZ", "JNZ"} : pops(op) = 1
  BY DEF pops, UnaryOps, BinaryOps
<1>4. \A op \in {"JMP", "JZ", "JNZ"} :
         Executes(op) => running /\ After(op) \in Address /\ ToU32(Operand) \in Address
  BY <1>2, Fetched, WordInt, Casts DEF Executes
<1>5. Go => StatusAfter
  BY DEF StatusAfter
<1>6. CASE Jump
  BY <1>1, <1>4, <1>5, <1>6, StackStep DEF Jump
<1>7. CASE Branch
  <2>1. PICK op \in {"JZ", "JNZ"} :
          /\ Executes(op) /\ stack' = Drop(1) /\ Go
          /\ pc' = IF Taken(op) THEN ToU32(Operand) ELSE After(op)
          /\ StackOnly
    BY <1>7 DEF Branch
  <2>2. stack' \in Seq(Word) /\ Len(stack') <= STACK_SIZE
    BY <1>3, <2>1, Popped DEF Executes
  <2>3. running /\ pc' \in Address
    BY <1>4, <2>1
  <2>4. QED
    BY <1>5, <2>1, <2>2, <2>3, StackStep
<1>8. QED
  BY <1>6, <1>7

(* CALL stores an address that follows it, and RET only takes one away.    *)
LEMMA CallInstructions == ASSUME VMInv, Call \/ Return PROVE VMInv'
<1>1. stack \in Seq(Word) /\ Len(stack) <= STACK_SIZE
  BY DEF VMInv, TypeOK
<1>2. Go => StatusAfter
  BY DEF StatusAfter
<1>3. CASE Executes("CALL") /\ Refuses("CALL", "CALL_OVERFLOW")
  BY <1>3, RefusalStep DEF ZeusErrors
<1>4. CASE Executes("RET") /\ Refuses("RET", "CALL_UNDERFLOW")
  BY <1>4, RefusalStep DEF ZeusErrors
<1>5. CASE /\ Executes("CALL") /\ Len(call_stack) < CALL_SIZE
           /\ call_stack' = Append(call_stack, After("CALL"))
           /\ pc' = ToU32(Operand) /\ Go
           /\ UNCHANGED <<program, stack, memory, host, netvars>>
  <2>1. /\ running /\ has_operand("CALL") /\ Operand \in Word
        /\ program.code_len \in Address
        /\ After("CALL") \in Address /\ After("CALL") <= program.code_len
        /\ pc \in DOMAIN program.code /\ Mnemonic(program.code[pc]) = "CALL"
    BY <1>5, Fetched DEF Executes, has_operand
  <2>2. pc' \in Address
    BY <1>5, <2>1, WordInt, Casts
  <2>3. FollowsCall(After("CALL"))
    <3>1. After("CALL") - 1 - WordBytes = pc
      <4>1. pc \in Int
        BY WordInt DEF VMInv, TypeOK
      <4>2. QED
        BY <2>1, <4>1 DEF After, WordBytes
    <3>2. QED
      BY <2>1, <3>1, Zenon DEF FollowsCall
  <2>4. /\ call_stack \in Seq(Address) /\ \A i \in DOMAIN call_stack : FollowsCall(call_stack[i])
        /\ memory \in [0 .. MEMORY_SIZE - 1 -> Byte] /\ CALL_SIZE \in Nat
    BY <2>1, CallsTyped, VMLimits
  <2>5. call_stack' \in Seq(Address) /\ Len(call_stack') <= CALL_SIZE
    BY <1>5, <2>1, <2>4
  <2>6. \A i \in DOMAIN call_stack' : FollowsCall(call_stack'[i])
    BY <1>5, <2>1, <2>3, <2>4
  <2>7. NetInv'
    BY <1>5, StutterPreserves DEF VMInv
  <2>8. QED
    BY <1>1, <1>2, <1>5, <2>1, <2>2, <2>4, <2>5, <2>6, <2>7, MachineStep
<1>6. CASE /\ Executes("RET") /\ call_stack # <<>>
           /\ pc' = call_stack[Len(call_stack)]
           /\ call_stack' = SubSeq(call_stack, 1, Len(call_stack) - 1) /\ Go
           /\ UNCHANGED <<program, stack, memory, host, netvars>>
  <2>1. running
    BY <1>6, Fetched DEF Executes
  <2>2. /\ call_stack \in Seq(Address) /\ Len(call_stack) <= CALL_SIZE
        /\ \A i \in DOMAIN call_stack : FollowsCall(call_stack[i])
        /\ memory \in [0 .. MEMORY_SIZE - 1 -> Byte] /\ CALL_SIZE \in Nat
    BY <2>1, CallsTyped, VMLimits
  <2>3. pc' \in Address
    BY <1>6, <2>2
  <2>4. Len(call_stack) \in Nat /\ Len(call_stack) - 1 \in 0 .. Len(call_stack)
    BY <1>6, <2>2
  <2>5. /\ call_stack' \in Seq(Address) /\ Len(call_stack') = Len(call_stack) - 1
        /\ \A i \in 1 .. Len(call_stack) - 1 : i \in DOMAIN call_stack
                                               /\ call_stack'[i] = call_stack[i]
    BY <1>6, <2>2, <2>4, ShorterTyped, ZenonT(40)
  <2>6. \A i \in DOMAIN call_stack' : FollowsCall(call_stack'[i])
    BY <2>2, <2>5
  <2>7. Len(call_stack') <= CALL_SIZE
    BY <2>2, <2>4, <2>5
  <2>8. NetInv'
    BY <1>6, StutterPreserves DEF VMInv
  <2>9. QED
    BY <1>1, <1>2, <1>6, <2>1, <2>2, <2>3, <2>5, <2>6, <2>7, <2>8, MachineStep
<1>7. QED
  BY <1>3, <1>4, <1>5, <1>6 DEF Call, Return

(* The address of a load or store that was accepted, and what is there.    *)
LEMMA AccessTyped ==
  ASSUME VMInv, NEW op \in Loads \cup Stores, Executes(op)
  PROVE  /\ AddressOf(op) \in Address
         /\ InMemory(op) =>
              /\ memory[AddressOf(op)] \in Byte
              /\ Width(op) # 1 => memory[AddressOf(op) + 1] \in Byte
<1>1. running /\ memory \in [0 .. MEMORY_SIZE - 1 -> Byte] /\ MEMORY_SIZE \in Address
  BY VMLimits DEF VMInv, TypeOK, Executes, Fetches
<1>2. AddressOf(op) \in Address
  <2>1. CASE has_operand(op)
    <3>1. Operand \in Int
      BY <2>1, Fetched, WordInt DEF Executes
    <3>2. QED
      BY <2>1, <3>1, Casts DEF AddressOf
  <2>2. CASE ~has_operand(op)
    <3>1. 0 < pops(op)
      BY <2>2 DEF Loads, Stores, has_operand, pops, UnaryOps, BinaryOps
    <3>2. Top(0) \in Word
      BY <3>1, Popped DEF Executes
    <3>3. QED
      BY <2>2, <3>2, WordInt, Casts DEF AddressOf
  <2>3. QED
    BY <2>1, <2>2
<1>3. PICK a \in Address : a = AddressOf(op)
  BY <1>2
<1>4. ASSUME InMemory(op)
      PROVE  memory[a] \in Byte /\ (Width(op) # 1 => memory[a + 1] \in Byte)
  <2>1. a + Width(op) <= MEMORY_SIZE
    BY <1>3, <1>4 DEF InMemory, mem_ok
  <2>2. Width(op) \in {1, 2}
    BY DEF Width, WordBytes
  <2>3. a \in 0 .. MEMORY_SIZE - 1 /\ (Width(op) # 1 => a + 1 \in 0 .. MEMORY_SIZE - 1)
    BY <1>1, <2>1, <2>2, Offsets
  <2>4. QED
    BY <1>1, <2>3
<1>5. QED
  BY <1>2, <1>3, <1>4

(* The bytes of a store that was accepted, and where they go.              *)
LEMMA StoreTyped ==
  ASSUME VMInv, NEW op \in Stores, Executes(op)
  PROVE  /\ AddressOf(op) \in Int
         /\ StoredBytes(op) \in Seq(Byte) /\ Len(StoredBytes(op)) = Width(op)
         /\ InMemory(op) =>
              AddressOf(op) .. AddressOf(op) + Len(StoredBytes(op)) - 1
                \subseteq 0 .. MEMORY_SIZE - 1
<1>1. PICK a \in Address : a = AddressOf(op)
  BY AccessTyped
<1>2. Stored(op) \in Word
  <2>1. pops(op) \in 1 .. 2
    BY DEF Stores, pops, UnaryOps, BinaryOps
  <2>2. pops(op) - 1 \in 0 .. 2 /\ pops(op) - 1 < pops(op)
    BY <2>1
  <2>3. QED
    BY <2>2, Popped DEF Executes, Stored
<1>3. PICK v \in Word : v = Stored(op)
  BY <1>2
<1>4. PICK low \in Byte : low = v % 256
  BY WordInt, BytesOfWord
<1>5. StoredBytes(op) \in Seq(Byte) /\ Len(StoredBytes(op)) = Width(op)
  <2>1. CASE Width(op) = 1
    <3>1. StoredBytes(op) = <<low>>
      BY <1>3, <1>4, <2>1 DEF StoredBytes
    <3>2. QED
      BY <2>1, <3>1
  <2>2. CASE Width(op) # 1
    <3>1. StoredBytes(op) = word_bytes(v) /\ Width(op) = 2
      BY <1>3, <2>2 DEF StoredBytes, Width, WordBytes
    <3>2. QED
      BY <3>1, StoredWord
  <2>3. QED
    BY <2>1, <2>2
<1>6. a \in Nat /\ MEMORY_SIZE \in Nat /\ Width(op) \in {1, 2}
  BY VMLimits, WordInt DEF Width, WordBytes
<1>7. InMemory(op) => a + Width(op) <= MEMORY_SIZE
  BY <1>1 DEF InMemory, mem_ok
<1>8. QED
  BY <1>1, <1>5, <1>6, <1>7

(* Loads push a word, stores put bytes.                                    *)
LEMMA MemoryInstructions == ASSUME VMInv, Load \/ Store PROVE VMInv'
<1>1. CASE Load
  <2>1. PICK op \in Loads :
          /\ Executes(op)
          /\ \/ ~InMemory(op) /\ Refuses(op, "OUT_OF_BOUNDS")
             \/ /\ InMemory(op)
                /\ vm_push(Drop(pops(op)), IF Width(op) = 1 THEN ToI8(memory[AddressOf(op)])
                                           ELSE read_i64(memory, AddressOf(op)))
                /\ pc' = After(op) /\ StackOnly
    BY <1>1 DEF Load
  <2>2. CASE ~InMemory(op) /\ Refuses(op, "OUT_OF_BOUNDS")
    BY <2>1, <2>2, RefusalStep DEF ZeusErrors
  <2>3. CASE InMemory(op)
    <3>1. /\ memory[AddressOf(op)] \in Byte
          /\ Width(op) # 1 => memory[AddressOf(op) + 1] \in Byte
      BY <2>1, <2>3, AccessTyped
    <3>2. (IF Width(op) = 1 THEN ToI8(memory[AddressOf(op)])
           ELSE read_i64(memory, AddressOf(op))) \in Word
      BY <3>1, SignedByte, ReadWord, Zenon
    <3>3. Drop(pops(op)) \in Seq(Word) /\ Len(Drop(pops(op))) <= STACK_SIZE
      BY <2>1, Popped DEF Executes
    <3>4. QED
      BY <2>1, <2>3, <3>2, <3>3, PushStep
  <2>4. QED
    BY <2>1, <2>2, <2>3
<1>2. CASE Store
  <2>1. PICK op \in Stores :
          /\ Executes(op)
          /\ \/ ~InMemory(op) /\ Refuses(op, "OUT_OF_BOUNDS")
             \/ /\ InMemory(op)
                /\ memory' = write_bytes(memory, AddressOf(op), StoredBytes(op))
                /\ stack' = Drop(pops(op)) /\ Go /\ pc' = After(op)
                /\ UNCHANGED <<program, call_stack, host, netvars>>
    BY <1>2 DEF Store
  <2>2. CASE ~InMemory(op) /\ Refuses(op, "OUT_OF_BOUNDS")
    BY <2>1, <2>2, RefusalStep DEF ZeusErrors
  <2>3. CASE InMemory(op)
    <3>1. running /\ After(op) \in Address
      BY <2>1, Fetched DEF Executes
    <3>2. stack' \in Seq(Word) /\ Len(stack') <= STACK_SIZE
      BY <2>1, <2>3, Popped DEF Executes, Refuses
    <3>4. memory' \in [0 .. MEMORY_SIZE - 1 -> Byte]
      <4>1. memory \in [0 .. MEMORY_SIZE - 1 -> Byte] /\ MEMORY_SIZE \in Int
        BY <3>1, CallsTyped, VMLimits, WordInt
      <4>2. PICK base, bytes : base = AddressOf(op) /\ bytes = StoredBytes(op)
        OBVIOUS
      <4>3. /\ base \in Int /\ bytes \in Seq(Byte)
            /\ base .. base + Len(bytes) - 1 \subseteq 0 .. MEMORY_SIZE - 1
        BY <2>1, <2>3, <4>2, StoreTyped
      <4>4. QED
        BY <2>1, <2>3, <4>1, <4>2, <4>3, WriteBytes DEF Refuses, StackOnly
    <3>5. NetInv'
      BY <2>1, <2>3, StutterPreserves DEF VMInv
    <3>6. /\ call_stack' \in Seq(Address) /\ Len(call_stack') <= CALL_SIZE
          /\ \A i \in DOMAIN call_stack' : FollowsCall(call_stack'[i])
      BY <2>1, <2>3, <3>1, CallsTyped
    <3>7. QED
      BY <2>1, <2>3, <3>1, <3>2, <3>4, <3>5, <3>6, MachineStep DEF StatusAfter
  <2>4. QED
    BY <2>1, <2>2, <2>3
<1>3. QED
  BY <1>1, <1>2
-----------------------------------------------------------------------------
(* Input, sockets and packets.                                             *)

(* Every answer of a system call fits a word.                              *)
LEMMA AnswersFit ==
  /\ \A r \in Stdin \cup {-1} : r \in Word
  /\ \A r \in Sockets \cup {-1} : r \in Word
  /\ \A r \in {0, -1} : r \in Word
  /\ \A r \in -1 .. MEMORY_SIZE : r \in Word
  /\ \A r \in -1 .. SentBound : r \in Word
  /\ \A r \in -1 .. MAX_PACKET_SIZE : r \in Word
  /\ \A r \in Slots \cup {-1} : r \in Word
<1>1. -1 \in Word /\ 0 \in Word
  BY WordBounds
<1>2. \A m \in Address : (\A r \in -1 .. m : r \in Word) /\ (\A r \in -1 .. m + 1 : r \in Word)
  BY WordBounds DEF Address
<1>3. \A r \in Byte : r \in Word
  BY WordBounds DEF Byte
<1>4. \A r \in 0 .. 127 : r \in Word
  BY WordBounds
<1>5. Stdin \subseteq Byte /\ Sockets \subseteq 0 .. 127 /\ MEMORY_SIZE \in Address
  BY VMLimits
<1>6. MAX_PACKET_SIZE \in Address
  BY PacketLimits
<1>7. \A r \in Slots : r \in Word
  <2>1. MAX_PACKETS \in Int /\ MAX_PACKETS <= 32767
    BY VMLimits, WordInt, WordBounds
  <2>2. QED
    BY <2>1, WordBounds DEF Slots
<1>8. QED
  BY <1>1, <1>2, <1>3, <1>4, <1>5, <1>6, <1>7 DEF SentBound

(* Calls that answer a word and leave memory and the packets alone.        *)
LEMMA CallsOut ==
  ASSUME VMInv,
         Read \/ OpenSocket \/ BindListen \/ Accept \/ Connect \/ Close \/ BufferOutside
         \/ Send \/ ReceiveNothing
  PROVE  VMInv'
<1>1. stack \in Seq(Word) /\ Len(stack) <= STACK_SIZE
  BY DEF VMInv, TypeOK
<1>2. "OUT_OF_BOUNDS" \in ZeusErrors \ {"OK"}
  BY DEF ZeusErrors
<1>3. CASE Read
  BY <1>1, <1>3, AnswersFit, PushStep DEF Read
<1>4. CASE OpenSocket
  BY <1>1, <1>4, AnswersFit, PushStep DEF OpenSocket
<1>5. CASE BindListen
  BY <1>5, AnswersFit, AnswerStep DEF BindListen
<1>6. CASE Accept
  BY <1>6, AnswersFit, AnswerStep DEF Accept
<1>7. CASE Connect
  <2>1. CASE Executes("CONNECT") /\ Crash
    BY <2>1, DeathPreserves DEF Crash, Executes, Fetches
  <2>2. CASE Executes("CONNECT") /\ Refuses("CONNECT", "OUT_OF_BOUNDS")
    BY <1>2, <2>2, RefusalStep
  <2>3. CASE \E r \in {0, -1} : Answers("CONNECT", r) /\ StackOnly
    BY <2>3, AnswersFit, AnswerStep
  <2>4. QED
    BY <1>7, <2>1, <2>2, <2>3, Zenon DEF Connect
<1>8. CASE Close
  BY <1>8, AnswersFit, AnswerStep DEF Close
<1>9. CASE BufferOutside
  BY <1>2, <1>9, RefusalStep DEF BufferOutside
<1>10. CASE Send
  <2>1. CASE Executes("SEND") /\ Crash
    BY <2>1, DeathPreserves DEF Crash, Executes, Fetches
  <2>2. CASE \E r \in -1 .. SentBound : Answers("SEND", r) /\ StackOnly
    BY <2>2, AnswersFit, AnswerStep
  <2>3. QED
    BY <1>10, <2>1, <2>2, Zenon DEF Send
<1>11. CASE ReceiveNothing
  BY <1>11, AnswersFit, AnswerStep DEF ReceiveNothing
<1>12. QED
  BY <1>3, <1>4, <1>5, <1>6, <1>7, <1>8, <1>9, <1>10, <1>11

(* What arrives is copied inside memory, or the process is gone.           *)
LEMMA ReceivePreserves == ASSUME VMInv, Receive PROVE VMInv'
<1>1. PICK op \in {"RECV", "RAW_RECV"}, data \in Arrivals :
        /\ Executes(op)
        /\ memory' = write_bytes(memory, ToU32(Top(1)), data)
        /\ \/ /\ mem_ok(ToU32(Top(1)), Len(data))
              /\ Answers(op, Len(data))
              /\ UNCHANGED <<program, call_stack, host, netvars>>
           \/ Dies
  BY DEF Receive
<1>2. running
  BY <1>1 DEF Executes, Fetches
<1>3. CASE Dies
  BY <1>2, <1>3, DeathPreserves
<1>4. CASE /\ mem_ok(ToU32(Top(1)), Len(data))
           /\ Answers(op, Len(data))
           /\ UNCHANGED <<program, call_stack, host, netvars>>
  <2>1. memory \in [0 .. MEMORY_SIZE - 1 -> Byte]
    BY <1>2, CallsTyped
  <2>2. data \in Seq(Byte)
    BY VMLimits
  <2>3. pops(op) = 3
    BY DEF pops, UnaryOps, BinaryOps
  <2>4. PICK base \in Address : base = ToU32(Top(1))
    <3>1. Top(1) \in Word
      BY <1>1, <2>3, Popped DEF Executes
    <3>2. QED
      BY <3>1, WordInt, Casts
  <2>5. Len(data) \in Word
    <3>1. base \in Nat /\ MEMORY_SIZE \in Nat /\ Len(data) \in Nat
      BY <2>2, VMLimits, WordInt
    <3>2. base + Len(data) <= MEMORY_SIZE
      BY <1>4, <2>4 DEF mem_ok
    <3>3. Len(data) \in -1 .. MEMORY_SIZE
      BY <3>1, <3>2
    <3>4. QED
      BY <3>3, AnswersFit
  <2>6. memory' \in [0 .. MEMORY_SIZE - 1 -> Byte]
    <3>1. PICK n \in Nat : n = Len(data)
      BY <2>2
    <3>2. base \in Nat /\ MEMORY_SIZE \in Nat /\ base + n <= MEMORY_SIZE
      BY <1>4, <2>4, <3>1, VMLimits, WordInt DEF mem_ok
    <3>3. base .. base + n - 1 \subseteq 0 .. MEMORY_SIZE - 1
      BY <3>1, <3>2
    <3>4. QED
      BY <1>1, <2>1, <2>2, <2>4, <3>1, <3>2, <3>3, WriteBytes
  <2>7. stack' \in Seq(Word) /\ Len(stack') <= STACK_SIZE /\ StatusAfter
    BY <1>1, <1>4, <2>5, Popped, PushTyped DEF Executes, Answers
  <2>8. pc' \in Address
    BY <1>1, <1>4, Fetched DEF Executes, Answers
  <2>9. NetInv'
    BY <1>4, StutterPreserves DEF VMInv
  <2>10. /\ call_stack' \in Seq(Address) /\ Len(call_stack') <= CALL_SIZE
         /\ \A i \in DOMAIN call_stack' : FollowsCall(call_stack'[i])
    BY <1>2, <1>4, CallsTyped
  <2>11. QED
    BY <1>2, <1>4, <2>6, <2>7, <2>8, <2>9, <2>10, MachineStep
<1>5. QED
  BY <1>1, <1>3, <1>4

(* The copy of RAW_SET_PAYLOAD stays in memory.  Its bounds check sees the *)
(* length cut to 32 bits and the copy sees all of it; they agree because   *)
(* the length was first found to fit the packet.                           *)
LEMMA PayloadInMemory ==
  ASSUME VMInv, Executes("RAW_SET_PAYLOAD"), BufferInMemory,
         PayloadFitsSlot(Top(2), ToU64(Top(0)))
  PROVE  /\ ToU64(Top(0)) \in Nat /\ ToU32(Top(1)) \in Int
         /\ \A k \in 1 .. ToU64(Top(0)) : memory[ToU32(Top(1)) + k - 1] \in Byte
<1>1. pops("RAW_SET_PAYLOAD") = 3
  BY DEF pops, UnaryOps, BinaryOps
<1>2. Top(0) \in Int /\ Top(1) \in Int
  <2>1. Top(0) \in Word /\ Top(1) \in Word
    BY <1>1, Popped DEF Executes
  <2>2. QED
    BY <2>1, WordInt
<1>3. PICK len \in Nat : len = ToU64(Top(0))
  BY <1>2, Casts
<1>4. PICK base \in Address : base = ToU32(Top(1))
  BY <1>2, Casts
<1>5. len <= 255
  <2>1. packet_get(Top(2)) /\ len <= packets[Top(2)].size
    BY <1>3 DEF PayloadFitsSlot
  <2>2. packets[Top(2)] \in Packet
    BY <2>1, UsedSlot DEF VMInv
  <2>3. packets[Top(2)].size \in Address
    BY <2>2 DEF Packet
  <2>4. \A x \in Address : len <= x => len <= 255
    BY DEF Address
  <2>5. QED
    BY <2>1, <2>3, <2>4
<1>6. ToU32(Top(0)) = len
  BY <1>2, <1>3, <1>5 DEF ToU32, ToU64
<1>7. base + len <= MEMORY_SIZE
  BY <1>4, <1>6 DEF BufferInMemory, mem_ok
<1>8. \A k \in 1 .. len : base + k - 1 \in 0 .. MEMORY_SIZE - 1
  <2>1. base \in Nat /\ MEMORY_SIZE \in Nat
    BY VMLimits, WordInt
  <2>2. QED
    BY <1>7, <2>1
<1>9. memory \in [0 .. MEMORY_SIZE - 1 -> Byte]
  BY CallsTyped DEF Executes, Fetches
<1>10. \A k \in 1 .. len : memory[base + k - 1] \in Byte
  BY <1>8, <1>9
<1>11. QED
  BY <1>3, <1>4, <1>10, WordInt

(* The raw-packet instructions, by what NetPacketsProofs says of each call. *)
LEMMA PacketInstructions ==
  ASSUME VMInv,
         RawAlloc \/ RawRefused \/ RawFree \/ RawSetHeader \/ RawSetPayload \/ RawSend
  PROVE  VMInv'
<1>1. NetInv /\ 0 \in Word /\ -1 \in Word
  BY AnswersFit DEF VMInv
<1>2. CASE RawAlloc
  <2>1. PICK r \in Slots \cup {-1} :
          Answers("RAW_ALLOC", r) /\ zeus_net_packet_alloc(Top(0), r) /\ MachineOnly
    BY <1>2 DEF RawAlloc
  <2>2. pops("RAW_ALLOC") = 1
    BY DEF pops, UnaryOps, BinaryOps
  <2>3. Top(0) \in Int
    <3>1. Top(0) \in Word
      BY <2>1, <2>2, Popped DEF Answers, Executes
    <3>2. QED
      BY <3>1, WordInt
  <2>4. NetInv'
    BY <1>1, <2>1, <2>3, AllocPreserves
  <2>5. QED
    BY <2>1, <2>4, AnswersFit, PacketAnswerStep
<1>3. CASE RawRefused
  <2>1. PICK op : Answers(op, -1) /\ StackOnly
    BY <1>3, Zenon DEF RawRefused, Status
  <2>2. QED
    BY <1>1, <2>1, AnswerStep
<1>4. CASE RawFree
  <2>1. Answers("RAW_FREE", 0) /\ zeus_net_packet_free(Top(0)) /\ MachineOnly
    BY <1>4 DEF RawFree, Status
  <2>2. QED
    BY <1>1, <2>1, FreePreserves, PacketAnswerStep
<1>5. CASE RawSetHeader
  <2>1. PICK op \in {"RAW_SET_PROTO", "RAW_SET_DST", "RAW_SET_SRC"} :
          Answers(op, 0) /\ SetHeader(Top(1), Top(0)) /\ MachineOnly
    BY <1>5 DEF RawSetHeader, Status, SetHeader
  <2>2. pops(op) = 2
    BY DEF pops, UnaryOps, BinaryOps
  <2>3. Top(0) \in Int
    <3>1. Top(0) \in Word
      BY <2>1, <2>2, Popped DEF Answers, Executes
    <3>2. QED
      BY <3>1, WordInt
  <2>4. NetInv'
    BY <1>1, <2>1, <2>3, SetHeaderPreserves
  <2>5. QED
    BY <1>1, <2>1, <2>4, PacketAnswerStep
<1>6. CASE RawSetPayload
  <2>1. /\ Answers("RAW_SET_PAYLOAD", 0) /\ BufferInMemory /\ MachineOnly
        /\ zeus_net_packet_set_payload(Top(2), memory, ToU32(Top(1)), ToU64(Top(0)))
    BY <1>6 DEF RawSetPayload, Status
  <2>2. PayloadFitsSlot(Top(2), ToU64(Top(0))) /\ Executes("RAW_SET_PAYLOAD")
    BY <2>1 DEF zeus_net_packet_set_payload, Answers
  <2>3. NetInv'
    BY <1>1, <2>1, <2>2, PayloadInMemory, SetPayloadPreserves
  <2>4. QED
    BY <1>1, <2>1, <2>3, PacketAnswerStep
<1>7. CASE RawSend
  <2>1. CASE Executes("RAW_SEND") /\ Refuses("RAW_SEND", "OUT_OF_BOUNDS")
    BY <2>1, RefusalStep DEF ZeusErrors
  <2>2. ASSUME NEW r \in -1 .. MAX_PACKET_SIZE, Answers("RAW_SEND", r),
               zeus_net_packet_send(Top(1), r), MachineOnly
        PROVE  VMInv'
    <3>1. NetInv'
      BY <1>1, <2>2, SendPreserves
    <3>2. QED
      BY <2>2, <3>1, AnswersFit, PacketAnswerStep
  <2>3. QED
    BY <1>7, <2>1, <2>2 DEF RawSend
<1>8. QED
  BY <1>2, <1>3, <1>4, <1>5, <1>6, <1>7

(* Every instruction preserves the invariant.                              *)
LEMMA VMStep == ASSUME VMInv, zeus_vm_step PROVE VMInv'
BY FetchFailures, HaltPreserves, StackInstructions, ArithmeticInstructions, JumpInstructions,
   CallInstructions, MemoryInstructions, CallsOut, ReceivePreserves, PacketInstructions
   DEF zeus_vm_step
-----------------------------------------------------------------------------
(* The host.                                                               *)

(* A machine that zeus_vm_reset leaves is typed.                           *)
LEMMA ResetTyped ==
  ASSUME VMInv, NEW entry \in Address, NEW image \in [0 .. MEMORY_SIZE - 1 -> Byte],
         ResetTo(entry, image), host' \in Hosts, host' # "started", host' # "freed",
         host' # "failed" => WellFormed(program'), program'.entry_point \in Address, NetInv'
  PROVE  VMInv'
<1>1. /\ pc' = entry /\ stack' = <<>> /\ call_stack' = <<>> /\ memory' = image
      /\ error' = "OK" /\ running' = FALSE
  BY DEF ResetTo
<1>2. STACK_SIZE \in Nat /\ CALL_SIZE \in Nat
  BY VMLimits
<1>3. WellFormed(program') <=> WellFormed(program)'
  BY DEF WellFormed
<1>4. TypeOK'
  <2>1. /\ stack' \in Seq(Word) /\ Len(stack') <= STACK_SIZE
        /\ call_stack' \in Seq(Address) /\ Len(call_stack') <= CALL_SIZE
    BY <1>1, <1>2
  <2>2. NetTypeOK'
    BY DEF NetInv
  <2>3. /\ pc' \in Address /\ memory' \in [0 .. MEMORY_SIZE - 1 -> Byte]
        /\ error' \in ZeusErrors /\ running' \in BOOLEAN
    BY <1>1 DEF ZeusErrors
  <2>4. host' \in Hosts /\ (host' # "failed" => WellFormed(program)')
    BY <1>3
  <2>5. QED
    BY <2>1, <2>2, <2>3, <2>4 DEF TypeOK
<1>5. ReturnsFollowCalls'
  BY <1>1 DEF ReturnsFollowCalls
<1>6. StopIsExplained'
  BY <1>1 DEF StopIsExplained
<1>7. QED
  BY <1>1, <1>4, <1>5, <1>6 DEF VMInv, NoPacketLeak

(* The image of a machine without a program, and of one just loaded.       *)
LEMMA ImagesTyped ==
  /\ ZeroImage \in [0 .. MEMORY_SIZE - 1 -> Byte]
  /\ \A prog \in Programs : BootImage(prog) \in [0 .. MEMORY_SIZE - 1 -> Byte]
<1>1. ZeroImage \in [0 .. MEMORY_SIZE - 1 -> Byte]
  BY Words DEF ZeroImage
<1>2. ASSUME NEW prog \in Programs
      PROVE  BootImage(prog) \in [0 .. MEMORY_SIZE - 1 -> Byte]
  <2>1. prog.data_len \in Nat /\ prog.data \in [0 .. prog.data_len - 1 -> Byte]
    BY VMLimits DEF WellFormed
  <2>2. \A a \in 0 .. MEMORY_SIZE - 1 :
          (IF a < prog.data_len THEN prog.data[a] ELSE 0) \in Byte
    BY <2>1, Words
  <2>3. QED
    BY <2>2 DEF BootImage
<1>3. QED
  BY <1>1, <1>2

(* The program of a machine that was never loaded, or was freed.           *)
LEMMA NoProgramTyped ==
  ASSUME NEW entry \in Address
  PROVE  LET p == [NoProgram EXCEPT !.entry_point = entry]
         IN  WellFormed(p) /\ p.entry_point = entry
<1>1. <<>> \in [0 .. 0 - 1 -> Byte]
  OBVIOUS
<1>2. QED
  BY <1>1, Words DEF NoProgram, WellFormed

(* Loading and resetting clear the machine.                                *)
LEMMA ResetPreserves ==
  ASSUME VMInv, zeus_vm_reset \/ zeus_vm_init \/ \E prog \in Programs : zeus_vm_load(prog)
  PROVE  VMInv'
<1>1. CASE zeus_vm_reset
  <2>1. /\ host \in {"initialised", "loaded", "started"} /\ program' = program
        /\ host' \in {"initialised", "loaded"}
        /\ ResetTo(program.entry_point, ZeroImage) /\ UNCHANGED netvars
    BY <1>1 DEF zeus_vm_reset, CanCall
  <2>2. WellFormed(program) /\ program.entry_point \in Address
    BY <2>1 DEF VMInv, TypeOK
  <2>3. NetInv'
    BY <2>1, StutterPreserves DEF VMInv
  <2>4. QED
    BY <2>1, <2>2, <2>3, ImagesTyped, ResetTyped DEF Hosts
<1>2. CASE zeus_vm_init
  <2>1. /\ host' = "initialised" /\ program' = NoProgram /\ ResetTo(0, ZeroImage)
        /\ zeus_net_create /\ host = "freed"
    BY <1>2 DEF zeus_vm_init
  <2>2. WellFormed(NoProgram) /\ NoProgram.entry_point = 0
    <3>1. NoProgram = [NoProgram EXCEPT !.entry_point = 0]
      BY DEF NoProgram
    <3>2. QED
      BY <3>1, NoProgramTyped, Words
  <2>3. heap' \in [Blocks -> {NULL}]
    BY <2>1 DEF VMInv, NoPacketLeak, NetInv, NetTypeOK, zeus_net_create
  <2>4. NetInv'
    BY <2>1, <2>3, EmptyTables DEF VMInv, NetInv, zeus_net_create
  <2>5. QED
    BY <2>1, <2>2, <2>4, ImagesTyped, ResetTyped, Words DEF Hosts
<1>3. ASSUME NEW prog \in Programs, zeus_vm_load(prog) PROVE VMInv'
  <2>1. /\ program' = prog /\ ResetTo(prog.entry_point, BootImage(prog))
        /\ host' = "loaded" /\ UNCHANGED netvars
    BY <1>3 DEF zeus_vm_load
  <2>2. WellFormed(prog) /\ prog.entry_point \in Address
    BY VMLimits DEF WellFormed
  <2>3. NetInv'
    BY <2>1, StutterPreserves DEF VMInv
  <2>4. QED
    BY <2>1, <2>2, <2>3, ImagesTyped, ResetTyped DEF Hosts
<1>4. QED
  BY <1>1, <1>2, <1>3

(* A failed load leaves the machine with no host that can run it.          *)
LEMMA LoadFailsPreserves ==
  ASSUME VMInv, NEW prog \in Programs, LoadFails(prog)
  PROVE  VMInv'
<1>1. /\ ~running /\ host # "crashed" /\ host' = "failed"
      /\ UNCHANGED <<machine, netvars>>
  BY DEF LoadFails, CanCall
<1>2. program'.entry_point \in Address
  <2>1. prog.entry_point \in Address
    BY VMLimits DEF WellFormed
  <2>2. program'.entry_point = prog.entry_point
    <3>1. DOMAIN prog = {"entry_point", "code_len", "code", "data_len", "data"}
      BY VMLimits DEF WellFormed
    <3>2. QED
      BY <3>1 DEF LoadFails
  <2>3. QED
    BY <2>1, <2>2
<1>3. NetInv'
  BY <1>1, StutterPreserves DEF VMInv
<1>4. TypeOK'
  BY <1>1, <1>3 DEF VMInv, TypeOK, NetInv, Hosts, machine
<1>5. QED
  BY <1>1, <1>2, <1>3, <1>4
     DEF VMInv, ReturnsFollowCalls, StopIsExplained, NoPacketLeak, machine

(* A run starts with no error, and with the return addresses of none but   *)
(* the program it runs.                                                    *)
LEMMA RunPreserves == ASSUME VMInv, zeus_vm_run PROVE VMInv'
<1>1. /\ host \in {"initialised", "loaded", "started"}
      /\ running' = TRUE /\ error' = "OK" /\ host' = "started"
      /\ UNCHANGED <<program, pc, stack, call_stack, memory, netvars>>
  BY DEF zeus_vm_run, CanCall
<1>2. NetInv'
  BY <1>1, StutterPreserves DEF VMInv
<1>3. TypeOK'
  BY <1>1, <1>2 DEF VMInv, TypeOK, NetInv, Hosts, ZeusErrors, WellFormed
<1>4. ReturnsFollowCalls'
  <2>1. CASE host = "initialised"
    BY <1>1, <2>1 DEF VMInv, ReturnsFollowCalls
  <2>2. CASE host \in {"loaded", "started"}
    BY <1>1, <2>2 DEF VMInv, ReturnsFollowCalls, FollowsCall
  <2>3. QED
    BY <1>1, <2>1, <2>2
<1>5. QED
  BY <1>1, <1>2, <1>3, <1>4 DEF VMInv, StopIsExplained, NoPacketLeak

(* Freeing a machine frees every packet buffer.                            *)
LEMMA VMFreePreserves == ASSUME VMInv, zeus_vm_free PROVE VMInv'
<1>1. /\ ~running /\ host # "crashed" /\ host' = "freed"
      /\ zeus_net_destroy /\ UNCHANGED machine
      /\ program' = [NoProgram EXCEPT !.entry_point = program.entry_point]
  BY DEF zeus_vm_free
<1>2. NetInv'
  BY <1>1, DestroyPreserves DEF VMInv
<1>3. WellFormed(program') /\ program'.entry_point \in Address
  BY <1>1, NoProgramTyped DEF VMInv
<1>4. TypeOK'
  BY <1>1, <1>2, <1>3 DEF VMInv, TypeOK, NetInv, Hosts, machine, WellFormed
<1>5. NoPacketLeak'
  <2>1. packets' = <<>>
    BY <1>1 DEF zeus_net_destroy
  <2>2. \A b \in Blocks : Owners(b)' = {}
    BY <2>1 DEF Owners
  <2>3. QED
    BY <1>2, <2>2 DEF NetInv, BuffersOwned, NoPacketLeak
<1>6. QED
  BY <1>1, <1>2, <1>3, <1>4, <1>5
     DEF VMInv, ReturnsFollowCalls, StopIsExplained, machine

(* A step that changes nothing.                                            *)
LEMMA VMStutter == ASSUME VMInv, UNCHANGED vars PROVE VMInv'
<1>1. /\ UNCHANGED <<program, pc, stack, call_stack, memory, error, running, host>>
      /\ UNCHANGED netvars
  BY DEF vars, machine
<1>2. NetInv'
  BY <1>1, StutterPreserves DEF VMInv
<1>3. TypeOK'
  BY <1>1, <1>2 DEF VMInv, TypeOK, NetInv, WellFormed
<1>4. QED
  BY <1>1, <1>2, <1>3
     DEF VMInv, ReturnsFollowCalls, FollowsCall, StopIsExplained, StoppedAtHalt, NoPacketLeak,
         netvars
-----------------------------------------------------------------------------
(* A new machine satisfies the invariant.                                  *)
LEMMA VMInitInv == Init => VMInv
<1> SUFFICES ASSUME Init PROVE VMInv
  OBVIOUS
<1>1. /\ program = NoProgram /\ pc = 0 /\ stack = <<>> /\ call_stack = <<>>
      /\ memory = ZeroImage /\ error = "OK" /\ running = FALSE /\ host = "initialised"
  BY DEF Init
<1>2. NetInv
  BY NetInitInv DEF Init
<1>3. WellFormed(program) /\ program.entry_point \in Address
  <2>1. NoProgram = [NoProgram EXCEPT !.entry_point = 0]
    BY DEF NoProgram
  <2>2. QED
    BY <1>1, <2>1, NoProgramTyped, Words
<1>4. TypeOK
  <2>1. /\ stack \in Seq(Word) /\ Len(stack) <= STACK_SIZE
        /\ call_stack \in Seq(Address) /\ Len(call_stack) <= CALL_SIZE
    BY <1>1, VMLimits
  <2>2. /\ pc \in Address /\ memory \in [0 .. MEMORY_SIZE - 1 -> Byte]
        /\ error \in ZeusErrors /\ running \in BOOLEAN /\ host \in Hosts
    BY <1>1, ImagesTyped, Words DEF ZeusErrors, Hosts
  <2>3. QED
    BY <1>2, <1>3, <2>1, <2>2 DEF TypeOK, NetInv
<1>5. QED
  BY <1>1, <1>2, <1>3, <1>4 DEF VMInv, ReturnsFollowCalls, StopIsExplained, NoPacketLeak

(* Every step of the host or of the machine preserves it.                  *)
LEMMA VMNextInv == VMInv /\ [Next]_vars => VMInv'
BY VMStep, ResetPreserves, LoadFailsPreserves, RunPreserves, VMFreePreserves, VMStutter DEF Next

(* The invariant holds for every program and every size of the machine.    *)
THEOREM VMInvariant == Spec => []VMInv
BY VMInitInv, VMNextInv, PTL DEF Spec

(* Types: no instruction leaves its arrays or the width of its words, for  *)
(* any STACK_SIZE, CALL_SIZE and MEMORY_SIZE (vm_push, mem_ok, code_ok).   *)
THEOREM VMTypes == Spec => []TypeOK
<1>1. VMInv => TypeOK
  BY DEF VMInv
<1>2. QED
  BY <1>1, VMInvariant, PTL

(* RET goes back to just after a CALL of the loaded program (ZOP_CALL,     *)
(* ZOP_RET, zeus_vm_reset).                                                *)
THEOREM VMReturnsFollowCalls == Spec => []ReturnsFollowCalls
<1>1. VMInv => ReturnsFollowCalls
  BY DEF VMInv
<1>2. QED
  BY <1>1, VMInvariant, PTL

(* A run that ended without an error ended right after a HALT.             *)
THEOREM VMStopIsExplained == Spec => []StopIsExplained
<1>1. VMInv => StopIsExplained
  BY DEF VMInv
<1>2. QED
  BY <1>1, VMInvariant, PTL

(* zeus_vm_free leaves no packet buffer behind.                            *)
THEOREM VMNoPacketLeak == Spec => []NoPacketLeak
<1>1. VMInv => NoPacketLeak
  BY DEF VMInv
<1>2. QED
  BY <1>1, VMInvariant, PTL

(* The packet table of a running machine keeps the invariants of           *)
(* NetPackets, whatever the program does with its packets.                 *)
THEOREM VMPackets == Spec => [](BuffersOwned /\ PayloadFits)
<1>1. VMInv => BuffersOwned /\ PayloadFits
  BY DEF VMInv, NetInv
<1>2. QED
  BY <1>1, VMInvariant, PTL

-----------------------------------------------------------------------------
(* What a step of the machine leaves alone: an instruction that fails has   *)
(* consumed operands at most, bytes change only in the window of the        *)
(* instruction that changes them, and the packets of a program keep the     *)
(* promise of PacketStore from one machine to the next.                     *)

(* How an instruction can go, in terms of what it leaves alone.            *)

(* Only the stack, pc and the status; a failure pops and does no more.     *)
Quiet == /\ StackOnly
         /\ error' # error => \E n \in Nat : n <= Len(stack) /\ stack' = Drop(n)

(* No error, and the packets are as before.                                *)
Smooth == Go /\ UNCHANGED <<program, host, netvars>>

PacketCall == RawAlloc \/ RawFree \/ RawSetHeader \/ RawSetPayload \/ RawSend

Outcome == \/ Quiet
           \/ Crash
           \/ Dies /\ Receive
           \/ Smooth /\ (Call \/ Return) /\ UNCHANGED memory
           \/ Smooth /\ (Store \/ Receive) /\ UNCHANGED call_stack
           \/ Go /\ PacketCall /\ MachineOnly

(* A refusal is quiet.                                                     *)
LEMMA RefusalQuiet ==
  ASSUME VMInv, NEW op, Len(stack) >= pops(op), NEW e, Refuses(op, e)
  PROVE  Quiet
<1>1. pops(op) \in Nat /\ stack' = Drop(pops(op)) /\ StackOnly
  BY PopsNat DEF Refuses
<1>2. QED
  BY <1>1 DEF Quiet

(* A push onto what is left of the stack is quiet: refused, it leaves just *)
(* that.                                                                   *)
LEMMA PushQuiet ==
  ASSUME NEW n \in Nat, n <= Len(stack), NEW v, vm_push(Drop(n), v), StackOnly
  PROVE  Quiet
BY DEF vm_push, Quiet, Go

(* Nothing popped, nothing dropped.                                        *)
LEMMA WholeStack ==
  ASSUME VMInv
  PROVE  stack \in Seq(Word) /\ Len(stack) \in Nat /\ Len(stack) <= STACK_SIZE /\ Drop(0) = stack
<1>1. stack \in Seq(Word) /\ Len(stack) <= STACK_SIZE
  BY DEF VMInv, TypeOK
<1>2. QED
  BY <1>1 DEF Drop

LEMMA OnePushQuiet ==
  ASSUME VMInv, NEW v, vm_push(stack, v), StackOnly
  PROVE  Quiet
<1>1. vm_push(Drop(0), v) /\ 0 \in Nat /\ 0 <= Len(stack)
  BY WholeStack
<1>2. QED
  BY <1>1, PushQuiet

(* After a pop there is room: an answer in place of operands never fails.  *)
LEMMA AnswerGoes ==
  ASSUME VMInv, NEW op, NEW r, Answers(op, r), pops(op) > 0
  PROVE  Go
<1>1. pops(op) \in Nat /\ pops(op) <= Len(stack) /\ vm_push(Drop(pops(op)), r)
  BY PopsNat DEF Answers, Executes
<1>2. Len(Drop(pops(op))) = Len(stack) - pops(op)
  BY <1>1, WholeStack, DropTyped
<1>3. Len(Drop(pops(op))) < STACK_SIZE
  BY <1>1, <1>2, WholeStack, VMLimits
<1>4. STACK_SIZE \in Nat /\ Len(Drop(pops(op))) \in Nat
  BY <1>1, <1>2, WholeStack, VMLimits
<1>5. ~(Len(Drop(pops(op))) >= STACK_SIZE)
  BY <1>3, <1>4
<1>6. QED
  BY <1>1, <1>5 DEF vm_push

LEMMA AnswerQuiet ==
  ASSUME VMInv, NEW op, NEW r, Answers(op, r), StackOnly
  PROVE  Quiet
<1>1. pops(op) \in Nat /\ pops(op) <= Len(stack) /\ vm_push(Drop(pops(op)), r)
  BY PopsNat, WholeStack DEF Answers, Executes
<1>2. QED
  BY <1>1, PushQuiet

(* So is a step without an error that keeps to stack and pc.               *)
LEMMA GoQuiet == ASSUME Go, StackOnly PROVE Quiet
BY DEF Go, Quiet

-----------------------------------------------------------------------------
(* The instructions that only touch the stack, family by family.           *)
LEMMA FetchQuiet ==
  ASSUME VMInv, FetchOutOfBounds \/ MissingOperand \/ InvalidOpcode \/ StackUnderflow \/ Halt
  PROVE  Quiet
<1>1. Drop(0) = stack /\ Drop(Len(stack)) = <<>> /\ Len(stack) \in Nat
  BY WholeStack DEF Drop
<1>2. CASE FetchOutOfBounds \/ MissingOperand \/ Halt
  <2>1. StackOnly /\ stack' = stack
    BY <1>2 DEF FetchOutOfBounds, MissingOperand, Halt
  <2>2. QED
    BY <1>1, <2>1 DEF Quiet
<1>3. CASE InvalidOpcode
  <2>1. pops("INVALID") = 0
    BY DEF pops, UnaryOps, BinaryOps
  <2>2. Len(stack) >= pops("INVALID") /\ Refuses("INVALID", "INVALID_OPCODE")
    BY <1>1, <1>3, <2>1 DEF InvalidOpcode
  <2>3. QED
    BY <2>2, RefusalQuiet
<1>4. CASE StackUnderflow
  <2>1. StackOnly /\ stack' = <<>>
    BY <1>4 DEF StackUnderflow
  <2>2. QED
    BY <1>1, <2>1 DEF Quiet
<1>5. QED
  BY <1>2, <1>3, <1>4

LEMMA StackQuiet ==
  ASSUME VMInv, Push \/ Discard \/ Dup \/ Swap \/ Pick \/ Roll
  PROVE  Quiet
<1>1. pops("DUP") = 0 /\ pops("SWAP") = 0 /\ Len(stack) >= 0
  BY WholeStack DEF pops, UnaryOps, BinaryOps
<1>2. CASE Push
  BY <1>2, OnePushQuiet DEF Push
<1>3. CASE Discard
  BY <1>3, GoQuiet DEF Discard
<1>4. CASE Dup
  BY <1>1, <1>4, OnePushQuiet, RefusalQuiet DEF Dup, TooShallow
<1>5. CASE Swap
  BY <1>1, <1>5, GoQuiet, RefusalQuiet DEF Swap, TooShallow
<1>6. CASE Pick
  BY <1>6, OnePushQuiet, RefusalQuiet DEF Pick, Executes
<1>7. CASE Roll
  BY <1>7, GoQuiet, RefusalQuiet DEF Roll, Executes
<1>8. QED
  BY <1>2, <1>3, <1>4, <1>5, <1>6, <1>7

LEMMA ArithmeticQuiet ==
  ASSUME VMInv, BinaryOp \/ UnaryOp \/ DivideByZero \/ Jump \/ Branch \/ Load
  PROVE  Quiet
<1>1. CASE BinaryOp
  <2>1. PICK op \in BinaryOps : /\ Executes(op) /\ StackOnly
                                /\ vm_push(Drop(2), Binary(op, Top(1), Top(0)))
    BY <1>1, Zenon DEF BinaryOp
  <2>2. pops(op) = 2
    BY <2>1 DEF pops, UnaryOps, BinaryOps
  <2>3. 2 \in Nat /\ 2 <= Len(stack)
    BY <2>1, <2>2, WholeStack DEF Executes
  <2>4. QED
    BY <2>1, <2>3, PushQuiet
<1>2. CASE UnaryOp
  <2>1. PICK op \in UnaryOps : /\ Executes(op) /\ StackOnly
                               /\ vm_push(Drop(1), Unary(op, Top(0)))
    BY <1>2, Zenon DEF UnaryOp
  <2>2. pops(op) = 1
    BY <2>1 DEF pops, UnaryOps, BinaryOps
  <2>3. 1 \in Nat /\ 1 <= Len(stack)
    BY <2>1, <2>2, WholeStack DEF Executes
  <2>4. QED
    BY <2>1, <2>3, PushQuiet
<1>3. CASE DivideByZero
  BY <1>3, RefusalQuiet DEF DivideByZero, Executes
<1>4. CASE Jump \/ Branch
  BY <1>4, GoQuiet DEF Jump, Branch
<1>5. CASE Load
  <2>1. PICK op \in Loads : Executes(op) /\ (\/ Refuses(op, "OUT_OF_BOUNDS")
                                             \/ \E v : vm_push(Drop(pops(op)), v) /\ StackOnly)
    BY <1>5, Zenon DEF Load
  <2>2. Len(stack) >= pops(op) /\ pops(op) \in Nat /\ pops(op) <= Len(stack)
    BY <2>1, PopsNat, WholeStack DEF Executes
  <2>3. QED
    BY <2>1, <2>2, RefusalQuiet, PushQuiet
<1>6. QED
  BY <1>1, <1>2, <1>3, <1>4, <1>5

LEMMA CallOutQuiet ==
  ASSUME VMInv, Read \/ OpenSocket \/ BindListen \/ Accept \/ Connect \/ Close
                \/ BufferOutside \/ Send \/ ReceiveNothing \/ RawRefused
  PROVE  Quiet \/ Crash
<1>1. CASE Read \/ OpenSocket
  BY <1>1, OnePushQuiet DEF Read, OpenSocket
<1>2. CASE BindListen \/ Accept \/ Close
  BY <1>2, AnswerQuiet DEF BindListen, Accept, Close
<1>3. CASE Connect
  BY <1>3, AnswerQuiet, RefusalQuiet DEF Connect, Executes
<1>4. CASE BufferOutside
  BY <1>4, RefusalQuiet DEF BufferOutside, Executes
<1>5. CASE Send \/ ReceiveNothing
  BY <1>5, AnswerQuiet DEF Send, ReceiveNothing
<1>6. CASE RawRefused
  <2>1. PICK op : Answers(op, -1) /\ StackOnly
    BY <1>6, Zenon DEF RawRefused, Status
  <2>2. QED
    BY <2>1, AnswerQuiet
<1>7. QED
  BY <1>1, <1>2, <1>3, <1>4, <1>5, <1>6

-----------------------------------------------------------------------------
(* The others change one thing more and do not fail.                       *)
LEMMA CallOutcome ==
  ASSUME VMInv, Call \/ Return
  PROVE  Outcome
<1>1. pops("CALL") = 0 /\ pops("RET") = 0 /\ Len(stack) >= 0
  BY WholeStack DEF pops, UnaryOps, BinaryOps
<1>2. CASE Refuses("CALL", "CALL_OVERFLOW") \/ Refuses("RET", "CALL_UNDERFLOW")
  BY <1>1, <1>2, RefusalQuiet DEF Outcome
<1>3. CASE Go /\ UNCHANGED <<program, stack, memory, host, netvars>>
  BY <1>3 DEF Outcome, Smooth
<1>4. QED
  BY <1>2, <1>3 DEF Call, Return

LEMMA StoreOutcome ==
  ASSUME VMInv, Store
  PROVE  Outcome
<1>1. PICK op \in Stores :
        /\ Executes(op)
        /\ \/ Refuses(op, "OUT_OF_BOUNDS")
           \/ Go /\ UNCHANGED <<program, call_stack, host, netvars>>
  BY Zenon DEF Store
<1>2. CASE Refuses(op, "OUT_OF_BOUNDS")
  BY <1>1, <1>2, RefusalQuiet DEF Outcome, Executes
<1>3. CASE Go /\ UNCHANGED <<program, call_stack, host, netvars>>
  BY <1>3 DEF Outcome, Smooth
<1>4. QED
  BY <1>1, <1>2, <1>3

LEMMA ReceiveOutcome ==
  ASSUME VMInv, Receive
  PROVE  Outcome
<1>1. PICK op \in {"RECV", "RAW_RECV"}, data \in Arrivals :
        \/ Answers(op, Len(data)) /\ UNCHANGED <<program, call_stack, host, netvars>>
        \/ Dies
  BY Zenon DEF Receive
<1>2. CASE Answers(op, Len(data)) /\ UNCHANGED <<program, call_stack, host, netvars>>
  <2>1. pops(op) > 0
    BY DEF pops, UnaryOps, BinaryOps
  <2>2. Go
    BY <1>2, <2>1, AnswerGoes
  <2>3. QED
    BY <1>2, <2>2 DEF Outcome, Smooth
<1>3. QED
  BY <1>1, <1>2 DEF Outcome

LEMMA PacketOutcome ==
  ASSUME VMInv, RawAlloc \/ RawFree \/ RawSetHeader \/ RawSetPayload \/ RawSend
  PROVE  Outcome
<1>1. \A op \in {"RAW_ALLOC", "RAW_FREE", "RAW_SET_PROTO", "RAW_SET_DST", "RAW_SET_SRC",
                 "RAW_SET_PAYLOAD", "RAW_SEND"} : pops(op) > 0
  BY DEF pops, UnaryOps, BinaryOps
<1>2. CASE Executes("RAW_SEND") /\ Refuses("RAW_SEND", "OUT_OF_BOUNDS")
  BY <1>2, RefusalQuiet DEF Outcome, Executes
<1>3. CASE \E op \in {"RAW_ALLOC", "RAW_FREE", "RAW_SET_PROTO", "RAW_SET_DST", "RAW_SET_SRC",
                      "RAW_SET_PAYLOAD", "RAW_SEND"} : \E r : Answers(op, r) /\ MachineOnly
  BY <1>1, <1>3, AnswerGoes DEF Outcome, PacketCall
<1>4. QED
  BY <1>2, <1>3, Zenon DEF RawAlloc, RawFree, RawSetHeader, RawSetPayload, RawSend, Status

(* Only a running machine takes a step, and it takes one of these.         *)
LEMMA StepRuns == ASSUME zeus_vm_step PROVE running
<1>1. \A op : (Fetches(op) => running) /\ (Executes(op) => running)
  BY DEF Fetches, Executes
<1>2. \A op, r : Answers(op, r) => running
  BY <1>1 DEF Answers
<1>3. CASE FetchOutOfBounds \/ MissingOperand \/ InvalidOpcode \/ StackUnderflow \/ Halt \/ Push
           \/ Discard \/ Dup \/ Swap \/ Pick \/ Roll
  BY <1>1, <1>3, Zenon DEF FetchOutOfBounds, MissingOperand, InvalidOpcode, StackUnderflow, Halt,
     Push, Discard, Dup, Swap, Pick, Roll, TooShallow
<1>4. CASE BinaryOp \/ UnaryOp \/ DivideByZero \/ Jump \/ Branch \/ Call \/ Return \/ Load \/ Store
  BY <1>1, <1>4, Zenon DEF BinaryOp, UnaryOp, DivideByZero, Jump, Branch, Call, Return, Load, Store
<1>5. CASE Read \/ OpenSocket \/ BindListen \/ Accept \/ Connect \/ Close \/ BufferOutside \/ Send
           \/ ReceiveNothing \/ Receive
  <2>1. CASE Connect
    BY <1>1, <2>1 DEF Connect
  <2>2. CASE Send
    BY <1>1, <2>2 DEF Send
  <2>3. CASE Receive
    BY <1>1, <2>3, Zenon DEF Receive
  <2>4. CASE Read \/ OpenSocket \/ BindListen \/ Accept \/ Close \/ BufferOutside \/ ReceiveNothing
    BY <1>1, <1>2, <2>4, Zenon DEF Read, OpenSocket, BindListen, Accept, Close,
       BufferOutside, ReceiveNothing
  <2>5. QED
    BY <1>5, <2>1, <2>2, <2>3, <2>4
<1>6. CASE RawAlloc \/ RawRefused \/ RawFree \/ RawSetHeader \/ RawSetPayload \/ RawSend
  BY <1>1, <1>2, <1>6, Zenon DEF RawAlloc, RawRefused, RawFree, RawSetHeader, RawSetPayload,
     RawSend, Status
<1>7. CASE DivideTraps
  BY <1>1, <1>7 DEF DivideTraps
<1>8. QED
  BY <1>3, <1>4, <1>5, <1>6, <1>7 DEF zeus_vm_step

LEMMA StepOutcome == ASSUME VMInv, zeus_vm_step PROVE Outcome
<1>1. DivideTraps => Outcome
  BY DEF DivideTraps, Outcome
<1>2. Quiet \/ Crash => Outcome
  BY DEF Outcome
<1>3. QED
  BY <1>1, <1>2, FetchQuiet, StackQuiet, ArithmeticQuiet, CallOutQuiet, CallOutcome, StoreOutcome,
     ReceiveOutcome, PacketOutcome DEF zeus_vm_step

-----------------------------------------------------------------------------
(* What is left after pops is a prefix of what was there.                  *)
LEMMA DropIsPrefix ==
  ASSUME VMInv, NEW n \in Nat, n <= Len(stack)
  PROVE  IsPrefix(Drop(n), stack)
<1>1. PICK m \in Nat : m = Len(stack) - n /\ m <= Len(stack) /\ stack \in Seq(Word)
  BY WholeStack
<1>2. Drop(n) = SubSeq(stack, 1, m) /\ Len(SubSeq(stack, 1, m)) = m
  BY <1>1 DEF Drop
<1>3. SubSeq(SubSeq(stack, 1, m), 1, m) = SubSeq(stack, 1, m)
  BY <1>1
<1>4. QED
  BY <1>1, <1>2, <1>3 DEF IsPrefix

(* An instruction that fails has consumed operands at most (the error      *)
(* paths of zeus_vm_step).                                                 *)
LEMMA FailureStep ==
  ASSUME VMInv, [Next]_vars, running, error' # "OK"
  PROVE  /\ UNCHANGED <<program, call_stack, memory, netvars>>
         /\ IsPrefix(stack', stack)
<1>1. error = "OK" /\ host = "started"
  BY DEF VMInv, StopIsExplained
<1>2. zeus_vm_step
  BY <1>1 DEF Next, vars, machine, CanCall, zeus_vm_load, LoadFails, zeus_vm_reset, zeus_vm_run,
     zeus_vm_free, zeus_vm_init
<1>3. error' # error
  BY <1>1
<1>4. ~Go /\ ~Crash /\ ~Dies
  BY <1>3 DEF Go, Crash, Dies
<1>5. Quiet
  BY <1>2, <1>4, StepOutcome DEF Outcome, Smooth
<1>6. PICK n \in Nat : n <= Len(stack) /\ stack' = Drop(n)
  BY <1>3, <1>5 DEF Quiet
<1>7. QED
  BY <1>5, <1>6, DropIsPrefix DEF Quiet, StackOnly

(* For every program: a failed instruction leaves memory, the call stack,  *)
(* the packets and what is below its operands alone.                       *)
THEOREM VMFailureIsContained == Spec => FailureIsContained
<1>1. VMInv /\ [Next]_vars =>
        [running /\ error' # "OK" => /\ UNCHANGED <<program, call_stack, memory, netvars>>
                                     /\ IsPrefix(stack', stack)]_vars
  BY FailureStep
<1>2. QED
  BY <1>1, VMInvariant, PTL DEF Spec, FailureIsContained

-----------------------------------------------------------------------------
(* A word that is an address is not cut.                                   *)
LEMMA AddressKept ==
  ASSUME NEW x \in Int
  PROVE  /\ x \in Address => ToU32(x) = x /\ ToU64(x) = x
         /\ ToU64(x) \in Address => ToU32(x) = ToU64(x)
BY DEF Address, ToU32, ToU64

(* Where a store starts and ends, and where a receive does.                *)
LEMMA StoreNames ==
  ASSUME VMInv, NEW op \in Stores, Executes(op)
  PROVE  /\ NamedLength(op) = Width(op) /\ NamedStart(op) \in Int
         /\ NamedStart(op) \in Address => AddressOf(op) = NamedStart(op)
<1>1. NamedLength(op) = Width(op)
  BY DEF NamedLength, Loads, Stores
<1>2. NamedStart(op) = IF has_operand(op) THEN Operand ELSE Top(0)
  BY DEF NamedStart, Stores, BufferOps
<1>3. AddressOf(op) = ToU32(NamedStart(op))
  BY <1>2 DEF AddressOf
<1>4. NamedStart(op) \in Int
  <2>1. CASE has_operand(op)
    BY <1>2, <2>1, Fetched, WordInt DEF Executes
  <2>2. CASE ~has_operand(op)
    <3>1. 0 < pops(op)
      BY DEF Stores, pops, UnaryOps, BinaryOps
    <3>2. Top(0) \in Word
      BY <3>1, Popped DEF Executes
    <3>3. QED
      BY <1>2, <2>2, <3>2, WordInt
  <2>3. QED
    BY <2>1, <2>2
<1>5. QED
  BY <1>1, <1>3, <1>4, AddressKept

LEMMA ReceiveNames ==
  ASSUME VMInv, NEW op \in {"RECV", "RAW_RECV"}, Executes(op)
  PROVE  /\ NamedStart(op) = Top(1) /\ NamedLength(op) = ToU64(Top(0))
         /\ Top(0) \in Int /\ Top(1) \in Int
<1>1. NamedStart(op) = Top(1) /\ NamedLength(op) = ToU64(Top(0))
  BY DEF NamedStart, NamedLength, has_operand, BufferOps, Loads, Stores
<1>2. pops(op) = 3
  BY DEF pops, UnaryOps, BinaryOps
<1>3. Top(0) \in Word /\ Top(1) \in Word
  BY <1>2, Popped DEF Executes
<1>4. QED
  BY <1>1, <1>3, WordInt

(* A write is in its window if what is written is what was named and what  *)
(* was checked is where it was written.                                    *)
InWindow(op) ==
  /\ op \in Stores \cup {"RECV", "RAW_RECV"}
  /\ NamedStart(op) \in Address => Written \subseteq Named(op)
  /\ NamedLength(op) \in Address => Written \subseteq 0 .. MEMORY_SIZE - 1

(* A store changes the bytes of its width, at the address it names.        *)
LEMMA StoreWindow ==
  ASSUME VMInv, Store, memory' # memory
  PROVE  InWindow(Mnemonic(program.code[pc]))
<1>1. PICK op \in Stores :
        /\ Executes(op) /\ InMemory(op)
        /\ memory' = write_bytes(memory, AddressOf(op), StoredBytes(op))
  BY Zenon DEF Store, Refuses, StackOnly
<1>2. op = Mnemonic(program.code[pc]) /\ running
  BY <1>1, Fetched DEF Executes
<1>3. DOMAIN memory = 0 .. MEMORY_SIZE - 1 /\ DOMAIN memory \subseteq Int
  BY <1>2, CallsTyped, VMLimits, WordInt
<1>4. PICK base, bytes : base = AddressOf(op) /\ bytes = StoredBytes(op)
  OBVIOUS
<1>5. /\ base \in Int /\ bytes \in Seq(Byte) /\ Len(bytes) = Width(op)
      /\ base .. base + Len(bytes) - 1 \subseteq 0 .. MEMORY_SIZE - 1
  BY <1>1, <1>4, StoreTyped
<1>6. Written \subseteq base .. base + Len(bytes) - 1
  BY <1>1, <1>3, <1>4, <1>5, WrittenBytes DEF Written
<1>7. NamedStart(op) \in Address => Named(op) = base .. base + Len(bytes) - 1
  BY <1>1, <1>4, <1>5, StoreNames DEF Named
<1>8. QED
  BY <1>2, <1>5, <1>6, <1>7 DEF InWindow

(* A receive changes the bytes that arrived, no more than were asked for,  *)
(* from the pointer on; the check of the whole buffer keeps them in memory *)
(* when its length is not cut.                                             *)
LEMMA ReceiveWindow ==
  ASSUME VMInv, Receive, memory' # memory
  PROVE  InWindow(Mnemonic(program.code[pc]))
<1>1. PICK op \in {"RECV", "RAW_RECV"}, data \in Arrivals :
        /\ Executes(op) /\ BufferInMemory /\ Len(data) <= ToU64(Top(0))
        /\ memory' = write_bytes(memory, ToU32(Top(1)), data)
  BY Zenon DEF Receive
<1>2. op = Mnemonic(program.code[pc]) /\ running
  BY <1>1, Fetched DEF Executes
<1>3. DOMAIN memory = 0 .. MEMORY_SIZE - 1 /\ DOMAIN memory \subseteq Int
  BY <1>2, CallsTyped, VMLimits, WordInt
<1>4. /\ NamedStart(op) = Top(1) /\ NamedLength(op) = ToU64(Top(0))
      /\ Top(0) \in Int /\ Top(1) \in Int
  BY <1>1, ReceiveNames
<1>5. PICK base \in Nat, len \in Nat : base = ToU32(Top(1)) /\ len = ToU64(Top(0))
  BY <1>4 DEF ToU32, ToU64
<1>6. data \in Seq(Byte) /\ Len(data) \in Nat /\ Len(data) <= len
  BY <1>1, <1>5, VMLimits
<1>7. Written \subseteq base .. base + Len(data) - 1
  <2>1. base \in Int /\ DOMAIN memory \subseteq Int
    BY <1>3
  <2>2. PICK after : after = memory' /\ after = write_bytes(memory, base, data)
    BY <1>1, <1>5
  <2>3. \A a \in DOMAIN after :
          a \notin DOMAIN memory \/ after[a] # memory[a] => a \in base .. base + Len(data) - 1
    BY <1>6, <2>1, <2>2, WrittenBytes, Zenon
  <2>4. QED
    BY <2>2, <2>3, Zenon DEF Written
<1>8. NamedStart(op) \in Address => Named(op) = base .. base + len - 1
  BY <1>4, <1>5, AddressKept DEF Named
<1>9. NamedLength(op) \in Address => base + len <= MEMORY_SIZE
  BY <1>1, <1>4, <1>5, AddressKept DEF BufferInMemory, mem_ok
<1>10. base .. base + Len(data) - 1 \subseteq base .. base + len - 1
  BY <1>5, <1>6
<1>11. base + len <= MEMORY_SIZE => base .. base + Len(data) - 1 \subseteq 0 .. MEMORY_SIZE - 1
  BY <1>5, <1>6, VMLimits, WordInt
<1>12. QED
  BY <1>1, <1>2, <1>7, <1>8, <1>9, <1>10, <1>11 DEF InWindow

(* Bytes change only in the window of the store or receive that changes    *)
(* them (mem_ok, and the copies of zeus_net_recv).                         *)
LEMMA WindowStep ==
  ASSUME VMInv, [Next]_vars, running, memory' # memory
  PROVE  InWindow(Mnemonic(program.code[pc]))
<1>1. host = "started"
  BY DEF VMInv
<1>2. zeus_vm_step
  BY <1>1 DEF Next, vars, machine, CanCall, zeus_vm_load, LoadFails, zeus_vm_reset, zeus_vm_run,
     zeus_vm_free, zeus_vm_init
<1>3. Store \/ Receive
  BY <1>2, StepOutcome DEF Outcome, Quiet, StackOnly, Crash, Dies, MachineOnly
<1>4. QED
  BY <1>3, StoreWindow, ReceiveWindow

(* For every program and every answer of recv: only stores and receives    *)
(* change bytes, only those the program named if their address fits 32     *)
(* bits, and none beyond memory if their number does.                      *)
THEOREM VMWritesStayInWindow == Spec => WritesStayInWindow
<1>1. VMInv /\ [Next]_vars =>
        [running /\ memory' # memory =>
           LET op == Mnemonic(program.code[pc])
           IN  /\ op \in Stores \cup {"RECV", "RAW_RECV"}
               /\ NamedStart(op) \in Address => Written \subseteq Named(op)
               /\ NamedLength(op) \in Address => Written \subseteq 0 .. MEMORY_SIZE - 1]_vars
  BY WindowStep DEF InWindow
<1>2. QED
  BY <1>1, VMInvariant, PTL DEF Spec, WritesStayInWindow

-----------------------------------------------------------------------------
(* The documented stack effect, instruction by instruction.                *)

(* Instructions that leave a word in place of their operands, and those    *)
(* that just take them.                                                    *)
Pushers == BinaryOps \cup UnaryOps
             \cup {"PUSH", "DUP", "PICK", "LOAD", "LOADB", "LOADI", "LOADBI", "READ", "SOCK_TCP",
                   "SOCK_UDP", "BIND", "LISTEN", "ACCEPT", "CONNECT", "CLOSE", "SEND", "RECV",
                   "RAW_ALLOC", "RAW_FREE", "RAW_SET_PROTO", "RAW_SET_DST", "RAW_SET_SRC",
                   "RAW_SET_PAYLOAD", "RAW_SEND", "RAW_RECV"}
Takers  == {"POP", "PRINT", "PRINTC", "JMP", "JZ", "JNZ", "CALL", "RET", "STORE", "STOREB",
            "STOREI", "STOREBI", "HALT"}

LEMMA PusherEffect ==
  ASSUME NEW op \in Pushers
  PROVE  DocumentedEffect(op) = 1 - pops(op) /\ Reach(op) = pops(op)
<1>1. Reach(op) = pops(op)
  BY DEF Reach, Pushers, BinaryOps, UnaryOps
<1>2. CASE op \in {"PUSH", "DUP", "PICK", "LOAD", "LOADB", "READ", "SOCK_TCP", "SOCK_UDP"}
  <2>1. pops(op) = 0
    BY <1>2 DEF pops, BinaryOps, UnaryOps
  <2>2. DocumentedEffect(op) = 1
    BY <1>2 DEF DocumentedEffect, stack_delta, BinaryOps, UnaryOps
  <2>3. QED
    BY <1>1, <2>1, <2>2
<1>3. CASE op \in UnaryOps \cup {"LOADI", "LOADBI", "ACCEPT", "CLOSE", "RAW_ALLOC", "RAW_FREE"}
  <2>1. pops(op) = 1
    BY <1>3 DEF pops, BinaryOps, UnaryOps
  <2>2. DocumentedEffect(op) = 0
    BY <1>3 DEF DocumentedEffect, stack_delta, BinaryOps, UnaryOps
  <2>3. QED
    BY <1>1, <2>1, <2>2
<1>4. CASE op \in BinaryOps \cup {"BIND", "LISTEN", "RAW_SET_PROTO", "RAW_SET_DST", "RAW_SET_SRC",
                              "RAW_SEND"}
  <2>1. pops(op) = 2
    BY <1>4 DEF pops, BinaryOps, UnaryOps
  <2>2. DocumentedEffect(op) = -1
    BY <1>4 DEF DocumentedEffect, stack_delta, BinaryOps, UnaryOps
  <2>3. QED
    BY <1>1, <2>1, <2>2
<1>5. CASE op \in {"CONNECT", "SEND", "RECV", "RAW_SET_PAYLOAD", "RAW_RECV"}
  <2>1. pops(op) = 3
    BY <1>5 DEF pops, BinaryOps, UnaryOps
  <2>2. DocumentedEffect(op) = -2
    BY <1>5 DEF DocumentedEffect, stack_delta, BinaryOps, UnaryOps
  <2>3. QED
    BY <1>1, <2>1, <2>2
<1>6. QED
  BY <1>2, <1>3, <1>4, <1>5 DEF Pushers

LEMMA TakerEffect ==
  ASSUME NEW op \in Takers
  PROVE  DocumentedEffect(op) = 0 - pops(op) /\ Reach(op) = pops(op)
BY DEF DocumentedEffect, stack_delta, Reach, Takers, pops, BinaryOps, UnaryOps

(* How an instruction that succeeds leaves the stack.                      *)
Disciplined == LET op == Mnemonic(program.code[pc])
               IN  /\ Len(stack') = Len(stack) + DocumentedEffect(op)
                   /\ IsPrefix(Drop(Reach(op)), stack')

(* A word pushed on what is left of the stack.                             *)
LEMMA PushDisciplined ==
  ASSUME VMInv, error' = "OK", NEW op \in Pushers, Executes(op), NEW v,
         vm_push(Drop(pops(op)), v)
  PROVE  Disciplined
<1>1. op = Mnemonic(program.code[pc])
  BY Fetched DEF Executes
<1>2. PICK n \in Nat : n = pops(op) /\ n <= Len(stack)
  BY PopsNat, WholeStack DEF Executes
<1>3. PICK rest : rest = Drop(n)
  OBVIOUS
<1>4. rest \in Seq(Word) /\ Len(rest) = Len(stack) - n
  BY <1>2, <1>3, WholeStack, DropTyped
<1>5. stack' = Append(rest, v)
  BY <1>2, <1>3 DEF vm_push, Stop
<1>6. Len(stack') = Len(rest) + 1 /\ SubSeq(stack', 1, Len(rest)) = SubSeq(rest, 1, Len(rest))
  BY <1>4, <1>5
<1>7. IsPrefix(rest, stack')
  BY <1>4, <1>6 DEF IsPrefix
<1>8. Len(stack') = Len(stack) + (1 - n)
  BY <1>2, <1>4, <1>6, WholeStack
<1>9. QED
  BY <1>1, <1>2, <1>3, <1>7, <1>8, PusherEffect DEF Disciplined

(* Operands taken and nothing put.                                         *)
LEMMA TakeDisciplined ==
  ASSUME VMInv, NEW op \in Takers, Executes(op), stack' = Drop(pops(op))
  PROVE  Disciplined
<1>1. op = Mnemonic(program.code[pc])
  BY Fetched DEF Executes
<1>2. PICK n \in Nat : n = pops(op) /\ n <= Len(stack)
  BY PopsNat, WholeStack DEF Executes
<1>3. stack' \in Seq(Word) /\ Len(stack') = Len(stack) - n
  BY <1>2, WholeStack, DropTyped
<1>4. IsPrefix(Drop(n), stack')
  BY <1>2, <1>3 DEF IsPrefix
<1>5. Len(stack') = Len(stack) + (0 - n)
  BY <1>2, <1>3, WholeStack
<1>6. QED
  BY <1>1, <1>2, <1>4, <1>5, TakerEffect DEF Disciplined

(* A sequence is a prefix of what agrees with it as far as it goes.        *)
LEMMA AgreeingPrefix ==
  ASSUME NEW s \in Seq(Word), NEW u \in Seq(Word), Len(s) <= Len(u),
         \A i \in 1 .. Len(s) : u[i] = s[i]
  PROVE  IsPrefix(s, u)
<1>1. PICK n \in Nat : n = Len(s) /\ n <= Len(u)
  OBVIOUS
<1>2. SubSeq(s, 1, n) = [i \in 1 .. n |-> s[i]]
  BY <1>1
<1>3. SubSeq(u, 1, n) = [i \in 1 .. n |-> u[i]]
  BY <1>1
<1>4. [i \in 1 .. n |-> u[i]] = [i \in 1 .. n |-> s[i]]
  BY <1>1
<1>5. QED
  BY <1>1, <1>2, <1>3, <1>4 DEF IsPrefix

(* And so of what it is continued to.                                      *)
LEMMA Continued ==
  ASSUME NEW s \in Seq(Word), NEW t \in Seq(Word)
  PROVE  /\ s \o t \in Seq(Word) /\ Len(s \o t) = Len(s) + Len(t)
         /\ \A i \in 1 .. Len(s) : (s \o t)[i] = s[i]
OBVIOUS

(* The two instructions that move words about.                             *)
LEMMA SwapDisciplined ==
  ASSUME VMInv, Fetches("SWAP"), Len(stack) >= 2, stack' = Drop(2) \o <<Top(0), Top(1)>>
  PROVE  Disciplined
<1>1. Mnemonic(program.code[pc]) = "SWAP"
  BY Fetched
<1>2. Reach("SWAP") = 2 /\ DocumentedEffect("SWAP") = 0
  BY DEF Reach, DocumentedEffect, stack_delta, BinaryOps
<1>3. PICK rest, two : rest = Drop(2) /\ two = <<Top(0), Top(1)>>
  OBVIOUS
<1>4. rest \in Seq(Word) /\ Len(rest) = Len(stack) - 2 /\ two \in Seq(Word) /\ Len(two) = 2
  BY <1>3, WholeStack, DropTyped, TopTyped
<1>5. stack' = rest \o two
  BY <1>3
<1>6. /\ stack' \in Seq(Word) /\ Len(stack') = Len(stack) /\ Len(rest) <= Len(stack')
      /\ \A i \in 1 .. Len(rest) : stack'[i] = rest[i]
  <2>1. PICK new : new = rest \o two
    OBVIOUS
  <2>2. /\ new \in Seq(Word) /\ Len(new) = Len(rest) + 2
        /\ \A i \in 1 .. Len(rest) : new[i] = rest[i]
    <3>1. rest \in Seq(Word) /\ two \in Seq(Word)
      BY <1>4
    <3>2. /\ rest \o two \in Seq(Word) /\ Len(rest \o two) = Len(rest) + Len(two)
          /\ \A i \in 1 .. Len(rest) : (rest \o two)[i] = rest[i]
      BY <3>1, Continued, Zenon
    <3>3. QED
      BY <1>4, <2>1, <3>2, Zenon
  <2>3. Len(new) = Len(stack) /\ Len(rest) <= Len(new)
    BY <1>4, <2>2, WholeStack
  <2>4. stack' = new
    BY <1>5, <2>1
  <2>5. QED
    BY <2>2, <2>3, <2>4
<1>7. IsPrefix(rest, stack')
  BY <1>4, <1>6, AgreeingPrefix
<1>8. QED
  BY <1>1, <1>2, <1>3, <1>6, <1>7, WholeStack DEF Disciplined

LEMMA RollDisciplined ==
  ASSUME VMInv, Fetches("ROLL"), Operand \in 0 .. Len(stack) - 1,
         stack' = Drop(Operand + 1) \o SubSeq(stack, Len(stack) - Operand + 1, Len(stack))
                    \o <<Top(Operand)>>
  PROVE  Disciplined
<1>1. Mnemonic(program.code[pc]) = "ROLL"
  BY Fetched
<1>2. PICK n \in Nat : n = Operand /\ n + 1 <= Len(stack)
  BY WholeStack
<1>3. Reach("ROLL") = n + 1 /\ DocumentedEffect("ROLL") = 0
  BY <1>2 DEF Reach, DocumentedEffect, stack_delta, BinaryOps
<1>4. PICK rest, above, word :
        /\ rest = Drop(n + 1) /\ above = SubSeq(stack, Len(stack) - n + 1, Len(stack))
        /\ word = <<Top(n)>>
  OBVIOUS
<1>5. rest \in Seq(Word) /\ Len(rest) = Len(stack) - (n + 1)
  BY <1>2, <1>4, WholeStack, DropTyped
<1>6. above \in Seq(Word) /\ Len(above) = n
  BY <1>2, <1>4, WholeStack
<1>7. word \in Seq(Word) /\ Len(word) = 1
  BY <1>2, <1>4, WholeStack, TopTyped
<1>8. PICK kept : kept = rest \o above
  OBVIOUS
<1>9. /\ kept \in Seq(Word) /\ Len(kept) = Len(rest) + n
      /\ \A i \in 1 .. Len(rest) : kept[i] = rest[i]
  BY <1>5, <1>6, <1>8, Continued
<1>10. stack' = kept \o word
  BY <1>2, <1>4, <1>8
<1>11. /\ stack' \in Seq(Word) /\ Len(stack') = Len(kept) + 1
       /\ \A i \in 1 .. Len(kept) : stack'[i] = kept[i]
  <2>1. PICK new : new = kept \o word
    OBVIOUS
  <2>2. /\ new \in Seq(Word) /\ Len(new) = Len(kept) + 1
        /\ \A i \in 1 .. Len(kept) : new[i] = kept[i]
    <3>1. kept \in Seq(Word) /\ word \in Seq(Word)
      BY <1>7, <1>9
    <3>2. /\ kept \o word \in Seq(Word) /\ Len(kept \o word) = Len(kept) + Len(word)
          /\ \A i \in 1 .. Len(kept) : (kept \o word)[i] = kept[i]
      BY <3>1, Continued, Zenon
    <3>3. QED
      BY <1>7, <1>9, <2>1, <3>2, Zenon
  <2>3. stack' = new
    BY <1>10, <2>1
  <2>4. QED
    BY <2>2, <2>3
<1>12. PICK l \in Nat, k \in Nat : l = Len(stack) /\ k = Len(rest) /\ l = k + (n + 1)
  BY <1>2, <1>5, WholeStack
<1>13. Len(stack') = Len(stack) /\ Len(rest) <= Len(stack')
  BY <1>9, <1>11, <1>12
<1>14. \A i \in 1 .. Len(rest) : stack'[i] = rest[i]
  BY <1>9, <1>11, <1>12
<1>15. IsPrefix(rest, stack')
  BY <1>5, <1>11, <1>13, <1>14, AgreeingPrefix
<1>16. QED
  BY <1>1, <1>3, <1>4, <1>12, <1>13, <1>15 DEF Disciplined

(* An answer is a push.                                                    *)
LEMMA AnswerDisciplined ==
  ASSUME VMInv, error' = "OK", NEW op \in Pushers, NEW r, Answers(op, r)
  PROVE  Disciplined
BY PushDisciplined DEF Answers

(* An instruction that ends without an error did not refuse.               *)
LEMMA NoRefusal ==
  ASSUME error' = "OK", NEW op, NEW e, e # "OK"
  PROVE  ~Refuses(op, e) /\ ~Stop(e)
BY DEF Refuses, Stop

(* The instructions that succeed, family by family.                        *)
LEMMA StackDisciplined ==
  ASSUME VMInv, error' = "OK",
         FetchOutOfBounds \/ MissingOperand \/ InvalidOpcode \/ StackUnderflow \/ Halt \/ Push
         \/ Discard \/ Dup \/ Swap \/ Pick \/ Roll
  PROVE  Disciplined
<1>1. Drop(0) = stack /\ Len(stack) >= 0
  BY WholeStack
<1>2. /\ \A op \in {"PUSH", "DUP", "PICK", "ROLL", "HALT"} : pops(op) = 0
      /\ \A op \in {"POP", "PRINT", "PRINTC"} : pops(op) = 1
  BY DEF pops, UnaryOps, BinaryOps
<1>3. {"PUSH", "DUP", "PICK"} \subseteq Pushers /\ {"POP", "PRINT", "PRINTC", "HALT"} \subseteq Takers
  BY DEF Pushers, Takers
<1>4. ~FetchOutOfBounds /\ ~MissingOperand /\ ~InvalidOpcode /\ ~StackUnderflow
  BY NoRefusal DEF FetchOutOfBounds, MissingOperand, InvalidOpcode, StackUnderflow
<1>5. CASE Halt
  <2>1. Executes("HALT") /\ stack' = Drop(pops("HALT"))
    BY <1>1, <1>2, <1>5 DEF Halt, Executes
  <2>2. QED
    BY <1>3, <2>1, TakeDisciplined
<1>6. CASE Push
  <2>1. Executes("PUSH") /\ vm_push(Drop(pops("PUSH")), Operand)
    BY <1>1, <1>2, <1>6 DEF Push
  <2>2. QED
    BY <1>3, <2>1, PushDisciplined
<1>7. CASE Discard
  <2>1. PICK op \in {"POP", "PRINT", "PRINTC"} : Executes(op) /\ stack' = Drop(pops(op))
    BY <1>2, <1>7 DEF Discard
  <2>2. QED
    BY <1>3, <2>1, TakeDisciplined
<1>8. CASE Dup
  <2>1. Executes("DUP") /\ vm_push(Drop(pops("DUP")), Top(0))
    BY <1>1, <1>2, <1>8, NoRefusal DEF Dup, TooShallow, Executes
  <2>2. QED
    BY <1>3, <2>1, PushDisciplined
<1>9. CASE Swap
  BY <1>9, NoRefusal, SwapDisciplined DEF Swap, TooShallow
<1>10. CASE Pick
  <2>1. Executes("PICK") /\ vm_push(Drop(pops("PICK")), Top(Operand))
    BY <1>1, <1>2, <1>10, NoRefusal DEF Pick
  <2>2. QED
    BY <1>3, <2>1, PushDisciplined
<1>11. CASE Roll
  BY <1>11, NoRefusal, RollDisciplined DEF Roll, Executes
<1>12. QED
  BY <1>4, <1>5, <1>6, <1>7, <1>8, <1>9, <1>10, <1>11

LEMMA ArithmeticDisciplined ==
  ASSUME VMInv, error' = "OK", BinaryOp \/ UnaryOp \/ DivideByZero
  PROVE  Disciplined
<1>1. CASE BinaryOp
  <2>1. PICK op \in BinaryOps : Executes(op) /\ vm_push(Drop(2), Binary(op, Top(1), Top(0)))
    BY <1>1, Zenon DEF BinaryOp
  <2>2. pops(op) = 2 /\ op \in Pushers
    BY <2>1 DEF pops, UnaryOps, BinaryOps, Pushers
  <2>3. QED
    BY <2>1, <2>2, PushDisciplined
<1>2. CASE UnaryOp
  <2>1. PICK op \in UnaryOps : Executes(op) /\ vm_push(Drop(1), Unary(op, Top(0)))
    BY <1>2, Zenon DEF UnaryOp
  <2>2. pops(op) = 1 /\ op \in Pushers
    BY <2>1 DEF pops, UnaryOps, BinaryOps, Pushers
  <2>3. QED
    BY <2>1, <2>2, PushDisciplined
<1>3. ~DivideByZero
  BY NoRefusal DEF DivideByZero
<1>4. QED
  BY <1>1, <1>2, <1>3

LEMMA ControlDisciplined ==
  ASSUME VMInv, error' = "OK", Jump \/ Branch \/ Call \/ Return
  PROVE  Disciplined
<1>1. Drop(0) = stack
  BY WholeStack
<1>2. /\ \A op \in {"JMP", "CALL", "RET"} : pops(op) = 0 /\ op \in Takers
      /\ \A op \in {"JZ", "JNZ"} : pops(op) = 1 /\ op \in Takers
  BY DEF pops, UnaryOps, BinaryOps, Takers
<1>3. CASE Jump
  BY <1>1, <1>2, <1>3, TakeDisciplined DEF Jump
<1>4. CASE Branch
  BY <1>2, <1>4, TakeDisciplined DEF Branch
<1>5. CASE Call
  <2>1. Executes("CALL") /\ stack' = stack
    BY <1>5, NoRefusal DEF Call
  <2>2. QED
    BY <1>1, <1>2, <2>1, TakeDisciplined
<1>6. CASE Return
  <2>1. Executes("RET") /\ stack' = stack
    BY <1>6, NoRefusal DEF Return
  <2>2. QED
    BY <1>1, <1>2, <2>1, TakeDisciplined
<1>7. QED
  BY <1>3, <1>4, <1>5, <1>6

LEMMA MemoryDisciplined ==
  ASSUME VMInv, error' = "OK", Load \/ Store
  PROVE  Disciplined
<1>1. CASE Load
  <2>1. PICK op \in Loads : Executes(op) /\ (\/ Refuses(op, "OUT_OF_BOUNDS")
                                             \/ \E v : vm_push(Drop(pops(op)), v))
    BY <1>1, Zenon DEF Load
  <2>2. op \in Pushers
    BY DEF Loads, Pushers
  <2>3. QED
    BY <2>1, <2>2, NoRefusal, PushDisciplined
<1>2. CASE Store
  <2>1. PICK op \in Stores : Executes(op) /\ (\/ Refuses(op, "OUT_OF_BOUNDS")
                                              \/ stack' = Drop(pops(op)))
    BY <1>2, Zenon DEF Store
  <2>2. op \in Takers
    BY DEF Stores, Takers
  <2>3. QED
    BY <2>1, <2>2, NoRefusal, TakeDisciplined
<1>3. QED
  BY <1>1, <1>2

LEMMA CallOutDisciplined ==
  ASSUME VMInv, error' = "OK", host' # "crashed",
         Read \/ OpenSocket \/ BindListen \/ Accept \/ Connect \/ Close \/ BufferOutside \/ Send
         \/ ReceiveNothing \/ Receive
  PROVE  Disciplined
<1>1. Drop(0) = stack
  BY WholeStack
<1>2. \A op \in {"READ", "SOCK_TCP", "SOCK_UDP"} : pops(op) = 0 /\ op \in Pushers
  BY DEF pops, UnaryOps, BinaryOps, Pushers
<1>3. {"BIND", "LISTEN", "ACCEPT", "CONNECT", "CLOSE", "SEND", "RECV", "RAW_RECV"} \subseteq Pushers
  BY DEF Pushers
<1>4. CASE Read
  BY <1>1, <1>2, <1>4, PushDisciplined DEF Read
<1>5. CASE OpenSocket
  BY <1>1, <1>2, <1>5, PushDisciplined DEF OpenSocket
<1>6. CASE BindListen \/ Accept \/ Close \/ ReceiveNothing
  BY <1>3, <1>6, AnswerDisciplined DEF BindListen, Accept, Close, ReceiveNothing
<1>7. CASE Connect \/ Send
  <2>1. ~Crash /\ ~Refuses("CONNECT", "OUT_OF_BOUNDS")
    BY NoRefusal DEF Crash, Dies
  <2>2. \E op \in {"CONNECT", "SEND"} : \E r : Answers(op, r)
    BY <1>7, <2>1 DEF Connect, Send
  <2>3. QED
    BY <1>3, <2>2, AnswerDisciplined
<1>8. ~BufferOutside
  BY NoRefusal DEF BufferOutside
<1>9. CASE Receive
  <2>1. \E op \in {"RECV", "RAW_RECV"} : \E r : Answers(op, r)
    BY <1>9, Zenon DEF Receive, Dies
  <2>2. QED
    BY <1>3, <2>1, AnswerDisciplined
<1>10. QED
  BY <1>4, <1>5, <1>6, <1>7, <1>8, <1>9

LEMMA RawDisciplined ==
  ASSUME VMInv, error' = "OK",
         RawAlloc \/ RawRefused \/ RawFree \/ RawSetHeader \/ RawSetPayload \/ RawSend
  PROVE  Disciplined
<1>1. ~Refuses("RAW_SEND", "OUT_OF_BOUNDS")
  BY NoRefusal
<1>2. \E op \in {"RAW_ALLOC", "RAW_FREE", "RAW_SET_PROTO", "RAW_SET_DST", "RAW_SET_SRC",
                "RAW_SET_PAYLOAD", "RAW_SEND"} : \E r : Answers(op, r)
  BY <1>1, Zenon DEF RawAlloc, RawRefused, RawFree, RawSetHeader, RawSetPayload, RawSend, Status
<1>3. {"RAW_ALLOC", "RAW_FREE", "RAW_SET_PROTO", "RAW_SET_DST", "RAW_SET_SRC",
       "RAW_SET_PAYLOAD", "RAW_SEND"} \subseteq Pushers
  BY DEF Pushers
<1>4. QED
  BY <1>2, <1>3, AnswerDisciplined

LEMMA DisciplineStep ==
  ASSUME VMInv, [Next]_vars, running, error' = "OK", host' = "started"
  PROVE  Disciplined \/ UNCHANGED vars
<1>1. host = "started"
  BY DEF VMInv
<1>2. zeus_vm_step \/ UNCHANGED vars
  BY <1>1 DEF Next, CanCall, zeus_vm_load, LoadFails, zeus_vm_reset, zeus_vm_run, zeus_vm_free,
     zeus_vm_init
<1>3. ~DivideTraps
  BY DEF DivideTraps, Crash, Dies
<1>4. QED
  BY <1>2, <1>3, StackDisciplined, ArithmeticDisciplined, ControlDisciplined, MemoryDisciplined,
     CallOutDisciplined, RawDisciplined DEF zeus_vm_step

(* A step that succeeds has the stack effect USAGE.md section 7 gives it.  *)
THEOREM VMStackDiscipline == Spec => StackDiscipline
<1>1. VMInv /\ [Next]_vars => [running /\ error' = "OK" /\ host' = "started" => Disciplined]_vars
  BY DisciplineStep
<1>2. VMInv /\ [Next]_vars =>
        [running /\ error' = "OK" /\ host' = "started" =>
           LET op == Mnemonic(program.code[pc])
           IN  /\ Len(stack') = Len(stack) + DocumentedEffect(op)
               /\ IsPrefix(Drop(Reach(op)), stack')]_vars
  BY <1>1 DEF Disciplined
<1>3. QED
  BY <1>2, VMInvariant, PTL DEF Spec, StackDiscipline

-----------------------------------------------------------------------------
(* Every refusal has its reason, instruction by instruction.               *)
Justified == error' # "OK" => Deserved(Mnemonic(program.code[pc]), error')

(* The reasons one by one.                                                 *)
LEMMA Reasons ==
  ASSUME NEW op
  PROVE  /\ Deserved(op, "STACK_UNDERFLOW") <=> Len(stack) < Results(op) - DocumentedEffect(op)
         /\ Deserved(op, "STACK_OVERFLOW") <=> Len(stack) + DocumentedEffect(op) > STACK_SIZE
         /\ op = "RET" /\ call_stack = <<>> => Deserved(op, "CALL_UNDERFLOW")
         /\ op = "CALL" /\ Len(call_stack) = CALL_SIZE => Deserved(op, "CALL_OVERFLOW")
         /\ op \in Divisions /\ Top(0) = 0 => Deserved(op, "DIV_ZERO")
         /\ op = "INVALID" => Deserved(op, "INVALID_OPCODE")
         /\ has_operand(op) /\ ~code_ok(pc + 1, WordBytes) => Deserved(op, "OUT_OF_BOUNDS")
         /\ op \in {"PICK", "ROLL"} /\ Operand \notin 0 .. Len(stack) - 1
              => Deserved(op, "OUT_OF_BOUNDS")
         /\ op \in Accesses /\ (NamedStart(op) < 0 \/ ~mem_ok(NamedStart(op), NamedLength(op)))
              => Deserved(op, "OUT_OF_BOUNDS")
BY DEF Deserved

(* An instruction takes as many words as the manual writes on the left of  *)
(* the arrow; DUP and SWAP are the two that look before they pop.          *)
LEMMA NeedsArePops ==
  /\ \A op \in Instructions : pops(op) > 0 => Results(op) - DocumentedEffect(op) = pops(op)
  /\ Results("DUP") - DocumentedEffect("DUP") = 1
  /\ Results("SWAP") - DocumentedEffect("SWAP") = 2
<1>1. \A op : pops(op) > 0 => op \in (Pushers \ {"DUP"}) \cup Takers
  BY DEF pops, UnaryOps, BinaryOps, Pushers, Takers
<1>2. \A op \in Pushers \ {"DUP"} : Results(op) = 1
  BY DEF Results, Pushers, UnaryOps, BinaryOps, Stores
<1>3. \A op \in Takers : Results(op) = 0
  BY DEF Results, Takers, Stores
<1>4. ASSUME NEW op \in Instructions, pops(op) > 0
      PROVE  Results(op) - DocumentedEffect(op) = pops(op)
  <2>1. PICK n \in Nat : n = pops(op)
    BY PopsNat
  <2>2. CASE op \in Pushers \ {"DUP"}
    BY <1>2, <2>1, <2>2, PusherEffect
  <2>3. CASE op \in Takers
    BY <1>3, <2>1, <2>3, TakerEffect
  <2>4. QED
    BY <1>1, <1>4, <2>2, <2>3
<1>5. Results("DUP") = 2 /\ Results("SWAP") = 2
  BY DEF Results, Stores
<1>6. DocumentedEffect("DUP") = 1 /\ DocumentedEffect("SWAP") = 0
  BY DEF DocumentedEffect, stack_delta, UnaryOps, BinaryOps
<1>7. QED
  BY <1>4, <1>5, <1>6

(* A step without an error needs no reason.                                *)
LEMMA GoJustified == ASSUME VMInv, running, error' = error PROVE Justified
BY DEF Justified, VMInv, StopIsExplained

(* A refusal for a deserved reason, and a push that finds no room.         *)
LEMMA RefusalJustified ==
  ASSUME VMInv, NEW op, Fetches(op), NEW e, Stop(e), Deserved(op, e)
  PROVE  Justified
<1>1. op = Mnemonic(program.code[pc]) /\ error' = e
  BY Fetched DEF Stop
<1>2. QED
  BY <1>1 DEF Justified

LEMMA PushJustified ==
  ASSUME VMInv, NEW op \in Pushers, Executes(op), NEW v, vm_push(Drop(pops(op)), v)
  PROVE  Justified
<1>1. Fetches(op) /\ running
  BY DEF Executes, Fetches
<1>2. CASE Go
  BY <1>1, <1>2, GoJustified DEF Go
<1>3. CASE Len(Drop(pops(op))) >= STACK_SIZE /\ Stop("STACK_OVERFLOW")
  <2>1. PICK n \in Nat, l \in Nat : n = pops(op) /\ l = Len(stack) /\ n <= l
    BY PopsNat, WholeStack DEF Executes
  <2>2. Len(Drop(n)) = l - n
    BY <2>1, WholeStack, DropTyped
  <2>3. l - n >= STACK_SIZE /\ STACK_SIZE \in Nat
    BY <1>3, <2>1, <2>2, VMLimits
  <2>4. Len(stack) + DocumentedEffect(op) = l + (1 - n)
    BY <2>1, PusherEffect
  <2>5. Len(stack) + DocumentedEffect(op) > STACK_SIZE
    BY <2>1, <2>3, <2>4
  <2>6. Deserved(op, "STACK_OVERFLOW")
    BY <2>5, Reasons
  <2>7. QED
    BY <1>1, <1>3, <2>6, RefusalJustified
<1>4. QED
  BY <1>2, <1>3 DEF vm_push

LEMMA AnswerJustified ==
  ASSUME VMInv, NEW op \in Pushers, NEW r, Answers(op, r)
  PROVE  Justified
BY PushJustified DEF Answers

(* An address the machine refuses once it is cut is one it had to refuse.  *)
LEMMA CutAddress ==
  ASSUME NEW x \in Int, NEW n \in Nat, NEW m \in Nat, m <= n, ~mem_ok(ToU32(x), m)
  PROVE  x < 0 \/ ~mem_ok(x, n)
<1>1. PICK c \in Nat : c = ToU32(x) /\ (x >= 0 => c <= x)
  BY DEF ToU32
<1>2. MEMORY_SIZE \in Nat
  BY VMLimits, WordInt
<1>3. ~(c + m <= MEMORY_SIZE)
  BY <1>1 DEF mem_ok
<1>4. x >= 0 => ~(x + n <= MEMORY_SIZE)
  BY <1>1, <1>2, <1>3
<1>5. QED
  BY <1>4 DEF mem_ok

LEMMA CutLength ==
  ASSUME NEW x \in Int
  PROVE  ToU32(x) \in Nat /\ ToU64(x) \in Nat /\ ToU32(x) <= ToU64(x)
BY DEF ToU32, ToU64

(* The refusals of the instructions that touch memory.                     *)
LEMMA AccessJustified ==
  ASSUME VMInv, NEW op \in Accesses, Executes(op), NEW m \in Nat,
         NamedStart(op) \in Int, NamedLength(op) \in Nat, m <= NamedLength(op),
         ~mem_ok(ToU32(NamedStart(op)), m), Refuses(op, "OUT_OF_BOUNDS")
  PROVE  Justified
<1>1. NamedStart(op) < 0 \/ ~mem_ok(NamedStart(op), NamedLength(op))
  BY CutAddress
<1>2. Deserved(op, "OUT_OF_BOUNDS")
  BY <1>1, Reasons
<1>3. QED
  BY <1>2, RefusalJustified DEF Executes, Refuses

LEMMA FetchJustified ==
  ASSUME VMInv, code_ok(pc, 1),
         FetchOutOfBounds \/ MissingOperand \/ InvalidOpcode \/ StackUnderflow \/ Halt
  PROVE  Justified
<1>1. CASE FetchOutOfBounds
  BY <1>1 DEF FetchOutOfBounds
<1>2. CASE MissingOperand
  <2>1. PICK op : op = Mnemonic(program.code[pc])
    OBVIOUS
  <2>2. Deserved(op, "OUT_OF_BOUNDS") /\ error' = "OUT_OF_BOUNDS"
    BY <1>2, <2>1, Reasons DEF MissingOperand, Stop
  <2>3. QED
    BY <2>1, <2>2 DEF Justified
<1>3. CASE InvalidOpcode
  BY <1>3, Reasons, RefusalJustified DEF InvalidOpcode, Refuses
<1>4. CASE StackUnderflow
  <2>1. PICK op \in Instructions :
          Fetches(op) /\ Len(stack) < pops(op) /\ Stop("STACK_UNDERFLOW")
    BY <1>4 DEF StackUnderflow
  <2>2. pops(op) > 0
    BY <2>1, PopsNat, WholeStack
  <2>3. Deserved(op, "STACK_UNDERFLOW")
    BY <2>1, <2>2, NeedsArePops, Reasons
  <2>4. QED
    BY <2>1, <2>3, RefusalJustified
<1>5. CASE Halt
  BY <1>5, GoJustified DEF Halt, Fetches
<1>6. QED
  BY <1>1, <1>2, <1>3, <1>4, <1>5

LEMMA StackJustified ==
  ASSUME VMInv, Push \/ Discard \/ Dup \/ Swap \/ Pick \/ Roll
  PROVE  Justified
<1>1. Drop(0) = stack /\ Len(stack) \in Nat
  BY WholeStack
<1>2. \A op \in {"PUSH", "DUP", "PICK"} : pops(op) = 0 /\ op \in Pushers
  BY DEF pops, UnaryOps, BinaryOps, Pushers
<1>3. \A op : Executes(op) => Fetches(op) /\ running
  BY DEF Executes, Fetches
<1>4. CASE Push
  BY <1>1, <1>2, <1>4, PushJustified DEF Push
<1>5. CASE Discard
  BY <1>3, <1>5, GoJustified DEF Discard, Go
<1>6. CASE Dup
  <2>1. CASE stack = <<>> /\ TooShallow("DUP")
    <3>1. Deserved("DUP", "STACK_UNDERFLOW")
      BY <2>1, NeedsArePops, Reasons
    <3>2. QED
      BY <2>1, <3>1, RefusalJustified DEF TooShallow, Refuses
  <2>2. CASE Fetches("DUP") /\ vm_push(stack, Top(0))
    BY <1>1, <1>2, <2>2, PushJustified DEF Executes
  <2>3. QED
    BY <1>6, <2>1, <2>2 DEF Dup
<1>7. CASE Swap
  <2>1. CASE Len(stack) < 2 /\ TooShallow("SWAP")
    <3>1. Deserved("SWAP", "STACK_UNDERFLOW")
      BY <2>1, NeedsArePops, Reasons
    <3>2. QED
      BY <2>1, <3>1, RefusalJustified DEF TooShallow, Refuses
  <2>2. CASE Fetches("SWAP") /\ Go
    BY <2>2, GoJustified DEF Go, Fetches
  <2>3. QED
    BY <1>7, <2>1, <2>2 DEF Swap
<1>8. ASSUME NEW op \in {"PICK", "ROLL"}, Executes(op), Operand \notin 0 .. Len(stack) - 1,
             Refuses(op, "OUT_OF_BOUNDS")
      PROVE  Justified
  BY <1>3, <1>8, Reasons, RefusalJustified DEF Refuses
<1>9. CASE Pick
  <2>1. CASE Operand \notin 0 .. Len(stack) - 1 /\ Refuses("PICK", "OUT_OF_BOUNDS")
    BY <1>8, <1>9, <2>1 DEF Pick
  <2>2. CASE Executes("PICK") /\ vm_push(stack, Top(Operand))
    BY <1>1, <1>2, <2>2, PushJustified
  <2>3. QED
    BY <1>9, <2>1, <2>2 DEF Pick
<1>10. CASE Roll
  <2>1. CASE Operand \notin 0 .. Len(stack) - 1 /\ Refuses("ROLL", "OUT_OF_BOUNDS")
    BY <1>8, <1>10, <2>1 DEF Roll
  <2>2. CASE Executes("ROLL") /\ Go
    BY <1>3, <2>2, GoJustified DEF Go
  <2>3. QED
    BY <1>10, <2>1, <2>2 DEF Roll
<1>11. QED
  BY <1>4, <1>5, <1>6, <1>7, <1>9, <1>10

LEMMA ArithmeticJustified ==
  ASSUME VMInv, BinaryOp \/ UnaryOp \/ DivideByZero \/ DivideTraps
  PROVE  Justified
<1>1. /\ \A op \in BinaryOps : pops(op) = 2 /\ op \in Pushers
      /\ \A op \in UnaryOps : pops(op) = 1 /\ op \in Pushers
  BY DEF pops, UnaryOps, BinaryOps, Pushers
<1>2. CASE BinaryOp
  <2>1. PICK op \in BinaryOps : Executes(op) /\ vm_push(Drop(2), Binary(op, Top(1), Top(0)))
    BY <1>2, Zenon DEF BinaryOp
  <2>2. QED
    BY <1>1, <2>1, PushJustified
<1>3. CASE UnaryOp
  <2>1. PICK op \in UnaryOps : Executes(op) /\ vm_push(Drop(1), Unary(op, Top(0)))
    BY <1>3, Zenon DEF UnaryOp
  <2>2. QED
    BY <1>1, <2>1, PushJustified
<1>4. CASE DivideByZero
  <2>1. PICK op \in Divisions : Executes(op) /\ Top(0) = 0 /\ Stop("DIV_ZERO")
    BY <1>4 DEF DivideByZero, Refuses
  <2>2. QED
    BY <2>1, Reasons, RefusalJustified DEF Executes
<1>5. CASE DivideTraps
  BY <1>5, GoJustified DEF DivideTraps, Crash, Dies, Executes, Fetches
<1>6. QED
  BY <1>2, <1>3, <1>4, <1>5

LEMMA ControlJustified ==
  ASSUME VMInv, Jump \/ Branch \/ Call \/ Return
  PROVE  Justified
<1>1. \A op : Executes(op) => Fetches(op) /\ running
  BY DEF Executes, Fetches
<1>2. CASE Jump \/ Branch
  BY <1>1, <1>2, GoJustified DEF Jump, Branch, Go
<1>3. CASE Executes("CALL") /\ Len(call_stack) >= CALL_SIZE /\ Refuses("CALL", "CALL_OVERFLOW")
  <2>1. Len(call_stack) = CALL_SIZE
    <3>1. call_stack \in Seq(Address) /\ Len(call_stack) <= CALL_SIZE /\ CALL_SIZE \in Nat
      BY <1>1, <1>3, CallsTyped, VMLimits
    <3>2. QED
      BY <1>3, <3>1
  <2>2. Deserved("CALL", "CALL_OVERFLOW")
    BY <2>1, Reasons
  <2>3. QED
    BY <1>1, <1>3, <2>2, RefusalJustified DEF Refuses
<1>4. CASE Executes("RET") /\ call_stack = <<>> /\ Refuses("RET", "CALL_UNDERFLOW")
  BY <1>1, <1>4, Reasons, RefusalJustified DEF Refuses
<1>5. CASE (Executes("CALL") \/ Executes("RET")) /\ Go
  BY <1>1, <1>5, GoJustified DEF Go
<1>6. QED
  BY <1>2, <1>3, <1>4, <1>5 DEF Call, Return

LEMMA MemoryJustified ==
  ASSUME VMInv, Load \/ Store
  PROVE  Justified
<1>1. ASSUME NEW op \in Loads \cup Stores, Executes(op), ~InMemory(op),
             Refuses(op, "OUT_OF_BOUNDS")
      PROVE  Justified
  <2>1. NamedLength(op) = Width(op) /\ Width(op) \in Nat /\ op \in Accesses
    BY DEF NamedLength, Width, WordBytes, Accesses, Loads, Stores
  <2>2. NamedStart(op) = (IF has_operand(op) THEN Operand ELSE Top(0))
    BY DEF NamedStart, Loads, Stores, BufferOps
  <2>3. NamedStart(op) \in Int
    <3>1. CASE has_operand(op)
      BY <1>1, <2>2, <3>1, Fetched, WordInt DEF Executes
    <3>2. CASE ~has_operand(op)
      <4>1. 0 < pops(op)
        BY <3>2 DEF Loads, Stores, has_operand, pops, UnaryOps, BinaryOps
      <4>2. Top(0) \in Word
        BY <1>1, <4>1, Popped DEF Executes
      <4>3. QED
        BY <2>2, <3>2, <4>2, WordInt
    <3>3. QED
      BY <3>1, <3>2
  <2>4. ~mem_ok(ToU32(NamedStart(op)), Width(op))
    BY <1>1, <2>2 DEF InMemory, AddressOf
  <2>5. QED
    BY <1>1, <2>1, <2>3, <2>4, AccessJustified
<1>2. CASE Load
  <2>1. PICK op \in Loads : /\ Executes(op)
                            /\ \/ ~InMemory(op) /\ Refuses(op, "OUT_OF_BOUNDS")
                               \/ \E v : vm_push(Drop(pops(op)), v)
    BY <1>2, Zenon DEF Load
  <2>2. op \in Pushers
    BY DEF Loads, Pushers
  <2>3. QED
    BY <1>1, <2>1, <2>2, PushJustified
<1>3. CASE Store
  <2>1. PICK op \in Stores : /\ Executes(op)
                             /\ \/ ~InMemory(op) /\ Refuses(op, "OUT_OF_BOUNDS")
                                \/ Go
    BY <1>3, Zenon DEF Store
  <2>2. QED
    BY <1>1, <2>1, GoJustified DEF Executes, Fetches, Go
<1>4. QED
  BY <1>2, <1>3

LEMMA CallOutJustified ==
  ASSUME VMInv,
         Read \/ OpenSocket \/ BindListen \/ Accept \/ Connect \/ Close \/ BufferOutside \/ Send
         \/ ReceiveNothing \/ Receive
  PROVE  Justified
<1>1. Drop(0) = stack
  BY WholeStack
<1>2. \A op \in {"READ", "SOCK_TCP", "SOCK_UDP"} : pops(op) = 0 /\ op \in Pushers
  BY DEF pops, UnaryOps, BinaryOps, Pushers
<1>3. {"BIND", "LISTEN", "ACCEPT", "CONNECT", "CLOSE", "SEND", "RECV", "RAW_RECV"} \subseteq Pushers
  BY DEF Pushers
<1>4. \A op : Executes(op) /\ Dies => Justified
  BY GoJustified DEF Dies, Executes, Fetches
<1>5. CASE Read
  BY <1>1, <1>2, <1>5, PushJustified DEF Read
<1>6. CASE OpenSocket
  BY <1>1, <1>2, <1>6, PushJustified DEF OpenSocket
<1>7. CASE BindListen \/ Accept \/ Close \/ ReceiveNothing
  BY <1>3, <1>7, AnswerJustified DEF BindListen, Accept, Close, ReceiveNothing
<1>8. CASE Connect
  <2>1. CASE /\ Executes("CONNECT") /\ ~mem_ok(ToU32(Top(1)), 1)
             /\ Refuses("CONNECT", "OUT_OF_BOUNDS")
    <3>1. /\ NamedStart("CONNECT") = Top(1) /\ NamedLength("CONNECT") = 1
          /\ "CONNECT" \in Accesses /\ pops("CONNECT") = 3
      BY DEF NamedStart, NamedLength, Accesses, has_operand, Loads, Stores, pops, UnaryOps, BinaryOps
    <3>2. Top(1) \in Word
      BY <2>1, <3>1, Popped DEF Executes
    <3>3. Top(1) \in Int
      BY <3>2, WordInt
    <3>4. /\ NamedStart("CONNECT") \in Int /\ NamedLength("CONNECT") \in Nat /\ 1 \in Nat
          /\ ~mem_ok(ToU32(NamedStart("CONNECT")), 1) /\ 1 <= NamedLength("CONNECT")
      BY <2>1, <3>1, <3>3
    <3>5. QED
      BY <2>1, <3>1, <3>4, AccessJustified
  <2>2. CASE \E r : Answers("CONNECT", r)
    BY <1>3, <2>2, AnswerJustified
  <2>3. CASE Executes("CONNECT") /\ Dies
    BY <1>4, <2>3
  <2>4. QED
    BY <1>8, <2>1, <2>2, <2>3 DEF Connect, Crash
<1>9. CASE BufferOutside
  <2>1. PICK op \in BufferOps : Executes(op) /\ ~BufferInMemory /\ Refuses(op, "OUT_OF_BOUNDS")
    BY <1>9 DEF BufferOutside
  <2>2. /\ NamedStart(op) = Top(1) /\ NamedLength(op) = ToU64(Top(0))
        /\ op \in Accesses /\ pops(op) = 3
    BY DEF NamedStart, NamedLength, Accesses, has_operand, BufferOps, Loads, Stores, pops,
       UnaryOps, BinaryOps
  <2>3. Top(0) \in Word /\ Top(1) \in Word
    BY <2>1, <2>2, Popped DEF Executes
  <2>4. PICK m \in Nat : m = ToU32(Top(0)) /\ m <= ToU64(Top(0)) /\ ToU64(Top(0)) \in Nat
    BY <2>3, WordInt, CutLength
  <2>5. ~mem_ok(ToU32(Top(1)), m)
    BY <2>1, <2>4 DEF BufferInMemory
  <2>6. QED
    BY <2>1, <2>2, <2>3, <2>4, <2>5, WordInt, AccessJustified
<1>10. CASE Send
  <2>1. CASE \E r : Answers("SEND", r)
    BY <1>3, <2>1, AnswerJustified
  <2>2. CASE Executes("SEND") /\ Dies
    BY <1>4, <2>2
  <2>3. QED
    BY <1>10, <2>1, <2>2 DEF Send, Crash
<1>11. CASE Receive
  <2>1. PICK op \in {"RECV", "RAW_RECV"} : Executes(op) /\ (Dies \/ \E r : Answers(op, r))
    BY <1>11, Zenon DEF Receive
  <2>2. QED
    BY <1>3, <1>4, <2>1, AnswerJustified
<1>12. QED
  BY <1>5, <1>6, <1>7, <1>8, <1>9, <1>10, <1>11

LEMMA RawJustified ==
  ASSUME VMInv,
         RawAlloc \/ RawRefused \/ RawFree \/ RawSetHeader \/ RawSetPayload \/ RawSend
  PROVE  Justified
<1>1. CASE \E op \in {"RAW_ALLOC", "RAW_FREE", "RAW_SET_PROTO", "RAW_SET_DST", "RAW_SET_SRC",
                     "RAW_SET_PAYLOAD", "RAW_SEND"} : \E r : Answers(op, r)
  BY <1>1, AnswerJustified DEF Pushers
<1>2. CASE Executes("RAW_SEND") /\ ~InterfaceOk /\ Refuses("RAW_SEND", "OUT_OF_BOUNDS")
  <2>1. /\ NamedStart("RAW_SEND") = Top(0) /\ NamedLength("RAW_SEND") = 1
        /\ "RAW_SEND" \in Accesses /\ pops("RAW_SEND") = 2
    BY DEF NamedStart, NamedLength, Accesses, has_operand, BufferOps, Loads, Stores, pops,
       UnaryOps, BinaryOps
  <2>2. Top(0) \in Word
    BY <1>2, <2>1, Popped DEF Executes
  <2>3. Top(0) \in Int
    BY <2>2, WordInt
  <2>4. /\ NamedStart("RAW_SEND") \in Int /\ NamedLength("RAW_SEND") \in Nat /\ 1 \in Nat
        /\ ~mem_ok(ToU32(NamedStart("RAW_SEND")), 1) /\ 1 <= NamedLength("RAW_SEND")
    BY <1>2, <2>1, <2>3 DEF InterfaceOk
  <2>5. QED
    BY <1>2, <2>1, <2>4, AccessJustified
<1>3. QED
  BY <1>1, <1>2, Zenon DEF RawAlloc, RawRefused, RawFree, RawSetHeader, RawSetPayload, RawSend,
     Status

LEMMA RefusalStepJustified ==
  ASSUME VMInv, [Next]_vars, running, error' # "OK", code_ok(pc, 1)
  PROVE  Deserved(Mnemonic(program.code[pc]), error')
<1>1. error = "OK" /\ host = "started"
  BY DEF VMInv, StopIsExplained
<1>2. zeus_vm_step
  BY <1>1 DEF Next, vars, machine, CanCall, zeus_vm_load, LoadFails, zeus_vm_reset, zeus_vm_run,
     zeus_vm_free, zeus_vm_init
<1>3. Justified
  BY <1>2, FetchJustified, StackJustified, ArithmeticJustified, ControlJustified,
     MemoryJustified, CallOutJustified, RawJustified DEF zeus_vm_step
<1>4. QED
  BY <1>3 DEF Justified

(* For every program: an instruction is refused only if the manual's stack *)
(* effect does not fit the stack, or its operand, its return address or    *)
(* the bytes it names are not there (vm_push, vm_pop, code_ok, mem_ok).    *)
THEOREM VMRefusalsAreDeserved == Spec => RefusalsAreDeserved
<1>1. VMInv /\ [Next]_vars =>
        [running /\ error' # "OK" /\ code_ok(pc, 1) =>
           Deserved(Mnemonic(program.code[pc]), error')]_vars
  BY RefusalStepJustified
<1>2. QED
  BY <1>1, VMInvariant, PTL DEF Spec, RefusalsAreDeserved

-----------------------------------------------------------------------------
(* The machine and its packets together implement PacketStore.  A host may *)
(* free a machine and initialise it again: the new table is the first one  *)
(* only because the old one went with the old machine.                     *)
NoTable == host = "freed" => packets = <<>>

(* Only zeus_vm_free makes a machine a freed one, and it frees the table.  *)
LEMMA NoTableInit == Init => NoTable
BY DEF Init, NoTable

LEMMA NoTableStep == VMInv /\ NoTable /\ [Next]_vars => NoTable'
<1> SUFFICES ASSUME VMInv, NoTable, [Next]_vars, host' = "freed" PROVE packets' = <<>>
  BY DEF NoTable
<1>1. CASE zeus_vm_step
  <2>1. host = "started"
    BY <1>1, StepRuns DEF VMInv
  <2>2. host' = host \/ host' = "crashed"
    BY <1>1, StepOutcome DEF Outcome, Quiet, StackOnly, Crash, Dies, Smooth, MachineOnly
  <2>3. QED
    BY <2>1, <2>2
<1>2. CASE zeus_vm_free
  BY <1>2 DEF zeus_vm_free, zeus_net_destroy
<1>3. CASE zeus_vm_reset
  <2>1. host' = "loaded" \/ (host' = host /\ packets' = packets)
    BY <1>3 DEF zeus_vm_reset, netvars
  <2>2. QED
    BY <2>1 DEF NoTable
<1>4. CASE UNCHANGED vars
  BY <1>4 DEF vars, netvars, NoTable
<1>5. CASE (\E prog \in Programs : zeus_vm_load(prog) \/ LoadFails(prog)) \/ zeus_vm_run \/ zeus_vm_init
  BY <1>5 DEF zeus_vm_load, LoadFails, zeus_vm_run, zeus_vm_init
<1>6. QED
  BY <1>1, <1>2, <1>3, <1>4, <1>5 DEF Next

(* The raw-packet instructions, by what a call does to the store.       *)
LEMMA PacketCallKeeps == ASSUME VMInv, PacketCall PROVE PromiseKept
<1>1. NetInv
  BY DEF VMInv
<1>2. CASE RawAlloc
  <2>1. PICK r : Answers("RAW_ALLOC", r) /\ zeus_net_packet_alloc(Top(0), r)
    BY <1>2 DEF RawAlloc
  <2>2. pops("RAW_ALLOC") = 1
    BY DEF pops, UnaryOps, BinaryOps
  <2>3. Top(0) \in Int
    <3>1. Top(0) \in Word
      BY <2>1, <2>2, Popped DEF Answers, Executes
    <3>2. QED
      BY <3>1, WordInt
  <2>4. QED
    BY <1>1, <2>1, <2>3, AllocKeeps
<1>3. CASE RawFree
  BY <1>1, <1>3, FreeKeeps DEF RawFree
<1>4. CASE RawSetHeader
  <2>1. PICK op \in {"RAW_SET_PROTO", "RAW_SET_DST", "RAW_SET_SRC"} :
          Answers(op, 0) /\ SetHeader(Top(1), Top(0))
    BY <1>4 DEF RawSetHeader, Status, SetHeader
  <2>2. pops(op) = 2
    BY DEF pops, UnaryOps, BinaryOps
  <2>3. Top(0) \in Int
    <3>1. Top(0) \in Word
      BY <2>1, <2>2, Popped DEF Answers, Executes
    <3>2. QED
      BY <3>1, WordInt
  <2>4. QED
    BY <1>1, <2>1, <2>3, SetHeaderKeeps
<1>5. CASE RawSetPayload
  <2>1. /\ Answers("RAW_SET_PAYLOAD", 0) /\ BufferInMemory
        /\ zeus_net_packet_set_payload(Top(2), memory, ToU32(Top(1)), ToU64(Top(0)))
    BY <1>5 DEF RawSetPayload, Status
  <2>2. PayloadFitsSlot(Top(2), ToU64(Top(0))) /\ Executes("RAW_SET_PAYLOAD")
    BY <2>1 DEF zeus_net_packet_set_payload, Answers
  <2>3. QED
    BY <1>1, <2>1, <2>2, PayloadInMemory, SetPayloadKeeps
<1>6. CASE RawSend
  <2>1. CASE Refuses("RAW_SEND", "OUT_OF_BOUNDS")
    BY <2>1, StutterKeeps DEF Refuses, StackOnly
  <2>2. CASE \E r : zeus_net_packet_send(Top(1), r)
    BY <1>1, <2>2, SendKeeps
  <2>3. QED
    BY <1>6, <2>1, <2>2, Zenon DEF RawSend
<1>7. QED
  BY <1>2, <1>3, <1>4, <1>5, <1>6 DEF PacketCall

(* Hence every step of host or machine is a step of the store.             *)
LEMMA VMStoreInit == Init => Promised!Init
BY StoreInit DEF Init

LEMMA VMStoreStep == VMInv /\ NoTable /\ [Next]_vars => PromiseKept
<1> SUFFICES ASSUME VMInv, NoTable, [Next]_vars PROVE PromiseKept
  OBVIOUS
<1>1. CASE zeus_vm_step
  <2>1. UNCHANGED netvars \/ PacketCall
    BY <1>1, StepOutcome DEF Outcome, Quiet, StackOnly, Crash, Dies, Smooth
  <2>2. QED
    BY <2>1, StutterKeeps, PacketCallKeeps
<1>2. CASE zeus_vm_free
  BY <1>2, DestroyKeeps DEF zeus_vm_free
<1>3. CASE zeus_vm_init
  BY <1>3, CreateKeeps DEF zeus_vm_init, NoTable
<1>4. CASE UNCHANGED vars
  BY <1>4, StutterKeeps DEF vars
<1>5. CASE (\E prog \in Programs : zeus_vm_load(prog) \/ LoadFails(prog)) \/ zeus_vm_run \/ zeus_vm_reset
  BY <1>5, StutterKeeps DEF zeus_vm_load, LoadFails, zeus_vm_run, zeus_vm_reset
<1>6. QED
  BY <1>1, <1>2, <1>3, <1>4, <1>5 DEF Next

(* Whatever a host and its programs do, the packets of a machine keep what *)
(* PacketStore promises (ZOP_RAW_*, zeus_vm_init, zeus_vm_free).           *)
THEOREM VMImplementsPacketStore == Spec => ImplementsPacketStore
<1>1. Spec => []NoTable
  <2>1. VMInv /\ NoTable /\ [Next]_vars => NoTable'
    BY NoTableStep
  <2>2. QED
    BY NoTableInit, <2>1, VMInvariant, PTL DEF Spec
<1>2. VMInv /\ NoTable /\ [Next]_vars => [Promised!Next]_(Promised!storevars)
  BY VMStoreStep DEF PromiseKept
<1>3. QED
  BY VMStoreInit, <1>1, <1>2, VMInvariant, PTL DEF Spec, ImplementsPacketStore, Promised!Spec
=============================================================================
