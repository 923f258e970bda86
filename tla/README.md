# Verification of Zeus_osVM and MO

Zeus_osVM is a stack-machine interpreter in C with socket and raw-packet
opcodes, its assembler and its tools.  MO is a Python judge that reads a stream
of protocol events and reports which rules of a specification were kept.  This
directory holds TLA+ models of both, TLC configurations that check them on small
instances, and TLAPS proofs of the results that hold for every size.

## 1. Inventory

| Part | Source | State it keeps | Operations | What makes it correct |
|---|---|---|---|---|
| Virtual machine | `src/src/vm.c`, `src/include/vm.h`, `isa.h`, `src/src/isa.c` | program, pc, operand stack, call stack, memory, error, running | `zeus_vm_init/load/reset/run/step/free`, 58 opcodes | limits and bounds are respected, failures leave no half-done work, a stop says why |
| Raw-packet table | `src/src/net.c`, `net.h` | 16 slots, each with a heap buffer | `zeus_net_create/destroy`, `zeus_net_packet_*` | every buffer has one owner; a packet sends what was put into it |
| Sockets | `src/src/net.c` | none (the OS keeps it) | `zeus_net_socket_*`, `bind`, ... | a bad descriptor never reaches a call |
| MO engine | `src/mo/engine.py`, `ledger.py`, `rules.py` | ledger of obligations, primitives seen, counters | one branch per event, end of stream | one verdict per obligation, for the right reason |
| MO live tailer | `src/mo/adapters/live.py` | file position, time of last line and tick | `tail_events` | nothing lost, nothing judged twice, silence noticed |
| MO projector | `src/mo/adapters/mcp.py` | requests waiting for a result | `project` | a result carries the name of the call it answers |
| MO parser | `src/mo/parser.py` | the block being read | `parse` | a rule means what the text says, an error is at a line that is wrong |
| MO trace, report, CLI | `src/mo/trace.py`, `report.py`, `cli.py` | none | reading, printing, exit codes | formatting |
| Assembler | `src/src/asm.c` | two section buffers, label table, fixups | `process_line` for each line, `resolve_fixups`, hand-over | a single pass with fixups gives what the text means, wherever its labels stand |
| Bytecode files | `src/src/bytecode.c` | the file, stdio buffers | `zeus_program_save/load/free` | what is loaded is what was saved, whatever fails |
| Command line | `src/src/main.c` | one command: blocks, file, status | `asm`, `dis`, `run`, `run-asm` | the status is true, every block and file is given back |
| Disassembler | `src/src/disasm.c` | none | `zeus_disassemble` | the listing accounts for every byte |
| Opcode and error names | `src/src/isa.c`, `zeus.c` | none | look-up by byte and by name | the two look-ups agree |

How they interact: `main.c` reads or assembles a program, calls
`zeus_vm_init`, `load`, `run` and `free` in that order and never two at a time;
the machine is single threaded and calls `net.c` synchronously.  A run ends only
when `running` becomes false.  The packet table belongs to the machine and not
to the program: it survives `load` and `reset` and goes with `zeus_vm_free`.
In MO a generator chain runs in one thread: `live.py` (or a trace reader) yields
events, `mcp.py` makes them from records, `engine.py` consumes them one by one
and yields verdicts.  The tailer shares its log with a tap in another process,
which may flush half a line or die in the middle of one.  Processes of the
`zeus` program share bytecode files, with no lock.

What is hard: error paths in the middle of an instruction, limits, casts from
64 to 32 bits, jumps into operands, machines that are run again, packet ids that
outlive their packet, allocation failures; in MO the order of expiry,
satisfaction and triggering within one event, events that fit several
obligations, overlapping calls, ticks racing late answers, timestamps that go
back; request ids that are reused or print alike; lines that are incomplete or
not text when they are read; labels used before they are defined, or from the
other section; buffers that grow and fail to; a file that is written, cut short
or replaced while it is read.  `PROJECT.json` lists these hazards line by line with the property that
would notice each.

## 2. Modules

| Module | Models | Notes |
|---|---|---|
| `MachineWords` | casts, little-endian access, `/`, `%`, bitwise and shift operators of `vm.c` | scaled widths, see below |
| `PacketStore` | abstract: what a packet id promises a program | implemented by `NetPackets` |
| `NetPackets` | `net.c`, packet part | one action per function, its return value the last argument |
| `ZeusVM` | `vm.c`, over `NetPackets` | one action per opcode family, the host calls as actions |
| `Obligations` | abstract: a judge with deadlines | implemented by `MOEngine` |
| `MOEngine` | `engine.py`, `ledger.py`, the rules | one action per branch of the loop |
| `MOReplay` | two `MOEngine`s on one session, one with ticks | composition |
| `MOParser` | `parser.py` | a fold over the lines, and what a text says as a reference |
| `MCPProjector` | `mcp.py`, live projection | the map of pending requests; `project` is one record |
| `SessionFeed` | abstract: every complete line handed on once, in order | implemented by `LiveTail` |
| `LiveTail` | `live.py`, over `MCPProjector`, with the tap and the clock | one turn of the loop is one or two actions |
| `InstructionSet` | `isa.h`, `isa.c` | shared by machine, assembler and disassembler |
| `AssemblySource` | the assembly language: a line, and what a text means | the reference, written as two passes |
| `Assembler` | `asm.c` | one action per form of line, the fixups, the hand-over |
| `Disassembler` | `disasm.c` | the sweep as a recursive function |
| `Toolchain` | `main.c`, `bytecode.c` | one action per library call that may fail or wait |
| `MC*` | instances for TLC | `MCMOEngine` also checks `MOParser`, by an `ASSUME` |
| `NetPacketsProofs` | the invariants of `NetPackets`, and that it implements `PacketStore` | its lemmas hold for any caller, so `ZeusVMProofs` cites them |
| `WordProofs` | lemmas about `MachineWords` | what each cast, load and arithmetic operator returns |
| `ZeusVMProofs` | the invariants of `ZeusVM`, its action properties, and that it implements `PacketStore` | |
| `MOEngineProofs` | theorems about `MOEngine`, and its refinement of `Obligations` | |
| `MOReplayProofs` | the theorem about `MOReplay` | |
| `LiveTailProofs` | the invariants of `LiveTail`, and the safety of its feed | |
| `AssemblerProofs` | the invariants of `Assembler` | with lemmas about `AssemblySource` and `Disassembler` |
| `ToolchainProofs` | the invariants of `Toolchain` | |

**Scaling.** A byte has its 8 bits.  The 64-bit word is 16 bits (2 bytes), the
32-bit address 8 bits.  What the code relies on is kept: a word is signed,
little-endian and wider than an address, every cast drops high bits, a word
operand may stick out of the code.  The operand stack, the call stack, memory
and the packet table have sizes that are CONSTANTS.

**ZeusVM and `zeus_vm_step`.** `Fetches(op)` is lines 138-158: running, an
opcode byte inside the code, and its operand too.  `FetchOutOfBounds`,
`MissingOperand` and `InvalidOpcode` are the ways it fails.  The cases of the
switch with the same control are one action with the opcode as a parameter
(`BinaryOp`, `Load`, `Store`, `Branch`, ...); `pops` gives the number of
operands, and `StackUnderflow` is the failing `vm_pop` of any of them, with the
operands before it already gone.  `Refuses` is a failure after the operands were
popped.  `vm_push` may itself fail.  Results of `getchar`, `malloc` and the
socket calls are chosen by the environment.  The variable `host` records
what the C host may do next (a machine is not loaded while it runs); it is set
to `crashed` by operations C leaves undefined: `INT64_MIN / -1`, and accesses
beyond `vm->memory`.  There are three of those.  A receive whose length was
checked with 32 bits and used with 64 writes the bytes that come where they
fall, over the end of memory too (`write_bytes`), and the process `Dies`; a send
with such a length, and a connect whose host name has no NUL before the end of
memory, may read on behind it (`Crash`), or return as the system call does.

`Crash` is one outcome of `INT64_MIN / -1`; the wrapped quotient is the other
(`BinaryOp`).  A signed overflow of `+ - * <<` or unary `-` wraps, shift counts
are masked: this is what the compilers of the supported platforms produce.

**MOEngine.** An obligation is named `<<n, r>>`: the number of the event that
opened it and the trigger that fired.  `Before` on these names is the order of
the Python list.  Steps a-d of `iter_verdicts` are simultaneous in `WireEvent`;
their order shows in `Candidates` (only what has not just expired), in
`observed` (the event is seen before assertions are evaluated) and in the fact
that an event cannot satisfy what it opens.  `trace` is a history variable, used
by the properties only.  Windows are integers: the parser accepts a negative
one, and an obligation with it is overdue from birth until the next event or
tick (`BornOverdue`).  nan and inf, which it accepts as well, are left out.

**MOParser.** A line is its tokens, its indentation and whether it is blank once
the comment is gone.  A line of nothing but colons has no token; the code takes
its first one all the same, an `IndexError` that names no line.  `MeansTheText` says what the rules of a
text are without reading it in order: every line is governed by the last one
that is not indented, the last `EXPECT` and `WINDOW` of a block count.  The
rules of the engine's small instance are what `parse` makes of a text.

**LiveTail.** `file` is what has its newline, `tail` and `spoiled` what follows:
a partial line of the tap that lives, the remains of one that died, and whether
they end inside a character.  `fh` is where the open file stands, behind a line
or inside one, and `pos` what `tell` said at the top of the turn.  One turn of
`tail_events` is `ReadLine`, `Die` or `PollEmpty`, which reads the partial line,
followed by `Silent`, which seeks back; the wall clock may move between the two,
and so may the tap.  A
record is a frame, a raw line, or JSON on which the projection raises.
`project` has the four branches of `mcp.py` in order.  That ids are looked up
as JSON values and printed as text is kept (`str`): 1 and "1" are two keys and
one correlation.  So is the filter over a list of tools: entries without a name
declare nothing (`named`).  The log is appended to and never truncated or rotated.

**Assembler.** A token is a model value; how it reads as a number, a string and
a name is a parameter, so that long names may agree on their first 63
characters.  Every line is one action, with the two appends an instruction
makes in it; each append may fail on its own, and the code does not notice
(`dropped` records it for the properties).  `.org` tries again until the
append succeeds and so may never end (`hung`).  Its guard sees the low 32 bits of the
operand (`OrgMovesBack`); what the text means does not (`MovesBack`).  A failed `malloc` at the
hand-over leaves a program with the lengths of the whole.  The header has 32
bits for a length and an operand 32 bits for the offset of a label: `Addressable`
says that no section has outgrown them, and the properties of the program handed
over are about such sections.

**Toolchain.** A file is a header cell and a cell for each byte.  `fopen`,
`fread`, `fwrite`, `fclose` and the flushes in between are separate steps, so
that other processes and kills come in between; each may fail.  `Killed` loses
what was buffered.  What an assembly or a run gives is a free choice here:
`Assembler` and `ZeusVM` have the detail.  `held` is the set of live blocks.

## 3. Runs

| Run | Question | States | Bounds |
|---|---|---|---|
| `net_packets` | every sequence of packet calls | 37 thousand | 2 slots, 3 heap blocks (one more than slots, so a freed block may or may not come back), sizes 0..3 with 2 the limit, ids -1..2: in range, beyond and stale |
| `vm_host` | every host call sequence over a library of 28 programs | 145 thousand | stack 4, call stack 2, memory 4 bytes: every limit is hit by some program |
| `vm_programs` | every program of 4 instructions from a pool of 12 | 149 thousand | operands chosen so that targets hit instructions, operands and the end of the code |
| `mo_engine` | every stream of 3 events (7 kinds) and ticks, times 0..2 in any order, windows 1 and -1 | 295 thousand | 3 events are call, call, answer or call, answer, answer: enough for two obligations to compete |
| `mo_replay` | live with ticks against replay without | 105 thousand | 4 events, times 0..3, one window |
| `live_tail` | a tap that flushes in parts, dies and restarts, the tailer and the clock | 2.1 million | 3 records of 8 kinds (call, look-alike call, result, result on the wrong side, call again; a list of tools with a nameless entry, or with no other; or poison), with a timestamp, a number or neither, two ids, wall clock 5..7 with a tick due after 1 and the end after 2 |
| `assembler` | every text of three lines out of 20, and of four out of the 8 that lay out both sections | 220 thousand | 2 symbols and 2 fixups, so each table overflows; first capacity 4, so appends grow and fail; `.org` up to 256, beyond the memory bound 32 |
| `toolchain` | two processes, any commands, any failure, any kill | 2.6 million | programs with no, one and two bytes of code and one of data, two of them of the same shape: a mixture of two has a good header |
| `reset_keeps_program` | violated: finding 1 | | |
| `indirect_in_bounds` | violated: finding 2 | | |
| `tailer_stays_alive` | violated: finding 3 | | |
| `comments_are_ignored` | violated: finding 4 | | |

Deadlock is checked in `toolchain`, where a process can always begin another
command.  Elsewhere the system may stop: a machine whose host is done, a stream
that was judged, a log nobody follows, a text that was assembled.

What the runs show, property by property:

* `BuffersOwned`, `PayloadFits`, `ImplementsPacketStore`: no packet call leaks,
  shares or overruns a buffer, and through the table a program sees packets that
  keep what was put into them.
  `vm_host` asks the third of the whole machine as well: a table that outlived
  its machine would be seen when the next machine is initialised.
* `NoPacketLeak`: after `zeus_vm_free` no block is left, though programs end,
  fail and are replaced without freeing their packets.
* `ReturnsFollowCalls`: whatever was loaded, reset or re-run, `RET` goes to just
  after a `CALL` of the loaded program, even if that `CALL` lies in an operand.
* `StopIsExplained`: a stopped machine with error OK stopped at a `HALT`.
* `FailureIsContained`: a failing instruction has consumed operands, nothing else.
* `RefusalsAreDeserved`: it had to fail.  A stack is called full or empty only if
  the documented effect of the instruction does not fit it, an address out of
  bounds only if the bytes the instruction names are not all there.
* `StackDiscipline`: a succeeding one has the stack effect of the table of
  `isa.c`, or of `docs/USAGE.md` section 7 where the two disagree (section 4), and
  leaves what is deeper alone.
* `WritesStayInWindow`: memory changes only under stores and receives; in the
  bytes their operands name, taken as the words they are and not as the code cuts
  them, provided the start is an address (finding 2 is about the others); and not
  beyond the end of memory, provided the length fits 32 bits.
* `ForwardProgramsStop`: a program whose jumps and calls all go forward ends.
* `NothingOverdueIsOpen`, `VerdictPerObligation`, `FulfilmentsAreEarned`,
  `BoltsAreDeserved`, `CondemnationsAreExact`, `CoverageIsHonest`: the ledger,
  the verdicts and the stream agree with each other.  The first excepts an
  obligation of a negative window until the engine hears anything after the event
  that opened it.
* `ImplementsObligations`: seen from outside, an obligation is closed once, by
  its deadline, by an answer in time, or by the end.
* `TicksOnlyHasten`: the live verdicts are those of the replay when time does
  not go back; a tick only brings a bolt forward.
* `ParserMeansTheText` (an assumption of `MCMOEngine`): every text of four lines
  of a pool, and more of some, parses to the rules it says, or to an error at a
  line that is wrong, or at none if there is a line of colons.
* `ResultsNameTheirCalls`: a result the engine hears is the answer to the latest
  call with its id and carries that call's name and correlation, and the answer
  of a waiting call is not heard as anything else.
* `NothingSilentlyDropped`: every parsed frame leaves an event, in the order of
  the log, a list of tools one for each tool it names.  A list that names none
  leaves no event (`mcp.py:152`, section 4).
* `ImplementsFeed`: `tell`, `readline` and `seek` over partial lines neither lose,
  repeat nor reorder a line, and every line is reached while the log is followed.
* `SilenceIsNoticed`: once there is no more to read, the engine comes to hear
  what time it is.  While lines keep coming it need not (section 4).
* `AssembledMatchesSource`: where the single pass put each line, and the operand
  it got, is what two passes over the text say, unless an append failed.
* `RefusedForAReason`: an error means something is wrong with the text, and no
  error that nothing is, unless an append failed, or an `.org` has an offset that
  no address holds, which the code misreads (section 4).
* `ListingReadsBack`: disassembling gives the instructions of the text back, line
  by line, and accounts for every byte whatever the text.
* `LoadedWasSaved`: what a command loads is the last program saved; a save that
  was cut short, killed or failed is refused.  This is about a file that nobody
  else writes: a command whose file was written to while it read (`crossed`) may
  load a mixture, and so may any after two commands saved at once (`mixed`).
  Such a program still has the lengths of its header (`TypeOK`).
* `StatusIsHonest`: `asm` exits with 0 only if the file is whole, as long as the
  flush inside `fclose` does not fail: its result is not looked at, and a full
  disk found out then goes unreported (`bytecode.c:129`).
* `CleanExit`: every file is closed and every block freed once, but for the code
  of an assembly whose second `malloc` failed (`main.c` returns without
  `zeus_program_free`).

**Fairness.** `vm_programs`: `StepsAreTaken` is weak fairness of the steps that
wait for nobody: `zeus_vm_run` is a loop around `zeus_vm_step`, so such a step
is always followed by the next.  Nothing is assumed of calls that wait for
another process (`Blocking`).  `live_tail`: `WF_vars(Reader)`, for the loop of
`tail_events` waits for nothing but its own short sleep.  Nothing is assumed of
the tap, the clock or the request to stop.

## 4. Findings

1. `include/vm.h:47` says `zeus_vm_reset` keeps the loaded program; `vm.c:85`
   zeroes the memory its data was copied to and does not restore it.
2. `docs/USAGE.md:502-503` makes a bad memory address an out-of-bounds error;
   the four indirect opcodes look at the low 32 bits of it only.
3. `mo/adapters/live.py:46-47` leaves a partial line for the next poll and
   `live.py:53` says the tailer must stay alive; a partial line that ends inside
   a multi-byte character raises `UnicodeDecodeError` in `readline`, and the
   generator ends.
4. `docs/USAGE.md:178-179` allows a comment at the end of any line; `.byte`,
   `.word` and `.org` take it for a part of their number.  The example of
   section 8.4 of that document does not assemble.

### Disagreements that no run shows

The models have these as the code does; the properties except them by name.

* `isa.c:62,63,66,72`: `stack_delta` is -1 for `RECV`, `CLOSE`, `RAW_FREE` and
  `RAW_RECV`, while `docs/USAGE.md:317-333` and `vm.c` say -2, 0, 0 and -2.
  `USAGE.md:542` calls `isa.c` the source of truth for opcodes; `isa.h:105` calls
  the field approximate, and nothing reads it.  `DocumentedEffect` follows
  `isa.c` but for these four.
* `vm.c:497-515`: `docs/USAGE.md:502-503` makes an out-of-bounds address an
  error, but the length of `SEND`, `RECV` and `RAW_RECV` is checked with its low
  32 bits only and used whole; the host name of `CONNECT` is checked for its first
  byte only (`vm.c:483`) and read up to a NUL (`net.c:87`).
* `asm.c:277`: `docs/USAGE.md:209` has `.org N` pad up to `N`, and not go back.
  The guard compares the low 32 bits of `N`: an offset of 2^32 or more may be
  refused as going back, and a negative one is accepted and pads for ever
  (`hung`).  `OrgsFit` excepts both.
* `asm.c:53`: a `realloc` that fails while bytes are appended is not noticed, and
  the program comes out short, with success (`dropped`); `.org` loops for ever
  when it does.
* `asm.c:256`: `.ascii` and `.asciz` are accepted in both sections, while
  `include/asm.h:20` allows string literals in `.data` segments only; the manual
  has no such rule, and the models follow it.
* `bytecode.c:129`: `fclose` after a save is not checked (`lost`).
* `mcp.py:152`: a list of tools none of which has a name yields no event, though
  `mcp.py:124-126` says nothing is silently dropped.
* `live.py:65,69`: a turn that reads a line, good or bad, continues past the tick,
  so lines that are always ready when the tailer looks keep every tick away,
  while `live.py:49-50` promises one "between lines, if at least `tick_ms` has
  elapsed".  `SilenceIsNoticed` speaks of what happens once lines stop.
* `parser.py:117-134`: a line of nothing but colons ends the parse with an
  `IndexError` and not with a `ParseError`.
* `include/bytecode.h` calls a header of 20 bytes 17 bytes long.

## 5. Proofs

All are checked by TLAPS without anything left unproved.

**`NetPacketsProofs`**, for every `MAX_PACKETS`, `MAX_PACKET_SIZE`, heap and
caller: `NetTypes`, `NetBuffersOwned` and `NetPayloadFits`.  The inductive
invariant is `NetInv`, the conjunction of the three.  None is inductive alone:
that a slot keeps its block on `packet_free` of another needs single ownership;
that `packet_set_payload` writes a block that is live needs ownership in both
directions; that the new length is a byte count of the block needs the size
recorded in the slot, whose type is needed in turn.  One lemma per function of
`net.c` shows that it preserves `NetInv` for any argument.

`NetImplementsPacketStore` holds under the same assumptions.  What a packet id is worth is a packet in a slot and the first bytes of a heap
block, so the proof has to show that a call on one id changes no other entry of
the store (`OneIdChanges`).  That is where `NetInv` comes in: two slots never
own one block, and the block `packet_alloc` is given has no owner.  One lemma
per function of `net.c` maps it to the step of the store it is, or to none.

**`WordProofs`**: wrapped results, casts, loads, stores, truncated division,
bitwise operators and masked shifts stay within the types of `MachineWords`.

**`ZeusVMProofs`**, for every library of programs, every `STACK_SIZE`,
`CALL_SIZE`, `MEMORY_SIZE` and whatever the system calls answer: `VMTypes`,
`VMReturnsFollowCalls`, `VMStopIsExplained`, `VMNoPacketLeak` and `VMPackets`.
The inductive invariant `VMInv` is their conjunction with three facts:

* only a started machine runs.  Otherwise an instruction could be executed with
  the program of a failed load;
* a machine that was never loaded has an empty call stack.  Otherwise
  `zeus_vm_run` could start it with return addresses of no program;
* the entry point of the program is an address even after a failed load, for
  `zeus_vm_free` keeps it.

`Fetched` and `Popped` say what the guards of an instruction establish;
`MachineStep` says what a step has to show, and `StackStep`, `PacketStep`,
`PushStep`, `RefusalStep`, `AnswerStep` are its instances for steps of one
shape.  Each action is then an instance of one of them.  `PayloadInMemory` is
the step that is not local: the bounds check of `RAW_SET_PAYLOAD` cuts the length
to 32 bits and the copy does not, and the copy stays in memory only because the
length was also found to fit the packet.

The second half of the module has the action properties `VMFailureIsContained`,
`VMRefusalsAreDeserved`, `VMWritesStayInWindow` and `VMStackDiscipline`, and
`VMImplementsPacketStore`.
`StepOutcome` says of every instruction which of five things it does: touch
stack, pc and status only (and then, if it fails, only pop); crash; move a
return address; change bytes; call the packet table.  Only the first may fail,
because an instruction that answers in place of an operand always finds room
for the answer (`AnswerGoes`): without that a `RAW_ALLOC` could take a slot and
then overflow the stack.  The first two theorems follow from it by cases.  The
stack effect needs the operands of each instruction as well (`PusherEffect`,
`TakerEffect`), and `SWAP` and `ROLL` by hand.  That a refusal is deserved is
shown action by action (`Justified`): the guard cuts a start and a length to 32
bits, and what does not fit memory after that did not fit before
(`AccessJustified`, `CutLength`).  The converse is false, and so the theorem on
writes speaks of starts and lengths that need no cut.  For the refinement, every step
is one of `NetPacketsProofs`, a whole table created or destroyed, or none;
`NoTable`, that a freed machine has no table, is the one fact `VMInv` lacks:
`zeus_vm_init` would otherwise replace a table with packets in it.

The assumptions are `PacketLimits` (a packet size fits the 32-bit fields of a
slot; `NULL` is neither a block nor a content nor a packet) and `VMLimits` (programs are as
`bytecode.c` delivers them, memory is addressable, a packet id fits a word, a
descriptor is small).  TLC evaluates both in every run.

**`MOEngineProofs`**, for every specification, every set of events and
timestamps in any order: the seven invariants of `mo_engine` and
`ImplementsObligations`.  `EngineInv` is their conjunction with four facts:

* `SeenIsTheTrace` and `LedgerIsTheTrace`: what the engine remembers of the
  stream is what the stream was.  The properties speak of the trace, the code
  looks at `seen` and the ledger;
* `VerdictsAreDated`: no verdict is dated after the last event.  Otherwise an
  old verdict could be taken for one of this event;
* `AnswersWereUsed`: an answer in time to an obligation that is still open went
  to an earlier one.  `BoltsAreDeserved` says so of those already bolted only,
  and is not inductive without it.

`Judged` describes a step by the sets of obligations it bolts, fulfils and
opens and the rules it finds broken; a tick, an event and the end of the stream
are its instances.  That an event goes to the first obligation it fits needs
that there is a first: the candidates are finitely many, and the set of those
before a given one strictly shrinks (`FirstCandidate`, by the well-foundedness
of strict inclusion on finite sets).  `EngineImplementsObligations` maps each of
the three kinds of step to the judge hearing something.

**`MOReplayProofs`**: `ReplayIsFaithful`, that `TicksOnlyHasten` holds of every
session in time order.  The ledgers of the two engines are not equal between an
event and the tick before it.  `ReplayInv` says they differ only where the live
engine has heard that a window is over (`Overtaken`); because time does not go
back, the next event tells the replay the same before anything else is made of
it (`ReplayCatchesUp`), and then both see the same candidates
(`SameSatisfied`).  `JudgedAlike` compares two steps in general.

**`LiveTailProofs`**, for every set of records and ids, every clock and every
way the tap may write or die: `TailTypes`, `TailResults`, `TailDropsNothing`, and
`TailFeedsInOrder`, that the tailer's steps are steps of `SessionFeed` (the safety
half of `ImplementsFeed`).  `ResultsNameTheirCalls` speaks of the history, the
code of a map; `TailInv` relates them: a request is in the map exactly when some
call with its id has not been followed by another call or result with that id
(`PendingWaits`, `WaitingIsPending`), and every call was announced with its name
and correlation (`CallsAnnounced`).  `Handed` says what a line adds to the events
and does to the map, whichever branch of the projection takes it;
`LineAnswers` says what it does to the calls that wait.  For the feed, `InPlace`
says that at the top of a turn, and after the seek, the file stands behind the
lines handed on and not inside the next one: without it `readline` could return
the rest of a line.

**`AssemblerProofs`**, for every text, every limit on symbols and fixups, every
first capacity and every append or allocation that fails: `AsmTypes`,
`AsmMatchesSource`, `AsmRefusals` and `AsmReadsBack`.  None of the four is
inductive: they speak of the program at the end, or of the whole text, and the code
knows the lines it has read.  `AsmInv` says what is true after each of them:

* `LabelsRead`: the symbols are the labels of the lines read, as many as there
  are, no two alike;
* `RefsRead`: the n-th fixup is that of the n-th reference, and the fixups filled
  in have a symbol;
* `LaidOut`: each section is as long as its lines, and a line of a section ends
  before the next one starts.  Without it filling in a fixup could overwrite
  another line;
* `Offsets`: symbols and fixups have the offsets of their lines, cut to 32 bits;
* `Content`: every line stands in its place with its operand, which is 0 until
  its fixup is filled in.

The last three hold as long as no append failed and `.org` did not hang, and
`Content` of sections that are `Addressable`.  That condition was not in the
properties before the proof was tried: with a section of more bytes than 32 bits
count, `code_len` (`asm.c:407`) and the offsets are cut, and neither the lengths
nor the operands are what the text says.  No instance small enough for TLC gets
there.  A line that emits bytes is the one that disturbs all parts at once;
`LineStep` shows what every line has to show, `EmitLineStep` and `OrgLineStep`
that they do.  `PatchedContent` is about a fixup: the line it belongs to gets its
operand, the others keep their bytes.  `AllResolved` says that with no fixup left
the bytes written are those the two passes of `AssemblySource` give.

`AsmRefusals` compares two readings of `.org`: `Accepted` is what the reader has
checked of a text, with the cut of `asm.c:277` in it (`CutBack`), and `Correct` is
the manual's.  They agree where every offset fits an address (`OrgsFit`).

Where a line ends (`Ends`) is a recursive function.  `EndsExist` proves that
such a function exists, by the least line for which it would not (`Smallest`, from the
well-foundedness of `<`), and `EndsUnfold` that it satisfies its equation.
`SweepsExist` and `ListingIsSweep` do the same for the sweep of
`zeus_disassemble`, from the end of the code backwards.

`AsmReadsBack` needs nothing beyond `AsmInv`.  `SweepChains` says that the items
of a listing follow one another and `ItemStands` that each stands for the bytes
there: an opcode's byte can be told from its name (`NamesDiffer`, over the table of
`isa.c`) and a word read back is the word written (`WordAgain`, `BytesAgain`).
This holds for any program, a text's or not (`ListingAccounts`).  `LineListed` says
that the item where a line of instructions starts is that line's, and
`ListedBefore`, by induction over the lines, that the listing comes by there.  The
proof needs `Listable`: `pc` and `i` in `zeus_disassemble` are 32 bits wide, so in
a program whose code ends within 8 bytes of 4 GiB, or its data within 15, the sum
`pc + 9` (`disasm.c:39`) or `i += 16` (`disasm.c:66`) wraps.

**`ToolchainProofs`**, for every number of processes, all programs and every
failure or kill between two calls: `ToolTypes`, `ToolLoadsWhatWasSaved`,
`ToolSavesHonestly` and `ToolExitsClean`.  `ToolInv` relates the file, the stdio
buffers of every process and the blocks each holds:

* `BlocksFit` and `StreamFits` say which blocks are live and which file is open
  at every point of every command;
* `BufferFits` and `OneWrites`: what a writer has buffered is the part of the
  image it gave and that is not on the disk yet; if nobody else wrote, it goes on
  where the file ends, and the file is a beginning of the image;
* `DiskFits`: a file nobody else wrote to cannot be loaded, or starts as the last
  program saved does.  A save cut short leaves one that cannot be loaded, and
  that is why `LoadedWasSaved` survives kills;
* `UndisturbedReads`: what a reader has in memory is what the file has at those
  places, if nobody wrote since it opened it.

Further assumptions: `SpecAssumption` (rules are over the kinds of event there
are, windows are integers and timestamps natural numbers), `TailAssumption` (the records,
times and bounds are of their types, and the tailer starts before the last
moment of the model), `ProjectorAssumption` (the absent value is not an id or
a name), `TokenAssumption` and `AssemblerAssumption` (numbers are words, strings
at most the 8192 characters `parse_string` keeps, `NULL` is no array of bytes,
and the first capacity is at least 2: then sixteen doublings reach any length an
append or `.org` can ask for) and `ProgramAssumption` (programs are sequences of bytes, `NULL` and
`None` are not).

Left to TLC: liveness (`ForwardProgramsStop`, `SilenceIsNoticed`, the second
half of `ImplementsFeed`), which is out of the prover's reach, and the parser,
whose reference is checked by evaluation over a pool of lines.

## 6. Not modelled

* `mo/trace.py`, `report.py`, `cli.py`: they read input, print and choose exit
  codes, around an engine that is modelled.
* The batch projection of a recorded trace (`trace_to_events`, `mcp.py:80-101`):
  a loop without state over the events of a trace object, whose declarations it
  puts first.  The object comes from a library that is not in the repository.
* Layout and wording everywhere: the digits of a number, the columns of a
  listing, messages.  `zeus_strerror` is a constant table.  `main.c:74-80` prints
  `err_buf` uninitialised when `zeus_assemble` runs out of memory.
* What sockets carry; the sockets themselves are the operating system's.
* In `Toolchain`, sources that cannot be sought, a header of fewer than its
  bytes (taken as none) and machines that store numbers the other way round.
* Examples and tools: sample programs and a script that makes an image.

## 7. What could follow

`LiveTail` and `MOEngine` on one session, where the ticks the tailer makes are
those the engine hears.
