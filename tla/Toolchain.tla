----------------------------- MODULE Toolchain -----------------------------
(***************************************************************************)
(* The commands of the zeus program (src/src/main.c) and the bytecode files *)
(* they read and write (src/src/bytecode.c): several processes share one   *)
(* file, any call may fail, and a process may be killed between two calls. *)
(*                                                                         *)
(* A file is a sequence of cells: one for the header and one for each byte *)
(* behind it.  What a process wrote waits in the stdio buffer until it is  *)
(* flushed, in order; what it reads may come from a read-ahead.  Whether   *)
(* an assembly or a run succeeds is Assembler's and ZeusVM's matter.       *)
(***************************************************************************)
EXTENDS Integers, Sequences

CONSTANTS Procs,      \* the processes
          Programs,   \* what the source text may assemble to
          NULL, None  \* no block; no file, or no program saved yet

(* What a cell may hold: the header, a byte, or a foreign byte.            *)
FileHeader == [valid : BOOLEAN, code_len : Nat, data_len : Nat]
FileCell   == FileHeader \cup Nat \cup {"z"}

ASSUME ProgramAssumption ==
  /\ \A q \in Programs : q \in [code : Seq(Nat), data : Seq(Nat)]
  /\ NULL \notin Seq(FileCell) /\ None \notin Seq(FileCell)

VARIABLES disk,       \* the bytecode file: its cells, or None
          proc,       \* each process
          last_saved, \* history: the last program a process began to write
          writer,     \* history: which process that was
          mixed       \* history: another process was writing then

vars == <<disk, proc, last_saved, writer, mixed>>

Header(valid, code_len, data_len) == [valid |-> valid, code_len |-> code_len, data_len |-> data_len]
HeaderOf(q) == Header(TRUE, Len(q.code), Len(q.data))
Image(q)    == <<HeaderOf(q)>> \o q.code \o q.data

(* zeus_program_init: a program with no blocks.                            *)
Empty  == [header |-> Header(FALSE, 0, 0), code |-> NULL, data |-> NULL]
Closed == [mode |-> "closed", pos |-> 0, buffer |-> <<>>]

Idle == [cmd |-> "none", at |-> "idle", status |-> None, prog |-> Empty, file |-> Closed,
         held |-> {},           \* live blocks
         crossed |-> FALSE,     \* history: another process wrote the file while this one read it
         lost |-> FALSE]        \* history: the last flush failed, and nobody looked

(* The file at first: none, a foreign one, one cut off, or a good one.     *)
Init == /\ proc = [p \in Procs |-> Idle] /\ writer = None /\ mixed = FALSE
        /\ \/ /\ disk \in {None, <<>>, <<Header(FALSE, 1, 0), "z">>, <<Header(TRUE, 2, 0), "z">>}
              /\ last_saved = None
           \/ \E q \in Programs : disk = Image(q) /\ last_saved = q

Block(s) == IF s = <<>> THEN NULL ELSE s
Blocks(q) == {b \in {"code", "data"} : q[b] # <<>>}

-----------------------------------------------------------------------------
(* One call of process p: it stands at pc and becomes r.                   *)
At(p, pc) == proc[p].at = pc
Becomes(p, r) == proc' = [proc EXCEPT ![p] = r]
Local == UNCHANGED <<disk, last_saved, writer, mixed>>

Opened(mode) == [mode |-> mode, pos |-> 0, buffer |-> <<>>]

(* zeus_program_free.                                                      *)
Freed(r) == [r EXCEPT !.prog.code = NULL, !.prog.data = NULL, !.prog.header.code_len = 0,
                      !.prog.header.data_len = 0, !.held = @ \ {"code", "data"}]

Exit(r, status) == [r EXCEPT !.at = "idle", !.status = status]

(* main: wrong arguments, or one of the four commands.                     *)
Begin(p) ==
  /\ At(p, "idle") /\ Local
  /\ \/ Becomes(p, [Idle EXCEPT !.cmd = "usage", !.status = 1])
     \/ \E cmd \in {"run", "dis"} : Becomes(p, [Idle EXCEPT !.cmd = cmd, !.at = "load"])
     \/ \E cmd \in {"asm", "run-asm"} : Becomes(p, [Idle EXCEPT !.cmd = cmd, !.at = "read_file"])

ReadFile(p) ==
  /\ At(p, "read_file") /\ Local
  /\ \/ Becomes(p, Exit(proc[p], 1))
     \/ Becomes(p, [proc[p] EXCEPT !.at = "assemble", !.held = {"source"}])

(* zeus_assemble, then free(source).  On an error the command returns      *)
(* without zeus_program_free, though the code may have been allocated.     *)
Assemble(p) ==
  LET r == [proc[p] EXCEPT !.held = {}]
  IN  /\ At(p, "assemble") /\ Local
      /\ \/ Becomes(p, Exit(r, 1))
         \/ \E q \in Programs : q.data # <<>> /\
              Becomes(p, Exit([r EXCEPT !.prog = [header |-> HeaderOf(q), code |-> Block(q.code), data |-> NULL],
                                        !.held = Blocks(q) \ {"data"}], 1))
         \/ \E q \in Programs :
              Becomes(p, [r EXCEPT !.prog = [header |-> HeaderOf(q), code |-> Block(q.code), data |-> Block(q.data)],
                                   !.held = Blocks(q),
                                   !.at = IF r.cmd = "asm" THEN "save" ELSE "vm"])

-----------------------------------------------------------------------------
(* zeus_program_save.                                                      *)

Saving(p) == proc[p].file.mode = "write"

Content(prog) == [code |-> IF prog.code = NULL THEN <<>> ELSE prog.code,
                  data |-> IF prog.data = NULL THEN <<>> ELSE prog.data]

(* fopen "wb" empties the file.                                            *)
OpenToWrite(p) ==
  /\ At(p, "save")
  /\ \/ Becomes(p, Exit(Freed(proc[p]), 1)) /\ Local
     \/ /\ disk' = <<>> /\ writer' = p /\ last_saved' = Content(proc[p].prog)
        /\ mixed' = \E o \in Procs : Saving(o)
        /\ proc' = [q \in Procs |->
             IF q = p THEN [proc[p] EXCEPT !.at = "write_header", !.file = Opened("write")]
             ELSE [proc[q] EXCEPT !.crossed = @ \/ proc[q].file.mode = "read"]]

(* The file with cells written from pos on; a hole reads as zeros.         *)
Written(pos, cells) ==
  LET old  == IF disk = None THEN <<>> ELSE disk
      size == IF Len(old) > pos + Len(cells) THEN Len(old) ELSE pos + Len(cells)
  IN  [i \in 1 .. size |-> IF i > pos /\ i <= pos + Len(cells) THEN cells[i - pos]
                           ELSE IF i <= Len(old) THEN old[i]
                           ELSE IF i = 1 THEN Header(FALSE, 0, 0) ELSE 0]

(* The first k cells of the buffer of r reach the disk.                    *)
FlushedTo(r, k) == IF k = 0 THEN disk ELSE Written(r.file.pos, SubSeq(r.file.buffer, 1, k))

Flush(p) ==
  LET r == proc[p]
  IN  /\ Saving(p) /\ UNCHANGED <<last_saved, writer, mixed>>
      /\ \E k \in DOMAIN r.file.buffer :
           /\ disk' = FlushedTo(r, k)
           /\ Becomes(p, [r EXCEPT !.file.pos = @ + k, !.file.buffer = SubSeq(@, k + 1, Len(@))])

(* A short fwrite: the file is closed, the program freed and the command   *)
(* fails.                                                                  *)
WriteFails(p, r) ==
  \E k \in 0 .. Len(r.file.buffer) :
    disk' = FlushedTo(r, k) /\ Becomes(p, Exit(Freed([r EXCEPT !.file = Closed]), 1))

(* Mutant: the result of fwrite is not looked at.                          *)
WriteUnchecked(p, pc, cells, next) ==
  LET r == [proc[p] EXCEPT !.file.buffer = @ \o cells]
  IN  /\ At(p, pc) /\ UNCHANGED <<last_saved, writer, mixed>>
      /\ \E k \in 0 .. Len(r.file.buffer) :
           /\ disk' = FlushedTo(r, k)
           /\ Becomes(p, [r EXCEPT !.at = next, !.file.pos = @ + k, !.file.buffer = <<>>])

(* fwrite of cells, unless there are none.                                 *)
Write(p, pc, cells, next) ==
  LET r == [proc[p] EXCEPT !.file.buffer = @ \o cells]
  IN  /\ At(p, pc) /\ UNCHANGED <<last_saved, writer, mixed>>
      /\ \/ disk' = disk /\ Becomes(p, [r EXCEPT !.at = next])
         \/ cells # <<>> /\ WriteFails(p, r)

Save(p) == LET q == Content(proc[p].prog)
           IN  \/ Write(p, "write_header", <<HeaderOf(q)>>, "write_code")
               \/ Write(p, "write_code", q.code, "write_data")
               \/ Write(p, "write_data", q.data, "saved")

(* fclose flushes the rest, and its result is not looked at.               *)
CloseSaved(p) ==
  LET r == proc[p]
      n == Len(r.file.buffer)
  IN  /\ At(p, "saved") /\ UNCHANGED <<last_saved, writer, mixed>>
      /\ \E k \in 0 .. n : /\ disk' = FlushedTo(r, k)
                           /\ Becomes(p, Exit(Freed([r EXCEPT !.file = Closed, !.lost = k < n]), 0))

-----------------------------------------------------------------------------
(* zeus_program_load.                                                      *)

(* Cell i of the file as process p reads it: from what it read ahead, or   *)
(* from the disk.  Memory that was not read into holds anything.           *)
Cell(p, i) == LET ahead == proc[p].file.buffer
              IN  IF i <= Len(ahead) THEN ahead[i] ELSE IF i <= Len(disk) THEN disk[i] ELSE 0

Cells(p, from, n) == [i \in 1 .. n |-> Cell(p, from + i)]

(* Mutant: a short fread is taken for a whole one.                         *)
HasAny(p, n) == Len(disk) > 0

Has(p, n) == n <= Len(proc[p].file.buffer) \/ n <= Len(disk)

(* Mutant: a program read in part is not freed.                            *)
ReadFailsKeeping(r) == Exit([r EXCEPT !.file = Closed], 1)

ReadFails(r) == Exit(Freed([r EXCEPT !.file = Closed]), 1)

OpenToRead(p) ==
  /\ At(p, "load") /\ Local
  /\ \/ Becomes(p, Exit(proc[p], 1))
     \/ disk # None /\ Becomes(p, [proc[p] EXCEPT !.at = "read_header", !.file = Opened("read"),
                                                  !.crossed = \E o \in Procs : Saving(o)])

(* The fread may fail although a header is there; a header that is not     *)
(* valid is refused the same way.                                          *)
ReadHeader(p) ==
  /\ At(p, "read_header") /\ Local
  /\ \/ Becomes(p, ReadFails(proc[p]))
     \/ /\ Has(p, 1) /\ Cell(p, 1).valid
        /\ \E ahead \in {1, Len(disk)} :
             Becomes(p, [proc[p] EXCEPT !.at = "read_code", !.prog.header = Cell(p, 1), !.file.pos = 1,
                                        !.file.buffer = SubSeq(disk, 1, ahead)])

(* malloc and fread of one section: b is "code" or "data".                 *)
ReadSection(p, pc, b, len, next) ==
  LET r == proc[p]
  IN  /\ At(p, pc) /\ Local
      /\ \/ len = 0 /\ Becomes(p, [r EXCEPT !.at = next])
         \/ len > 0 /\ Becomes(p, ReadFails(r))
         \/ len > 0 /\ b = "code" /\ Becomes(p, Exit([r EXCEPT !.file = Closed], 1))  \* malloc
         \/ /\ len > 0 /\ Has(p, r.file.pos + len)
            /\ Becomes(p, [r EXCEPT !.at = next, !.file.pos = @ + len, !.held = @ \cup {b},
                                    !.prog[b] = Cells(p, r.file.pos, len)])

(* Mutant: the data is read by the length of the code.                     *)
LoadByCodeLength(p) ==
  \/ ReadSection(p, "read_code", "code", proc[p].prog.header.code_len, "read_data")
  \/ ReadSection(p, "read_data", "data", proc[p].prog.header.code_len, "loaded")

Load(p) == \/ ReadSection(p, "read_code", "code", proc[p].prog.header.code_len, "read_data")
           \/ ReadSection(p, "read_data", "data", proc[p].prog.header.data_len, "loaded")

CloseLoaded(p) ==
  /\ At(p, "loaded") /\ Local
  /\ Becomes(p, [proc[p] EXCEPT !.file = Closed,
                                !.at = IF proc[p].cmd = "run" THEN "vm" ELSE "list"])

-----------------------------------------------------------------------------
(* What the commands do with a program.                                    *)

(* zeus_disassemble: its result is not looked at.                          *)
List(p) == At(p, "list") /\ Local /\ Becomes(p, Exit(Freed(proc[p]), 0))

(* zeus_vm_free and zeus_program_free.                                     *)
Done(r, status) == Exit(Freed([r EXCEPT !.held = @ \ {"vm code", "vm data"}]), status)

Copy(block) == IF block = "code" THEN "vm code" ELSE "vm data"

(* zeus_vm_load copies the program; a copy may fail.                       *)
LoadVM(p) ==
  LET r == proc[p]
  IN  /\ At(p, "vm") /\ Local
      /\ \/ Becomes(p, [r EXCEPT !.at = "vm_run", !.held = @ \cup {Copy(b) : b \in Blocks(Content(r.prog))}])
         \/ Blocks(Content(r.prog)) # {} /\ Becomes(p, Done(r, 1))

(* zeus_vm_run, if it ends.                                                *)
RunVM(p) == /\ At(p, "vm_run") /\ Local
            /\ \E status \in {0, 1} : Becomes(p, Done(proc[p], status))

(* A process that is killed gives back its memory and closes its file, but *)
(* its buffer is lost.                                                     *)
Killed(p) == ~At(p, "idle") /\ Local /\ Becomes(p, Idle)

Next == \E p \in Procs :
  \/ Begin(p) \/ ReadFile(p) \/ Assemble(p)
  \/ OpenToWrite(p) \/ Flush(p) \/ Save(p) \/ CloseSaved(p)
  \/ OpenToRead(p) \/ ReadHeader(p) \/ Load(p) \/ CloseLoaded(p)
  \/ List(p) \/ LoadVM(p) \/ RunVM(p) \/ Killed(p)

Spec == Init /\ [][Next]_vars

-----------------------------------------------------------------------------
(* Properties.                                                             *)

Holding(p) == proc[p].at \in {"save", "write_header", "write_code", "write_data", "saved",
                              "loaded", "vm", "vm_run", "list"}

(* The types; a program a command works on is as long as its header says,  *)
(* whatever happened to the file while it was read.                        *)
TypeOK ==
  /\ disk = None \/ Len(disk) = 0 \/ disk[1] \in FileHeader
  /\ \A p \in Procs :
       /\ proc[p].status \in {0, 1, None}
       /\ proc[p].file.mode \in {"closed", "read", "write"}
       /\ Holding(p) => LET q == Content(proc[p].prog) IN proc[p].prog.header = HeaderOf(q)

(* What a command loads is the last program that was saved, and never a    *)
(* foreign file or the remains of a save that failed or was killed, unless *)
(* another process wrote the file while it was read or saved.              *)
LoadedWasSaved ==
  \A p \in Procs : proc[p].at = "loaded" /\ ~proc[p].crossed /\ ~mixed => Content(proc[p].prog) = last_saved

(* zeus asm reports success only when the whole program is in the file,    *)
(* unless another process wrote it at the same time or since, or the flush *)
(* inside fclose failed, which the code does not look at.                  *)
StatusIsHonest ==
  \A p \in Procs :
    /\ proc[p].at = "idle" /\ proc[p].cmd = "asm" /\ proc[p].status = 0
    /\ ~proc[p].lost /\ ~mixed /\ writer = p
    => disk = Image(last_saved)

(* A pointer is null exactly when its block is not live, so nothing is     *)
(* freed twice or used after; and a command that ends leaves no file open  *)
(* and no block live but the code of an assembly that ran out of memory.   *)
CleanExit ==
  \A p \in Procs :
    /\ \A b \in {"code", "data"} : proc[p].prog[b] # NULL <=> b \in proc[p].held
    /\ proc[p].at = "idle" =>
         /\ proc[p].file = Closed
         /\ proc[p].held # {} => /\ proc[p].held = {"code"} /\ proc[p].status = 1
                                 /\ proc[p].cmd \in {"asm", "run-asm"}
                                 /\ proc[p].prog.header.data_len > 0
=============================================================================
