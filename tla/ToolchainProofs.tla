--------------------------- MODULE ToolchainProofs ---------------------------
(***************************************************************************)
(* The commands of zeus and the files they share, for any number of        *)
(* processes and any programs: a command works on what its header says,    *)
(* loads what was saved, tells the truth about a save, and gives back what *)
(* it took.                                                                *)
(***************************************************************************)
EXTENDS Toolchain, TLAPS

-----------------------------------------------------------------------------
(* What is true of a process whatever is in the file.                      *)

WriteAts == {"write_header", "write_code", "write_data", "saved"}
ReadAts  == {"read_header", "read_code", "read_data", "loaded"}
HoldAts  == WriteAts \cup {"save", "loaded", "vm", "vm_run", "list"}
Ats      == WriteAts \cup ReadAts \cup {"idle", "read_file", "assemble", "save", "load", "vm", "vm_run", "list"}

BlockOrNull == Seq(FileCell) \cup {NULL}
ProgramInMemory == [header : FileHeader, code : BlockOrNull, data : BlockOrNull]
Stream  == [mode : {"closed", "read", "write"}, pos : Nat, buffer : Seq(FileCell)]
Process == [cmd : {"none", "usage", "run", "dis", "asm", "run-asm"}, at : Ats, status : {0, 1, None},
            prog : ProgramInMemory, file : Stream,
            held : SUBSET {"source", "code", "data", "vm code", "vm data"},
            crossed : BOOLEAN, lost : BOOLEAN]

(* A stream is open exactly while a command reads or writes.               *)
StreamFits(r) == /\ r.file.mode = "write" <=> r.at \in WriteAts
                 /\ r.file.mode = "read" <=> r.at \in ReadAts
                 /\ r.file.mode = "closed" => r.file = Closed

CommandFits(r) == /\ r.at \in {"read_file", "assemble"} => r.cmd \in {"asm", "run-asm"}
                  /\ r.at \in ReadAts \cup {"load", "vm", "vm_run", "list"} => r.cmd # "asm"

(* Which blocks are live at which point.                                   *)
BlocksFit(r) ==
  /\ r.prog.code # NULL <=> "code" \in r.held
  /\ r.prog.data # NULL <=> "data" \in r.held
  /\ r.at \in {"read_file", "load", "read_header", "read_code"} => r.held = {}
  /\ r.at = "assemble" => r.held = {"source"}
  /\ r.at = "read_data" => r.held \subseteq {"code"}
  /\ r.at \in HoldAts \ {"vm_run"} => r.held \subseteq {"code", "data"}
  /\ r.at = "vm_run" => r.held \subseteq {"code", "data", "vm code", "vm data"}
  /\ r.at = "idle" /\ r.held # {} => /\ r.held = {"code"} /\ r.status = 1
                                     /\ r.cmd \in {"asm", "run-asm"} /\ r.prog.header.data_len > 0

(* The header against the blocks, and the position of a reader.            *)
HeaderFits(r) ==
  /\ r.at \in HoldAts => r.prog.header = HeaderOf(Content(r.prog))
  /\ r.at = "read_header" => r.file.buffer = <<>>
  /\ r.at \in {"read_code", "read_data"} => r.prog.header.valid
  /\ r.at = "read_code" => r.file.pos = 1
  /\ r.at = "read_data" => /\ Len(Content(r.prog).code) = r.prog.header.code_len
                           /\ r.file.pos = 1 + r.prog.header.code_len
  /\ r.at = "loaded"    => r.file.pos = 1 + r.prog.header.code_len + r.prog.header.data_len

(* How much of the image was handed to fwrite.                             *)
Given(r) == LET q == Content(r.prog)
            IN  IF r.at = "write_header" THEN 0 ELSE IF r.at = "write_code" THEN 1
                ELSE IF r.at = "write_data" THEN 1 + Len(q.code) ELSE 1 + Len(q.code) + Len(q.data)

(* The buffer of a writer is the part of the image it gave and that is not *)
(* yet on the disk.                                                        *)
BufferFits(r) ==
  /\ r.at \in WriteAts \cup {"save"} => Content(r.prog) \in Programs
  /\ r.at \in WriteAts => /\ r.file.pos + Len(r.file.buffer) = Given(r)
                          /\ \A i \in 1 .. Len(r.file.buffer) :
                               r.file.buffer[i] = Image(Content(r.prog))[r.file.pos + i]

Fits(r) == r \in Process /\ StreamFits(r) /\ CommandFits(r) /\ BlocksFit(r) /\ HeaderFits(r) /\ BufferFits(r)

ProcsFit == DOMAIN proc = Procs /\ \A p \in Procs : Fits(proc[p])

-----------------------------------------------------------------------------
(* What is true of the file, and of processes against each other.          *)

DiskTypeOK == /\ disk = None \/ disk \in Seq(FileCell)
              /\ disk # None /\ Len(disk) > 0 => disk[1] \in FileHeader
              /\ mixed \in BOOLEAN
              /\ \A p \in Procs : proc[p].file.mode # "closed" => disk # None

(* The first cells of an image.                                            *)
Begins(cells, image) == /\ Len(cells) <= Len(image)
                        /\ \A i \in 1 .. Len(cells) : cells[i] = image[i]

(* A file zeus_program_load would accept.                                  *)
Loadable(cells) == /\ Len(cells) > 0 /\ cells[1].valid
                   /\ Len(cells) >= 1 + cells[1].code_len + cells[1].data_len

(* The file is of no use, or starts as the last program saved does.        *)
DiskFits == ~mixed => \/ disk = None \/ ~Loadable(disk)
                      \/ last_saved \in Programs /\ Begins(disk, Image(last_saved))

(* One process writes, unless several did from the start.                  *)
OneWrites ==
  ~mixed => \A p \in Procs : Saving(p) =>
    /\ p = writer /\ last_saved = Content(proc[p].prog)
    /\ disk # None /\ proc[p].file.pos = Len(disk) /\ Begins(disk, Image(last_saved))

(* A reader nobody disturbed has in memory what is on the disk.            *)
ReadsDisk(r) ==
  r.file.mode = "read" /\ ~r.crossed =>
    /\ \A o \in Procs : ~Saving(o)
    /\ disk # None /\ Begins(r.file.buffer, disk)
    /\ r.at # "read_header" =>
         LET q == Content(r.prog)
         IN  /\ Len(disk) > 0 /\ r.prog.header = disk[1] /\ r.file.pos <= Len(disk)
             /\ \A i \in 1 .. Len(q.code) : q.code[i] = disk[1 + i]
             /\ \A i \in 1 .. Len(q.data) : q.data[i] = disk[1 + r.prog.header.code_len + i]

UndisturbedReads == \A p \in Procs : ReadsDisk(proc[p])

ToolInv == ProcsFit /\ DiskTypeOK /\ DiskFits /\ OneWrites /\ UndisturbedReads /\ StatusIsHonest
-----------------------------------------------------------------------------
(* Programs, images and cells.                                             *)

LEMMA CellTypes ==
  /\ FileHeader \subseteq FileCell /\ Nat \subseteq FileCell
  /\ <<>> \in Seq(FileCell) /\ NULL \notin Seq(FileCell) /\ None \notin Seq(FileCell)
BY ProgramAssumption DEF FileCell

(* A table of cells is a sequence; sequences with the same cells are one.  *)
LEMMA TableIsSequence ==
  ASSUME NEW S, NEW n \in Nat, NEW t, NEW t1 \in [1 .. n -> S], t = t1
  PROVE  t \in Seq(S) /\ Len(t) = n
OBVIOUS

LEMMA SameCells ==
  ASSUME NEW S, NEW s \in Seq(S), NEW t \in Seq(S), Len(s) = Len(t), \A i \in 1 .. Len(s) : s[i] = t[i]
  PROVE  s = t
OBVIOUS

LEMMA BytesAreCells == ASSUME NEW s \in Seq(Nat) PROVE s \in Seq(FileCell)
BY CellTypes

LEMMA Concatenated ==
  ASSUME NEW S, NEW s \in Seq(S), NEW t \in Seq(S), NEW u, u = s \o t
  PROVE  /\ u \in Seq(S) /\ Len(u) = Len(s) + Len(t)
         /\ \A i \in 1 .. Len(s) : u[i] = s[i]
         /\ \A i \in 1 .. Len(t) : u[Len(s) + i] = t[i]
OBVIOUS

(* An image is the header, then the code, then the data.                   *)
LEMMA ImageCells ==
  ASSUME NEW q \in Programs
  PROVE  /\ q = [code |-> q.code, data |-> q.data]
         /\ q.code \in Seq(Nat) /\ q.data \in Seq(Nat)
         /\ HeaderOf(q) \in FileHeader
         /\ Image(q) \in Seq(FileCell)
         /\ Len(Image(q)) = 1 + Len(q.code) + Len(q.data)
         /\ Image(q)[1] = HeaderOf(q)
         /\ \A i \in 1 .. Len(q.code) : Image(q)[1 + i] = q.code[i]
         /\ \A i \in 1 .. Len(q.data) : Image(q)[1 + Len(q.code) + i] = q.data[i]
<1>1. q \in [code : Seq(Nat), data : Seq(Nat)]
  BY ProgramAssumption
<1>2. q = [code |-> q.code, data |-> q.data] /\ q.code \in Seq(Nat) /\ q.data \in Seq(Nat)
  BY <1>1
<1>3. HeaderOf(q) \in FileHeader
  BY <1>2 DEF HeaderOf, Header, FileHeader
<1>4. q.code \in Seq(FileCell) /\ q.data \in Seq(FileCell) /\ HeaderOf(q) \in FileCell
  BY <1>2, <1>3, BytesAreCells, CellTypes
<1>5. PICK h : h = HeaderOf(q)
  OBVIOUS
<1>6. PICK front : front = <<h>> \o q.code
  OBVIOUS
<1>7. /\ front \in Seq(FileCell) /\ Len(front) = 1 + Len(q.code) /\ front[1] = h
      /\ \A i \in 1 .. Len(q.code) : front[1 + i] = q.code[i]
  BY <1>4, <1>5, <1>6
<1>8. PICK image : image = front \o q.data
  OBVIOUS
<1>9. /\ image \in Seq(FileCell) /\ Len(image) = Len(front) + Len(q.data)
      /\ \A i \in 1 .. Len(front) : image[i] = front[i]
      /\ \A i \in 1 .. Len(q.data) : image[Len(front) + i] = q.data[i]
  <2>1. front \in Seq(FileCell) /\ q.data \in Seq(FileCell)
    BY <1>4, <1>7
  <2>2. QED
    BY <2>1, <1>8, Concatenated
<1>10. Len(q.code) \in Nat /\ Len(q.data) \in Nat
  BY <1>2
<1>11. image[1] = h
  <2>1. 1 \in 1 .. Len(front)
    BY <1>7, <1>10
  <2>2. QED
    BY <1>7, <1>9, <2>1, Zenon
<1>12. \A i \in 1 .. Len(q.code) : image[1 + i] = q.code[i]
  <2>1. TAKE i \in 1 .. Len(q.code)
  <2>2. 1 + i \in 1 .. Len(front)
    BY <1>7, <1>10
  <2>3. QED
    BY <1>7, <1>9, <2>2
<1>13. image = Image(q)
  BY <1>5, <1>6, <1>8 DEF Image
<1>14. QED
  BY <1>2, <1>3, <1>5, <1>7, <1>9, <1>11, <1>12, <1>13

(* The blocks of a program in memory are its content.                      *)
LEMMA ContentOfBlocks ==
  ASSUME NEW prog \in ProgramInMemory
  PROVE  /\ Content(prog) = [code |-> Content(prog).code, data |-> Content(prog).data]
         /\ Content(prog).code \in Seq(FileCell) /\ Content(prog).data \in Seq(FileCell)
         /\ prog.code # NULL => Content(prog).code = prog.code
         /\ prog.data # NULL => Content(prog).data = prog.data
         /\ prog.code = NULL => Content(prog).code = <<>>
         /\ prog.data = NULL => Content(prog).data = <<>>
BY CellTypes DEF Content, ProgramInMemory, BlockOrNull

LEMMA BlockOfContent ==
  ASSUME NEW s \in Seq(Nat)
  PROVE  /\ Block(s) \in BlockOrNull /\ (Block(s) # NULL <=> s # <<>>)
         /\ (IF Block(s) = NULL THEN <<>> ELSE Block(s)) = s
BY BytesAreCells, CellTypes DEF Block, BlockOrNull

-----------------------------------------------------------------------------
(* A process by itself.                                                    *)

LEMMA OneFits ==
  ASSUME ProcsFit, NEW p \in Procs, NEW r, Fits(r), Becomes(p, r)
  PROVE  ProcsFit'
BY DEF ProcsFit, Becomes

LEMMA ProcFits ==
  ASSUME ProcsFit, NEW p \in Procs
  PROVE  Fits(proc[p]) /\ proc[p] \in Process
BY DEF ProcsFit, Fits

LEMMA ClosedStream == Closed \in Stream /\ Closed.mode = "closed" /\ Closed.buffer = <<>> /\ Closed.pos = 0
BY CellTypes DEF Closed, Stream

LEMMA IdleFits == Fits(Idle) /\ Idle.file = Closed /\ Idle \in Process
<1>1. Empty \in ProgramInMemory /\ Empty.code = NULL /\ Empty.data = NULL
  BY DEF Empty, ProgramInMemory, BlockOrNull, Header, FileHeader
<1>2. Idle \in Process
  BY <1>1, ClosedStream DEF Idle, Process, Ats
<1>3. QED
  BY <1>1, <1>2, ClosedStream DEF Idle, Fits, StreamFits, CommandFits, BlocksFit, HeaderFits, BufferFits,
     WriteAts, ReadAts, HoldAts

(* What is left of a process that gave back its blocks and closed its file.*)
LEMMA FreedFits ==
  ASSUME NEW r \in Process, r.file = Closed, r.held \subseteq {"code", "data"}, NEW status \in {0, 1}
  PROVE  /\ Fits(Exit(Freed(r), status)) /\ Exit(Freed(r), status).file = Closed
         /\ Exit(Freed(r), status).held = {}
<1>1. PICK f : f = Freed(r)
  OBVIOUS
<1>2. PICK s : s = Exit(Freed(r), status)
  OBVIOUS
<1>3. /\ f \in Process /\ f.file = Closed /\ f.held = {} /\ f.prog.code = NULL /\ f.prog.data = NULL
  BY <1>1, ZenonT(40) DEF Freed, Process, ProgramInMemory, BlockOrNull, FileHeader
<1>4. /\ s \in Process /\ s.file = Closed /\ s.held = {} /\ s.prog.code = NULL /\ s.prog.data = NULL
      /\ s.at = "idle" /\ s.status = status
  BY <1>1, <1>2, <1>3 DEF Exit, Process, Ats
<1>5. Fits(s)
  BY <1>4, ClosedStream DEF Fits, StreamFits, CommandFits, BlocksFit, HeaderFits, BufferFits,
     WriteAts, ReadAts, HoldAts
<1>6. QED
  BY <1>2, <1>4, <1>5

(* Fits(r), taken apart for r at a point that neither reads nor writes.    *)
LEMMA StillFits ==
  ASSUME NEW r \in Process, r.at \notin WriteAts \cup ReadAts, r.file = Closed,
         CommandFits(r), BlocksFit(r),
         r.at \in HoldAts => r.prog.header = HeaderOf(Content(r.prog)),
         r.at = "save" => Content(r.prog) \in Programs
  PROVE  Fits(r)
BY ClosedStream DEF Fits, StreamFits, HeaderFits, BufferFits, WriteAts, ReadAts, HoldAts

(* A process that is at no read or write has its file closed.              *)
LEMMA FileClosed ==
  ASSUME NEW r, Fits(r), r.at \notin WriteAts \cup ReadAts
  PROVE  r.file = Closed
BY DEF Fits, StreamFits, Process, Stream

LEMMA BeginFits ==
  ASSUME ProcsFit, NEW p \in Procs, Begin(p)
  PROVE  ProcsFit'
<1>1. ASSUME NEW r \in Process, r.file = Closed, r.held = {}, r.prog.code = NULL, r.prog.data = NULL,
             r.at \in {"idle", "load", "read_file"},
             r.at = "load" => r.cmd # "asm", r.at = "read_file" => r.cmd \in {"asm", "run-asm"}
      PROVE  Fits(r)
  <2>1. CommandFits(r) /\ BlocksFit(r) /\ r.at \notin HoldAts /\ r.at \notin WriteAts \cup ReadAts /\ r.at # "save"
    BY <1>1 DEF CommandFits, BlocksFit, WriteAts, ReadAts, HoldAts
  <2>2. QED
    BY <1>1, <2>1, StillFits
<1>2. ASSUME NEW r, r = [Idle EXCEPT !.cmd = "usage", !.status = 1]
      PROVE  Fits(r)
  <2>1. r \in Process
    BY <1>2, IdleFits DEF Process, Ats
  <2>2. QED
    BY <1>1, <1>2, <2>1 DEF Idle, Empty
<1>3. ASSUME NEW r, NEW cmd \in {"run", "dis"}, r = [Idle EXCEPT !.cmd = cmd, !.at = "load"]
      PROVE  Fits(r)
  <2>1. r \in Process
    BY <1>3, IdleFits DEF Process, Ats
  <2>2. QED
    BY <1>1, <1>3, <2>1 DEF Idle, Empty
<1>4. ASSUME NEW r, NEW cmd \in {"asm", "run-asm"}, r = [Idle EXCEPT !.cmd = cmd, !.at = "read_file"]
      PROVE  Fits(r)
  <2>1. r \in Process
    BY <1>4, IdleFits DEF Process, Ats
  <2>2. QED
    BY <1>1, <1>4, <2>1 DEF Idle, Empty
<1>5. QED
  BY <1>2, <1>3, <1>4, OneFits DEF Begin

LEMMA ReadFileFits ==
  ASSUME ProcsFit, NEW p \in Procs, ReadFile(p)
  PROVE  ProcsFit'
<1>1. PICK old : old = proc[p]
  OBVIOUS
<1>2. Fits(old) /\ old \in Process /\ old.at = "read_file" /\ old.file = Closed
  BY <1>1, ProcFits, FileClosed DEF ReadFile, At, WriteAts, ReadAts
<1>3. CommandFits(old) /\ BlocksFit(old)
  BY <1>2 DEF Fits
<1>4. ASSUME NEW r, r = Exit(old, 1) \/ r = [old EXCEPT !.at = "assemble", !.held = {"source"}]
      PROVE  Fits(r)
  <2>1. r \in Process
    <3>1. CASE r = Exit(old, 1)
      BY <1>2, <3>1 DEF Exit, Process, Ats
    <3>2. CASE r = [old EXCEPT !.at = "assemble", !.held = {"source"}]
      BY <1>2, <3>2 DEF Process, Ats
    <3>3. QED
      BY <1>4, <3>1, <3>2
  <2>2. /\ r.file = old.file /\ r.prog = old.prog /\ r.cmd = old.cmd
        /\ \/ r.at = "idle" /\ r.held = old.held
           \/ r.at = "assemble" /\ r.held = {"source"}
    BY <1>2, <1>4 DEF Exit, Process
  <2>3. CommandFits(r)
    BY <1>2, <1>3, <2>2 DEF CommandFits, ReadAts
  <2>4. BlocksFit(r)
    BY <1>2, <1>3, <2>2 DEF BlocksFit, HoldAts, WriteAts
  <2>5. QED
    BY <1>2, <2>1, <2>2, <2>3, <2>4, StillFits DEF WriteAts, ReadAts, HoldAts
<1>5. QED
  BY <1>1, <1>4, OneFits DEF ReadFile

LEMMA BlocksOf ==
  ASSUME NEW q \in [code : Seq(FileCell), data : Seq(FileCell)]
  PROVE  /\ Blocks(q) \subseteq {"code", "data"}
         /\ "code" \in Blocks(q) <=> q.code # <<>>
         /\ "data" \in Blocks(q) <=> q.data # <<>>
BY DEF Blocks

(* What assembling leaves in memory: a whole program, or one without its   *)
(* data when memory ran out.                                               *)
LEMMA AssembledProgram ==
  ASSUME NEW q \in Programs, NEW code, NEW data, NEW prog, code = Block(q.code), data \in {NULL, Block(q.data)},
         prog = [header |-> HeaderOf(q), code |-> code, data |-> data]
  PROVE  /\ prog \in ProgramInMemory /\ prog.header = HeaderOf(q)
         /\ prog.code # NULL <=> q.code # <<>>
         /\ prog.data # NULL <=> data # NULL /\ q.data # <<>>
         /\ data = Block(q.data) => Content(prog) = q
<1>1. /\ q.code \in Seq(Nat) /\ q.data \in Seq(Nat) /\ HeaderOf(q) \in FileHeader
      /\ q = [code |-> q.code, data |-> q.data]
  BY ImageCells
<1>2. /\ code \in BlockOrNull /\ (code # NULL <=> q.code # <<>>)
      /\ (IF code = NULL THEN <<>> ELSE code) = q.code
  BY <1>1, BlockOfContent
<1>3. /\ Block(q.data) \in BlockOrNull /\ (Block(q.data) # NULL <=> q.data # <<>>)
      /\ (IF Block(q.data) = NULL THEN <<>> ELSE Block(q.data)) = q.data
  BY <1>1, BlockOfContent
<1>4. data \in BlockOrNull
  BY <1>3 DEF BlockOrNull
<1>5. prog \in ProgramInMemory /\ prog.header = HeaderOf(q) /\ prog.code = code /\ prog.data = data
  BY <1>1, <1>2, <1>4 DEF ProgramInMemory
<1>6. data = Block(q.data) => Content(prog) = q
  BY <1>1, <1>2, <1>3, <1>5 DEF Content
<1>7. QED
  BY <1>2, <1>3, <1>5, <1>6

LEMMA AssembleFits ==
  ASSUME ProcsFit, NEW p \in Procs, Assemble(p)
  PROVE  ProcsFit'
<1>1. PICK old : old = proc[p]
  OBVIOUS
<1>2. Fits(old) /\ old \in Process /\ old.at = "assemble" /\ old.file = Closed
  BY <1>1, ProcFits, FileClosed DEF Assemble, At, WriteAts, ReadAts
<1>3. old.cmd \in {"asm", "run-asm"} /\ old.prog.code = NULL /\ old.prog.data = NULL
  BY <1>2 DEF Fits, CommandFits, BlocksFit
<1>4. ASSUME NEW r, r = Exit([old EXCEPT !.held = {}], 1)
      PROVE  Fits(r)
  <2>1. /\ r \in Process /\ r.at = "idle" /\ r.held = {} /\ r.file = Closed
        /\ r.prog.code = NULL /\ r.prog.data = NULL
    BY <1>2, <1>3, <1>4 DEF Exit, Process, Ats
  <2>2. CommandFits(r) /\ BlocksFit(r)
    BY <2>1 DEF CommandFits, BlocksFit, ReadAts, WriteAts, HoldAts
  <2>3. QED
    BY <2>1, <2>2, StillFits DEF WriteAts, ReadAts, HoldAts
<1>5. ASSUME NEW q \in Programs, q.data # <<>>, NEW r,
             r = Exit([[old EXCEPT !.held = {}] EXCEPT
                         !.prog = [header |-> HeaderOf(q), code |-> Block(q.code), data |-> NULL],
                         !.held = Blocks(q) \ {"data"}], 1)
      PROVE  Fits(r)
  <2>1. PICK prog : prog = [header |-> HeaderOf(q), code |-> Block(q.code), data |-> NULL]
    OBVIOUS
  <2>2. /\ prog \in ProgramInMemory /\ prog.header = HeaderOf(q) /\ prog.data = NULL
        /\ prog.code # NULL <=> q.code # <<>>
    BY <2>1, AssembledProgram
  <2>3. /\ Blocks(q) \subseteq {"code", "data"} /\ ("code" \in Blocks(q) <=> q.code # <<>>)
    BY ImageCells, BytesAreCells, BlocksOf
  <2>4. /\ r \in Process /\ r.at = "idle" /\ r.status = 1 /\ r.cmd = old.cmd /\ r.file = Closed
        /\ r.held = Blocks(q) \ {"data"} /\ r.prog = prog
    BY <1>2, <1>5, <2>1, <2>2, <2>3 DEF Exit, Process, Ats
  <2>5. prog.header.data_len > 0
    BY <1>5, <2>2, ImageCells DEF HeaderOf, Header
  <2>6. BlocksFit(r)
    BY <1>3, <2>2, <2>3, <2>4, <2>5 DEF BlocksFit, HoldAts, WriteAts
  <2>7. CommandFits(r) /\ r.at \notin WriteAts \cup ReadAts \cup HoldAts /\ r.at # "save"
    BY <2>4 DEF CommandFits, ReadAts, WriteAts, HoldAts
  <2>8. QED
    BY <2>4, <2>6, <2>7, StillFits
<1>6. ASSUME NEW q \in Programs, NEW r,
             r = [[old EXCEPT !.held = {}] EXCEPT
                    !.prog = [header |-> HeaderOf(q), code |-> Block(q.code), data |-> Block(q.data)],
                    !.held = Blocks(q),
                    !.at = IF [old EXCEPT !.held = {}].cmd = "asm" THEN "save" ELSE "vm"]
      PROVE  Fits(r)
  <2>1. PICK prog : prog = [header |-> HeaderOf(q), code |-> Block(q.code), data |-> Block(q.data)]
    OBVIOUS
  <2>2. /\ prog \in ProgramInMemory /\ prog.header = HeaderOf(q) /\ Content(prog) = q
        /\ prog.code # NULL <=> q.code # <<>>
        /\ prog.data # NULL <=> q.data # <<>>
    <3>1. PICK code, data : code = Block(q.code) /\ data = Block(q.data)
      OBVIOUS
    <3>2. q.data # <<>> <=> data # NULL
      BY <3>1, ImageCells, BlockOfContent
    <3>3. QED
      BY <2>1, <3>1, <3>2, AssembledProgram
  <2>3. /\ Blocks(q) \subseteq {"code", "data"}
        /\ ("code" \in Blocks(q) <=> q.code # <<>>) /\ ("data" \in Blocks(q) <=> q.data # <<>>)
    BY ImageCells, BytesAreCells, BlocksOf
  <2>4. /\ r \in Process /\ r.cmd = old.cmd /\ r.file = Closed /\ r.held = Blocks(q) /\ r.prog = prog
        /\ r.at = IF old.cmd = "asm" THEN "save" ELSE "vm"
    BY <1>2, <1>6, <2>1, <2>2, <2>3 DEF Process, Ats
  <2>5. BlocksFit(r)
    BY <2>2, <2>3, <2>4 DEF BlocksFit, HoldAts, WriteAts
  <2>6. CommandFits(r) /\ r.at \notin WriteAts \cup ReadAts
    BY <2>4 DEF CommandFits, ReadAts, WriteAts
  <2>7. QED
    BY <2>2, <2>4, <2>5, <2>6, StillFits
<1>7. QED
  BY <1>1, <1>4, <1>5, <1>6, OneFits DEF Assemble

(* Whether a read was disturbed is of no matter to the process itself.     *)
LEMMA CrossedFits ==
  ASSUME NEW r, Fits(r), NEW c \in BOOLEAN
  PROVE  Fits([r EXCEPT !.crossed = c])
<1>1. PICK s : s = [r EXCEPT !.crossed = c]
  OBVIOUS
<1>2. r \in Process
  BY DEF Fits
<1>3. /\ s \in Process /\ s.cmd = r.cmd /\ s.at = r.at /\ s.status = r.status /\ s.prog = r.prog
      /\ s.file = r.file /\ s.held = r.held
  BY <1>1, <1>2 DEF Process
<1>4. StreamFits(r) /\ CommandFits(r) => StreamFits(s) /\ CommandFits(s)
  BY <1>3 DEF StreamFits, CommandFits
<1>5. BlocksFit(r) => BlocksFit(s)
  BY <1>3 DEF BlocksFit
<1>6. HeaderFits(r) => HeaderFits(s)
  BY <1>3 DEF HeaderFits
<1>7. BufferFits(r) => BufferFits(s)
  BY <1>3 DEF BufferFits, Given
<1>8. QED
  BY <1>1, <1>3, <1>4, <1>5, <1>6, <1>7 DEF Fits

LEMMA OpenToWriteFits ==
  ASSUME ProcsFit, NEW p \in Procs, OpenToWrite(p)
  PROVE  ProcsFit'
<1>1. PICK old : old = proc[p]
  OBVIOUS
<1>2. Fits(old) /\ old \in Process /\ old.at = "save" /\ old.file = Closed
  BY <1>1, ProcFits, FileClosed DEF OpenToWrite, At, WriteAts, ReadAts
<1>3. /\ old.held \subseteq {"code", "data"} /\ old.prog.header = HeaderOf(Content(old.prog))
      /\ Content(old.prog) \in Programs
  BY <1>2 DEF Fits, BlocksFit, HeaderFits, BufferFits, HoldAts
<1>4. Fits(Exit(Freed(old), 1))
  BY <1>2, <1>3, FreedFits
<1>5. ASSUME NEW r, r = [old EXCEPT !.at = "write_header", !.file = Opened("write")]
      PROVE  Fits(r)
  <2>1. /\ r \in Process /\ r.at = "write_header" /\ r.cmd = old.cmd /\ r.prog = old.prog /\ r.held = old.held
        /\ r.file.mode = "write" /\ r.file.pos = 0 /\ r.file.buffer = <<>>
    BY <1>2, <1>5, CellTypes DEF Process, Ats, WriteAts, Opened, Stream
  <2>2. StreamFits(r) /\ CommandFits(r)
    BY <2>1 DEF StreamFits, CommandFits, ReadAts, WriteAts
  <2>3. BlocksFit(r)
    BY <1>2, <1>3, <2>1 DEF Fits, BlocksFit, HoldAts, WriteAts
  <2>4. HeaderFits(r) /\ BufferFits(r)
    BY <1>3, <2>1 DEF HeaderFits, BufferFits, HoldAts, WriteAts, Given
  <2>5. QED
    BY <2>1, <2>2, <2>3, <2>4 DEF Fits
<1>6. CASE disk' = <<>> /\ \A q \in Procs : proc'[q] =
             IF q = p THEN [old EXCEPT !.at = "write_header", !.file = Opened("write")]
             ELSE [proc[q] EXCEPT !.crossed = @ \/ proc[q].file.mode = "read"]
  <2>1. \A q \in Procs \ {p} : Fits(proc'[q])
    <3>1. TAKE q \in Procs \ {p}
    <3>2. Fits(proc[q]) /\ proc[q].crossed \in BOOLEAN
      BY ProcFits DEF Process
    <3>3. proc'[q] = [proc[q] EXCEPT !.crossed = proc[q].crossed \/ proc[q].file.mode = "read"]
      BY <1>6
    <3>4. QED
      BY <3>2, <3>3, CrossedFits
  <2>2. Fits(proc'[p])
    BY <1>5, <1>6
  <2>3. \A q \in Procs : Fits(proc'[q])
    BY <2>1, <2>2
  <2>4. DOMAIN proc' = Procs
    BY <1>1, <1>2, <1>3 DEF OpenToWrite, ProcsFit, Becomes
  <2>5. QED
    BY <2>3, <2>4 DEF ProcsFit
<1>7. QED
  BY <1>1, <1>4, <1>6, OneFits DEF OpenToWrite

LEMMA Suffix ==
  ASSUME NEW S, NEW s \in Seq(S), NEW k \in 1 .. Len(s), NEW rest, rest = SubSeq(s, k + 1, Len(s))
  PROVE  /\ rest \in Seq(S) /\ Len(rest) = Len(s) - k
         /\ \A i \in 1 .. Len(rest) : rest[i] = s[k + i]
OBVIOUS

(* The stream of a writer after n more cells of its buffer are on the disk.*)
LEMMA FlushFits ==
  ASSUME ProcsFit, NEW p \in Procs, Flush(p)
  PROVE  ProcsFit'
<1>1. PICK old : old = proc[p]
  OBVIOUS
<1>2. Fits(old) /\ old \in Process /\ old.at \in WriteAts /\ old.file.mode = "write"
  BY <1>1, ProcFits DEF Flush, Saving, Fits, StreamFits
<1>3. old.file \in Stream /\ old.file.pos \in Nat /\ old.file.buffer \in Seq(FileCell)
  BY <1>2 DEF Process, Stream
<1>4. ASSUME NEW k \in DOMAIN old.file.buffer, NEW r,
             r = [old EXCEPT !.file.pos = @ + k, !.file.buffer = SubSeq(@, k + 1, Len(@))]
      PROVE  Fits(r)
  <2>1. PICK rest : rest = SubSeq(old.file.buffer, k + 1, Len(old.file.buffer))
    OBVIOUS
  <2>2. k \in 1 .. Len(old.file.buffer)
    BY <1>3
  <2>3. /\ rest \in Seq(FileCell) /\ Len(rest) = Len(old.file.buffer) - k
        /\ \A i \in 1 .. Len(rest) : rest[i] = old.file.buffer[k + i]
    <3>1. PICK buf : buf = old.file.buffer
      OBVIOUS
    <3>2. buf \in Seq(FileCell) /\ k \in 1 .. Len(buf)
      BY <1>3, <2>2, <3>1
    <3>3. rest = SubSeq(buf, k + 1, Len(buf))
      BY <2>1, <3>1
    <3>4. /\ rest \in Seq(FileCell) /\ Len(rest) = Len(buf) - k
          /\ \A i \in 1 .. Len(rest) : rest[i] = buf[k + i]
      BY <3>2, <3>3, Suffix
    <3>5. QED
      BY <3>1, <3>4
  <2>4. k \in Nat
    BY <2>2
  <2>5. /\ r.file \in Stream /\ r.file.mode = "write" /\ r.file.pos = old.file.pos + k /\ r.file.buffer = rest
    <3>1. r.file = [old.file EXCEPT !.pos = @ + k, !.buffer = SubSeq(@, k + 1, Len(@))]
      BY <1>2, <1>4 DEF Process, Stream
    <3>2. /\ r.file.mode = old.file.mode /\ r.file.pos = old.file.pos + k
          /\ r.file.buffer = SubSeq(old.file.buffer, k + 1, Len(old.file.buffer))
      BY <1>3, <3>1 DEF Stream
    <3>3. old.file.pos + k \in Nat /\ SubSeq(old.file.buffer, k + 1, Len(old.file.buffer)) \in Seq(FileCell)
      BY <1>3, <2>1, <2>3, <2>4
    <3>4. r.file \in Stream
      BY <1>3, <3>1, <3>3 DEF Stream
    <3>5. QED
      BY <1>2, <2>1, <3>2, <3>4
  <2>6. /\ r \in Process /\ r.at = old.at /\ r.cmd = old.cmd /\ r.status = old.status /\ r.prog = old.prog
        /\ r.held = old.held
    BY <1>2, <1>4, <2>5 DEF Process
  <2>7. StreamFits(r) /\ CommandFits(r) /\ BlocksFit(r) /\ HeaderFits(r)
    BY <1>2, <2>5, <2>6 DEF Fits, StreamFits, CommandFits, BlocksFit, HeaderFits, ReadAts, WriteAts
  <2>8. BufferFits(r)
    <3>1. /\ Content(old.prog) \in Programs /\ old.file.pos + Len(old.file.buffer) = Given(old)
          /\ \A i \in 1 .. Len(old.file.buffer) :
               old.file.buffer[i] = Image(Content(old.prog))[old.file.pos + i]
      BY <1>2 DEF Fits, BufferFits
    <3>2. Given(r) = Given(old)
      BY <2>6 DEF Given
    <3>3. r.file.pos + Len(rest) = Given(old)
      BY <1>3, <2>2, <2>3, <2>5, <3>1
    <3>4. \A i \in 1 .. Len(rest) : rest[i] = Image(Content(old.prog))[r.file.pos + i]
      <4>1. TAKE i \in 1 .. Len(rest)
      <4>2. k + i \in 1 .. Len(old.file.buffer) /\ old.file.pos + (k + i) = r.file.pos + i
        BY <1>3, <2>2, <2>3, <2>5, SMTT(30)
      <4>3. QED
        BY <2>3, <3>1, <4>2
    <3>5. QED
      BY <2>5, <2>6, <3>1, <3>2, <3>3, <3>4 DEF BufferFits
  <2>9. QED
    BY <2>6, <2>7, <2>8 DEF Fits
<1>5. QED
  BY <1>1, <1>4, OneFits DEF Flush

(* fwrite puts the next cells of the image into the buffer.                *)
LEMMA AppendFits ==
  ASSUME NEW old, Fits(old), old.at \in WriteAts, NEW cells \in Seq(FileCell), NEW next \in WriteAts,
         NEW r, r = [[old EXCEPT !.file.buffer = @ \o cells] EXCEPT !.at = next],
         Given(r) = Given(old) + Len(cells),
         \A i \in 1 .. Len(cells) : Image(Content(old.prog))[Given(old) + i] = cells[i]
  PROVE  Fits(r)
<1>1. old \in Process /\ old.file.mode = "write"
  BY DEF Fits, StreamFits
<1>2. old.file \in Stream /\ old.file.pos \in Nat /\ old.file.buffer \in Seq(FileCell)
  BY <1>1 DEF Process, Stream
<1>3. PICK buf : buf = old.file.buffer
  OBVIOUS
<1>4. PICK longer : longer = buf \o cells
  OBVIOUS
<1>5. /\ longer \in Seq(FileCell) /\ Len(longer) = Len(buf) + Len(cells)
      /\ \A i \in 1 .. Len(buf) : longer[i] = buf[i]
      /\ \A i \in 1 .. Len(cells) : longer[Len(buf) + i] = cells[i]
  <2>1. buf \in Seq(FileCell) /\ cells \in Seq(FileCell)
    BY <1>2, <1>3
  <2>2. QED
    BY <1>4, <2>1, Concatenated
<1>6. /\ r.file = [old.file EXCEPT !.buffer = longer] /\ r.at = next
      /\ r.cmd = old.cmd /\ r.status = old.status /\ r.prog = old.prog /\ r.held = old.held
  BY <1>1, <1>3, <1>4 DEF Process
<1>7. r.file \in Stream /\ r.file.mode = "write" /\ r.file.pos = old.file.pos /\ r.file.buffer = longer
  BY <1>1, <1>2, <1>5, <1>6 DEF Stream
<1>8. r \in Process
  <2>1. next \in Ats
    BY DEF Ats
  <2>2. r = [[old EXCEPT !.file = [old.file EXCEPT !.buffer = longer]] EXCEPT !.at = next]
    BY <1>3, <1>4
  <2>3. [old.file EXCEPT !.buffer = longer] \in Stream
    BY <1>6, <1>7
  <2>4. QED
    BY <1>1, <2>1, <2>2, <2>3 DEF Process
<1>9. StreamFits(r) /\ CommandFits(r)
  BY <1>6, <1>7 DEF StreamFits, CommandFits, ReadAts, WriteAts
<1>10. BlocksFit(r)
  BY <1>6 DEF Fits, BlocksFit, HoldAts, WriteAts
<1>11. HeaderFits(r)
  BY <1>6 DEF Fits, HeaderFits, HoldAts, WriteAts
<1>12. BufferFits(r)
  <2>1. /\ Content(old.prog) \in Programs /\ old.file.pos + Len(buf) = Given(old)
        /\ \A i \in 1 .. Len(buf) : buf[i] = Image(Content(old.prog))[old.file.pos + i]
    BY <1>3 DEF Fits, BufferFits
  <2>2. old.file.pos + Len(longer) = Given(r)
    BY <1>2, <1>3, <1>5, <2>1
  <2>3. \A i \in 1 .. Len(longer) : longer[i] = Image(Content(old.prog))[old.file.pos + i]
    <3>1. TAKE i \in 1 .. Len(longer)
    <3>2. CASE i \in 1 .. Len(buf)
      BY <1>5, <2>1, <3>2
    <3>3. CASE i \notin 1 .. Len(buf)
      <4>1. PICK j : j = i - Len(buf)
        OBVIOUS
      <4>2. j \in 1 .. Len(cells) /\ i = Len(buf) + j /\ Given(old) + j = old.file.pos + i
        <5>1. Len(buf) \in Nat /\ Len(cells) \in Nat /\ Len(longer) = Len(buf) + Len(cells)
          BY <1>2, <1>3, <1>5
        <5>2. j \in 1 .. Len(cells) /\ i = Len(buf) + j /\ i \in Nat
          BY <3>3, <4>1, <5>1
        <5>3. Given(old) + j = old.file.pos + i
          BY <1>2, <2>1, <5>1, <5>2
        <5>4. QED
          BY <5>2, <5>3
      <4>3. QED
        BY <1>5, <4>2
    <3>4. QED
      BY <3>2, <3>3
  <2>4. QED
    BY <1>6, <1>7, <2>1, <2>2, <2>3, ZenonT(40) DEF BufferFits
<1>13. QED
  BY <1>8, <1>9, <1>10, <1>11, <1>12 DEF Fits

Appended(r, cells, next) == [[r EXCEPT !.file.buffer = @ \o cells] EXCEPT !.at = next]

(* p hands the next cells of its image to fwrite.                          *)
Appends(p, cells, next) == /\ Write(p, proc[p].at, cells, next) /\ next \in WriteAts
                           /\ Fits(Appended(proc[p], cells, next))

LEMMA WriteFits ==
  ASSUME ProcsFit, NEW p \in Procs, NEW pc \in WriteAts, NEW cells \in Seq(FileCell), NEW next \in WriteAts,
         Write(p, pc, cells, next),
         \A r : r.at = next /\ r.prog = proc[p].prog => Given(r) = Given(proc[p]) + Len(cells),
         \A i \in 1 .. Len(cells) : Image(Content(proc[p].prog))[Given(proc[p]) + i] = cells[i]
  PROVE  ProcsFit' /\ Appends(p, cells, next)
<1>1. PICK old : old = proc[p]
  OBVIOUS
<1>2. Fits(old) /\ old \in Process /\ old.at = pc
  BY <1>1, ProcFits DEF Write, At
<1>3. PICK mid : mid = [old EXCEPT !.file.buffer = @ \o cells]
  OBVIOUS
<1>4. Fits(Appended(old, cells, next))
  <2>1. PICK r : r = [mid EXCEPT !.at = next]
    OBVIOUS
  <2>2. r.at = next /\ r.prog = old.prog
    BY <1>2, <1>3, <2>1 DEF Process
  <2>3. Given(r) = Given(old) + Len(cells)
    BY <1>1, <2>2
  <2>4. \A i \in 1 .. Len(cells) : Image(Content(old.prog))[Given(old) + i] = cells[i]
    BY <1>1
  <2>5. r = [[old EXCEPT !.file.buffer = @ \o cells] EXCEPT !.at = next]
    BY <1>3, <2>1
  <2>6. Fits(r)
    BY <1>2, <2>3, <2>4, <2>5, AppendFits, Zenon
  <2>7. QED
    BY <2>5, <2>6 DEF Appended
<1>5. Appends(p, cells, next)
  BY <1>1, <1>2, <1>4 DEF Appends
<1>6. CASE Becomes(p, [mid EXCEPT !.at = next])
  BY <1>3, <1>4, <1>5, <1>6, OneFits DEF Appended
<1>7. CASE WriteFails(p, mid)
  <2>1. PICK r : r = [mid EXCEPT !.file = Closed]
    OBVIOUS
  <2>2. r \in Process /\ r.file = Closed /\ r.held = old.held
    BY <1>2, <1>3, <2>1, ClosedStream DEF Process
  <2>3. old.held \subseteq {"code", "data"}
    BY <1>2 DEF Fits, BlocksFit, HoldAts, WriteAts
  <2>4. Fits(Exit(Freed(r), 1))
    BY <2>2, <2>3, FreedFits
  <2>5. QED
    BY <1>5, <1>7, <2>1, <2>4, OneFits DEF WriteFails
<1>8. QED
  BY <1>1, <1>3, <1>6, <1>7 DEF Write

LEMMA SaveFits ==
  ASSUME ProcsFit, NEW p \in Procs, Save(p)
  PROVE  ProcsFit' /\ \E cells, next : Appends(p, cells, next)
<1>1. PICK q : q = Content(proc[p].prog)
  OBVIOUS
<1>2. proc[p].at \in WriteAts
  BY DEF Save, Write, At, WriteAts
<1>3. q \in Programs
  BY <1>1, <1>2, ProcFits DEF Fits, BufferFits
<1>4. /\ q.code \in Seq(FileCell) /\ q.data \in Seq(FileCell) /\ <<HeaderOf(q)>> \in Seq(FileCell)
      /\ Len(q.code) \in Nat /\ Len(q.data) \in Nat
  <2>1. HeaderOf(q) \in FileCell
    BY <1>3, ImageCells, CellTypes
  <2>2. <<HeaderOf(q)>> \in Seq(FileCell)
    BY <2>1
  <2>3. q.code \in Seq(Nat) /\ q.data \in Seq(Nat)
    BY <1>3, ImageCells
  <2>4. Len(q.code) \in Nat /\ Len(q.data) \in Nat
    BY <2>3
  <2>5. QED
    BY <2>2, <2>3, <2>4, BytesAreCells
<1>5. CASE Write(p, "write_header", <<HeaderOf(q)>>, "write_code")
  <2>1. PICK cells : cells = <<HeaderOf(q)>>
    OBVIOUS
  <2>2. cells \in Seq(FileCell) /\ Len(cells) = 1 /\ cells[1] = HeaderOf(q)
    BY <1>4, <2>1
  <2>3. proc[p].at = "write_header" /\ Given(proc[p]) = 0
    BY <1>5 DEF Write, At, Given
  <2>4. \A r : r.at = "write_code" /\ r.prog = proc[p].prog => Given(r) = Given(proc[p]) + Len(cells)
    BY <2>2, <2>3 DEF Given
  <2>5. \A i \in 1 .. Len(cells) : Image(Content(proc[p].prog))[Given(proc[p]) + i] = cells[i]
    <3>1. Image(Content(proc[p].prog))[Given(proc[p]) + 1] = HeaderOf(q)
      <4>1. Given(proc[p]) + 1 = 1
        BY <2>3
      <4>2. Image(q)[1] = HeaderOf(q)
        BY <1>3, ImageCells
      <4>3. QED
        BY <1>1, <4>1, <4>2, Zenon
    <3>2. \A i \in 1 .. Len(cells) : i = 1
      BY <2>2
    <3>3. QED
      BY <2>2, <3>1, <3>2
  <2>6. QED
    BY <1>5, <2>1, <2>2, <2>4, <2>5, WriteFits DEF WriteAts
<1>6. CASE Write(p, "write_code", q.code, "write_data")
  <2>1. proc[p].at = "write_code" /\ Given(proc[p]) = 1
    BY <1>6 DEF Write, At, Given
  <2>2. \A r : r.at = "write_data" /\ r.prog = proc[p].prog => Given(r) = Given(proc[p]) + Len(q.code)
    BY <1>1, <1>4, <2>1 DEF Given
  <2>3. \A i \in 1 .. Len(q.code) : Image(Content(proc[p].prog))[Given(proc[p]) + i] = q.code[i]
    BY <1>1, <1>3, <2>1, ImageCells, ZenonT(40)
  <2>4. QED
    BY <1>4, <1>6, <2>2, <2>3, WriteFits DEF WriteAts
<1>7. CASE Write(p, "write_data", q.data, "saved")
  <2>1. proc[p].at = "write_data" /\ Given(proc[p]) = 1 + Len(q.code)
    BY <1>1, <1>7 DEF Write, At, Given
  <2>2. \A r : r.at = "saved" /\ r.prog = proc[p].prog => Given(r) = Given(proc[p]) + Len(q.data)
    BY <1>1, <1>4, <2>1 DEF Given
  <2>3. \A i \in 1 .. Len(q.data) : Image(Content(proc[p].prog))[Given(proc[p]) + i] = q.data[i]
    BY <1>1, <1>3, <2>1, ImageCells, ZenonT(40)
  <2>4. QED
    BY <1>4, <1>7, <2>2, <2>3, WriteFits DEF WriteAts
<1>8. QED
  BY <1>1, <1>5, <1>6, <1>7 DEF Save

LEMMA CloseSavedFits ==
  ASSUME ProcsFit, NEW p \in Procs, CloseSaved(p)
  PROVE  ProcsFit'
<1>1. PICK old : old = proc[p]
  OBVIOUS
<1>2. Fits(old) /\ old \in Process /\ old.at = "saved"
  BY <1>1, ProcFits DEF CloseSaved, At
<1>3. old.held \subseteq {"code", "data"}
  BY <1>2 DEF Fits, BlocksFit, HoldAts, WriteAts
<1>4. ASSUME NEW lost \in BOOLEAN
      PROVE  Fits(Exit(Freed([old EXCEPT !.file = Closed, !.lost = lost]), 0))
  <2>1. PICK r : r = [old EXCEPT !.file = Closed, !.lost = lost]
    OBVIOUS
  <2>2. r \in Process /\ r.file = Closed /\ r.held = old.held
    BY <1>2, <2>1, ClosedStream DEF Process
  <2>3. QED
    BY <1>3, <2>1, <2>2, FreedFits
<1>5. PICK k : Becomes(p, Exit(Freed([old EXCEPT !.file = Closed, !.lost = k < Len(old.file.buffer)]), 0))
  BY <1>1 DEF CloseSaved
<1>6. CASE k < Len(old.file.buffer)
  <2>1. (k < Len(old.file.buffer)) = TRUE
    BY <1>6
  <2>2. QED
    BY <1>4, <1>5, <2>1, OneFits
<1>7. CASE ~(k < Len(old.file.buffer))
  <2>1. (k < Len(old.file.buffer)) = FALSE
    BY <1>7
  <2>2. QED
    BY <1>4, <1>5, <2>1, OneFits
<1>8. QED
  BY <1>6, <1>7

-----------------------------------------------------------------------------
(* A process that reads.                                                   *)

LEMMA OpenToReadFits ==
  ASSUME ProcsFit, NEW p \in Procs, OpenToRead(p)
  PROVE  ProcsFit'
<1>1. PICK old : old = proc[p]
  OBVIOUS
<1>2. Fits(old) /\ old \in Process /\ old.at = "load" /\ old.file = Closed
  BY <1>1, ProcFits, FileClosed DEF OpenToRead, At, WriteAts, ReadAts
<1>3. old.held = {} /\ old.prog.code = NULL /\ old.prog.data = NULL /\ old.cmd # "asm"
  BY <1>2 DEF Fits, BlocksFit, CommandFits
<1>4. ASSUME NEW r, r = Exit(old, 1)
      PROVE  Fits(r)
  <2>1. /\ r \in Process /\ r.at = "idle" /\ r.held = {} /\ r.file = Closed
        /\ r.prog.code = NULL /\ r.prog.data = NULL
    BY <1>2, <1>3, <1>4 DEF Exit, Process, Ats
  <2>2. CommandFits(r) /\ BlocksFit(r)
    BY <2>1 DEF CommandFits, BlocksFit, ReadAts, WriteAts, HoldAts
  <2>3. QED
    BY <2>1, <2>2, StillFits DEF WriteAts, ReadAts, HoldAts
<1>5. ASSUME NEW c \in BOOLEAN, NEW r,
             r = [old EXCEPT !.at = "read_header", !.file = Opened("read"), !.crossed = c]
      PROVE  Fits(r)
  <2>1. /\ r \in Process /\ r.at = "read_header" /\ r.cmd = old.cmd /\ r.prog = old.prog /\ r.held = {}
        /\ r.file.mode = "read" /\ r.file.pos = 0 /\ r.file.buffer = <<>>
    BY <1>2, <1>3, <1>5, CellTypes DEF Process, Ats, ReadAts, Opened, Stream
  <2>2. StreamFits(r) /\ CommandFits(r)
    BY <1>3, <2>1 DEF StreamFits, CommandFits, ReadAts, WriteAts
  <2>3. BlocksFit(r)
    BY <1>3, <2>1 DEF BlocksFit, HoldAts, WriteAts
  <2>4. HeaderFits(r) /\ BufferFits(r)
    BY <2>1 DEF HeaderFits, BufferFits, HoldAts, WriteAts
  <2>5. QED
    BY <2>1, <2>2, <2>3, <2>4 DEF Fits
<1>6. (\E o \in Procs : Saving(o)) \in BOOLEAN
  OBVIOUS
<1>7. QED
  BY <1>1, <1>4, <1>5, <1>6, OneFits DEF OpenToRead

(* A read that fails closes the file and frees what was read.              *)
LEMMA ReadFailsFits ==
  ASSUME NEW r, Fits(r), r.at \in {"read_header", "read_code", "read_data"}
  PROVE  Fits(ReadFails(r))
<1>1. r \in Process /\ r.held \subseteq {"code", "data"}
  BY DEF Fits, BlocksFit
<1>2. PICK s : s = [r EXCEPT !.file = Closed]
  OBVIOUS
<1>3. s \in Process /\ s.file = Closed /\ s.held = r.held
  BY <1>1, <1>2, ClosedStream DEF Process
<1>4. QED
  BY <1>1, <1>2, <1>3, FreedFits DEF ReadFails

(* A cell that is read is a cell; the first one is a header.               *)
LEMMA CellRead ==
  ASSUME ProcsFit, DiskTypeOK, NEW p \in Procs, proc[p].at \in ReadAts, NEW i \in Nat \ {0}
  PROVE  Cell(p, i) \in FileCell
<1>1. disk \in Seq(FileCell) /\ proc[p].file.buffer \in Seq(FileCell) /\ 0 \in FileCell
  BY ProcFits, CellTypes DEF DiskTypeOK, Fits, StreamFits, Process, Stream
<1>2. QED
  BY <1>1 DEF Cell

LEMMA ReadHeaderFits ==
  ASSUME ProcsFit, DiskTypeOK, NEW p \in Procs, ReadHeader(p)
  PROVE  ProcsFit'
<1>1. PICK old : old = proc[p]
  OBVIOUS
<1>2. Fits(old) /\ old \in Process /\ old.at = "read_header" /\ old.file.mode = "read"
  BY <1>1, ProcFits DEF ReadHeader, At, Fits, StreamFits, ReadAts
<1>3. old.held = {} /\ old.prog.code = NULL /\ old.prog.data = NULL /\ old.cmd # "asm"
  BY <1>2 DEF Fits, BlocksFit, CommandFits, ReadAts
<1>4. disk \in Seq(FileCell)
  BY <1>1, <1>2 DEF DiskTypeOK
<1>5. CASE Becomes(p, ReadFails(old))
  BY <1>2, <1>5, ReadFailsFits, OneFits
<1>6. ASSUME NEW ahead \in {1, Len(disk)}, NEW h, h = Cell(p, 1), Has(p, 1), h.valid, NEW r,
             r = [old EXCEPT !.at = "read_code", !.prog.header = h, !.file.pos = 1,
                             !.file.buffer = SubSeq(disk, 1, ahead)]
      PROVE  Fits(r)
  <2>1. old.file.buffer = <<>>
    BY <1>2 DEF Fits, HeaderFits
  <2>2. Len(disk) \in Nat /\ Len(disk) >= 1 /\ h = disk[1]
    <3>1. Len(old.file.buffer) = 0 /\ Len(disk) \in Nat
      BY <1>4, <2>1
    <3>2. 1 <= Len(disk)
      BY <1>1, <1>6, <3>1 DEF Has
    <3>3. QED
      BY <1>1, <1>6, <3>1, <3>2 DEF Cell
  <2>3. h \in FileHeader
    BY <1>4, <2>2, CellTypes DEF DiskTypeOK
  <2>4. SubSeq(disk, 1, ahead) \in Seq(FileCell)
    BY <1>4, <2>2
  <2>5. PICK buf : buf = SubSeq(disk, 1, ahead)
    OBVIOUS
  <2>6. old.prog \in ProgramInMemory /\ old.file \in Stream
    BY <1>2 DEF Process
  <2>7. PICK prog : prog = [old.prog EXCEPT !.header = h]
    OBVIOUS
  <2>8. prog \in ProgramInMemory /\ prog.header = h /\ prog.code = NULL /\ prog.data = NULL
    BY <1>3, <2>3, <2>6, <2>7 DEF ProgramInMemory
  <2>9. PICK file : file = [[old.file EXCEPT !.pos = 1] EXCEPT !.buffer = buf]
    OBVIOUS
  <2>10. file \in Stream /\ file.mode = "read" /\ file.pos = 1 /\ file.buffer = buf
    BY <1>2, <2>4, <2>5, <2>6, <2>9 DEF Stream
  <2>11. /\ r.at = "read_code" /\ r.cmd = old.cmd /\ r.held = {} /\ r.prog = prog /\ r.file = file
    BY <1>2, <1>3, <1>6, <2>5, <2>7, <2>9 DEF Process
  <2>12. r \in Process
    <3>1. r = [[[old EXCEPT !.at = "read_code"] EXCEPT !.prog = prog] EXCEPT !.file = file]
      BY <1>2, <1>6, <2>5, <2>7, <2>9 DEF Process
    <3>2. QED
      BY <1>2, <2>8, <2>10, <3>1 DEF Process, Ats, ReadAts
  <2>13. StreamFits(r) /\ CommandFits(r)
    BY <1>3, <2>10, <2>11 DEF StreamFits, CommandFits, ReadAts, WriteAts
  <2>14. BlocksFit(r)
    BY <2>8, <2>11 DEF BlocksFit, HoldAts, WriteAts
  <2>15. HeaderFits(r) /\ BufferFits(r)
    BY <1>6, <2>8, <2>10, <2>11 DEF HeaderFits, BufferFits, HoldAts, WriteAts
  <2>16. QED
    BY <2>12, <2>13, <2>14, <2>15 DEF Fits
<1>7. QED
  BY <1>1, <1>5, <1>6, OneFits DEF ReadHeader

LEMMA CloseLoadedFits ==
  ASSUME ProcsFit, NEW p \in Procs, CloseLoaded(p)
  PROVE  ProcsFit'
<1>1. PICK old : old = proc[p]
  OBVIOUS
<1>2. Fits(old) /\ old \in Process /\ old.at = "loaded"
  BY <1>1, ProcFits DEF CloseLoaded, At
<1>3. ASSUME NEW at \in {"vm", "list"}, NEW r, r = [old EXCEPT !.file = Closed, !.at = at]
      PROVE  Fits(r)
  <2>1. /\ r \in Process /\ r.at = at /\ r.file = Closed /\ r.cmd = old.cmd /\ r.status = old.status
        /\ r.prog = old.prog /\ r.held = old.held
    BY <1>2, <1>3, ClosedStream DEF Process, Ats
  <2>2. CommandFits(r) /\ BlocksFit(r) /\ r.prog.header = HeaderOf(Content(r.prog))
    BY <1>2, <2>1 DEF Fits, CommandFits, BlocksFit, HeaderFits, ReadAts, HoldAts, WriteAts
  <2>3. QED
    BY <2>1, <2>2, StillFits DEF WriteAts, ReadAts
<1>4. QED
  BY <1>1, <1>3, OneFits DEF CloseLoaded

LEMMA ListFits ==
  ASSUME ProcsFit, NEW p \in Procs, List(p)
  PROVE  ProcsFit'
<1>1. PICK old : old = proc[p]
  OBVIOUS
<1>2. Fits(old) /\ old \in Process /\ old.at = "list" /\ old.file = Closed
  BY <1>1, ProcFits, FileClosed DEF List, At, WriteAts, ReadAts
<1>3. old.held \subseteq {"code", "data"}
  BY <1>2 DEF Fits, BlocksFit, HoldAts
<1>4. QED
  BY <1>1, <1>2, <1>3, FreedFits, OneFits DEF List

LEMMA DoneFits ==
  ASSUME NEW r, Fits(r), r.at \in {"vm", "vm_run"}, NEW status \in {0, 1}
  PROVE  Fits(Done(r, status))
<1>1. r \in Process /\ r.file = Closed /\ r.held \subseteq {"code", "data", "vm code", "vm data"}
  BY FileClosed DEF Fits, BlocksFit, HoldAts, WriteAts, ReadAts
<1>2. PICK s : s = [r EXCEPT !.held = @ \ {"vm code", "vm data"}]
  OBVIOUS
<1>3. s \in Process /\ s.file = Closed /\ s.held \subseteq {"code", "data"}
  BY <1>1, <1>2 DEF Process
<1>4. QED
  BY <1>2, <1>3, FreedFits DEF Done

LEMMA LoadVMFits ==
  ASSUME ProcsFit, NEW p \in Procs, LoadVM(p)
  PROVE  ProcsFit'
<1>1. PICK old : old = proc[p]
  OBVIOUS
<1>2. Fits(old) /\ old \in Process /\ old.at = "vm" /\ old.file = Closed
  BY <1>1, ProcFits, FileClosed DEF LoadVM, At, WriteAts, ReadAts
<1>3. ASSUME NEW copies \in SUBSET {"vm code", "vm data"}, NEW r,
             r = [old EXCEPT !.at = "vm_run", !.held = @ \cup copies]
      PROVE  Fits(r)
  <2>1. /\ r \in Process /\ r.at = "vm_run" /\ r.file = Closed /\ r.cmd = old.cmd
        /\ r.prog = old.prog /\ r.held = old.held \cup copies
    BY <1>2, <1>3 DEF Process, Ats
  <2>2. BlocksFit(r)
    BY <1>2, <2>1 DEF Fits, BlocksFit, HoldAts, WriteAts
  <2>3. CommandFits(r) /\ r.prog.header = HeaderOf(Content(r.prog))
    BY <1>2, <2>1 DEF Fits, CommandFits, HeaderFits, HoldAts, ReadAts
  <2>4. QED
    BY <2>1, <2>2, <2>3, StillFits DEF WriteAts, ReadAts
<1>4. {Copy(b) : b \in Blocks(Content(old.prog))} \in SUBSET {"vm code", "vm data"}
  BY DEF Copy
<1>5. QED
  BY <1>1, <1>2, <1>3, <1>4, DoneFits, OneFits DEF LoadVM

LEMMA RunVMFits ==
  ASSUME ProcsFit, NEW p \in Procs, RunVM(p)
  PROVE  ProcsFit'
<1>1. Fits(proc[p]) /\ proc[p].at = "vm_run"
  BY ProcFits DEF RunVM, At
<1>2. QED
  BY <1>1, DoneFits, OneFits DEF RunVM

(* What fread puts into a block of n cells.                                *)
LEMMA CellsRead ==
  ASSUME ProcsFit, DiskTypeOK, NEW p \in Procs, proc[p].at \in ReadAts, NEW from \in Nat, NEW n \in Nat \ {0}
  PROVE  /\ Cells(p, from, n) \in Seq(FileCell) /\ Cells(p, from, n) # NULL /\ Len(Cells(p, from, n)) = n
         /\ \A i \in 1 .. n : Cells(p, from, n)[i] = Cell(p, from + i)
<1>1. PICK cells : cells = Cells(p, from, n)
  OBVIOUS
<1>2. \A i \in 1 .. n : Cell(p, from + i) \in FileCell
  <2>1. TAKE i \in 1 .. n
  <2>2. from + i \in Nat \ {0}
    OBVIOUS
  <2>3. QED
    BY <2>2, CellRead
<1>3. cells = [i \in 1 .. n |-> Cell(p, from + i)]
  BY <1>1 DEF Cells
<1>4. cells \in Seq(FileCell) /\ Len(cells) = n /\ \A i \in 1 .. n : cells[i] = Cell(p, from + i)
  BY <1>2, <1>3
<1>5. QED
  BY <1>1, <1>4, CellTypes

(* One block more in memory.                                               *)
LEMMA ReadCodeFits ==
  ASSUME ProcsFit, DiskTypeOK, NEW p \in Procs, NEW len, len = proc[p].prog.header.code_len,
         ReadSection(p, "read_code", "code", len, "read_data")
  PROVE  ProcsFit'
<1>1. PICK old : old = proc[p]
  OBVIOUS
<1>2. Fits(old) /\ old \in Process /\ old.at = "read_code" /\ old.file.mode = "read"
  BY <1>1, ProcFits DEF ReadSection, At, Fits, StreamFits, ReadAts
<1>3. /\ old.held = {} /\ old.prog.code = NULL /\ old.prog.data = NULL /\ old.cmd # "asm"
      /\ old.prog.header.valid /\ old.file.pos = 1
  BY <1>2 DEF Fits, BlocksFit, CommandFits, HeaderFits, ReadAts
<1>4. old.prog \in ProgramInMemory /\ old.file \in Stream /\ len \in Nat
  BY <1>1, <1>2 DEF Process, ProgramInMemory, FileHeader
<1>5. ASSUME len = 0, NEW r, r = [old EXCEPT !.at = "read_data"]
      PROVE  Fits(r)
  <2>1. /\ r \in Process /\ r.at = "read_data" /\ r.cmd = old.cmd /\ r.prog = old.prog /\ r.held = {}
        /\ r.file = old.file
    BY <1>2, <1>3, <1>5 DEF Process, Ats, ReadAts
  <2>2. Len(Content(r.prog).code) = 0
    BY <1>3, <2>1 DEF Content
  <2>3. StreamFits(r) /\ CommandFits(r) /\ BlocksFit(r)
    BY <1>2, <1>3, <2>1 DEF StreamFits, CommandFits, BlocksFit, HoldAts, ReadAts, WriteAts
  <2>4. HeaderFits(r) /\ BufferFits(r)
    <3>1. r.prog.header.valid /\ r.prog.header.code_len = 0 /\ r.file.pos = 1
      BY <1>1, <1>3, <1>5, <2>1
    <3>2. QED
      BY <2>1, <2>2, <3>1 DEF HeaderFits, BufferFits, HoldAts, WriteAts
  <2>5. QED
    BY <2>1, <2>3, <2>4 DEF Fits
<1>6. ASSUME NEW r, r = Exit([old EXCEPT !.file = Closed], 1)
      PROVE  Fits(r)
  <2>1. /\ r \in Process /\ r.at = "idle" /\ r.held = {} /\ r.file = Closed
        /\ r.prog.code = NULL /\ r.prog.data = NULL
    BY <1>2, <1>3, <1>6, ClosedStream DEF Exit, Process, Ats
  <2>2. CommandFits(r) /\ BlocksFit(r)
    BY <2>1 DEF CommandFits, BlocksFit, ReadAts, WriteAts, HoldAts
  <2>3. QED
    BY <2>1, <2>2, StillFits DEF WriteAts, ReadAts, HoldAts
<1>7. ASSUME len > 0, NEW cells, cells = Cells(p, old.file.pos, len), NEW r,
             r = [old EXCEPT !.at = "read_data", !.file.pos = @ + len, !.held = @ \cup {"code"}, !.prog["code"] = cells]
      PROVE  Fits(r)
  <2>1. cells \in Seq(FileCell) /\ cells # NULL /\ Len(cells) = len
    BY <1>1, <1>2, <1>3, <1>4, <1>7, CellsRead DEF ReadAts
  <2>2. PICK prog : prog = [old.prog EXCEPT !.code = cells]
    OBVIOUS
  <2>3. /\ prog \in ProgramInMemory /\ prog.header = old.prog.header /\ prog.code = cells /\ prog.data = NULL
    BY <1>3, <1>4, <2>1, <2>2 DEF ProgramInMemory, BlockOrNull
  <2>4. PICK file : file = [old.file EXCEPT !.pos = 1 + len]
    OBVIOUS
  <2>5. file \in Stream /\ file.mode = "read" /\ file.pos = 1 + len
    BY <1>2, <1>4, <2>4 DEF Stream
  <2>6. /\ r \in Process /\ r.at = "read_data" /\ r.cmd = old.cmd /\ r.held = {"code"} /\ r.prog = prog
        /\ r.file = file
    <3>1. r = [[[[old EXCEPT !.at = "read_data"] EXCEPT !.file = file] EXCEPT !.held = {"code"}] EXCEPT !.prog = prog]
      BY <1>2, <1>3, <1>7, <2>2, <2>4 DEF Process
    <3>2. QED
      BY <1>2, <2>3, <2>5, <3>1 DEF Process, Ats, ReadAts
  <2>7. Len(Content(r.prog).code) = len
    BY <2>1, <2>3, <2>6 DEF Content
  <2>8. StreamFits(r) /\ CommandFits(r) /\ BlocksFit(r)
    BY <1>3, <2>1, <2>3, <2>5, <2>6 DEF StreamFits, CommandFits, BlocksFit, HoldAts, ReadAts, WriteAts
  <2>9. HeaderFits(r) /\ BufferFits(r)
    BY <1>1, <1>3, <2>3, <2>5, <2>6, <2>7 DEF HeaderFits, BufferFits, HoldAts, WriteAts
  <2>10. QED
    BY <2>6, <2>8, <2>9 DEF Fits
<1>8. CASE Becomes(p, ReadFails(old))
  BY <1>2, <1>8, ReadFailsFits, OneFits
<1>9. QED
  BY <1>1, <1>5, <1>6, <1>7, <1>8, OneFits DEF ReadSection

LEMMA ReadDataFits ==
  ASSUME ProcsFit, DiskTypeOK, NEW p \in Procs, NEW len, len = proc[p].prog.header.data_len,
         ReadSection(p, "read_data", "data", len, "loaded")
  PROVE  ProcsFit'
<1>1. PICK old : old = proc[p]
  OBVIOUS
<1>2. Fits(old) /\ old \in Process /\ old.at = "read_data" /\ old.file.mode = "read"
  BY <1>1, ProcFits DEF ReadSection, At, Fits, StreamFits, ReadAts
<1>3. /\ old.held \subseteq {"code"} /\ old.prog.data = NULL /\ (old.prog.code # NULL <=> "code" \in old.held)
      /\ old.cmd # "asm" /\ old.prog.header.valid
      /\ Len(Content(old.prog).code) = old.prog.header.code_len
      /\ old.file.pos = 1 + old.prog.header.code_len
  BY <1>2 DEF Fits, BlocksFit, CommandFits, HeaderFits, ReadAts
<1>4. /\ old.prog \in ProgramInMemory /\ old.file \in Stream /\ len \in Nat
      /\ old.prog.header.code_len \in Nat /\ old.prog.header \in FileHeader
  BY <1>1, <1>2 DEF Process, ProgramInMemory, FileHeader
<1>5. ASSUME NEW r \in Process, r.at = "loaded", r.cmd = old.cmd, r.held = old.held \/ r.held = old.held \cup {"data"},
             r.prog.header = old.prog.header, r.prog.code = old.prog.code,
             r.prog.data # NULL <=> "data" \in r.held, Len(Content(r.prog).data) = len,
             r.file.mode = "read", r.file.pos = 1 + old.prog.header.code_len + len
      PROVE  Fits(r)
  <2>1. Content(r.prog).code = Content(old.prog).code
    BY <1>5 DEF Content
  <2>2. old.prog.header = Header(TRUE, Len(Content(r.prog).code), Len(Content(r.prog).data))
    <3>1. /\ old.prog.header.valid = TRUE /\ old.prog.header.code_len = Len(Content(r.prog).code)
          /\ old.prog.header.data_len = Len(Content(r.prog).data)
      BY <1>1, <1>3, <1>4, <1>5, <2>1 DEF FileHeader
    <3>2. QED
      BY <1>4, <3>1 DEF FileHeader, Header
  <2>3. StreamFits(r) /\ CommandFits(r)
    BY <1>3, <1>5 DEF StreamFits, CommandFits, ReadAts, WriteAts
  <2>4. BlocksFit(r)
    BY <1>3, <1>5 DEF BlocksFit, HoldAts, WriteAts
  <2>5. HeaderFits(r) /\ BufferFits(r)
    BY <1>1, <1>5, <2>2 DEF HeaderFits, BufferFits, HoldAts, WriteAts, HeaderOf
  <2>6. QED
    BY <1>5, <2>3, <2>4, <2>5 DEF Fits
<1>6. ASSUME len = 0, NEW r, r = [old EXCEPT !.at = "loaded"]
      PROVE  Fits(r)
  <2>1. /\ r \in Process /\ r.at = "loaded" /\ r.cmd = old.cmd /\ r.prog = old.prog /\ r.held = old.held
        /\ r.file = old.file
    BY <1>2, <1>6 DEF Process, Ats, ReadAts
  <2>2. Len(Content(r.prog).data) = 0
    BY <1>3, <2>1 DEF Content
  <2>3. /\ r.prog.data # NULL <=> "data" \in r.held
        /\ r.file.pos = 1 + old.prog.header.code_len + len
    BY <1>2, <1>3, <1>4, <1>6, <2>1 DEF Fits, BlocksFit
  <2>4. QED
    BY <1>2, <1>5, <1>6, <2>1, <2>2, <2>3
<1>7. ASSUME len > 0, NEW cells, cells = Cells(p, old.file.pos, len), NEW r,
             r = [old EXCEPT !.at = "loaded", !.file.pos = @ + len, !.held = @ \cup {"data"}, !.prog["data"] = cells]
      PROVE  Fits(r)
  <2>1. cells \in Seq(FileCell) /\ cells # NULL /\ Len(cells) = len
    BY <1>1, <1>2, <1>3, <1>4, <1>7, CellsRead DEF ReadAts
  <2>2. PICK prog : prog = [old.prog EXCEPT !.data = cells]
    OBVIOUS
  <2>3. /\ prog \in ProgramInMemory /\ prog.header = old.prog.header /\ prog.code = old.prog.code
        /\ prog.data = cells
    BY <1>3, <1>4, <2>1, <2>2 DEF ProgramInMemory, BlockOrNull
  <2>4. PICK file : file = [old.file EXCEPT !.pos = 1 + old.prog.header.code_len + len]
    OBVIOUS
  <2>5. file \in Stream /\ file.mode = "read" /\ file.pos = 1 + old.prog.header.code_len + len
    BY <1>2, <1>4, <2>4, SMTT(30) DEF Stream
  <2>6. /\ r \in Process /\ r.at = "loaded" /\ r.cmd = old.cmd /\ r.held = old.held \cup {"data"}
        /\ r.prog = prog /\ r.file = file
    <3>1. r = [[[[old EXCEPT !.at = "loaded"] EXCEPT !.file = file] EXCEPT !.held = @ \cup {"data"}] EXCEPT !.prog = prog]
      BY <1>2, <1>3, <1>7, <2>2, <2>4 DEF Process
    <3>2. QED
      BY <1>2, <1>3, <2>3, <2>5, <3>1 DEF Process, Ats, ReadAts
  <2>7. Len(Content(r.prog).data) = len
    BY <2>1, <2>3, <2>6 DEF Content
  <2>8. QED
    BY <1>5, <2>1, <2>3, <2>5, <2>6, <2>7
<1>8. CASE Becomes(p, ReadFails(old))
  BY <1>2, <1>8, ReadFailsFits, OneFits
<1>9. QED
  BY <1>1, <1>6, <1>7, <1>8, OneFits DEF ReadSection

LEMMA KilledFits ==
  ASSUME ProcsFit, NEW p \in Procs, Killed(p)
  PROVE  ProcsFit'
BY IdleFits, OneFits DEF Killed

-----------------------------------------------------------------------------
LEMMA ProcsInit == Init => ProcsFit
BY IdleFits DEF Init, ProcsFit

LEMMA ProcsStep ==
  ASSUME ProcsFit, DiskTypeOK, NEW p \in Procs,
         \/ Begin(p) \/ ReadFile(p) \/ Assemble(p)
         \/ OpenToWrite(p) \/ Flush(p) \/ Save(p) \/ CloseSaved(p)
         \/ OpenToRead(p) \/ ReadHeader(p) \/ Load(p) \/ CloseLoaded(p)
         \/ List(p) \/ LoadVM(p) \/ RunVM(p) \/ Killed(p)
  PROVE  ProcsFit'
<1>1. CASE Load(p)
  BY <1>1, ReadCodeFits, ReadDataFits DEF Load
<1>2. QED
  BY <1>1, BeginFits, ReadFileFits, AssembleFits, OpenToWriteFits, FlushFits, SaveFits, CloseSavedFits,
     OpenToReadFits, ReadHeaderFits, CloseLoadedFits, ListFits, LoadVMFits, RunVMFits, KilledFits, Zenon

-----------------------------------------------------------------------------
(* Steps that leave the file alone.                                        *)

OnlyChanges(p) == \A o \in Procs \ {p} : proc'[o] = proc[o]

LEMMA Became ==
  ASSUME ProcsFit, NEW p \in Procs, NEW r, Becomes(p, r)
  PROVE  proc'[p] = r /\ OnlyChanges(p)
BY DEF ProcsFit, Becomes, OnlyChanges

RestOfInv == DiskTypeOK /\ DiskFits /\ OneWrites /\ UndisturbedReads /\ StatusIsHonest

LEMMA QuietStep ==
  ASSUME ToolInv, NEW p \in Procs, NEW r, Local, OnlyChanges(p), proc'[p] = r,
         r.file.mode # "write", ReadsDisk(r), r.file.mode # "closed" => disk # None,
         ~(r.at = "idle" /\ r.cmd = "asm" /\ r.status = 0)
  PROVE  RestOfInv'
<1>1. /\ \A o \in Procs \ {p} : proc'[o] = proc[o]
      /\ disk' = disk /\ last_saved' = last_saved /\ writer' = writer /\ mixed' = mixed
  BY DEF Local, OnlyChanges
<1>2. \A o \in Procs : Saving(o)' => Saving(o) /\ proc'[o] = proc[o]
  BY <1>1 DEF Saving
<1>3. DiskTypeOK' /\ DiskFits'
  BY <1>1 DEF ToolInv, DiskTypeOK, DiskFits
<1>4. OneWrites'
  BY <1>1, <1>2 DEF ToolInv, OneWrites
<1>5. UndisturbedReads'
  <2>1. ASSUME NEW o \in Procs PROVE ReadsDisk(proc[o])'
    <3>1. ReadsDisk(proc'[o])
      BY <1>1 DEF ToolInv, UndisturbedReads
    <3>2. QED
      BY <1>1, <1>2, <3>1 DEF ReadsDisk
  <2>2. QED
    BY <2>1 DEF UndisturbedReads
<1>6. StatusIsHonest'
  BY <1>1 DEF ToolInv, StatusIsHonest
<1>7. QED
  BY <1>3, <1>4, <1>5, <1>6 DEF RestOfInv

(* A step after which p has its file closed, and has not just saved.       *)
LEMMA ClosedStep ==
  ASSUME ToolInv, NEW p \in Procs, NEW r, Local, OnlyChanges(p), proc'[p] = r, r.file = Closed,
         r.at # "idle" \/ r.cmd # "asm" \/ r.status = 1
  PROVE  RestOfInv'
<1>1. r.file.mode = "closed" /\ ReadsDisk(r)
  BY ClosedStream DEF ReadsDisk
<1>2. QED
  BY <1>1, QuietStep

(* What becomes of a process whose blocks are freed.                       *)
LEMMA FreedFields ==
  ASSUME NEW r \in Process, NEW status
  PROVE  /\ Exit(r, status).file = r.file /\ Exit(r, status).cmd = r.cmd /\ Exit(r, status).status = status
         /\ Exit(Freed(r), status).file = r.file /\ Exit(Freed(r), status).cmd = r.cmd
         /\ Exit(Freed(r), status).status = status
BY DEF Exit, Freed, Process

LEMMA DoneFields ==
  ASSUME NEW r \in Process, NEW status
  PROVE  Done(r, status).file = r.file /\ Done(r, status).cmd = r.cmd
<1>1. PICK s : s = [r EXCEPT !.held = @ \ {"vm code", "vm data"}]
  OBVIOUS
<1>2. s \in Process /\ s.file = r.file /\ s.cmd = r.cmd
  BY <1>1 DEF Process
<1>3. QED
  <2>1. Done(r, status) = Exit(Freed(s), status)
    BY <1>1 DEF Done
  <2>2. QED
    BY <1>2, <2>1, FreedFields

(* The steps of a command that reads and writes no bytecode.               *)
LEMMA CommandStep ==
  ASSUME ToolInv, NEW p \in Procs,
         \/ Begin(p) \/ ReadFile(p) \/ Assemble(p) \/ CloseLoaded(p)
         \/ List(p) \/ LoadVM(p) \/ RunVM(p) \/ Killed(p)
  PROVE  RestOfInv'
<1>1. PICK old : old = proc[p]
  OBVIOUS
<1>2. PICK now : now = proc'[p]
  OBVIOUS
<1>3. Fits(old) /\ old \in Process
  BY <1>1, ProcFits DEF ToolInv
<1>4. Local
  BY DEF Begin, ReadFile, Assemble, CloseLoaded, List, LoadVM, RunVM, Killed
<1>5. \A r : Becomes(p, r) => now = r /\ OnlyChanges(p)
  BY <1>2, Became DEF ToolInv
<1>6. ASSUME old.at \notin WriteAts \cup ReadAts
      PROVE  old.file = Closed
  BY <1>3, <1>6, FileClosed
<1>7. ASSUME now.file = Closed, now.at # "idle" \/ now.cmd # "asm" \/ now.status = 1, OnlyChanges(p)
      PROVE  RestOfInv'
  BY <1>2, <1>4, <1>7, ClosedStep
<1>8. CASE Begin(p)
  <2>1. /\ OnlyChanges(p)
        /\ \/ now = [Idle EXCEPT !.cmd = "usage", !.status = 1]
           \/ \E cmd \in {"run", "dis"} : now = [Idle EXCEPT !.cmd = cmd, !.at = "load"]
           \/ \E cmd \in {"asm", "run-asm"} : now = [Idle EXCEPT !.cmd = cmd, !.at = "read_file"]
    BY <1>5, <1>8 DEF Begin
  <2>2. now.file = Closed /\ (now.at # "idle" \/ now.status = 1)
    BY <2>1 DEF Idle
  <2>3. QED
    BY <1>7, <2>1, <2>2
<1>9. CASE ReadFile(p)
  <2>1. old.file = Closed
    BY <1>1, <1>6, <1>9 DEF ReadFile, At, ReadAts, WriteAts
  <2>2. OnlyChanges(p) /\ (now = Exit(old, 1) \/ now = [old EXCEPT !.at = "assemble", !.held = {"source"}])
    BY <1>1, <1>5, <1>9 DEF ReadFile
  <2>3. now.file = Closed /\ (now.at # "idle" \/ now.status = 1)
    BY <1>3, <2>1, <2>2 DEF Exit, Process
  <2>4. QED
    BY <1>7, <2>2, <2>3
<1>10. CASE Assemble(p)
  <2>1. old.file = Closed
    BY <1>1, <1>6, <1>10 DEF Assemble, At, ReadAts, WriteAts
  <2>2. PICK mid : mid = [old EXCEPT !.held = {}]
    OBVIOUS
  <2>3. mid \in Process /\ mid.file = Closed
    BY <1>3, <2>1, <2>2 DEF Process
  <2>4. ASSUME Becomes(p, Exit(mid, 1))
        PROVE  now.file = Closed /\ now.status = 1 /\ OnlyChanges(p)
    BY <1>5, <2>3, <2>4, FreedFields
  <2>5. ASSUME NEW prog, NEW held, Becomes(p, Exit([mid EXCEPT !.prog = prog, !.held = held], 1))
        PROVE  now.file = Closed /\ now.status = 1 /\ OnlyChanges(p)
    <3>1. now = Exit([mid EXCEPT !.prog = prog, !.held = held], 1) /\ OnlyChanges(p)
      BY <1>5, <2>5
    <3>2. QED
      BY <2>3, <3>1 DEF Exit, Process
  <2>6. ASSUME NEW prog, NEW held, NEW at, at \in {"save", "vm"},
               Becomes(p, [mid EXCEPT !.prog = prog, !.held = held, !.at = at])
        PROVE  now.file = Closed /\ now.at # "idle" /\ OnlyChanges(p)
    <3>1. now = [mid EXCEPT !.prog = prog, !.held = held, !.at = at] /\ OnlyChanges(p)
      BY <1>5, <2>6
    <3>2. QED
      BY <2>3, <2>6, <3>1 DEF Process
  <2>7. ASSUME NEW q, Becomes(p, Exit([mid EXCEPT
                          !.prog = [header |-> HeaderOf(q), code |-> Block(q.code), data |-> NULL],
                          !.held = Blocks(q) \ {"data"}], 1))
        PROVE  now.file = Closed /\ now.status = 1 /\ OnlyChanges(p)
    BY <2>5, <2>7
  <2>8. ASSUME NEW q, Becomes(p, [mid EXCEPT
                          !.prog = [header |-> HeaderOf(q), code |-> Block(q.code), data |-> Block(q.data)],
                          !.held = Blocks(q),
                          !.at = IF mid.cmd = "asm" THEN "save" ELSE "vm"])
        PROVE  now.file = Closed /\ now.at # "idle" /\ OnlyChanges(p)
    <3>1. PICK at \in {"save", "vm"} : at = IF mid.cmd = "asm" THEN "save" ELSE "vm"
      OBVIOUS
    <3>2. QED
      BY <2>6, <2>8, <3>1
  <2>9. QED
    BY <1>1, <1>7, <1>10, <2>2, <2>4, <2>7, <2>8 DEF Assemble
<1>11. CASE CloseLoaded(p)
  <2>1. OnlyChanges(p) /\ \E at \in {"vm", "list"} : now = [old EXCEPT !.file = Closed, !.at = at]
    BY <1>1, <1>5, <1>11 DEF CloseLoaded
  <2>2. now.file = Closed /\ now.at # "idle"
    BY <1>3, <2>1 DEF Process
  <2>3. QED
    BY <1>7, <2>1, <2>2
<1>12. CASE List(p)
  <2>1. old.file = Closed /\ old.cmd # "asm"
    BY <1>1, <1>3, <1>6, <1>12 DEF List, At, Fits, CommandFits, ReadAts, WriteAts
  <2>2. OnlyChanges(p) /\ now = Exit(Freed(old), 0)
    BY <1>1, <1>5, <1>12 DEF List
  <2>3. now.file = Closed /\ now.cmd # "asm"
    BY <1>3, <2>1, <2>2, FreedFields
  <2>4. QED
    BY <1>7, <2>2, <2>3
<1>13. ASSUME old.at \in {"vm", "vm_run"}
       PROVE  /\ old.file = Closed
              /\ \A status : Done(old, status).file = Closed /\ Done(old, status).cmd # "asm"
  <2>1. old.file = Closed /\ old.cmd # "asm"
    BY <1>3, <1>6, <1>13 DEF Fits, CommandFits, ReadAts, WriteAts
  <2>2. QED
    BY <1>3, <2>1, DoneFields
<1>14. CASE LoadVM(p)
  <2>1. /\ old.file = Closed /\ OnlyChanges(p)
        /\ \A status : Done(old, status).file = Closed /\ Done(old, status).cmd # "asm"
    BY <1>1, <1>5, <1>13, <1>14 DEF LoadVM, At
  <2>2. PICK blocks : blocks = {Copy(b) : b \in Blocks(Content(old.prog))}
    OBVIOUS
  <2>3. now = Done(old, 1) \/ now = [old EXCEPT !.at = "vm_run", !.held = @ \cup blocks]
    BY <1>1, <1>5, <1>14, <2>2 DEF LoadVM
  <2>4. now.file = Closed /\ (now.at # "idle" \/ now.cmd # "asm")
    <3>1. CASE now = Done(old, 1)
      BY <2>1, <3>1
    <3>2. CASE now = [old EXCEPT !.at = "vm_run", !.held = @ \cup blocks]
      BY <1>3, <2>1, <3>2 DEF Process
    <3>3. QED
      BY <2>3, <3>1, <3>2
  <2>5. QED
    BY <1>7, <2>1, <2>4
<1>15. CASE RunVM(p)
  <2>1. \A status : Done(old, status).file = Closed /\ Done(old, status).cmd # "asm"
    BY <1>1, <1>13, <1>15 DEF RunVM, At
  <2>2. OnlyChanges(p) /\ \E status : now = Done(old, status)
    BY <1>1, <1>5, <1>15 DEF RunVM
  <2>3. QED
    BY <1>7, <2>1, <2>2
<1>16. CASE Killed(p)
  <2>1. now.file = Closed /\ now.cmd # "asm" /\ OnlyChanges(p)
    BY <1>5, <1>16 DEF Killed, Idle
  <2>2. QED
    BY <1>7, <2>1
<1>17. QED
  BY <1>8, <1>9, <1>10, <1>11, <1>12, <1>14, <1>15, <1>16

-----------------------------------------------------------------------------
(* Steps that read the file.                                               *)

(* Nobody disturbed p: what it reads is what is on the disk.               *)
LEMMA UndisturbedCell ==
  ASSUME ToolInv, NEW p \in Procs, proc[p].file.mode = "read", ~proc[p].crossed
  PROVE  /\ disk \in Seq(FileCell) /\ \A o \in Procs : ~Saving(o)
         /\ \A i \in 1 .. Len(disk) : Cell(p, i) = disk[i]
         /\ \A n \in Nat : Has(p, n) => n <= Len(disk)
<1>1. ReadsDisk(proc[p]) /\ disk # None
  BY DEF ToolInv, UndisturbedReads, ReadsDisk
<1>2. disk \in Seq(FileCell)
  BY <1>1 DEF ToolInv, DiskTypeOK
<1>3. PICK buf : buf = proc[p].file.buffer
  OBVIOUS
<1>4. buf \in Seq(FileCell) /\ Begins(buf, disk)
  BY <1>1, <1>3, ProcFits DEF ReadsDisk, ToolInv, Process, Stream
<1>5. \A i \in 1 .. Len(disk) : Cell(p, i) = disk[i]
  BY <1>2, <1>3, <1>4 DEF Cell, Begins
<1>6. \A n \in Nat : Has(p, n) => n <= Len(disk)
  BY <1>2, <1>3, <1>4 DEF Has, Begins
<1>7. QED
  BY <1>1, <1>2, <1>5, <1>6 DEF ReadsDisk

(* A step of a reader that goes on reading.                                *)
LEMMA ReaderStep ==
  ASSUME ToolInv, NEW p \in Procs, NEW r, Local, Becomes(p, r), r.file.mode = "read", ReadsDisk(r), disk # None,
         r.at # "idle"
  PROVE  RestOfInv'
BY Became, QuietStep DEF ToolInv

(* A step of a reader that gives up.                                       *)
LEMMA ReaderStops ==
  ASSUME ToolInv, NEW p \in Procs, Local,
         \/ Becomes(p, ReadFails(proc[p]))
         \/ Becomes(p, Exit([proc[p] EXCEPT !.file = Closed], 1))
  PROVE  RestOfInv'
<1>1. PICK mid : mid = [proc[p] EXCEPT !.file = Closed]
  OBVIOUS
<1>2. mid \in Process /\ mid.file = Closed
  BY <1>1, ProcFits, ClosedStream, ZenonT(40) DEF ToolInv, Process
<1>3. PICK now : now = proc'[p]
  OBVIOUS
<1>4. OnlyChanges(p) /\ (now = Exit(Freed(mid), 1) \/ now = Exit(mid, 1))
  BY <1>1, <1>3, Became DEF ToolInv, ReadFails
<1>5. now.file = Closed /\ now.status = 1
  BY <1>2, <1>4, FreedFields
<1>6. QED
  BY <1>3, <1>4, <1>5, ClosedStep

LEMMA OpenToReadStep ==
  ASSUME ToolInv, NEW p \in Procs, OpenToRead(p)
  PROVE  RestOfInv'
<1>1. PICK old : old = proc[p]
  OBVIOUS
<1>2. Fits(old) /\ old \in Process /\ old.at = "load" /\ old.file = Closed
  BY <1>1, ProcFits, FileClosed DEF ToolInv, OpenToRead, At, WriteAts, ReadAts
<1>3. CASE Becomes(p, Exit(old, 1))
  <2>1. Exit(old, 1).file = Closed /\ Exit(old, 1).status = 1
    BY <1>2, FreedFields
  <2>2. QED
    BY <1>3, <2>1, Became, ClosedStep DEF ToolInv, OpenToRead
<1>4. ASSUME disk # None, NEW c \in BOOLEAN, c = (\E o \in Procs : Saving(o)), NEW r,
             r = [old EXCEPT !.at = "read_header", !.file = Opened("read"), !.crossed = c], Becomes(p, r)
      PROVE  RestOfInv'
  <2>1. r.at = "read_header" /\ r.file = Opened("read") /\ r.crossed = c
    BY <1>2, <1>4 DEF Process
  <2>2. r.file.mode = "read" /\ r.file.buffer = <<>>
    BY <2>1 DEF Opened
  <2>3. disk \in Seq(FileCell)
    BY <1>4 DEF ToolInv, DiskTypeOK
  <2>4. Begins(<<>>, disk)
    BY <2>3 DEF Begins
  <2>5. ReadsDisk(r)
    BY <1>4, <2>1, <2>2, <2>4 DEF ReadsDisk
  <2>6. QED
    BY <1>4, <2>1, <2>2, <2>5, ReaderStep DEF OpenToRead
<1>5. (\E o \in Procs : Saving(o)) \in BOOLEAN
  OBVIOUS
<1>6. QED
  BY <1>1, <1>3, <1>4, <1>5 DEF OpenToRead

LEMMA ReadHeaderStep ==
  ASSUME ToolInv, NEW p \in Procs, ReadHeader(p)
  PROVE  RestOfInv'
<1>1. PICK old : old = proc[p]
  OBVIOUS
<1>2. Fits(old) /\ old \in Process /\ old.at = "read_header" /\ old.file.mode = "read"
  BY <1>1, ProcFits DEF ToolInv, ReadHeader, At, Fits, StreamFits, ReadAts
<1>3. old.prog.code = NULL /\ old.prog.data = NULL /\ disk # None /\ disk \in Seq(FileCell)
  BY <1>1, <1>2 DEF Fits, BlocksFit, ToolInv, DiskTypeOK
<1>4. CASE Becomes(p, ReadFails(old))
  BY <1>1, <1>4, ReaderStops DEF ReadHeader
<1>5. ASSUME NEW ahead \in {1, Len(disk)}, NEW h, h = Cell(p, 1), Has(p, 1), NEW r,
             r = [old EXCEPT !.at = "read_code", !.prog.header = h, !.file.pos = 1,
                             !.file.buffer = SubSeq(disk, 1, ahead)],
             Becomes(p, r)
      PROVE  RestOfInv'
  <2>1. PICK buf : buf = SubSeq(disk, 1, ahead)
    OBVIOUS
  <2>2. PICK prog : prog = [old.prog EXCEPT !.header = h]
    OBVIOUS
  <2>3. old.prog \in ProgramInMemory /\ old.file \in Stream
    BY <1>2 DEF Process
  <2>4. prog.header = h /\ prog.code = NULL /\ prog.data = NULL
    BY <1>3, <2>2, <2>3 DEF ProgramInMemory
  <2>5. PICK file : file = [[old.file EXCEPT !.pos = 1] EXCEPT !.buffer = buf]
    OBVIOUS
  <2>6. file.mode = "read" /\ file.pos = 1 /\ file.buffer = buf
    BY <1>2, <2>3, <2>5 DEF Stream
  <2>7. r.at = "read_code" /\ r.prog = prog /\ r.file = file /\ r.crossed = old.crossed
    BY <1>2, <1>5, <2>1, <2>2, <2>5 DEF Process
  <2>8. ASSUME ~old.crossed
        PROVE  ReadsDisk(r)
    <3>1. 1 <= Len(disk) /\ h = disk[1] /\ \A o \in Procs : ~Saving(o)
      BY <1>1, <1>2, <1>3, <1>5, <2>8, UndisturbedCell
    <3>2. Begins(buf, disk)
      BY <1>3, <2>1, <3>1 DEF Begins
    <3>3. Content(prog).code = <<>> /\ Content(prog).data = <<>>
      BY <2>4 DEF Content
    <3>4. QED
      BY <1>3, <2>4, <2>6, <2>7, <3>1, <3>2, <3>3 DEF ReadsDisk
  <2>9. ReadsDisk(r)
    BY <2>7, <2>8 DEF ReadsDisk
  <2>10. QED
    BY <1>3, <1>5, <2>6, <2>7, <2>9, ReaderStep DEF ReadHeader
<1>6. QED
  BY <1>1, <1>4, <1>5 DEF ReadHeader

(* What ReadsDisk says of a reader behind the header.                      *)
LEMMA ReadSoFar ==
  ASSUME NEW r, ReadsDisk(r), r.file.mode = "read", ~r.crossed, r.at # "read_header"
  PROVE  /\ \A o \in Procs : ~Saving(o)
         /\ disk # None /\ Begins(r.file.buffer, disk) /\ Len(disk) > 0
         /\ r.prog.header = disk[1] /\ r.file.pos <= Len(disk)
         /\ \A i \in 1 .. Len(Content(r.prog).code) : Content(r.prog).code[i] = disk[1 + i]
         /\ \A i \in 1 .. Len(Content(r.prog).data) :
              Content(r.prog).data[i] = disk[1 + r.prog.header.code_len + i]
BY DEF ReadsDisk

LEMMA LoadStep ==
  ASSUME ToolInv, NEW p \in Procs, Load(p)
  PROVE  RestOfInv'
<1>1. PICK old : old = proc[p]
  OBVIOUS
<1>2. Fits(old) /\ old \in Process /\ old.at \in {"read_code", "read_data"} /\ old.file.mode = "read" /\ Local
  BY <1>1, ProcFits DEF ToolInv, Load, ReadSection, At, Fits, StreamFits, ReadAts
<1>3. disk # None /\ disk \in Seq(FileCell) /\ ReadsDisk(old)
  BY <1>1, <1>2 DEF ToolInv, DiskTypeOK, UndisturbedReads
<1>4. /\ old.prog \in ProgramInMemory /\ old.file \in Stream
      /\ old.prog.header.code_len \in Nat /\ old.prog.header.data_len \in Nat /\ old.file.pos \in Nat
  BY <1>2 DEF Process, ProgramInMemory, FileHeader, Stream
<1>5. CASE Becomes(p, ReadFails(old)) \/ Becomes(p, Exit([old EXCEPT !.file = Closed], 1))
  BY <1>1, <1>2, <1>5, ReaderStops
<1>6. ASSUME NEW next \in {"read_data", "loaded"}, Becomes(p, [old EXCEPT !.at = next])
      PROVE  RestOfInv'
  <2>1. PICK r : r = [old EXCEPT !.at = next]
    OBVIOUS
  <2>2. r.at = next /\ r.prog = old.prog /\ r.file = old.file /\ r.crossed = old.crossed
    BY <1>2, <2>1 DEF Process
  <2>3. ReadsDisk(r)
    BY <1>2, <1>3, <2>2 DEF ReadsDisk
  <2>4. QED
    BY <1>2, <1>3, <1>6, <2>1, <2>2, <2>3, ReaderStep
<1>7. ASSUME old.at = "read_code", NEW len, len = old.prog.header.code_len, len > 0, Has(p, old.file.pos + len),
             NEW cells, cells = Cells(p, old.file.pos, len), NEW r,
             r = [old EXCEPT !.at = "read_data", !.file.pos = @ + len, !.held = @ \cup {"code"}, !.prog["code"] = cells]
      PROVE  ReadsDisk(r) /\ r.file.mode = "read" /\ r.at = "read_data"
  <2>1. old.file.pos = 1 /\ old.prog.data = NULL
    BY <1>2, <1>7 DEF Fits, HeaderFits, BlocksFit
  <2>2. /\ cells # NULL /\ Len(cells) = len /\ \A i \in 1 .. len : cells[i] = Cell(p, 1 + i)
    BY <1>1, <1>4, <1>7, <2>1, CellsRead, SMTT(30) DEF ReadAts, ToolInv
  <2>3. /\ r.at = "read_data" /\ r.crossed = old.crossed
        /\ r.prog = [old.prog EXCEPT !.code = cells] /\ r.file = [old.file EXCEPT !.pos = @ + len]
    BY <1>2, <1>7 DEF Process
  <2>4. /\ r.prog.header = old.prog.header /\ r.prog.code = cells /\ r.prog.data = NULL
        /\ r.file.mode = "read" /\ r.file.pos = 1 + len /\ r.file.buffer = old.file.buffer
    BY <1>2, <1>4, <2>1, <2>3 DEF ProgramInMemory, Stream
  <2>5. Content(r.prog).code = cells /\ Content(r.prog).data = <<>>
    BY <2>2, <2>4 DEF Content
  <2>6. ASSUME ~old.crossed
        PROVE  ReadsDisk(r)
    <3>1. /\ \A i \in 1 .. Len(disk) : Cell(p, i) = disk[i]
          /\ \A n \in Nat : Has(p, n) => n <= Len(disk)
      BY <1>1, <1>2, <2>6, UndisturbedCell
    <3>2. 1 + len \in Nat /\ len \in Nat /\ Len(disk) \in Nat
      BY <1>3, <1>4, <1>7
    <3>3. 1 + len <= Len(disk)
      BY <1>7, <2>1, <3>1, <3>2
    <3>4. \A i \in 1 .. len : cells[i] = disk[1 + i]
      <4>1. TAKE i \in 1 .. len
      <4>2. 1 + i \in 1 .. Len(disk)
        BY <3>2, <3>3
      <4>3. QED
        BY <2>2, <3>1, <4>2
    <3>5. /\ \A o \in Procs : ~Saving(o)
          /\ Begins(old.file.buffer, disk) /\ Len(disk) > 0 /\ old.prog.header = disk[1]
      BY <1>2, <1>3, <1>7, <2>6, ReadSoFar
    <3>6. Len(Content(r.prog).code) = len /\ Len(Content(r.prog).data) = 0
      BY <2>2, <2>5
    <3>7. \A i \in 1 .. Len(Content(r.prog).data) : FALSE
      BY <3>6
    <3>8. QED
      BY <1>3, <2>3, <2>4, <2>5, <3>3, <3>4, <3>5, <3>6, <3>7 DEF ReadsDisk
  <2>7. QED
    BY <2>3, <2>4, <2>6 DEF ReadsDisk
<1>8. ASSUME old.at = "read_data", NEW len, len = old.prog.header.data_len, len > 0, Has(p, old.file.pos + len),
             NEW cells, cells = Cells(p, old.file.pos, len), NEW r,
             r = [old EXCEPT !.at = "loaded", !.file.pos = @ + len, !.held = @ \cup {"data"}, !.prog["data"] = cells]
      PROVE  ReadsDisk(r) /\ r.file.mode = "read" /\ r.at = "loaded"
  <2>1. PICK base : base = 1 + old.prog.header.code_len
    OBVIOUS
  <2>2. old.file.pos = base /\ base \in Nat
    BY <1>2, <1>4, <1>8, <2>1 DEF Fits, HeaderFits
  <2>3. /\ cells # NULL /\ Len(cells) = len /\ \A i \in 1 .. len : cells[i] = Cell(p, base + i)
    BY <1>1, <1>4, <1>8, <2>2, CellsRead DEF ReadAts, ToolInv
  <2>4. /\ r.at = "loaded" /\ r.crossed = old.crossed
        /\ r.prog = [old.prog EXCEPT !.data = cells] /\ r.file = [old.file EXCEPT !.pos = @ + len]
    BY <1>2, <1>8 DEF Process
  <2>5. /\ r.prog.header = old.prog.header /\ r.prog.code = old.prog.code /\ r.prog.data = cells
        /\ r.file.mode = "read" /\ r.file.pos = base + len /\ r.file.buffer = old.file.buffer
    BY <1>2, <1>4, <2>2, <2>4 DEF ProgramInMemory, Stream
  <2>6. Content(r.prog).code = Content(old.prog).code /\ Content(r.prog).data = cells
    BY <2>3, <2>5 DEF Content
  <2>7. ASSUME ~old.crossed
        PROVE  ReadsDisk(r)
    <3>1. /\ \A i \in 1 .. Len(disk) : Cell(p, i) = disk[i]
          /\ \A n \in Nat : Has(p, n) => n <= Len(disk)
      BY <1>1, <1>2, <2>7, UndisturbedCell
    <3>2. base + len \in Nat /\ len \in Nat /\ Len(disk) \in Nat
      BY <1>3, <1>4, <1>8, <2>2
    <3>3. base + len <= Len(disk)
      BY <1>8, <2>2, <3>1, <3>2
    <3>4. \A i \in 1 .. len : cells[i] = disk[base + i]
      <4>1. TAKE i \in 1 .. len
      <4>2. base + i \in 1 .. Len(disk)
        BY <2>2, <3>2, <3>3
      <4>3. QED
        BY <2>3, <3>1, <4>2
    <3>5. /\ \A o \in Procs : ~Saving(o)
          /\ Begins(old.file.buffer, disk) /\ Len(disk) > 0 /\ old.prog.header = disk[1]
          /\ \A i \in 1 .. Len(Content(old.prog).code) : Content(old.prog).code[i] = disk[1 + i]
      BY <1>2, <1>3, <1>8, <2>7, ReadSoFar
    <3>6. QED
      BY <1>3, <2>1, <2>3, <2>4, <2>5, <2>6, <3>3, <3>4, <3>5 DEF ReadsDisk
  <2>8. QED
    BY <2>4, <2>5, <2>7 DEF ReadsDisk
<1>9. CASE ReadSection(p, "read_code", "code", old.prog.header.code_len, "read_data")
  BY <1>1, <1>3, <1>5, <1>6, <1>7, <1>9, ReaderStep, ZenonT(40) DEF ReadSection, At
<1>10. CASE ReadSection(p, "read_data", "data", old.prog.header.data_len, "loaded")
  BY <1>1, <1>3, <1>5, <1>6, <1>8, <1>10, ReaderStep, ZenonT(40) DEF ReadSection, At
<1>11. QED
  BY <1>1, <1>9, <1>10 DEF Load

-----------------------------------------------------------------------------
(* Steps that write the file.                                              *)

(* The first k cells of a buffer whose cells continue an image reach the   *)
(* disk: the file is one still, and begins as the image does if it did.    *)
LEMMA CellsWritten ==
  ASSUME disk # None, disk \in Seq(FileCell), Len(disk) > 0 => disk[1] \in FileHeader,
         NEW r, r.file.pos \in Nat, r.file.buffer \in Seq(FileCell), NEW k \in 0 .. Len(r.file.buffer),
         NEW image \in Seq(FileCell), image[1] \in FileHeader,
         r.file.pos + Len(r.file.buffer) <= Len(image),
         \A i \in 1 .. Len(r.file.buffer) : r.file.buffer[i] = image[r.file.pos + i],
         NEW new, new = FlushedTo(r, k)
  PROVE  /\ new \in Seq(FileCell) /\ new # None /\ (Len(new) > 0 => new[1] \in FileHeader)
         /\ r.file.pos = Len(disk) /\ Begins(disk, image) => Begins(new, image) /\ Len(new) = r.file.pos + k
<1>1. CASE k = 0
  <2>1. new = disk
    BY <1>1 DEF FlushedTo
  <2>2. QED
    BY <1>1, <2>1
<1>2. CASE k # 0
  <2>1. PICK buf : buf = r.file.buffer
    OBVIOUS
  <2>2. PICK pos : pos = r.file.pos
    OBVIOUS
  <2>3. PICK cells : cells = SubSeq(buf, 1, k)
    OBVIOUS
  <2>4. buf \in Seq(FileCell) /\ k \in 1 .. Len(buf) /\ pos \in Nat /\ Len(buf) \in Nat /\ Len(disk) \in Nat /\ k \in Nat
    BY <1>2, <2>1, <2>2
  <2>5. cells \in Seq(FileCell) /\ Len(cells) = k /\ \A i \in 1 .. k : cells[i] = buf[i]
    BY <2>3, <2>4, SMTT(30)
  <2>6. PICK size \in Nat : size = IF Len(disk) > pos + k THEN Len(disk) ELSE pos + k
    BY <2>4
  <2>7. new = [i \in 1 .. size |-> IF i > pos /\ i <= pos + k THEN cells[i - pos]
                                   ELSE IF i <= Len(disk) THEN disk[i]
                                   ELSE IF i = 1 THEN Header(FALSE, 0, 0) ELSE 0]
    <3>1. new = Written(pos, cells)
      BY <1>2, <2>1, <2>2, <2>3 DEF FlushedTo
    <3>2. QED
      BY <2>5, <2>6, <3>1 DEF Written
  <2>8. \A i \in 1 .. k : cells[i] = image[pos + i] /\ cells[i] \in FileCell
    <3>1. TAKE i \in 1 .. k
    <3>2. i \in 1 .. Len(buf) /\ cells[i] = buf[i]
      BY <2>4, <2>5
    <3>3. cells[i] \in FileCell
      BY <2>4, <3>2
    <3>4. buf[i] = image[pos + i]
      BY <2>1, <2>2, <3>2
    <3>5. QED
      BY <3>2, <3>3, <3>4
  <2>9. Header(FALSE, 0, 0) \in FileHeader
    BY DEF Header, FileHeader
  <2>10. \A i \in 1 .. size : i > pos /\ i <= pos + k => i - pos \in 1 .. k /\ cells[i - pos] = image[i]
    <3>1. TAKE i \in 1 .. size
    <3>2. HAVE i > pos /\ i <= pos + k
    <3>3. i - pos \in 1 .. k /\ pos + (i - pos) = i
      BY <2>4, <2>6, <3>2
    <3>4. QED
      BY <2>8, <3>3
  <2>11. \A i \in 1 .. size : new[i] \in FileCell
    <3>1. TAKE i \in 1 .. size
    <3>2. CASE i > pos /\ i <= pos + k
      BY <2>7, <2>8, <2>10, <3>2
    <3>3. CASE ~(i > pos /\ i <= pos + k) /\ i <= Len(disk)
      BY <2>7, <3>3
    <3>4. CASE ~(i > pos /\ i <= pos + k) /\ ~(i <= Len(disk))
      <4>1. new[i] = IF i = 1 THEN Header(FALSE, 0, 0) ELSE 0
        BY <2>7, <3>4
      <4>2. QED
        BY <2>9, <4>1, CellTypes
    <3>5. QED
      BY <3>2, <3>3, <3>4
  <2>12. new \in Seq(FileCell) /\ Len(new) = size
    <3>1. new \in [1 .. size -> FileCell]
      <4>1. DOMAIN new = 1 .. size /\ new = [i \in 1 .. size |-> new[i]]
        BY <2>7
      <4>2. QED
        BY <2>11, <4>1, Zenon
    <3>2. QED
      BY <2>6, <3>1, TableIsSequence
  <2>13. Len(new) > 0 => new[1] \in FileHeader
    <3>1. HAVE Len(new) > 0
    <3>2. 1 \in 1 .. size
      BY <2>12, <3>1
    <3>3. CASE 1 > pos
      <4>1. pos = 0 /\ 1 <= pos + k
        BY <2>4, <3>3
      <4>2. new[1] = image[1]
        BY <2>7, <2>10, <3>2, <3>3, <4>1
      <4>3. QED
        BY <4>2
    <3>4. CASE ~(1 > pos) /\ 1 <= Len(disk)
      BY <2>4, <2>7, <3>2, <3>4
    <3>5. CASE ~(1 > pos) /\ ~(1 <= Len(disk))
      BY <2>7, <2>9, <3>2, <3>5
    <3>6. QED
      BY <3>3, <3>4, <3>5
  <2>14. ASSUME pos = Len(disk), Begins(disk, image)
         PROVE  Begins(new, image) /\ Len(new) = pos + k
    <3>1. size = pos + k /\ pos + k <= Len(image)
      BY <2>1, <2>2, <2>4, <2>6, <2>14
    <3>2. \A i \in 1 .. size : new[i] = image[i]
      <4>1. TAKE i \in 1 .. size
      <4>2. CASE i > pos
        BY <2>4, <2>7, <2>10, <3>1, <4>2
      <4>3. CASE ~(i > pos)
        <5>1. i \in 1 .. Len(disk) /\ i <= Len(disk)
          BY <2>4, <2>14, <3>1, <4>3
        <5>2. new[i] = disk[i]
          BY <2>7, <4>3, <5>1
        <5>3. disk[i] = image[i]
          BY <2>14, <5>1 DEF Begins
        <5>4. QED
          BY <5>2, <5>3
      <4>4. QED
        BY <4>2, <4>3
    <3>3. QED
      BY <2>12, <3>1, <3>2 DEF Begins
  <2>15. QED
    BY <2>2, <2>12, <2>13, <2>14, CellTypes
<1>3. QED
  BY <1>1, <1>2

(* p puts k cells of the buffer of r on the disk; it is at its old place   *)
(* in the file, and goes on writing the same program or closes the file.   *)
Flushes(p, r, k) ==
  /\ UNCHANGED <<last_saved, writer, mixed>> /\ OnlyChanges(p) /\ Saving(p)
  /\ Fits(r) /\ r.at \in WriteAts /\ r.file.pos = proc[p].file.pos /\ r.prog = proc[p].prog
  /\ k \in 0 .. Len(r.file.buffer) /\ disk' = FlushedTo(r, k)
  /\ \/ /\ proc'[p].file.mode = "write" /\ proc'[p].file.pos = r.file.pos + k
        /\ proc'[p].prog = proc[p].prog /\ proc'[p].at # "idle"
     \/ /\ proc'[p].file.mode = "closed"
        /\ proc'[p].status = 1 \/ proc'[p].lost \/ (r.at = "saved" /\ k = Len(r.file.buffer))

LEMMA FlushStep ==
  ASSUME ToolInv, NEW p \in Procs, NEW r, NEW k, Flushes(p, r, k)
  PROVE  RestOfInv'
<1>1. PICK q : q = Content(r.prog)
  OBVIOUS
<1>2. PICK image : image = Image(q)
  OBVIOUS
<1>3. /\ r.file \in Stream /\ r.file.pos \in Nat /\ r.file.buffer \in Seq(FileCell)
      /\ k \in 0 .. Len(r.file.buffer) /\ Len(r.file.buffer) \in Nat
  <2>1. r \in Process /\ k \in 0 .. Len(r.file.buffer)
    BY DEF Flushes, Fits
  <2>2. r.file \in Stream /\ r.file.pos \in Nat /\ r.file.buffer \in Seq(FileCell)
    BY <2>1 DEF Process, Stream
  <2>3. QED
    BY <2>1, <2>2
<1>4. /\ q \in Programs /\ r.file.pos + Len(r.file.buffer) = Given(r)
      /\ \A i \in 1 .. Len(r.file.buffer) : r.file.buffer[i] = image[r.file.pos + i]
  BY <1>1, <1>2 DEF Flushes, Fits, BufferFits
<1>5. /\ image \in Seq(FileCell) /\ image[1] \in FileHeader
      /\ Len(image) = 1 + Len(q.code) + Len(q.data) /\ Len(q.code) \in Nat /\ Len(q.data) \in Nat
  <2>1. /\ image \in Seq(FileCell) /\ image[1] = HeaderOf(q) /\ HeaderOf(q) \in FileHeader
        /\ Len(image) = 1 + Len(q.code) + Len(q.data) /\ q.code \in Seq(Nat) /\ q.data \in Seq(Nat)
    BY <1>2, <1>4, ImageCells
  <2>2. QED
    BY <2>1
<1>6. Given(r) <= Len(image) /\ (r.at = "saved" => Given(r) = Len(image))
  <2>1. Given(r) = IF r.at = "write_header" THEN 0 ELSE IF r.at = "write_code" THEN 1
                   ELSE IF r.at = "write_data" THEN 1 + Len(q.code) ELSE 1 + Len(q.code) + Len(q.data)
    BY <1>1 DEF Given
  <2>2. PICK c \in Nat, d \in Nat : c = Len(q.code) /\ d = Len(q.data)
    BY <1>5
  <2>3. Given(r) \in {0, 1, 1 + c, 1 + c + d} /\ (r.at = "saved" => Given(r) = 1 + c + d)
    BY <2>1, <2>2
  <2>4. Len(image) = 1 + c + d
    BY <1>5, <2>2
  <2>5. QED
    BY <2>3, <2>4
<1>7. disk # None /\ disk \in Seq(FileCell) /\ (Len(disk) > 0 => disk[1] \in FileHeader)
  BY DEF Flushes, Saving, ToolInv, DiskTypeOK
<1>8. PICK new : new = disk'
  OBVIOUS
<1>9. /\ new \in Seq(FileCell) /\ new # None /\ (Len(new) > 0 => new[1] \in FileHeader)
      /\ r.file.pos = Len(disk) /\ Begins(disk, image) => Begins(new, image) /\ Len(new) = r.file.pos + k
  <2>1. r.file.pos + Len(r.file.buffer) <= Len(image) /\ new = FlushedTo(r, k)
    BY <1>4, <1>6, <1>8 DEF Flushes
  <2>2. QED
    BY <1>3, <1>4, <1>5, <1>7, <2>1, CellsWritten
<1>10. ~mixed => /\ p = writer /\ last_saved = q /\ Begins(new, image) /\ Len(new) = r.file.pos + k
                 /\ \A o \in Procs \ {p} : ~Saving(o)
  BY <1>1, <1>2, <1>9 DEF ToolInv, OneWrites, Flushes
<1>11. /\ last_saved' = last_saved /\ writer' = writer /\ mixed' = mixed
       /\ \A o \in Procs \ {p} : proc'[o] = proc[o]
  BY DEF Flushes, OnlyChanges
<1>12. DiskTypeOK'
  BY <1>8, <1>9, <1>11 DEF DiskTypeOK, ToolInv
<1>13. DiskFits'
  BY <1>2, <1>4, <1>8, <1>10, <1>11 DEF DiskFits
<1>14. OneWrites'
  <2>1. SUFFICES ASSUME ~mixed, NEW o \in Procs, proc'[o].file.mode = "write"
                 PROVE  /\ o = writer /\ last_saved = Content(proc'[o].prog)
                        /\ new # None /\ proc'[o].file.pos = Len(new) /\ Begins(new, Image(last_saved))
    BY <1>8, <1>11 DEF OneWrites, Saving
  <2>2. o = p
    BY <1>10, <1>11, <2>1 DEF Saving
  <2>3. proc'[p].file.pos = r.file.pos + k /\ proc'[p].prog = proc[p].prog /\ proc[p].prog = r.prog
    BY <2>1, <2>2 DEF Flushes
  <2>4. QED
    BY <1>1, <1>2, <1>9, <1>10, <2>1, <2>2, <2>3
<1>15. UndisturbedReads'
  <2>1. SUFFICES ASSUME NEW o \in Procs PROVE ReadsDisk(proc[o])'
    BY DEF UndisturbedReads
  <2>2. proc'[p].file.mode # "read" /\ Saving(p)
    BY DEF Flushes
  <2>3. proc'[o].file.mode = "read" => proc'[o] = proc[o]
    BY <1>11, <2>2
  <2>4. proc[o].file.mode = "read" => proc[o].crossed
    BY <2>2 DEF ToolInv, UndisturbedReads, ReadsDisk
  <2>5. QED
    BY <2>3, <2>4 DEF ReadsDisk
<1>16. StatusIsHonest'
  <2>1. SUFFICES ASSUME NEW o \in Procs, proc'[o].at = "idle", proc'[o].cmd = "asm", proc'[o].status = 0,
                        ~proc'[o].lost, ~mixed, writer = o
                 PROVE  new = Image(last_saved)
    BY <1>8, <1>11 DEF StatusIsHonest
  <2>2. o = p
    BY <1>10, <2>1
  <2>3. r.at = "saved" /\ k = Len(r.file.buffer)
    BY <2>1, <2>2 DEF Flushes
  <2>4. Given(r) = Len(image)
    BY <1>6, <2>3
  <2>5. Begins(new, image) /\ Len(new) = Len(image)
    BY <1>4, <1>10, <2>1, <2>3, <2>4
  <2>6. new = image
    <3>1. new \in Seq(FileCell) /\ image \in Seq(FileCell) /\ Len(new) = Len(image)
          /\ \A i \in 1 .. Len(new) : new[i] = image[i]
      BY <1>5, <1>9, <2>5 DEF Begins
    <3>2. QED
      BY <3>1, SameCells
  <2>7. QED
    BY <1>2, <1>10, <2>1, <2>6
<1>17. QED
  BY <1>12, <1>13, <1>14, <1>15, <1>16 DEF RestOfInv

(* Whichever way a process writes, it Flushes.                             *)
LEMMA FlushFlushes ==
  ASSUME ToolInv, NEW p \in Procs, Flush(p)
  PROVE  RestOfInv'
<1>1. PICK old : old = proc[p]
  OBVIOUS
<1>2. PICK k \in DOMAIN old.file.buffer :
        /\ disk' = FlushedTo(old, k)
        /\ Becomes(p, [old EXCEPT !.file.pos = @ + k, !.file.buffer = SubSeq(@, k + 1, Len(@))])
  BY <1>1 DEF Flush
<1>3. Fits(old) /\ old \in Process /\ old.at \in WriteAts /\ old.file.mode = "write"
  BY <1>1, ProcFits DEF ToolInv, Flush, Saving, Fits, StreamFits
<1>4. old.file \in Stream /\ k \in 0 .. Len(old.file.buffer)
  <2>1. old.file \in Stream /\ old.file.buffer \in Seq(FileCell)
    BY <1>3 DEF Process, Stream
  <2>2. k \in DOMAIN old.file.buffer
    BY <1>2
  <2>3. QED
    BY <2>1, <2>2
<1>5. PICK now : now = proc'[p]
  OBVIOUS
<1>6. /\ now = [old EXCEPT !.file.pos = @ + k, !.file.buffer = SubSeq(@, k + 1, Len(@))]
      /\ OnlyChanges(p)
  BY <1>2, <1>5, Became DEF ToolInv
<1>7. /\ now.prog = old.prog /\ now.at = old.at
      /\ now.file = [[old.file EXCEPT !.pos = @ + k] EXCEPT !.buffer = SubSeq(@, k + 1, Len(@))]
  BY <1>3, <1>6 DEF Process
<1>8. now.file.mode = "write" /\ now.file.pos = old.file.pos + k
  BY <1>3, <1>4, <1>7 DEF Stream
<1>9. now.at # "idle"
  BY <1>3, <1>7 DEF WriteAts
<1>10. Flushes(p, old, k)
  BY <1>1, <1>2, <1>3, <1>4, <1>5, <1>6, <1>7, <1>8, <1>9 DEF Flush, Flushes
<1>11. QED
  BY <1>10, FlushStep

LEMMA SaveFlushes ==
  ASSUME ToolInv, NEW p \in Procs, Save(p)
  PROVE  RestOfInv'
<1>1. PICK old : old = proc[p]
  OBVIOUS
<1>2. PICK cells, next : Appends(p, cells, next)
  BY SaveFits DEF ToolInv
<1>3. PICK r : r = Appended(old, cells, next)
  OBVIOUS
<1>4. PICK mid : mid = [old EXCEPT !.file.buffer = @ \o cells]
  OBVIOUS
<1>5. PICK now : now = proc'[p]
  OBVIOUS
<1>6. /\ Fits(r) /\ Write(p, old.at, cells, next) /\ next \in WriteAts
      /\ UNCHANGED <<last_saved, writer, mixed>>
  BY <1>1, <1>2, <1>3 DEF Appends, Write
<1>7. Fits(old) /\ old \in Process /\ old.at \in WriteAts /\ old.file.mode = "write"
  <2>1. Fits(old) /\ old \in Process /\ old.at \in WriteAts
    BY <1>1, ProcFits DEF ToolInv, Save, Write, At, WriteAts
  <2>2. QED
    BY <2>1 DEF Fits, StreamFits
<1>8. old.file \in Stream
  BY <1>7 DEF Process
<1>9. /\ mid.file = [old.file EXCEPT !.buffer = @ \o cells] /\ mid.prog = old.prog
      /\ r = [mid EXCEPT !.at = next]
  BY <1>3, <1>4, <1>7 DEF Process, Appended
<1>10. r.at = next /\ r.file = mid.file /\ r.prog = old.prog
  BY <1>4, <1>7, <1>9 DEF Process
<1>11. r.file.pos = old.file.pos /\ r.file.mode = "write"
  BY <1>7, <1>8, <1>9, <1>10 DEF Stream
<1>12. Saving(p)
  BY <1>1, <1>7 DEF Saving
<1>13. CASE disk' = disk /\ Becomes(p, r)
  <2>1. now = r /\ OnlyChanges(p)
    BY <1>5, <1>13, Became DEF ToolInv
  <2>2. 0 \in 0 .. Len(r.file.buffer) /\ r.file.pos + 0 = r.file.pos
    <3>1. r \in Process
      BY <1>6 DEF Fits
    <3>2. r.file.buffer \in Seq(FileCell) /\ r.file.pos \in Nat
      BY <3>1 DEF Process, Stream
    <3>3. QED
      BY <3>2
  <2>3. now.at # "idle"
    BY <1>6, <1>10, <2>1 DEF WriteAts
  <2>4. disk' = FlushedTo(r, 0)
    BY <1>13 DEF FlushedTo
  <2>5. Flushes(p, r, 0)
    BY <1>1, <1>5, <1>6, <1>10, <1>11, <1>12, <2>1, <2>2, <2>3, <2>4 DEF Flushes
  <2>6. QED
    BY <2>5, FlushStep
<1>14. CASE WriteFails(p, mid)
  <2>1. PICK k \in 0 .. Len(mid.file.buffer) :
          disk' = FlushedTo(mid, k) /\ Becomes(p, Exit(Freed([mid EXCEPT !.file = Closed]), 1))
    BY <1>14 DEF WriteFails
  <2>2. PICK s : s = [mid EXCEPT !.file = Closed]
    OBVIOUS
  <2>3. s \in Process /\ s.file = Closed
    BY <1>4, <1>7, <2>2, ClosedStream DEF Process
  <2>4. now = Exit(Freed(s), 1) /\ OnlyChanges(p)
    BY <1>5, <2>1, <2>2, Became DEF ToolInv
  <2>5. now.file.mode = "closed" /\ now.status = 1
    BY <2>3, <2>4, FreedFields, ClosedStream
  <2>6. k \in 0 .. Len(r.file.buffer) /\ disk' = FlushedTo(r, k)
    BY <1>10, <2>1 DEF FlushedTo
  <2>7. Flushes(p, r, k)
    BY <1>1, <1>5, <1>6, <1>10, <1>11, <1>12, <2>4, <2>5, <2>6 DEF Flushes
  <2>8. QED
    BY <2>7, FlushStep
<1>15. QED
  BY <1>1, <1>4, <1>6, <1>9, <1>13, <1>14 DEF Write

LEMMA CloseSavedFlushes ==
  ASSUME ToolInv, NEW p \in Procs, CloseSaved(p)
  PROVE  RestOfInv'
<1>1. PICK old : old = proc[p]
  OBVIOUS
<1>2. PICK n : n = Len(old.file.buffer)
  OBVIOUS
<1>3. PICK k \in 0 .. n :
        disk' = FlushedTo(old, k) /\ Becomes(p, Exit(Freed([old EXCEPT !.file = Closed, !.lost = k < n]), 0))
  BY <1>1, <1>2 DEF CloseSaved
<1>4. Fits(old) /\ old \in Process /\ old.at = "saved" /\ old.file.mode = "write"
  BY <1>1, ProcFits DEF ToolInv, CloseSaved, At, Fits, StreamFits, WriteAts
<1>5. n \in Nat /\ k \in Nat
  <2>1. old.file.buffer \in Seq(FileCell)
    BY <1>4 DEF Process, Stream
  <2>2. n \in Nat
    BY <1>2, <2>1
  <2>3. QED
    BY <1>3, <2>2
<1>6. PICK now : now = proc'[p]
  OBVIOUS
<1>7. PICK lost \in BOOLEAN : lost = (k < n)
  <2>1. CASE k < n
    <3>1. (k < n) = TRUE
      BY <2>1
    <3>2. QED
      BY <3>1
  <2>2. CASE ~(k < n)
    <3>1. (k < n) = FALSE
      BY <2>2
    <3>2. QED
      BY <3>1
  <2>3. QED
    BY <2>1, <2>2
<1>8. PICK s : s = [old EXCEPT !.file = Closed, !.lost = lost]
  OBVIOUS
<1>9. now = Exit(Freed(s), 0) /\ OnlyChanges(p)
  BY <1>3, <1>6, <1>7, <1>8, Became DEF ToolInv
<1>10. s \in Process /\ s.file = Closed /\ s.lost = lost
  BY <1>4, <1>8, ClosedStream DEF Process
<1>11. now.file.mode = "closed" /\ now.lost = lost
  BY <1>9, <1>10, ClosedStream DEF Exit, Freed, Process
<1>12. now.lost \/ k = n
  <2>1. CASE k < n
    BY <1>7, <1>11, <2>1
  <2>2. CASE ~(k < n)
    BY <1>3, <1>5, <2>2
  <2>3. QED
    BY <2>1, <2>2
<1>13. Saving(p) /\ UNCHANGED <<last_saved, writer, mixed>> /\ old.at \in WriteAts
  BY <1>1, <1>4 DEF Saving, CloseSaved, WriteAts
<1>14. Flushes(p, old, k)
  BY <1>1, <1>2, <1>3, <1>4, <1>6, <1>9, <1>11, <1>12, <1>13 DEF Flushes
<1>15. QED
  BY <1>14, FlushStep

(* A process begins to write: the file is empty, and nobody else writes it *)
(* or the save does not count.                                             *)
LEMMA OpenToWriteStep ==
  ASSUME ToolInv, NEW p \in Procs, OpenToWrite(p)
  PROVE  RestOfInv'
<1>1. PICK old : old = proc[p]
  OBVIOUS
<1>2. Fits(old) /\ old \in Process /\ old.at = "save" /\ old.file = Closed
  BY <1>1, ProcFits, FileClosed DEF ToolInv, OpenToWrite, At, WriteAts, ReadAts
<1>3. CASE Becomes(p, Exit(Freed(old), 1)) /\ Local
  <2>1. Exit(Freed(old), 1).file = Closed /\ Exit(Freed(old), 1).status = 1
    BY <1>2, FreedFields
  <2>2. QED
    BY <1>3, <2>1, Became, ClosedStep DEF ToolInv
<1>4. ASSUME disk' = <<>>, writer' = p, last_saved' = Content(old.prog), mixed' = \E o \in Procs : Saving(o),
             proc' = [q \in Procs |->
               IF q = p THEN [old EXCEPT !.at = "write_header", !.file = Opened("write")]
               ELSE [proc[q] EXCEPT !.crossed = @ \/ proc[q].file.mode = "read"]]
      PROVE  RestOfInv'
  <2>1. PICK now : now = proc'[p]
    OBVIOUS
  <2>2. now = [old EXCEPT !.at = "write_header", !.file = Opened("write")]
    BY <1>4, <2>1
  <2>3. now.at = "write_header" /\ now.file = Opened("write") /\ now.prog = old.prog
    BY <1>2, <2>2 DEF Process
  <2>4. now.file.mode = "write" /\ now.file.pos = 0
    BY <2>3 DEF Opened
  <2>5. ASSUME NEW o \in Procs \ {p}
        PROVE  /\ proc'[o].file = proc[o].file
               /\ proc[o].file.mode = "read" => proc'[o].crossed
    <3>1. proc[o] \in Process
      BY ProcFits DEF ToolInv
    <3>2. proc'[o] = [proc[o] EXCEPT !.crossed = proc[o].crossed \/ proc[o].file.mode = "read"]
      BY <1>4
    <3>3. QED
      BY <3>1, <3>2 DEF Process
  <2>6. Len(<<>>) = 0 /\ \A i \in 1 .. 0 : FALSE
    OBVIOUS
  <2>7. DiskTypeOK'
    <3>1. (\E o \in Procs : Saving(o)) \in BOOLEAN
      OBVIOUS
    <3>2. mixed' \in BOOLEAN
      BY <1>4, <3>1, Zenon
    <3>3. PICK empty \in Seq(FileCell) : empty = <<>>
      BY CellTypes
    <3>4. ~(Len(empty) > 0)
      BY <3>3
    <3>5. empty # None
      BY CellTypes, Zenon
    <3>6. QED
      BY <1>4, <3>2, <3>3, <3>4, <3>5 DEF DiskTypeOK
  <2>8. DiskFits'
    BY <1>4, <2>6 DEF DiskFits, Loadable
  <2>9. Begins(<<>>, Image(Content(old.prog)))
    <3>1. Content(old.prog) \in Programs
      BY <1>2 DEF Fits, BufferFits
    <3>2. Image(Content(old.prog)) \in Seq(FileCell)
      BY <3>1, ImageCells
    <3>3. Len(Image(Content(old.prog))) \in Nat
      BY <3>2
    <3>4. QED
      BY <2>6, <3>3 DEF Begins
  <2>10. OneWrites'
    <3>1. SUFFICES ASSUME ~mixed', NEW o \in Procs, proc'[o].file.mode = "write"
                   PROVE  /\ o = p /\ last_saved' = Content(proc'[o].prog)
                          /\ <<>> # None /\ proc'[o].file.pos = Len(<<>>) /\ Begins(<<>>, Image(last_saved'))
      BY <1>4 DEF OneWrites, Saving
    <3>2. \A q \in Procs : proc[q].file.mode # "write"
      BY <1>4, <3>1 DEF Saving
    <3>3. o = p
      BY <2>5, <3>1, <3>2
    <3>4. QED
      BY <1>4, <2>1, <2>3, <2>4, <2>6, <2>9, <3>3, CellTypes
  <2>11. UndisturbedReads'
    <3>1. \A o \in Procs : proc'[o].file.mode = "read" => proc'[o].crossed
      BY <2>1, <2>4, <2>5
    <3>2. QED
      BY <3>1 DEF UndisturbedReads, ReadsDisk
  <2>12. StatusIsHonest'
    BY <1>4, <2>1, <2>3 DEF StatusIsHonest
  <2>13. QED
    BY <2>7, <2>8, <2>10, <2>11, <2>12 DEF RestOfInv
<1>5. QED
  BY <1>1, <1>3, <1>4 DEF OpenToWrite

-----------------------------------------------------------------------------
(* The invariant.                                                          *)

LEMMA ToolInit == Init => ToolInv
<1>1. SUFFICES ASSUME Init PROVE ToolInv
  OBVIOUS
<1>2. /\ ProcsFit /\ mixed = FALSE
      /\ \A p \in Procs : proc[p].file.mode = "closed" /\ proc[p].cmd = "none"
  <2>1. ProcsFit /\ mixed = FALSE /\ proc = [p \in Procs |-> Idle]
    BY <1>1, ProcsInit DEF Init
  <2>2. Idle.file.mode = "closed" /\ Idle.cmd = "none"
    BY IdleFits, ClosedStream DEF Idle
  <2>3. QED
    BY <2>1, <2>2
<1>3. ASSUME disk = None \/ disk \in Seq(FileCell), disk # None /\ Len(disk) > 0 => disk[1] \in FileHeader,
             \/ disk = None \/ ~Loadable(disk)
             \/ last_saved \in Programs /\ Begins(disk, Image(last_saved))
      PROVE  ToolInv
  BY <1>2, <1>3 DEF ToolInv, DiskTypeOK, DiskFits, OneWrites, Saving, UndisturbedReads, ReadsDisk, StatusIsHonest
<1>4. CASE disk = None
  BY <1>3, <1>4
<1>5. CASE disk = <<>>
  BY <1>3, <1>5, CellTypes DEF Loadable
<1>6. ASSUME NEW h \in FileHeader, disk = <<h, "z">>, ~h.valid \/ h.code_len = 2
      PROVE  ToolInv
  <2>1. h \in FileCell /\ "z" \in FileCell
    BY CellTypes DEF FileCell
  <2>2. PICK d : d = <<h, "z">>
    OBVIOUS
  <2>3. d \in Seq(FileCell) /\ Len(d) = 2 /\ d[1] = h
    BY <2>1, <2>2
  <2>4. h.data_len \in Nat
    BY DEF FileHeader
  <2>5. ~Loadable(d)
    BY <1>6, <2>3, <2>4 DEF Loadable
  <2>6. QED
    BY <1>3, <1>6, <2>2, <2>3, <2>5
<1>7. CASE disk \in {<<Header(FALSE, 1, 0), "z">>, <<Header(TRUE, 2, 0), "z">>}
  <2>1. /\ Header(FALSE, 1, 0) \in FileHeader /\ ~Header(FALSE, 1, 0).valid
        /\ Header(TRUE, 2, 0) \in FileHeader /\ Header(TRUE, 2, 0).code_len = 2
    BY DEF Header, FileHeader
  <2>2. QED
    BY <1>6, <1>7, <2>1
<1>8. ASSUME NEW q \in Programs, disk = Image(q), last_saved = q
      PROVE  ToolInv
  <2>1. PICK image : image = Image(q)
    OBVIOUS
  <2>2. image \in Seq(FileCell) /\ image[1] \in FileHeader
    BY <2>1, ImageCells
  <2>3. Begins(image, image)
    BY <2>2 DEF Begins
  <2>4. QED
    BY <1>3, <1>8, <2>1, <2>2, <2>3
<1>9. QED
  BY <1>1, <1>4, <1>5, <1>7, <1>8 DEF Init

LEMMA ToolStep == ToolInv /\ [Next]_vars => ToolInv'
<1>1. SUFFICES ASSUME ToolInv, [Next]_vars PROVE ToolInv'
  OBVIOUS
<1>2. CASE UNCHANGED vars
  <2>1. disk' = disk /\ proc' = proc /\ last_saved' = last_saved /\ writer' = writer /\ mixed' = mixed
    BY <1>2 DEF vars
  <2>2. ProcsFit' /\ DiskTypeOK' /\ DiskFits' /\ OneWrites' /\ StatusIsHonest'
    BY <1>1, <2>1 DEF ToolInv, ProcsFit, DiskTypeOK, DiskFits, OneWrites, Saving, StatusIsHonest
  <2>3. UndisturbedReads'
    BY <1>1, <2>1 DEF ToolInv, UndisturbedReads, ReadsDisk, Saving
  <2>4. QED
    BY <2>2, <2>3 DEF ToolInv
<1>3. ASSUME NEW p \in Procs,
             \/ Begin(p) \/ ReadFile(p) \/ Assemble(p)
             \/ OpenToWrite(p) \/ Flush(p) \/ Save(p) \/ CloseSaved(p)
             \/ OpenToRead(p) \/ ReadHeader(p) \/ Load(p) \/ CloseLoaded(p)
             \/ List(p) \/ LoadVM(p) \/ RunVM(p) \/ Killed(p)
      PROVE  ToolInv'
  <2>1. ProcsFit'
    BY <1>1, <1>3, ProcsStep DEF ToolInv
  <2>2. RestOfInv'
    BY <1>1, <1>3, CommandStep, OpenToWriteStep, FlushFlushes, SaveFlushes, CloseSavedFlushes,
       OpenToReadStep, ReadHeaderStep, LoadStep, Zenon
  <2>3. QED
    BY <2>1, <2>2 DEF ToolInv, RestOfInv
<1>4. QED
  BY <1>1, <1>2, <1>3 DEF Next

LEMMA ToolInvariant == Spec => []ToolInv
BY ToolInit, ToolStep, PTL DEF Spec

-----------------------------------------------------------------------------
(* What the runs check of Toolchain, for any number of processes.          *)

LEMMA InvTypes == ToolInv => TypeOK
<1>1. SUFFICES ASSUME ToolInv PROVE TypeOK
  OBVIOUS
<1>2. disk = None \/ Len(disk) = 0 \/ disk[1] \in FileHeader
  <2>1. SUFFICES ASSUME disk # None PROVE Len(disk) = 0 \/ disk[1] \in FileHeader
    OBVIOUS
  <2>2. disk \in Seq(FileCell)
    BY <1>1, <2>1 DEF ToolInv, DiskTypeOK
  <2>3. Len(disk) \in Nat
    BY <2>2
  <2>4. QED
    BY <1>1, <2>1, <2>3 DEF ToolInv, DiskTypeOK
<1>3. ASSUME NEW p \in Procs
      PROVE  /\ proc[p].status \in {0, 1, None} /\ proc[p].file.mode \in {"closed", "read", "write"}
             /\ Holding(p) => proc[p].prog.header = HeaderOf(Content(proc[p].prog))
  <2>1. Fits(proc[p]) /\ proc[p] \in Process
    BY <1>1, ProcFits DEF ToolInv
  <2>2. proc[p].status \in {0, 1, None} /\ proc[p].file.mode \in {"closed", "read", "write"}
    BY <2>1 DEF Process, Stream
  <2>3. Holding(p) => proc[p].at \in HoldAts
    BY DEF Holding, HoldAts, WriteAts
  <2>4. QED
    BY <2>1, <2>2, <2>3 DEF Fits, HeaderFits
<1>4. QED
  BY <1>2, <1>3 DEF TypeOK

(* A reader that is not disturbed and read to the end found a file that    *)
(* holds all its header announces, so the last program saved, whole.       *)
LEMMA InvLoaded == ToolInv => LoadedWasSaved
<1>1. SUFFICES ASSUME ToolInv, NEW p \in Procs, proc[p].at = "loaded", ~proc[p].crossed, ~mixed
               PROVE  Content(proc[p].prog) = last_saved
  BY DEF LoadedWasSaved
<1>2. PICK r : r = proc[p]
  OBVIOUS
<1>3. Fits(r) /\ r \in Process /\ r.at = "loaded" /\ r.file.mode = "read" /\ ReadsDisk(r) /\ ~r.crossed
  BY <1>1, <1>2, ProcFits DEF ToolInv, Fits, StreamFits, ReadAts, UndisturbedReads
<1>4. PICK q : q = Content(r.prog)
  OBVIOUS
<1>5. /\ r.prog.header = HeaderOf(q) /\ r.prog.header.valid
      /\ r.file.pos = 1 + r.prog.header.code_len + r.prog.header.data_len
  BY <1>3, <1>4 DEF Fits, HeaderFits, HoldAts, HeaderOf, Header
<1>6. r.prog.header.code_len = Len(q.code) /\ r.prog.header.data_len = Len(q.data)
  BY <1>5 DEF HeaderOf, Header
<1>7. /\ disk # None /\ Len(disk) > 0 /\ r.prog.header = disk[1] /\ r.file.pos <= Len(disk)
      /\ \A i \in 1 .. Len(q.code) : q.code[i] = disk[1 + i]
      /\ \A i \in 1 .. Len(q.data) : q.data[i] = disk[1 + r.prog.header.code_len + i]
  BY <1>3, <1>4, ReadSoFar
<1>8. Loadable(disk)
  BY <1>5, <1>7 DEF Loadable
<1>9. PICK image : image = Image(last_saved)
  OBVIOUS
<1>10. last_saved \in Programs /\ Begins(disk, image)
  BY <1>1, <1>7, <1>8, <1>9 DEF ToolInv, DiskFits
<1>11. PICK l \in Programs : l = last_saved
  BY <1>10
<1>12. /\ l = [code |-> l.code, data |-> l.data] /\ l.code \in Seq(Nat) /\ l.data \in Seq(Nat)
       /\ image[1] = HeaderOf(l)
       /\ \A i \in 1 .. Len(l.code) : image[1 + i] = l.code[i]
       /\ \A i \in 1 .. Len(l.data) : image[1 + Len(l.code) + i] = l.data[i]
  BY <1>9, <1>11, ImageCells
<1>13. disk \in Seq(FileCell)
  BY <1>1, <1>7 DEF ToolInv, DiskTypeOK
<1>14. HeaderOf(q) = HeaderOf(l)
  <2>1. 1 \in 1 .. Len(disk)
    BY <1>7, <1>13
  <2>2. disk[1] = image[1]
    BY <1>10, <2>1 DEF Begins
  <2>3. QED
    BY <1>5, <1>7, <1>12, <2>2
<1>15. Len(q.code) = Len(l.code) /\ Len(q.data) = Len(l.data)
  BY <1>14 DEF HeaderOf, Header
<1>16. PICK c \in Nat, d \in Nat : c = Len(l.code) /\ d = Len(l.data)
  BY <1>12
<1>17. PICK n \in Nat : n = Len(disk) /\ 1 + c + d <= n
  <2>1. r.prog.header.code_len = c /\ r.prog.header.data_len = d
    BY <1>6, <1>15, <1>16
  <2>2. r.file.pos = 1 + c + d
    BY <1>5, <2>1
  <2>3. PICK n \in Nat : n = Len(disk)
    BY <1>13
  <2>4. QED
    BY <1>7, <2>2, <2>3
<1>18. /\ q = [code |-> q.code, data |-> q.data] /\ q.code \in Seq(FileCell) /\ q.data \in Seq(FileCell)
       /\ l.code \in Seq(FileCell) /\ l.data \in Seq(FileCell)
  BY <1>3, <1>4, <1>12, ContentOfBlocks, BytesAreCells DEF Process
<1>19. q.code = l.code
  <2>1. \A i \in 1 .. c : q.code[i] = l.code[i]
    <3>1. TAKE i \in 1 .. c
    <3>2. 1 + i \in 1 .. Len(disk) /\ i \in 1 .. Len(q.code) /\ i \in 1 .. Len(l.code)
      <4>1. 1 + i \in 1 .. n
        BY <1>17
      <4>2. QED
        BY <1>15, <1>16, <1>17, <4>1
    <3>3. q.code[i] = disk[1 + i] /\ disk[1 + i] = image[1 + i] /\ image[1 + i] = l.code[i]
      BY <1>7, <1>10, <1>12, <3>2 DEF Begins
    <3>4. QED
      BY <3>3
  <2>2. QED
    BY <1>15, <1>16, <1>18, <2>1, SameCells
<1>20. q.data = l.data
  <2>1. \A i \in 1 .. d : q.data[i] = l.data[i]
    <3>1. TAKE i \in 1 .. d
    <3>2. 1 + c + i \in 1 .. Len(disk) /\ i \in 1 .. Len(q.data) /\ i \in 1 .. Len(l.data)
      <4>1. 1 + c + i \in 1 .. n
        BY <1>17
      <4>2. QED
        BY <1>15, <1>16, <1>17, <4>1
    <3>3. q.data[i] = disk[1 + c + i]
      BY <1>6, <1>7, <1>15, <1>16, <3>2
    <3>4. disk[1 + c + i] = image[1 + c + i]
      BY <1>10, <3>2 DEF Begins
    <3>5. image[1 + c + i] = l.data[i]
      BY <1>12, <1>16, <3>2
    <3>6. QED
      BY <3>3, <3>4, <3>5
  <2>2. QED
    BY <1>15, <1>16, <1>18, <2>1, SameCells
<1>21. QED
  BY <1>2, <1>4, <1>11, <1>12, <1>18, <1>19, <1>20

LEMMA InvClean == ToolInv => CleanExit
<1>1. SUFFICES ASSUME ToolInv, NEW p \in Procs
               PROVE  /\ \A b \in {"code", "data"} : proc[p].prog[b] # NULL <=> b \in proc[p].held
                      /\ proc[p].at = "idle" =>
                           /\ proc[p].file = Closed
                           /\ proc[p].held # {} => /\ proc[p].held = {"code"} /\ proc[p].status = 1
                                                   /\ proc[p].cmd \in {"asm", "run-asm"}
                                                   /\ proc[p].prog.header.data_len > 0
  BY DEF CleanExit
<1>2. Fits(proc[p])
  BY <1>1, ProcFits DEF ToolInv
<1>3. BlocksFit(proc[p])
  BY <1>2 DEF Fits
<1>4. \A b \in {"code", "data"} : proc[p].prog[b] # NULL <=> b \in proc[p].held
  BY <1>3 DEF BlocksFit
<1>5. proc[p].at = "idle" => proc[p].file = Closed
  BY <1>2, FileClosed DEF WriteAts, ReadAts
<1>6. QED
  BY <1>3, <1>4, <1>5 DEF BlocksFit

(* Every command works on a program that is as long as its header says,    *)
(* however many processes read and write the file and wherever a read      *)
(* fails (zeus_program_load, main.c).                                      *)
THEOREM ToolTypes == Spec => []TypeOK
BY ToolInvariant, InvTypes, PTL

(* What zeus run and zeus dis load is the last program zeus asm saved, or  *)
(* nothing: never a foreign file, or what a failed or killed save left,    *)
(* unless another process wrote meanwhile.                                 *)
THEOREM ToolLoadsWhatWasSaved == Spec => []LoadedWasSaved
BY ToolInvariant, InvLoaded, PTL

(* zeus asm ends with status 0 only when the whole program is in the file, *)
(* unless its last flush failed inside fclose or somebody else wrote.      *)
THEOREM ToolSavesHonestly == Spec => []StatusIsHonest
BY ToolInvariant, PTL DEF ToolInv

(* No command frees a block twice, uses one after, or ends with a file     *)
(* open or a block live, but for the code of an assembly out of memory.    *)
THEOREM ToolExitsClean == Spec => []CleanExit
BY ToolInvariant, InvClean, PTL
=============================================================================
