------------------------------ MODULE LiveTail ------------------------------
(***************************************************************************)
(* A live session of MO: the tailer of src/mo/adapters/live.py follows the *)
(* log a tap writes, hands each complete line to the projection of         *)
(* MCPProjector and puts ticks into the stream during silence.             *)
(*                                                                         *)
(* The tap is external and is what live.py says of it: it appends lines,   *)
(* may flush part of one, and may die in the middle of one and be started  *)
(* again on the same file.  Bytes matter only where the code tells them    *)
(* apart: has the last line its newline, does what was written end inside  *)
(* a character, and is the position of the open file between two lines or  *)
(* inside one.  The file is opened as UTF-8, so a character cut short at   *)
(* the end of the file, or followed by anything but its own bytes, makes   *)
(* readline raise.                                                         *)
(***************************************************************************)
EXTENDS MCPProjector

CONSTANTS Records,     \* bound: what the tap may capture
          tick_ms, idle_ms,   \* parameters of tail_events
          START,       \* wall clock when the tailer starts
          MaxTime,     \* bound: the last wall clock reading
          MaxLines     \* bound: the records the tap captures

(* What a record is to the tailer: a frame to project, a wire line that    *)
(* was not parsed, or JSON that the projection raises on (not an object,   *)
(* an id that is a list, params that are a list); and what it tells of its *)
(* time: a timestamp, its number in the session, or nothing.               *)
Record == [kind : {"frame", "raw", "poison"}, frame : Frame, stamp : {"ts", "seq", "none"}]

ASSUME TailAssumption ==
  /\ Records \subseteq Record
  /\ tick_ms \in Nat /\ idle_ms \in Nat
  /\ MaxTime \in Nat /\ START \in 0 .. MaxTime /\ MaxLines \in Nat

VARIABLES file,       \* the lines that have their newline
          tail,       \* what follows the last newline: "empty", "text" or "torn"
          spoiled,    \* what a dead tap left there: "no", "text" or "bytes"
          writing,    \* the line the tap is writing, or None
          captured,   \* records captured so far
          wall,       \* the wall clock, ms
          pc,         \* the tailer: "poll", "silent", "returned" or "dead"
          fh,         \* where the open file stands: behind that many lines, inside the next or not
          pos,        \* what tell said at the top of this turn of the loop
          last_line, last_tick,
          handed      \* history: the lines given to json.loads

tapvars    == <<file, tail, spoiled, writing, captured>>
readervars == <<pc, fh, pos, last_line, last_tick, handed, pending, delivered>>
vars       == <<tapvars, wall, readervars>>

Behind(n) == [line |-> n, inside |-> FALSE]

Init == /\ file = <<>> /\ tail = "empty" /\ spoiled = "no" /\ writing = None
        /\ captured = 0 /\ wall = START
        /\ pc = "poll" /\ fh = Behind(0) /\ pos = Behind(0) /\ last_line = START /\ last_tick = START
        /\ handed = <<>> /\ pending = <<>> /\ delivered = <<>>

-----------------------------------------------------------------------------
(* The tap, and time.                                                      *)

Line(rec, seq) == [kind |-> rec.kind, frame |-> rec.frame,
                   captured |-> IF rec.stamp = "ts" THEN wall ELSE None,
                   seq |-> IF rec.stamp = "none" THEN None ELSE seq]

(* Bound: the file is looked at only while somebody follows it.            *)
Followed == pc \in {"poll", "silent"}

Capture == /\ Followed /\ writing = None /\ captured < MaxLines
           /\ \E rec \in Records : writing' = Line(rec, captured + 1)
           /\ captured' = captured + 1
           /\ UNCHANGED <<file, tail, spoiled, wall, readervars>>

FlushPart == /\ Followed /\ writing # None
             /\ tail' \in {"text", "torn"}
             /\ UNCHANGED <<file, spoiled, writing, captured, wall, readervars>>

(* What a line has become by the time it gets its newline.                 *)
Finished(line) == CASE spoiled = "no"    -> line
                    [] spoiled = "text"  -> [line EXCEPT !.kind = "garbage"]
                    [] spoiled = "bytes" -> [line EXCEPT !.kind = "undecodable"]

FlushLine == /\ Followed /\ writing # None
             /\ file' = Append(file, Finished(writing))
             /\ tail' = "empty" /\ spoiled' = "no" /\ writing' = None
             /\ UNCHANGED <<captured, wall, readervars>>

TapCrash == /\ Followed /\ writing # None
            /\ writing' = None /\ tail' = "empty"
            /\ spoiled' = IF tail = "torn" \/ spoiled = "bytes" THEN "bytes"
                          ELSE IF tail = "text" THEN "text" ELSE spoiled
            /\ UNCHANGED <<file, captured, wall, readervars>>

TimePasses == Followed /\ wall < MaxTime /\ wall' = wall + 1 /\ UNCHANGED <<tapvars, readervars>>

-----------------------------------------------------------------------------
(* tail_events: one turn of its loop is one of these actions, or PollEmpty *)
(* and then a Silent.  Sleeping is between a Silent and the next turn.     *)

(* The complete lines from the position on, and what readline gets of the  *)
(* first of them: from inside it only the rest, which is no JSON.          *)
unread     == fh.line + 1 .. Len(file)
next_line  == IF fh.inside THEN [file[fh.line + 1] EXCEPT !.kind = "garbage"] ELSE file[fh.line + 1]
past_line  == Behind(fh.line + 1)

(* Behind whatever follows the last newline.                               *)
past_tail  == [fh EXCEPT !.inside = @ \/ tail # "empty" \/ spoiled # "no"]

(* A step that ends a turn does the tell the next one begins with.         *)
tell == pos' = fh'

(* Mutant: no rewind over a partial line.                                  *)
NoSeek(p) == fh

seek(p) == p

unreadable == tail = "torn" \/ spoiled = "bytes"

(* Mutant: no fallback for a record without a timestamp.                   *)
StampOnly(line) == line.captured

(* _rec_ms: a record without a usable timestamp has its number for one, or *)
(* nought.                                                                 *)
_rec_ms(line) == IF line.captured # None THEN line.captured
                 ELSE IF line.seq # None THEN line.seq ELSE 0

StopRequested == pc = "poll" /\ pc' = "returned"
                 /\ UNCHANGED <<tapvars, wall, fh, pos, last_line, last_tick, handed, pending, delivered>>

(* json.loads and project of the next line.                                *)
HandLine(line) ==
  /\ handed' = Append(handed, line)
  /\ \/ line.kind = "frame" /\ project(line.frame, _rec_ms(line), Len(handed'))
     \/ line.kind \in {"garbage", "raw"} /\ UNCHANGED <<pending, delivered>>

(* Mutant: a line is taken for the tick it makes unnecessary.              *)
ReadLineResetsTick ==
  /\ pc = "poll" /\ unread # {}
  /\ fh' = past_line /\ tell
  /\ last_line' = wall /\ last_tick' = wall
  /\ HandLine(next_line)
  /\ UNCHANGED <<tapvars, wall, pc>>

ReadLine ==
  /\ pc = "poll" /\ unread # {}
  /\ fh' = past_line /\ tell
  /\ last_line' = wall
  /\ HandLine(next_line)
  /\ UNCHANGED <<tapvars, wall, pc, last_tick>>

(* Bytes that are not UTF-8 anywhere in the chunk read, or a record the    *)
(* projection cannot take: the exception ends the generator, and the open  *)
(* file with it.                                                           *)
DecodeFails == \/ \E k \in unread : file[k].kind = "undecodable"
               \/ unread # {} /\ spoiled = "bytes" /\ tail # "empty"
               \/ unread = {} /\ unreadable

Die == /\ pc = "poll"
       /\ \/ DecodeFails /\ UNCHANGED last_line
          \/ unread # {} /\ next_line.kind = "poison" /\ last_line' = wall
       /\ pc' = "dead"
       /\ UNCHANGED <<tapvars, wall, fh, pos, last_tick, handed, pending, delivered>>

(* No complete line: readline reads what is there of the next one.         *)
PollEmpty ==
  /\ pc = "poll" /\ unread = {} /\ ~unreadable
  /\ fh' = past_tail
  /\ pc' = "silent"
  /\ UNCHANGED <<tapvars, wall, pos, last_line, last_tick, handed, pending, delivered>>

Idle    == wall - last_line >= idle_ms
TickDue == wall - last_tick >= tick_ms

(* The rewind over a partial line, then the clock.                         *)
Silent ==
  /\ pc = "silent"
  /\ fh' = seek(pos) /\ tell
  /\ \/ Idle /\ pc' = "returned" /\ UNCHANGED <<last_tick, delivered>>
     \/ /\ ~Idle /\ TickDue
        /\ last_tick' = wall
        /\ delivered' = Append(delivered, Event("tick", None, "None", FALSE, wall, 0))
        /\ pc' = "poll"
     \/ ~Idle /\ ~TickDue /\ pc' = "poll" /\ UNCHANGED <<last_tick, delivered>>
  /\ UNCHANGED <<tapvars, wall, last_line, handed, pending>>

Reader == ReadLine \/ Die \/ PollEmpty \/ Silent

Next == \/ Capture \/ FlushPart \/ FlushLine \/ TapCrash
        \/ TimePasses \/ StopRequested \/ Reader

(* The loop waits for nothing but its own short sleep.                     *)
Spec == Init /\ [][Next]_vars /\ WF_vars(Reader)

-----------------------------------------------------------------------------
Lines == [kind : {"frame", "raw", "poison", "garbage", "undecodable"}, frame : Frame,
          captured : START .. MaxTime \cup {None}, seq : 1 .. MaxLines \cup {None}]

Primitives == {"tool_called", "tool_declared", "tool_result", "tick",
               "tools/call", "other", "response", "frame"}

Position == [line : 0 .. Len(file), inside : BOOLEAN]

ProjectedEvent == [primitive : Primitives, identifier : Names \cup {None},
                   correlation : {"None"} \cup {str[id] : id \in Ids},
                   is_error : BOOLEAN, ts : Nat, of : Nat]

(* Types: every line is one the tap wrote, whole or spoiled; a request in  *)
(* the map has been called by name or anonymously; an event has a time and *)
(* comes of no line that was not handed on.                                *)
TypeOK ==
  /\ file \in Seq(Lines) /\ handed \in Seq(Lines)
  /\ tail \in {"empty", "text", "torn"} /\ spoiled \in {"no", "text", "bytes"}
  /\ writing \in Lines \cup {None}
  /\ captured \in 0 .. MaxLines /\ wall \in START .. MaxTime
  /\ pc \in {"poll", "silent", "returned", "dead"}
  /\ fh \in Position /\ pos \in Position
  /\ last_line \in START .. wall /\ last_tick \in START .. wall
  /\ DOMAIN pending \subseteq Ids /\ \A id \in DOMAIN pending : pending[id] \in Names \cup {None}
  /\ delivered \in Seq(ProjectedEvent)
  /\ \A j \in DOMAIN delivered : delivered[j].of <= Len(handed)

IsFrame(k)        == handed[k].kind = "frame"
CallsWith(id)     == {k \in DOMAIN handed : IsFrame(k) /\ IsCall(handed[k].frame) /\ handed[k].frame.id = id}
ResultsWith(id)   == {k \in DOMAIN handed : IsFrame(k) /\ HasResult(handed[k].frame) /\ handed[k].frame.id = id}

(* Result k of the session is the answer to call i: they share an id, and  *)
(* between them that id was neither called nor answered.                   *)
AnswerTo(i, k) ==
  LET id == handed[k].frame.id
  IN  /\ id # None /\ k \in ResultsWith(id) /\ i \in CallsWith(id) /\ i < k
      /\ (CallsWith(id) \cup ResultsWith(id)) \cap (i + 1 .. k - 1) = {}

EventsOf(k) == {delivered[j] : j \in {i \in DOMAIN delivered : delivered[i].of = k}}

(* A tool_result the engine hears is the answer to the latest call with    *)
(* its id (reused and look-alike ids, overlapping calls and notifications  *)
(* included), carries the name and the correlation that call was announced *)
(* with, and no answer of a waiting call is heard as anything else.        *)
ResultsNameTheirCalls ==
  \A k \in DOMAIN handed :
    /\ \A e \in EventsOf(k) : e.primitive = "tool_result" =>
         \E i \in 1 .. k - 1 :
            /\ AnswerTo(i, k)
            /\ \E c \in EventsOf(i) : /\ c.primitive = "tool_called"
                                      /\ c.identifier = e.identifier
                                      /\ c.correlation = e.correlation
    /\ IsFrame(k) /\ (\E i \in 1 .. k - 1 : AnswerTo(i, k)) =>
         \E e \in EventsOf(k) : e.primitive = "tool_result"

ToolsNamed(frame) == {frame.tools[i] : i \in DOMAIN frame.tools} \ {None}

(* How far "nothing is silently dropped" (mcp.py, frame_projector) goes: a *)
(* list of tools declares every tool it names and nothing else, so that    *)
(* one which names none, the one exception, leaves no event; every other   *)
(* parsed frame leaves one; and the events of the wire keep the order of   *)
(* the lines, whatever ticks come between.                                 *)
NothingSilentlyDropped ==
  /\ \A k \in DOMAIN handed : IsFrame(k) =>
       IF IsList(handed[k].frame)
         THEN {e.identifier : e \in EventsOf(k)} = ToolsNamed(handed[k].frame)
         ELSE EventsOf(k) # {}
  /\ \A i, j \in DOMAIN delivered :
       i < j /\ delivered[i].of # 0 /\ delivered[j].of # 0 => delivered[i].of <= delivered[j].of

(* The tailer implements the lossless feed: partial lines, rewinds, taps   *)
(* that die and clocks that move neither lose, repeat nor reorder a line,  *)
(* and a line is not left unread while the log is followed.                *)
Feed == INSTANCE SessionFeed
          WITH log <- file, judged <- handed, following <- Followed

ImplementsFeed == Feed!FeedSpec

(* What the engine has heard of the time: the start, then ticks.           *)
Heard(t) == \/ START + tick_ms > t
            \/ \E j \in DOMAIN delivered : /\ delivered[j].primitive = "tick"
                                          /\ delivered[j].ts + tick_ms > t

(* The silence problem (live.py): once there is no more to read, whatever  *)
(* came before and however much of a last line lies there, the engine      *)
(* comes to hear of the present, to within tick_ms, as long as the log is  *)
(* followed.  While lines keep coming it need not: every line read         *)
(* continues past the tick.                                                *)
SilenceIsNoticed == <>[](unread = {}) => []<>(Heard(wall) \/ ~Followed)

(* "The tailer must stay alive" and a partial line "is left for the next   *)
(* poll" (live.py:46-47, live.py:53).                                      *)
StaysAlive == pc # "dead"
=============================================================================
