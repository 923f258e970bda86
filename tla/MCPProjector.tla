---------------------------- MODULE MCPProjector ----------------------------
(***************************************************************************)
(* The live projection of MO (src/mo/adapters/mcp.py, frame_projector):    *)
(* one record of a tapped MCP session becomes the wire events the engine   *)
(* judges.  The closure's map of requests that wait for a result is the    *)
(* state; project handles one record.                                      *)
(*                                                                         *)
(* A frame is what the branches look at: its direction, method, id, the    *)
(* tool it names and the shape of its result ("None": no result member;    *)
(* "scalar": not an object; "tools": an object with a list of tools, in    *)
(* which None stands for an entry without a name).                         *)
(* Two JSON ids may differ and print alike, so str is a parameter.         *)
(***************************************************************************)
EXTENDS Integers, Sequences, FiniteSets

CONSTANTS Ids,        \* JSON-RPC ids
          str,        \* str(id): how an id prints
          Names,      \* tool names
          None        \* the absent value

Frame == [dir : {"c2s", "s2c"}, method : {"tools/call", "other", "None"},
          id : Ids \cup {None}, name : Names \cup {None},
          result : {"None", "scalar", "ok", "error", "tools"}, tools : Seq(Names \cup {None})]

ASSUME ProjectorAssumption == str \in [Ids -> STRING] /\ None \notin Ids \cup Names

VARIABLES pending,     \* request id -> tool name, for the requests not answered
          delivered    \* history: the events yielded so far, ticks included

IsCall(f)    == f.dir = "c2s" /\ f.method = "tools/call"
IsList(f)    == ~IsCall(f) /\ f.result = "tools"
HasResult(f) == ~IsCall(f) /\ f.result \in {"ok", "error"}

(* A result answers a request that is waiting, whatever its direction.     *)
Answers(f) == HasResult(f) /\ f.id \in DOMAIN pending

corr(id) == IF id = None THEN "None" ELSE str[id]

Event(primitive, identifier, correlation, is_error, ts, of) ==
  [primitive |-> primitive, identifier |-> identifier, correlation |-> correlation,
   is_error |-> is_error, ts |-> ts, of |-> of]

(* The name of a frame no branch recognises.                               *)
label(f) == IF f.method # "None" THEN f.method
            ELSE IF f.result # "None" THEN "response" ELSE "frame"

HasName(tool) == tool # None

(* Entries of the list that have no name declare nothing.                  *)
named(tools) ==
  LET upto[i \in 0 .. Len(tools)] ==
        IF i = 0 THEN <<>>
        ELSE IF HasName(tools[i]) THEN Append(upto[i - 1], tools[i]) ELSE upto[i - 1]
  IN  upto[Len(tools)]

Declared(f, ts, n) ==
  [i \in DOMAIN named(f.tools) |->
     Event("tool_declared", named(f.tools)[i], "None", FALSE, ts, n)]

(* Mutant: a frame no branch recognises is dropped.                        *)
DropUnknown(f, ts, n) == <<>>

Generic(f, ts, n) == <<Event(label(f), None, "None", FALSE, ts, n)>>

(* Mutant: an answered request stays in the map.                           *)
ForgetNothing(id) == pending

Popped(id) == [i \in DOMAIN pending \ {id} |-> pending[i]]

Waiting(id, name) == [i \in DOMAIN pending \cup {id} |-> IF i = id THEN name ELSE pending[i]]

(* project(rec) for the n-th record, whose frame is f and time is ts.      *)
project(f, ts, n) ==
  \/ /\ IsCall(f)
     /\ pending' = IF f.id = None THEN pending ELSE Waiting(f.id, f.name)
     /\ delivered' = Append(delivered, Event("tool_called", f.name, corr(f.id), FALSE, ts, n))
  \/ /\ IsList(f)
     /\ delivered' = delivered \o Declared(f, ts, n)
     /\ UNCHANGED pending
  \/ /\ Answers(f)
     /\ pending' = Popped(f.id)
     /\ delivered' = Append(delivered,
          Event("tool_result", pending[f.id], corr(f.id), f.result = "error", ts, n))
  \/ /\ ~IsCall(f) /\ ~IsList(f) /\ ~Answers(f)
     /\ delivered' = delivered \o Generic(f, ts, n)
     /\ UNCHANGED pending
=============================================================================
