----------------------------- MODULE MCMOReplay -----------------------------
(* Small instance of MOReplay: one rule, two calls of the same tool that   *)
(* may overlap, and one event the specification does not mention.          *)
EXTENDS MOReplay

CONSTANT MaxEvents   \* bound on the length of a session

Ev(p, c) == [primitive |-> p, identifier |-> "t", correlation |-> c]

MCPrimitives   == {"called", "result", "other"}
MCIdentifiers  == {"t"}
MCCorrelations == {"None", "1"}

MCTriggers   == <<[on_primitive |-> "called", expects |-> "result", window_ms |-> 1]>>
MCAssertions == <<>>

MCEvents == {Ev("called", "None"), Ev("called", "1"), Ev("result", "None"),
             Ev("result", "1"), Ev("other", "None")}
MCTimes  == 0 .. 3

ShortSession == total_events <= MaxEvents
=============================================================================
