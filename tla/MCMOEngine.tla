----------------------------- MODULE MCMOEngine -----------------------------
(***************************************************************************)
(* A small instance of MOEngine: a liveness rule of a tool call, one that  *)
(* starts a second obligation on the same primitive, as a zspec may, and   *)
(* has a negative window, the fabrication rule and a rule by which an      *)
(* event excuses itself, over streams of at most MaxEvents events.         *)
(***************************************************************************)
EXTENDS MOEngine, TLC

CONSTANT MaxEvents   \* bound on the length of a stream

Ev(p, i, c) == [primitive |-> p, identifier |-> i, correlation |-> c]

MCPrimitives   == {"declared", "called", "result", "other"}
MCIdentifiers  == {"t", "u"}
MCCorrelations == {"None", "1"}

(* The specification, as the parser reads it.                              *)
L(indented, tokens) == [blank |-> FALSE, indented |-> indented, tokens |-> tokens]
Empty == [blank |-> TRUE, indented |-> FALSE, tokens |-> <<>>]

On(p)      == L(FALSE, <<"on", p, "as", "$t">>)
EXPECT(p)  == L(TRUE, <<"EXPECT", p, "for", "$t">>)
WINDOW(ms) == L(TRUE, <<"WINDOW", ms>>)
ASSERT(p)  == L(FALSE, <<"ASSERT", "no", "called", "where", "identifier", "not", "in", p>>)

Parser == INSTANCE MOParser WITH bind_of  <- "$t" :> "t" @@ "$u" :> "u",
                                 float_of <- "0" :> 0 @@ "1" :> 1 @@ "-1" :> -1

SpecText == <<On("called"), EXPECT("result"), WINDOW("1"), Empty,
              On("result"), WINDOW("1"), EXPECT("result"), WINDOW("-1"), ASSERT("declared"),
              ASSERT("called")>>

Rules == Parser!parse(SpecText)
Trigger(i) == [on_primitive |-> Rules.triggers[i].on_primitive, expects |-> Rules.triggers[i].expects,
               window_ms |-> Rules.triggers[i].window_ms]

Assertion(i) == [primitive |-> Rules.assertions[i].primitive,
                 required  |-> Rules.assertions[i].required]

MCTriggers   == <<Trigger(1), Trigger(2)>>
MCAssertions == <<Assertion(1), Assertion(2)>>

(* Every text of up to four lines of a pool, good and bad.                 *)
Pool  == {On("called"), EXPECT("result"), WINDOW("1"), WINDOW("-1"), ASSERT("declared"), Empty,
          L(TRUE, <<"EXPECT", "result", "for", "$u">>), WINDOW("soon"), L(FALSE, <<>>), L(TRUE, <<>>),
          L(FALSE, <<"EXPECT", "other", "for", "$t">>)}
Texts == UNION {[1 .. n -> Pool] : n \in 0 .. 4} \cup [1 .. 5 -> {On("called"), EXPECT("result"), WINDOW("1"), ASSERT("declared")}]

ASSUME ParserMeansTheText == \A text \in Texts : Parser!MeansTheText(text)

MCEvents == {Ev("declared", "t", "None"), Ev("called", "t", "None"), Ev("called", "t", "1"),
             Ev("called", "u", "None"), Ev("result", "t", "None"), Ev("result", "t", "1"),
             Ev("other", "u", "None")}

MCTimes == 0 .. 2

ShortStream == total_events <= MaxEvents
=============================================================================
