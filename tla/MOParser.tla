------------------------------ MODULE MOParser ------------------------------
(***************************************************************************)
(* The .zspec parser (src/mo/parser.py).  A text is a sequence of lines;   *)
(* a line, its comment and its colons gone, is blank or has tokens and is  *)
(* indented or not.  The parse ends with the rules or with an error and    *)
(* the number of a line.                                                   *)
(***************************************************************************)
EXTENDS Integers, SequencesExt

CONSTANTS bind_of,  \* the tokens that start with $ -> what follows it
          float_of  \* the tokens that float() takes -> their value

Blank(line) == line.blank
Binds(token) == token \in DOMAIN bind_of

NoBlock == [line |-> 0, on_primitive |-> "None", bind |-> "None", expects |-> "None", window |-> "None"]
Start   == [triggers |-> <<>>, assertions |-> <<>>, block |-> NoBlock, error |-> 0]

(* A ParseError names its line; a line that is nothing but colons has no   *)
(* first token, which is an IndexError and names none.                     *)
Error(st, n)   == [st EXCEPT !.error = n]
IndexError(st) == Error(st, -1)

OnLine(tokens)     == Len(tokens) = 4 /\ tokens[1] = "on" /\ tokens[3] = "as" /\ Binds(tokens[4])
ExpectLine(tokens) == Len(tokens) = 4 /\ tokens[1] = "EXPECT" /\ tokens[3] = "for" /\ Binds(tokens[4])
WindowLine(tokens) == Len(tokens) = 2 /\ tokens[1] = "WINDOW" /\ tokens[2] \in DOMAIN float_of
AssertLine(tokens) == /\ Len(tokens) = 8
                      /\ SubSeq(tokens, 1, 2) = <<"ASSERT", "no">>
                      /\ SubSeq(tokens, 4, 7) = <<"where", "identifier", "not", "in">>

_parse_on(tokens, n) == [NoBlock EXCEPT !.line = n, !.on_primitive = tokens[2], !.bind = bind_of[tokens[4]]]

_parse_assert(tokens, n) == [primitive |-> tokens[3], required |-> tokens[8], spec_line |-> n]

(* A line of an open block.                                                *)
Indented(st, tokens, n) ==
  CASE st.block # NoBlock /\ tokens = <<>> -> IndexError(st)
    [] st.block # NoBlock /\ ExpectLine(tokens) /\ bind_of[tokens[4]] = st.block.bind ->
         [st EXCEPT !.block.expects = tokens[2]]
    [] st.block # NoBlock /\ WindowLine(tokens) -> [st EXCEPT !.block.window = tokens[2]]
    [] OTHER -> Error(st, n)

(* The end of a block, which must be complete by then.                     *)
_finalize(st) ==
  LET b == st.block
  IN  IF b = NoBlock THEN st
      ELSE IF b.expects = "None" \/ b.window = "None" THEN Error(st, b.line)
      ELSE [st EXCEPT !.block = NoBlock,
                      !.triggers = Append(@, [on_primitive |-> b.on_primitive, expects |-> b.expects,
                                              window_ms |-> float_of[b.window], spec_line |-> b.line])]

TopLevel(st, tokens, n) ==
  LET closed == _finalize(st)
  IN  CASE closed.error # 0    -> closed
        [] closed.error = 0 /\ tokens = <<>> -> IndexError(closed)
        [] closed.error = 0 /\ OnLine(tokens)     -> [closed EXCEPT !.block = _parse_on(tokens, n)]
        [] closed.error = 0 /\ AssertLine(tokens) ->
             [closed EXCEPT !.assertions = Append(@, _parse_assert(tokens, n))]
        [] OTHER -> Error(closed, n)

ParseLine(st, line, n) ==
  CASE st.error # 0 \/ Blank(line)                        -> st
    [] st.error = 0 /\ ~Blank(line) /\ line.indented  -> Indented(st, line.tokens, n)
    [] st.error = 0 /\ ~Blank(line) /\ ~line.indented -> TopLevel(st, line.tokens, n)

parse(text) ==
  LET after[n \in 0 .. Len(text)] == IF n = 0 THEN Start ELSE ParseLine(after[n - 1], text[n], n)
      end == after[Len(text)]
  IN  IF end.error # 0 THEN end ELSE _finalize(end)

-----------------------------------------------------------------------------
(* What a text says, whatever order its lines are read in.                 *)

Written(text)    == {n \in DOMAIN text : ~Blank(text[n])}
HeadsOf(text)    == {n \in Written(text) : ~text[n].indented}
BlockStarts(text) == {n \in HeadsOf(text) : OnLine(text[n].tokens)}

(* The line that governs line n: the last one not indented, up to n.       *)
Governed(text, n) == {h \in HeadsOf(text) : h <= n /\ \A g \in HeadsOf(text) : g <= n => g <= h}

(* The lines of the block that starts at line n.                           *)
Body(text, n) == {k \in Written(text) : text[k].indented /\ Governed(text, k) = {n}}
LastOf(text, n, Form(_)) == {k \in Body(text, n) : Form(text[k].tokens)
                               /\ \A j \in Body(text, n) : Form(text[j].tokens) => j <= k}

Complete(text, n) == LastOf(text, n, ExpectLine) # {} /\ LastOf(text, n, WindowLine) # {}

FitsItsBlock(text, n, start) ==
  \/ WindowLine(text[n].tokens)
  \/ ExpectLine(text[n].tokens) /\ bind_of[text[n].tokens[4]] = bind_of[text[start].tokens[4]]

Wrong(text, n) ==
  IF text[n].indented
  THEN \A start \in BlockStarts(text) : Governed(text, n) # {start} \/ ~FitsItsBlock(text, n, start)
  ELSE ~AssertLine(text[n].tokens) /\ (OnLine(text[n].tokens) => ~Complete(text, n))

RuleOf(text, n) ==
  [on_primitive |-> text[n].tokens[2],
   expects      |-> text[CHOOSE k \in LastOf(text, n, ExpectLine) : TRUE].tokens[2],
   window_ms    |-> float_of[text[CHOOSE k \in LastOf(text, n, WindowLine) : TRUE].tokens[2]],
   spec_line    |-> n]

(* An error is reported exactly when a line is wrong, at such a line or at *)
(* none, if it is the IndexError of a line of colons; otherwise there is   *)
(* one trigger for each block, of its last EXPECT and WINDOW, and one      *)
(* assertion for each ASSERT, in the order of the text.                    *)
MeansTheText(text) ==
  LET outcome == parse(text)
      wrong   == {n \in Written(text) : Wrong(text, n)}
      colons  == {n \in wrong : text[n].tokens = <<>>}
      blocks  == SetToSortSeq(BlockStarts(text), <)
      asserts == SetToSortSeq({n \in HeadsOf(text) : AssertLine(text[n].tokens)}, <)
  IN  /\ IF wrong = {} THEN outcome.error = 0 ELSE outcome.error \in wrong \cup {-1 : n \in colons}
      /\ wrong = {} =>
           /\ outcome.triggers = [i \in DOMAIN blocks |-> RuleOf(text, blocks[i])]
           /\ outcome.assertions = [i \in DOMAIN asserts |-> _parse_assert(text[asserts[i]].tokens, asserts[i])]
=============================================================================
