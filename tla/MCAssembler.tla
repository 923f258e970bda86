---------------------------- MODULE MCAssembler ----------------------------
(***************************************************************************)
(* A small instance of Assembler: every text of up to three lines of the   *)
(* pool, and every text of four of its lines that lay out both sections.   *)
(***************************************************************************)
EXTENDS Assembler, TLC

CONSTANTS x, y, long1, long2,         \* names; the last two start alike
          n3, n7, n300, minus1, wide, \* numerals; wide needs more than an address
          hi, open                    \* a string and one that is not closed

Names    == {x, y, long1, long2}
Numerals == n3 :> 3 @@ n7 :> 7 @@ n300 :> 300 @@ minus1 :> -1 @@ wide :> 256 @@ EMPTY :> 0
MCTokens == Names \cup DOMAIN Numerals \cup {JUNK, hi, open}
MCnumber == [t \in MCTokens |-> IF t \in DOMAIN Numerals THEN Numerals[t] ELSE NaN]
MCtext   == [t \in MCTokens |-> IF t = hi THEN <<104, 105>> ELSE NaN]
MCcut    == [t \in MCTokens |-> IF t = long2 THEN long1 ELSE t]

L(label, word, arg, more) == [label |-> label, word |-> word, arg |-> arg, more |-> more]
I(word, arg) == L(None, word, arg, FALSE)

Layout == {I(".data", EMPTY), L(x, ".word", y, FALSE), I("PUSH", x), L(y, "none", EMPTY, FALSE),
           I(".asciz", hi), L(None, "HALT", EMPTY, TRUE), I(".byte", n300), I(".org", n7)}

Odd == {I(".code", EMPTY), L(y, "JMP", n3, FALSE), I("PUSH", EMPTY), L(long1, "none", EMPTY, FALSE),
        I("JZ", long2), L(long2, "ADD", EMPTY, FALSE), I(".ascii", open), I(".org", minus1),
        I(".org", wide), L(None, ".byte", n3, TRUE), L(None, ".word", n7, TRUE), I("unknown", EMPTY)}

UpTo(n, S) == UNION {[1 .. k -> S] : k \in 0 .. n}

MCSources == UpTo(3, Layout \cup Odd) \cup UpTo(4, Layout)

(* Texts whose comments are the question.                                  *)
Commented == UpTo(3, Layout \cup {L(x, ".word", n7, TRUE)})
=============================================================================
