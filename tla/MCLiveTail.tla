----------------------------- MODULE MCLiveTail -----------------------------
(***************************************************************************)
(* A small instance of LiveTail: two ids that print alike, calls answered, *)
(* repeated, refused and answered from the wrong side, lists of tools with *)
(* entries that have no name, and records that are not frames.             *)
(***************************************************************************)
EXTENDS LiveTail, TLC

CONSTANTS n1, s1   \* the JSON ids 1 and "1"

MCIds == {n1, s1}
MCstr == n1 :> "1" @@ s1 :> "1"

F(dir, method, id, name, result, tools) ==
  [dir |-> dir, method |-> method, id |-> id, name |-> name, result |-> result, tools |-> tools]

Call(id, name) == F("c2s", "tools/call", id, name, "None", <<>>)
Result(dir, id) == F(dir, "None", id, None, "ok", <<>>)

Rec(kind, f, stamp) == [kind |-> kind, frame |-> f, stamp |-> stamp]
MCRecords ==
  {Rec("frame", f, "ts") : f \in
     {Call(n1, "t"), Call(n1, "u"), Call(s1, "t"), Result("s2c", n1), Result("c2s", s1)}}
  \cup {Rec("frame", F("s2c", "None", n1, None, "tools", <<None, "u", "t">>), "seq"),
        Rec("frame", F("s2c", "None", n1, None, "tools", <<None>>), "none"),
        Rec("poison", F("c2s", "None", None, None, "None", <<>>), "ts")}

(* The records the projection can take.                                    *)
WellFormedRecords == {rec \in MCRecords : rec.kind # "poison"}
=============================================================================
