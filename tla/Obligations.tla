---------------------------- MODULE Obligations -----------------------------
(***************************************************************************)
(* What MO's judge promises about liveness rules, whatever the protocol:   *)
(* an obligation is open from the event that creates it until exactly one  *)
(* thing closes it.  Hearing from the session at time t bolts precisely    *)
(* the open obligations whose deadline has passed, may fulfil one that is  *)
(* still in time, and may create new ones, each with the window of a rule  *)
(* to go; the end of the session bolts all that is left.  MOEngine         *)
(* implements this.                                                        *)
(***************************************************************************)
EXTENDS Integers

CONSTANTS Times,    \* the timestamps a session can carry
          Windows   \* the windows of the rules, negative ones too

VARIABLES deadline,   \* obligation -> the last moment it can be fulfilled
          fate,       \* obligation -> "open", "fulfilled" or "bolted"
          ended       \* the session is over

obligationvars == <<deadline, fate, ended>>

Open    == {id \in DOMAIN fate : fate[id] = "open"}
Late(t) == {id \in Open : t > deadline[id]}

Init == deadline = <<>> /\ fate = <<>> /\ ended = FALSE

(* What becomes of id when the session is heard at t and kept is the set   *)
(* of obligations it fulfils.                                              *)
FateAt(id, t, kept) == IF id \in kept THEN "fulfilled"
                       ELSE IF id \in Late(t) THEN "bolted" ELSE fate[id]

Hear(t) ==
  /\ ~ended /\ UNCHANGED ended
  /\ DOMAIN fate \subseteq DOMAIN fate' /\ DOMAIN deadline' = DOMAIN fate'
  /\ \E kept \in {{}} \cup {{id} : id \in Open \ Late(t)} :
       \A id \in DOMAIN fate : fate'[id] = FateAt(id, t, kept)
  /\ \A id \in DOMAIN fate : deadline'[id] = deadline[id]
  /\ \A id \in DOMAIN fate' \ DOMAIN fate :
       fate'[id] = "open" /\ deadline'[id] - t \in Windows

End == /\ ~ended /\ ended'
       /\ fate' = [id \in DOMAIN fate |-> IF id \in Open THEN "bolted" ELSE fate[id]]
       /\ UNCHANGED deadline

Next == (\E t \in Times : Hear(t)) \/ End

Spec == Init /\ [][Next]_obligationvars
=============================================================================
