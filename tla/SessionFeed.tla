----------------------------- MODULE SessionFeed -----------------------------
(***************************************************************************)
(* What following a live log promises the judge, whatever the file, the    *)
(* polling and the clock do: every complete line is handed on once, in the *)
(* order it was written, for as long as the log is followed                *)
(* (src/mo/adapters/live.py, tail_events).                                 *)
(***************************************************************************)
EXTENDS Integers, Sequences

VARIABLES log,       \* the complete lines of the file
          judged,    \* the lines handed to the projection so far
          following  \* the generator has neither returned nor raised

feedvars == <<log, judged, following>>

FeedInit == log = <<>> /\ judged = <<>> /\ following = TRUE

Write == /\ Len(log') = Len(log) + 1 /\ SubSeq(log', 1, Len(log)) = log
         /\ UNCHANGED <<judged, following>>

HandOn == /\ following /\ Len(judged) < Len(log)
          /\ judged' = Append(judged, log[Len(judged) + 1])
          /\ UNCHANGED <<log, following>>

GiveUp == following /\ following' = FALSE /\ UNCHANGED <<log, judged>>

FeedNext == Write \/ HandOn \/ GiveUp

(* A reader that keeps following gets to every line.                       *)
FeedSpec == FeedInit /\ [][FeedNext]_feedvars /\ WF_feedvars(HandOn)
=============================================================================
