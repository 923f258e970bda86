------------------------------ MODULE MOReplay ------------------------------
(***************************************************************************)
(* One session judged twice: live, by an engine that also hears ticks      *)
(* (mo watch: src/mo/adapters/live.py feeds src/mo/engine.py), and again   *)
(* from its recording, which has the events and no ticks (mo eval).  Both  *)
(* are MOEngine; the recording is the trace the live engine kept.          *)
(*                                                                         *)
(* Here the session is in time order: no event or tick is earlier than the *)
(* one before it.                                                          *)
(***************************************************************************)
EXTENDS MOEngine

VARIABLES replay_ledger, replay_seen, replay_last_ts, replay_total_events,
          replay_unmatched_events, replay_verdicts, replay_trace, replay_ended

replayvars == <<replay_ledger, replay_seen, replay_last_ts, replay_total_events,
                replay_unmatched_events, replay_verdicts, replay_trace, replay_ended>>

Replay == INSTANCE MOEngine
            WITH ledger <- replay_ledger, seen <- replay_seen, last_ts <- replay_last_ts,
                 total_events <- replay_total_events,
                 unmatched_events <- replay_unmatched_events,
                 verdicts <- replay_verdicts, trace <- replay_trace, ended <- replay_ended

InOrder(ts) == ts >= last_ts

HearTick == \E ts \in Times : InOrder(ts) /\ Tick(ts) /\ UNCHANGED replayvars

HearEvent == \E ev \in Events, ts \in Times :
               InOrder(ts) /\ WireEvent(ev, ts) /\ Replay!WireEvent(ev, ts)

SessionEnds == EndOfStream /\ Replay!EndOfStream

SessionNext == HearTick \/ HearEvent \/ SessionEnds

SessionSpec == Init /\ Replay!Init /\ [][SessionNext]_<<vars, replayvars>>

-----------------------------------------------------------------------------
bolted_in(verdict_set) == {v.of : v \in {u \in verdict_set : u.kind = "BOLTED"}}
others_in(verdict_set) == {v \in verdict_set : v.kind # "BOLTED"}

(* "Deterministic on replay" (src/mo/engine.py): ticks bring a bolt forward *)
(* and change nothing else.  At every moment both engines have given the   *)
(* same FULFILLED and CONDEMNED verdicts and the same coverage, the replay *)
(* has bolted nothing the live session had not, and when the session is    *)
(* over both have bolted the same obligations.                             *)
TicksOnlyHasten ==
  /\ others_in(verdicts) = others_in(replay_verdicts)
  /\ bolted_in(replay_verdicts) \subseteq bolted_in(verdicts)
  /\ ended => bolted_in(replay_verdicts) = bolted_in(verdicts)
  /\ total_events = replay_total_events
  /\ unmatched_events = replay_unmatched_events
=============================================================================
