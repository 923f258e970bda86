------------------------------ MODULE MOEngine ------------------------------
(***************************************************************************)
(* The verdict engine of MO (src/mo/engine.py, with src/mo/ledger.py and   *)
(* src/mo/rules.py).  iter_verdicts handles one event of the stream at a   *)
(* time; each of its branches is one action here, everything it does to    *)
(* the ledger, the coverage counters and the verdicts included.            *)
(*                                                                         *)
(* The ledger is a list in the code.  Here an obligation is named by the   *)
(* pair <<n, r>> of the event that opened it and the trigger rule, and     *)
(* Before is the order of the list.  A verdict keeps the number of the     *)
(* event it was decided at.  Nothing says a trace file is in time order,   *)
(* so any timestamp may follow any other.                                  *)
(***************************************************************************)
EXTENDS Integers, Sequences, FiniteSets

CONSTANTS Primitives,   \* kinds of wire event, "tick" excluded
          Identifiers,  \* binding keys, None among them when it can occur
          Correlations, \* instance ids, None among them
          Triggers,     \* Spec.triggers
          Assertions,   \* Spec.assertions: no primitive unless seen in required
          Events,       \* bound: the wire events a stream may contain
          Times         \* bound: the timestamps, in ms

Event == [primitive : Primitives, identifier : Identifiers, correlation : Correlations]

(* A window may be negative (parser.py takes any float; nan is left out).  *)
TriggerRule == [on_primitive : Primitives, expects : Primitives, window_ms : Int]
AssertRule  == [primitive : Primitives, required : Primitives]

ASSUME SpecAssumption ==
  /\ Triggers \in Seq(TriggerRule)
  /\ Assertions \in Seq(AssertRule)
  /\ Events \subseteq Event
  /\ Times \subseteq Nat

VARIABLES ledger,            \* every obligation ever opened, closed ones too
          seen,              \* primitive -> identifiers observed so far
          last_ts,           \* timestamp of the last event, ticks included
          total_events,      \* stats.total_events
          unmatched_events,  \* stats.unmatched_events
          verdicts,          \* what the generator has yielded
          ended,             \* the stream is exhausted
          trace              \* history: the wire events handled so far

vars == <<ledger, seen, last_ts, total_events, unmatched_events, verdicts, ended, trace>>

Before(i, j) == i[1] < j[1] \/ (i[1] = j[1] /\ i[2] < j[2])

open_obligations == {id \in DOMAIN ledger : ledger[id].state = "open"}

(* Mutant: the window excludes its last moment.                            *)
ExpiredAtTheEdge(ts) == {id \in open_obligations : ts >= ledger[id].expires_at}

Expired(ts)      == {id \in open_obligations : ts > ledger[id].expires_at}

(* The ledger with each of ids closed.                                     *)
Closed(ids, state) == [id \in DOMAIN ledger |-> IF id \in ids
                         THEN [ledger[id] EXCEPT !.state = state] ELSE ledger[id]]

Verdict(kind, of, at, closed_at, reason) ==
  [kind |-> kind, of |-> of, at |-> at, closed_at |-> closed_at, reason |-> reason]

_bolt(ids, at, ts, reason) == {Verdict("BOLTED", id, at, ts, reason) : id \in ids}

Init == /\ ledger = <<>> /\ seen = [p \in Primitives |-> {}] /\ last_ts = 0
        /\ total_events = 0 /\ unmatched_events = 0
        /\ verdicts = {} /\ ended = FALSE /\ trace = <<>>

(* Mutant: a tick moves the clock and expires nothing.                     *)
TickForgets(ts) ==
  /\ ~ended /\ last_ts' = ts
  /\ UNCHANGED <<ledger, verdicts, seen, total_events, unmatched_events, ended, trace>>

(* Mutant: a tick bolts an obligation its window still covers.             *)
TickBoltsAtTheEdge(ts) ==
  LET due == {id \in open_obligations : ts >= ledger[id].expires_at}
  IN  /\ ~ended /\ last_ts' = ts
      /\ ledger' = Closed(due, "bolted")
      /\ verdicts' = verdicts \cup _bolt(due, total_events, ts, "liveness_window_expired")
      /\ UNCHANGED <<seen, total_events, unmatched_events, ended, trace>>

(* Mutant: a tick is counted like a wire event.                            *)
TickCounts(ts) ==
  /\ ~ended /\ last_ts' = ts /\ total_events' = total_events + 1
  /\ ledger' = Closed(Expired(ts), "bolted")
  /\ verdicts' = verdicts \cup _bolt(Expired(ts), total_events, ts, "liveness_window_expired")
  /\ UNCHANGED <<seen, unmatched_events, ended, trace>>

(* A tick only lets open windows lapse.                                    *)
Tick(ts) ==
  /\ ~ended /\ last_ts' = ts
  /\ ledger' = Closed(Expired(ts), "bolted")
  /\ verdicts' = verdicts \cup _bolt(Expired(ts), total_events, ts, "liveness_window_expired")
  /\ UNCHANGED <<seen, total_events, unmatched_events, ended, trace>>

(* Mutant: any instance of the right tool answers for any other.           *)
FitsAnyInstance(id, ev) == /\ ledger[id].expects = ev.primitive
                           /\ ledger[id].identifier = ev.identifier

(* An event closes the first obligation it fits that has not just expired: *)
(* same primitive, same identifier, same instance or none on either side.  *)
Fits(id, ev) == /\ ledger[id].expects = ev.primitive
                /\ ledger[id].identifier = ev.identifier
                /\ ledger[id].correlation = ev.correlation

Candidates(ev, ts) == {id \in open_obligations \ Expired(ts) : Fits(id, ev)}

(* Mutant: no break, so one event answers for every obligation it fits.    *)
SatisfiesAll(ev, ts) == Candidates(ev, ts)

Satisfied(ev, ts) ==
  {id \in Candidates(ev, ts) : \A other \in Candidates(ev, ts) : ~Before(other, id)}

(* Mutant: seeing any tool declared excuses every other one.               *)
ViolatedIfNothingSeen(r, ev, observed) == /\ ev.primitive = Assertions[r].primitive
                                          /\ observed[Assertions[r].required] = {}

violated_by(r, ev, observed) == /\ ev.primitive = Assertions[r].primitive
                                /\ ev.identifier \notin observed[Assertions[r].required]

fires_on(r, ev) == ev.primitive = Triggers[r].on_primitive

make_obligation(r, ev, ts) ==
  [identifier |-> ev.identifier, expects |-> Triggers[r].expects, opened_at |-> ts,
   expires_at |-> ts + Triggers[r].window_ms, correlation |-> ev.correlation,
   state |-> "open"]

(* Mutant: an event that only triggers counts as blind.                    *)
MatchedUnlessTrigger(satisfied, broken, fired) == satisfied # {} \/ broken # {}

(* The flag that keeps an event out of the unmatched count.                *)
matched(satisfied, broken, fired) == satisfied # {} \/ broken # {} \/ fired # {}

(* The ledger once an event has expired, satisfied and triggered.          *)
LedgerAfter(ev, ts, n, fired) ==
  [id \in DOMAIN ledger \cup {<<n, r>> : r \in fired} |->
     IF id \in DOMAIN ledger
     THEN [ledger[id] EXCEPT !.state =
             IF id \in Expired(ts) THEN "bolted"
             ELSE IF id \in Satisfied(ev, ts) THEN "fulfilled" ELSE @]
     ELSE make_obligation(id[2], ev, ts)]

WireEvent(ev, ts) ==
  LET n        == total_events + 1
      observed == [seen EXCEPT ![ev.primitive] = @ \cup {ev.identifier}]
      broken   == {r \in DOMAIN Assertions : violated_by(r, ev, observed)}
      fired    == {r \in DOMAIN Triggers : fires_on(r, ev)}
  IN  /\ ~ended /\ last_ts' = ts
      /\ total_events' = n
      /\ seen' = observed
      /\ ledger' = LedgerAfter(ev, ts, n, fired)
      /\ verdicts' = verdicts
           \cup _bolt(Expired(ts), n, ts, "liveness_window_expired")
           \cup {Verdict("FULFILLED", id, n, ts, "satisfied") : id \in Satisfied(ev, ts)}
           \cup {Verdict("CONDEMNED", <<n, r>>, n, ts, "assertion") : r \in broken}
      /\ unmatched_events' = unmatched_events + (IF matched(Satisfied(ev, ts), broken, fired) THEN 0 ELSE 1)
      /\ trace' = Append(trace, [event |-> ev, ts |-> ts])
      /\ UNCHANGED ended

(* Mutant: the end of the stream bolts whatever was ever opened.           *)
EndBoltsEverything ==
  /\ ~ended /\ ended' = TRUE
  /\ ledger' = Closed(DOMAIN ledger, "bolted")
  /\ verdicts' = verdicts
       \cup _bolt(DOMAIN ledger, total_events, last_ts, "session_ended_unresolved")
  /\ UNCHANGED <<seen, last_ts, total_events, unmatched_events, trace>>

(* End of stream: every obligation still open is a bolt.                   *)
EndOfStream ==
  /\ ~ended /\ ended' = TRUE
  /\ ledger' = Closed(open_obligations, "bolted")
  /\ verdicts' = verdicts
       \cup _bolt(open_obligations, total_events, last_ts, "session_ended_unresolved")
  /\ UNCHANGED <<seen, last_ts, total_events, unmatched_events, trace>>

Next == \/ \E ts \in Times : Tick(ts)
        \/ \E ev \in Events, ts \in Times : WireEvent(ev, ts)
        \/ EndOfStream

Spec == Init /\ [][Next]_vars

-----------------------------------------------------------------------------
Obligation == [identifier : Identifiers, expects : Primitives, opened_at : Nat,
               expires_at : Int, correlation : Correlations,
               state : {"open", "fulfilled", "bolted"}]

(* Types: an obligation is named by a past event and a rule, a verdict by  *)
(* what it is about.                                                       *)
TypeOK ==
  /\ DOMAIN ledger \subseteq (1 .. total_events) \X (DOMAIN Triggers)
  /\ \A id \in DOMAIN ledger : ledger[id] \in Obligation
  /\ seen \in [Primitives -> SUBSET Identifiers]
  /\ last_ts \in Nat /\ total_events \in Nat /\ unmatched_events \in 0 .. total_events
  /\ \A v \in verdicts : v.at \in 0 .. total_events /\ v.closed_at \in Nat
  /\ ended \in BOOLEAN
  /\ trace \in Seq([event : Event, ts : Nat]) /\ Len(trace) = total_events

(* Its window is negative and it was opened by the last event heard of.    *)
BornOverdue(id) == /\ Triggers[id[2]].window_ms < 0
                   /\ id[1] = total_events /\ ledger[id].opened_at = last_ts

(* Whatever order timestamps come in, tick or event, the ledger never      *)
(* holds an obligation open past the moment the engine last heard of; one  *)
(* that is overdue when it is opened is not open past the next moment.     *)
NothingOverdueIsOpen ==
  \A id \in open_obligations : last_ts <= ledger[id].expires_at \/ BornOverdue(id)

VerdictsOn(id)   == {v \in verdicts : v.of = id /\ v.kind \in {"FULFILLED", "BOLTED"}}
fulfilments      == {v \in verdicts : v.kind = "FULFILLED"}
bolts            == {v \in verdicts : v.kind = "BOLTED"}

(* The report and the ledger agree: no verdict on an open obligation, one  *)
(* on a closed one, of the kind it was closed as, and never a second one.  *)
Reported(id, kind) == Cardinality(VerdictsOn(id)) = 1 /\ \A v \in VerdictsOn(id) : v.kind = kind

VerdictPerObligation ==
  /\ \A v \in fulfilments \cup bolts : v.of \in DOMAIN ledger
  /\ \A id \in DOMAIN ledger :
       CASE ledger[id].state = "open"      -> VerdictsOn(id) = {}
         [] ledger[id].state = "fulfilled" -> Reported(id, "FULFILLED")
         [] ledger[id].state = "bolted"    -> Reported(id, "BOLTED")

(* Event k of the trace is an answer in time to obligation id: it came     *)
(* after the trigger, of the expected primitive, for the same tool and the *)
(* same instance of the call.                                              *)
AnswersInTime(k, id) ==
  /\ id[1] < k /\ trace[k].ts <= ledger[id].expires_at
  /\ trace[k].event.primitive = ledger[id].expects
  /\ trace[k].event.identifier = trace[id[1]].event.identifier
  /\ trace[k].event.correlation = trace[id[1]].event.correlation

(* Every FULFILLED verdict was earned by an answer in time, and one answer *)
(* earns at most one (the break of step b).                                *)
FulfilmentsAreEarned ==
  /\ \A v \in fulfilments : AnswersInTime(v.at, v.of)
  /\ \A v, w \in fulfilments : v.at = w.at => v = w

(* Nobody is bolted who was answered: any answer in time that came before  *)
(* the bolt was the answer to an earlier obligation.                       *)
BoltsAreDeserved ==
  \A v \in bolts : \A k \in 1 .. v.at :
    AnswersInTime(k, v.of) => \E w \in fulfilments : w.at = k /\ Before(w.of, v.of)

Unexcused(k, r) ==
  /\ trace[k].event.primitive = Assertions[r].primitive
  /\ \A j \in 1 .. k : trace[j].event.primitive = Assertions[r].required
                         => trace[j].event.identifier # trace[k].event.identifier

condemnations == {v \in verdicts : v.kind = "CONDEMNED"}

(* CONDEMNED is reported on exactly the events that name something not yet *)
(* observed, whatever was seen after them.                                 *)
CondemnationsAreExact ==
  {v.of : v \in condemnations} = {c \in (DOMAIN trace) \X (DOMAIN Assertions) : Unexcused(c[1], c[2])}

(* The coverage figure: the unmatched events are those that opened no      *)
(* obligation, fulfilled none and broke no rule.  Ticks count for nothing. *)
LeftAMark(k) == \/ \E id \in DOMAIN ledger : id[1] = k
                \/ \E v \in verdicts : v.at = k /\ v.kind \in {"FULFILLED", "CONDEMNED"}

CoverageIsHonest ==
  unmatched_events = Cardinality({k \in DOMAIN trace : ~LeftAMark(k)})

(* The engine implements the abstract judge: what becomes of an obligation *)
(* depends on its deadline, on what is heard and on nothing else.          *)
Judge == INSTANCE Obligations
           WITH deadline <- [id \in DOMAIN ledger |-> ledger[id].expires_at],
                fate     <- [id \in DOMAIN ledger |-> ledger[id].state],
                Windows  <- {Triggers[r].window_ms : r \in DOMAIN Triggers}

ImplementsObligations == Judge!Spec
=============================================================================
