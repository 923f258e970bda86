--------------------------- MODULE MOEngineProofs ---------------------------
(***************************************************************************)
(* The verdict engine keeps its promises for every specification, every    *)
(* set of events and timestamps in any order: the invariants that          *)
(* MCMOEngine checks on short streams, and the refinement of Obligations.  *)
(*                                                                         *)
(* A step of the engine does four things to the ledger and the verdicts:   *)
(* it bolts some open obligations, fulfils others, opens new ones and may  *)
(* condemn.  Judged says so; each action is an instance of it, and what is *)
(* proved of verdicts is proved of Judged.                                 *)
(***************************************************************************)
EXTENDS MOEngine, FiniteSetTheorems, SequenceTheorems, TLAPS

(* The history agrees with what the engine remembers of it.                *)
SeenIsTheTrace ==
  \A p \in Primitives : \A i :
    i \in seen[p] <=> \E k \in 1 .. total_events : /\ trace[k].event.primitive = p
                                                   /\ trace[k].event.identifier = i

LedgerIsTheTrace ==
  \A id \in DOMAIN ledger : /\ ledger[id].identifier = trace[id[1]].event.identifier
                            /\ ledger[id].correlation = trace[id[1]].event.correlation

(* An obligation has no verdict while it is open and then exactly one.     *)
Sole(id, kind) == \E v : VerdictsOn(id) = {v} /\ v.kind = kind

OneVerdictEach ==
  /\ \A v \in fulfilments \cup bolts : v.of \in DOMAIN ledger
  /\ \A id \in DOMAIN ledger :
       /\ ledger[id].state = "open"      => VerdictsOn(id) = {}
       /\ ledger[id].state = "fulfilled" => Sole(id, "FULFILLED")
       /\ ledger[id].state = "bolted"    => Sole(id, "BOLTED")

(* An answer in time that did not go to an obligation went to an earlier   *)
(* one, up to the verdict of the obligation or, while it is open, to now.  *)
WentToAnEarlierOne(k, id) == \E w \in fulfilments : w.at = k /\ Before(w.of, id)

AnswersWereUsed ==
  \A id \in open_obligations : \A k \in 1 .. total_events :
    AnswersInTime(k, id) => WentToAnEarlierOne(k, id)

-----------------------------------------------------------------------------
(* Obligations are named by pairs of numbers, which Before orders.         *)
LEMMA Names ==
  ASSUME TypeOK
  PROVE  /\ DOMAIN Triggers \subseteq Nat /\ DOMAIN Assertions \subseteq Nat
         /\ \A id \in DOMAIN ledger : /\ id = <<id[1], id[2]>>
                                      /\ id[1] \in 1 .. total_events /\ id[1] \in Nat
                                      /\ id[2] \in DOMAIN Triggers /\ id[2] \in Nat
         /\ DOMAIN trace = 1 .. total_events
<1>1. /\ DOMAIN Triggers = 1 .. Len(Triggers) /\ Len(Triggers) \in Nat
      /\ DOMAIN Assertions = 1 .. Len(Assertions) /\ Len(Assertions) \in Nat
  BY SpecAssumption, LenProperties
<1>2. DOMAIN Triggers \subseteq Nat /\ DOMAIN Assertions \subseteq Nat
  BY <1>1
<1>3. DOMAIN trace = 1 .. total_events
  BY LenProperties DEF TypeOK
<1>4. DOMAIN ledger \subseteq (1 .. total_events) \X DOMAIN Triggers /\ total_events \in Nat
  BY DEF TypeOK
<1>5. ASSUME NEW id \in DOMAIN ledger
      PROVE  /\ id = <<id[1], id[2]>> /\ id[1] \in 1 .. total_events /\ id[1] \in Nat
             /\ id[2] \in DOMAIN Triggers /\ id[2] \in Nat
  BY <1>2, <1>4, <1>5
<1>6. QED
  BY <1>2, <1>3, <1>5

(* A finite set of names that is not empty has a first one.                *)
LEMMA FirstName ==
  ASSUME NEW S, IsFiniteSet(S), S # {},
         \A id \in S : id[1] \in Nat /\ id[2] \in Nat
  PROVE  \E id \in S : \A other \in S : ~Before(other, id)
<1> DEFINE Down(id) == {other \in S : Before(other, id)}
           Downs    == {Down(id) : id \in S}
           R        == StrictSubsetOrdering(S)
<1>1. IsWellFoundedOn(R, SUBSET S)
  BY FS_StrictSubsetOrderingWellFounded, FS_FiniteSubsetsOfFinite
<1>2. Downs \subseteq SUBSET S /\ Downs # {}
  OBVIOUS
<1>3. PICK D \in Downs : \A E \in Downs : ~(<<E, D>> \in R)
  <2> HIDE DEF Downs, R
  <2> QED
    BY <1>1, <1>2, WFMin
<1>4. PICK id \in S : D = Down(id)
  OBVIOUS
<1>5. ASSUME NEW other \in S, Before(other, id)
      PROVE  FALSE
  <2>1. Down(other) \subseteq Down(id)
    BY <1>5 DEF Before
  <2>2. other \in Down(id) /\ other \notin Down(other)
    BY <1>5 DEF Before
  <2>3. <<Down(other), Down(id)>> \in R
    BY <2>1, <2>2 DEF StrictSubsetOrdering
  <2>4. QED
    BY <1>3, <1>4, <2>3
<1>6. QED
  BY <1>5

(* Of the obligations an event fits, it fulfils the first and only that.   *)
LEMMA AtMostOneSatisfied ==
  ASSUME TypeOK, NEW ev, NEW ts, NEW id \in Satisfied(ev, ts), NEW other \in Satisfied(ev, ts)
  PROVE  id = other
<1>1. id \in DOMAIN ledger /\ other \in DOMAIN ledger
  BY DEF Satisfied, Candidates, open_obligations
<1>2. ~Before(other, id) /\ ~Before(id, other)
  BY DEF Satisfied
<1>3. id[1] = other[1] /\ id[2] = other[2]
  BY <1>1, <1>2, Names DEF Before
<1>4. QED
  BY <1>1, <1>3, Names

LEMMA FirstCandidate ==
  ASSUME TypeOK, NEW ev, NEW ts, NEW id \in Candidates(ev, ts), id \notin Satisfied(ev, ts)
  PROVE  \E first \in Satisfied(ev, ts) : Before(first, id)
<1> DEFINE Earlier == {c \in Candidates(ev, ts) : Before(c, id)}
<1>1. Candidates(ev, ts) \subseteq DOMAIN ledger
  BY DEF Candidates, open_obligations
<1>2. \A c \in Candidates(ev, ts) : c[1] \in Nat /\ c[2] \in Nat
  BY <1>1, Names
<1>3. IsFiniteSet(Earlier)
  <2>1. IsFiniteSet(1 .. total_events) /\ IsFiniteSet(DOMAIN Triggers)
    <3>1. DOMAIN Triggers = 1 .. Len(Triggers) /\ Len(Triggers) \in Int /\ total_events \in Int
      BY SpecAssumption, LenProperties DEF TypeOK
    <3>2. QED
      BY <3>1, FS_Interval
  <2>2. IsFiniteSet((1 .. total_events) \X DOMAIN Triggers)
    BY <2>1, FS_Product
  <2>3. Earlier \subseteq (1 .. total_events) \X DOMAIN Triggers
    BY <1>1 DEF TypeOK
  <2>4. QED
    BY <2>2, <2>3, FS_Subset
<1>4. Earlier # {}
  BY DEF Satisfied
<1>5. PICK first \in Earlier : \A c \in Earlier : ~Before(c, first)
  <2>1. \A c \in Earlier : c[1] \in Nat /\ c[2] \in Nat
    BY <1>2
  <2> HIDE DEF Earlier
  <2>2. QED
    BY <1>3, <1>4, <2>1, FirstName
<1>6. \A c \in Candidates(ev, ts) : ~Before(c, first)
  <2> SUFFICES ASSUME NEW c \in Candidates(ev, ts), Before(c, first)
               PROVE  FALSE
    OBVIOUS
  <2>1. Before(c, id)
    BY <1>2, <1>5 DEF Before
  <2>2. QED
    BY <1>5, <2>1
<1>7. QED
  BY <1>5, <1>6 DEF Satisfied

-----------------------------------------------------------------------------
(* One step, whatever it was: late are bolted, kept fulfilled, fresh       *)
(* opened, and broken are the assertions condemned, at event n.            *)
Becomes(id, state) ==
  /\ ledger'[id] \in Obligation /\ ledger'[id].state = state
  /\ ledger'[id].identifier = ledger[id].identifier /\ ledger'[id].correlation = ledger[id].correlation
  /\ ledger'[id].expects = ledger[id].expects /\ ledger'[id].expires_at = ledger[id].expires_at

Fulfils(ids, n, ts) == {Verdict("FULFILLED", id, n, ts, "satisfied") : id \in ids}
Condemns(rules, n, ts) == {Verdict("CONDEMNED", <<n, r>>, n, ts, "assertion") : r \in rules}

Judged(n, ts, reason, late, kept, fresh, broken) ==
  /\ late \subseteq open_obligations /\ kept \subseteq open_obligations \ late
  /\ fresh \cap DOMAIN ledger = {} /\ DOMAIN ledger' = DOMAIN ledger \cup fresh
  /\ \A id \in late : Becomes(id, "bolted")
  /\ \A id \in kept : Becomes(id, "fulfilled")
  /\ \A id \in DOMAIN ledger \ (late \cup kept) : Becomes(id, ledger[id].state)
  /\ \A id \in fresh : ledger'[id] \in Obligation /\ ledger'[id].state = "open"
  /\ verdicts' = verdicts \cup _bolt(late, n, ts, reason) \cup Fulfils(kept, n, ts) \cup Condemns(broken, n, ts)

(* Closing obligations leaves everything else about them alone.            *)
LEMMA ClosedOnly ==
  ASSUME TypeOK, NEW ids \in SUBSET open_obligations, ledger' = Closed(ids, "bolted"),
         NEW n, NEW ts, NEW reason, verdicts' = verdicts \cup _bolt(ids, n, ts, reason)
  PROVE  Judged(n, ts, reason, ids, {}, {}, {})
<1>1. DOMAIN ledger' = DOMAIN ledger
  BY DEF Closed
<1>2. ASSUME NEW id \in DOMAIN ledger
      PROVE  Becomes(id, IF id \in ids THEN "bolted" ELSE ledger[id].state)
  <2>1. ledger[id] \in Obligation
    BY DEF TypeOK
  <2>2. ledger'[id] = IF id \in ids THEN [ledger[id] EXCEPT !.state = "bolted"] ELSE ledger[id]
    BY DEF Closed
  <2>3. QED
    BY <2>1, <2>2 DEF Becomes, Obligation
<1>3. ids \subseteq DOMAIN ledger
  BY DEF open_obligations
<1>4. Fulfils({}, n, ts) = {} /\ Condemns({}, n, ts) = {}
  BY DEF Fulfils, Condemns
<1>5. QED
  BY <1>1, <1>2, <1>3, <1>4 DEF Judged

LEMMA TickStep ==
  ASSUME TypeOK, NEW ts, Tick(ts)
  PROVE  Judged(total_events, ts, "liveness_window_expired", Expired(ts), {}, {}, {})
BY ClosedOnly DEF Tick, Expired

LEMMA EndStep ==
  ASSUME TypeOK, EndOfStream
  PROVE  Judged(total_events, last_ts, "session_ended_unresolved", open_obligations, {}, {}, {})
BY ClosedOnly DEF EndOfStream

Fired(ev)  == {r \in DOMAIN Triggers : fires_on(r, ev)}
Observed(ev) == [seen EXCEPT ![ev.primitive] = @ \cup {ev.identifier}]
Broken(ev) == {r \in DOMAIN Assertions : violated_by(r, ev, Observed(ev))}
Opened(ev, n) == {<<n, r>> : r \in Fired(ev)}

LEMMA WireStep ==
  ASSUME TypeOK, NEW ev \in Event, NEW ts \in Nat, WireEvent(ev, ts)
  PROVE  Judged(total_events + 1, ts, "liveness_window_expired", Expired(ts), Satisfied(ev, ts),
                Opened(ev, total_events + 1), Broken(ev))
<1> DEFINE n == total_events + 1
<1>1. /\ ledger' = LedgerAfter(ev, ts, n, Fired(ev))
      /\ verdicts' = verdicts \cup _bolt(Expired(ts), n, ts, "liveness_window_expired")
                       \cup Fulfils(Satisfied(ev, ts), n, ts) \cup Condemns(Broken(ev), n, ts)
  BY DEF WireEvent, Fired, Broken, Observed, Fulfils, Condemns
<1>2. Expired(ts) \subseteq open_obligations /\ Satisfied(ev, ts) \subseteq open_obligations \ Expired(ts)
  BY DEF Expired, Satisfied, Candidates
<1>3. Opened(ev, n) \cap DOMAIN ledger = {}
  BY Names DEF Opened, TypeOK
<1>4. DOMAIN ledger' = DOMAIN ledger \cup Opened(ev, n)
  BY <1>1 DEF LedgerAfter, Opened
<1>5. ASSUME NEW id \in DOMAIN ledger
      PROVE  Becomes(id, IF id \in Expired(ts) THEN "bolted"
                         ELSE IF id \in Satisfied(ev, ts) THEN "fulfilled" ELSE ledger[id].state)
  <2>1. ledger[id] \in Obligation
    BY DEF TypeOK
  <2>2. ledger'[id] = [ledger[id] EXCEPT !.state = IF id \in Expired(ts) THEN "bolted"
                         ELSE IF id \in Satisfied(ev, ts) THEN "fulfilled" ELSE @]
    BY <1>1 DEF LedgerAfter
  <2>3. QED
    BY <2>1, <2>2 DEF Becomes, Obligation
<1>6. ASSUME NEW id \in Opened(ev, n)
      PROVE  ledger'[id] \in Obligation /\ ledger'[id].state = "open"
  <2>1. PICK r \in Fired(ev) : id = <<n, r>>
    BY DEF Opened
  <2>2. ledger'[id] = make_obligation(r, ev, ts)
    BY <1>1, <1>3, <2>1 DEF LedgerAfter, Opened
  <2>3. Triggers[r] \in TriggerRule
    BY <2>1, SpecAssumption, ElementOfSeq, LenProperties DEF Fired
  <2>4. ts + Triggers[r].window_ms \in Int
    BY <2>3 DEF TriggerRule
  <2>5. QED
    BY <2>2, <2>3, <2>4 DEF make_obligation, Obligation, TriggerRule, Event
<1>7. \A id \in Expired(ts) : id \in DOMAIN ledger
  BY DEF Expired, open_obligations
<1>8. \A id \in Satisfied(ev, ts) : id \in DOMAIN ledger /\ id \notin Expired(ts)
  BY <1>2 DEF open_obligations
<1>9. QED
  BY <1>1, <1>2, <1>3, <1>4, <1>5, <1>6, <1>7, <1>8 DEF Judged

-----------------------------------------------------------------------------
(* What a step adds to the verdicts, kind by kind.                         *)
LEMMA NewVerdicts ==
  ASSUME NEW n, NEW ts, NEW reason, NEW late, NEW kept, NEW fresh, NEW broken,
         Judged(n, ts, reason, late, kept, fresh, broken)
  PROVE  /\ bolts' = bolts \cup _bolt(late, n, ts, reason)
         /\ fulfilments' = fulfilments \cup Fulfils(kept, n, ts)
         /\ condemnations' = condemnations \cup Condemns(broken, n, ts)
<1> DEFINE B == _bolt(late, n, ts, reason)
           F == Fulfils(kept, n, ts)
           C == Condemns(broken, n, ts)
<1>1. verdicts' = verdicts \cup B \cup F \cup C
  BY DEF Judged
<1>2. /\ \A v \in B : v.kind = "BOLTED"
      /\ \A v \in F : v.kind = "FULFILLED"
      /\ \A v \in C : v.kind = "CONDEMNED"
  BY DEF _bolt, Fulfils, Condemns, Verdict
<1>3. bolts' = bolts \cup B /\ fulfilments' = fulfilments \cup F /\ condemnations' = condemnations \cup C
  <2> HIDE DEF B, F, C
  <2> QED
    BY <1>1, <1>2 DEF bolts, fulfilments, condemnations
<1>4. QED
  BY <1>3

(* Old verdicts are kept, and a new one is about what the step closed.     *)
LEMMA NewVerdictsOn ==
  ASSUME NEW n, NEW ts, NEW reason, NEW late, NEW kept, NEW fresh, NEW broken,
         Judged(n, ts, reason, late, kept, fresh, broken), NEW id
  PROVE  VerdictsOn(id)' = VerdictsOn(id)
           \cup (IF id \in late THEN {Verdict("BOLTED", id, n, ts, reason)} ELSE {})
           \cup (IF id \in kept THEN {Verdict("FULFILLED", id, n, ts, "satisfied")} ELSE {})
<1> DEFINE B == _bolt(late, n, ts, reason)
           F == Fulfils(kept, n, ts)
           C == Condemns(broken, n, ts)
<1>1. verdicts' = verdicts \cup B \cup F \cup C
  BY DEF Judged
<1>2. {v \in C : v.kind \in {"FULFILLED", "BOLTED"}} = {}
  BY DEF Condemns, Verdict
<1>3. {v \in B : v.of = id /\ v.kind \in {"FULFILLED", "BOLTED"}}
        = IF id \in late THEN {Verdict("BOLTED", id, n, ts, reason)} ELSE {}
  BY DEF _bolt, Verdict
<1>4. {v \in F : v.of = id /\ v.kind \in {"FULFILLED", "BOLTED"}}
        = IF id \in kept THEN {Verdict("FULFILLED", id, n, ts, "satisfied")} ELSE {}
  BY DEF Fulfils, Verdict
<1> HIDE DEF B, F, C
<1>5. VerdictsOn(id)' = {v \in verdicts' : v.of = id /\ v.kind \in {"FULFILLED", "BOLTED"}}
  BY DEF VerdictsOn
<1>6. VerdictsOn(id)' = VerdictsOn(id)
        \cup {v \in B : v.of = id /\ v.kind \in {"FULFILLED", "BOLTED"}}
        \cup {v \in F : v.of = id /\ v.kind \in {"FULFILLED", "BOLTED"}}
        \cup {v \in C : v.of = id /\ v.kind \in {"FULFILLED", "BOLTED"}}
  BY <1>1, <1>5 DEF VerdictsOn
<1>7. {v \in C : v.of = id /\ v.kind \in {"FULFILLED", "BOLTED"}} = {}
  BY <1>2
<1>8. QED
  BY <1>3, <1>4, <1>6, <1>7

(* Any step keeps one verdict for each closed obligation.                  *)
LEMMA OneVerdictEachKept ==
  ASSUME OneVerdictEach, NEW n, NEW ts, NEW reason, NEW late, NEW kept, NEW fresh, NEW broken,
         Judged(n, ts, reason, late, kept, fresh, broken)
  PROVE  OneVerdictEach'
<1>1. ASSUME NEW v \in (fulfilments \cup bolts)'
      PROVE  v.of \in DOMAIN ledger'
  <2>1. DOMAIN ledger \subseteq DOMAIN ledger' /\ late \cup kept \subseteq DOMAIN ledger
    BY DEF Judged, open_obligations
  <2>2. CASE v \in fulfilments \cup bolts
    BY <2>1, <2>2 DEF OneVerdictEach
  <2>3. CASE v \in _bolt(late, n, ts, reason) \cup Fulfils(kept, n, ts)
    BY <2>1, <2>3 DEF _bolt, Fulfils, Verdict
  <2>4. QED
    BY <1>1, <2>2, <2>3, NewVerdicts
<1>2. ASSUME NEW id \in DOMAIN ledger'
      PROVE  /\ ledger'[id].state = "open"      => VerdictsOn(id)' = {}
             /\ ledger'[id].state = "fulfilled" => Sole(id, "FULFILLED")'
             /\ ledger'[id].state = "bolted"    => Sole(id, "BOLTED")'
  <2> DEFINE D == Verdict("BOLTED", id, n, ts, reason)
             F == Verdict("FULFILLED", id, n, ts, "satisfied")
  <2>0. D.kind = "BOLTED" /\ F.kind = "FULFILLED"
    BY DEF Verdict
  <2> HIDE DEF D, F
  <2>1. VerdictsOn(id)' = VerdictsOn(id) \cup (IF id \in late THEN {D} ELSE {})
                            \cup (IF id \in kept THEN {F} ELSE {})
    BY NewVerdictsOn DEF D, F
  <2>2. CASE id \in late
    <3>1. ledger'[id].state = "bolted" /\ VerdictsOn(id) = {} /\ id \notin kept
      BY <2>2 DEF Judged, Becomes, OneVerdictEach, open_obligations
    <3>2. VerdictsOn(id)' = {D}
      BY <2>1, <2>2, <3>1
    <3>3. QED
      BY <2>0, <3>1, <3>2 DEF Sole
  <2>3. CASE id \in kept
    <3>1. ledger'[id].state = "fulfilled" /\ VerdictsOn(id) = {} /\ id \notin late
      BY <2>3 DEF Judged, Becomes, OneVerdictEach, open_obligations
    <3>2. VerdictsOn(id)' = {F}
      BY <2>1, <2>3, <3>1
    <3>3. QED
      BY <2>0, <3>1, <3>2 DEF Sole
  <2>4. CASE id \in DOMAIN ledger \ (late \cup kept)
    <3>1. ledger'[id].state = ledger[id].state
      BY <2>4 DEF Judged, Becomes
    <3>2. VerdictsOn(id)' = VerdictsOn(id)
      BY <2>1, <2>4
    <3>3. QED
      BY <2>4, <3>1, <3>2 DEF OneVerdictEach, Sole
  <2>5. CASE id \in fresh
    <3>1. ledger'[id].state = "open" /\ id \notin DOMAIN ledger /\ id \notin late \cup kept
      BY <2>5 DEF Judged, open_obligations
    <3>2. VerdictsOn(id) = {}
      BY <3>1 DEF OneVerdictEach, VerdictsOn, fulfilments, bolts
    <3>3. QED
      BY <2>1, <3>1, <3>2
  <2>6. QED
    BY <1>2, <2>2, <2>3, <2>4, <2>5 DEF Judged
<1>3. QED
  BY <1>1, <1>2 DEF OneVerdictEach

-----------------------------------------------------------------------------
(* The inductive invariant.                                                *)
VerdictsAreDated == \A v \in fulfilments \cup condemnations : v.at \in 1 .. total_events

EngineInv ==
  /\ TypeOK /\ SeenIsTheTrace /\ LedgerIsTheTrace /\ VerdictsAreDated
  /\ NothingOverdueIsOpen /\ OneVerdictEach
  /\ FulfilmentsAreEarned /\ AnswersWereUsed /\ BoltsAreDeserved
  /\ CondemnationsAreExact /\ CoverageIsHonest

LEMMA InitEngine == Init => EngineInv
<1> SUFFICES ASSUME Init PROVE EngineInv
  OBVIOUS
<1> USE DEF Init
<1>1. DOMAIN ledger = {} /\ DOMAIN trace = {} /\ Len(trace) = 0
  OBVIOUS
<1>2. open_obligations = {} /\ fulfilments = {} /\ bolts = {} /\ condemnations = {}
  BY <1>1 DEF open_obligations, fulfilments, bolts, condemnations
<1>3. TypeOK
  <2>1. trace \in Seq([event : Event, ts : Nat])
    BY EmptySeq
  <2>2. seen \in [Primitives -> SUBSET Identifiers]
    OBVIOUS
  <2>3. last_ts \in Nat /\ total_events \in Nat /\ unmatched_events \in 0 .. total_events
    OBVIOUS
  <2>4. /\ DOMAIN ledger \subseteq (1 .. total_events) \X (DOMAIN Triggers)
        /\ \A id \in DOMAIN ledger : ledger[id] \in Obligation
    BY <1>1
  <2>5. \A v \in verdicts : v.at \in 0 .. total_events /\ v.closed_at \in Nat
    OBVIOUS
  <2>6. ended \in BOOLEAN /\ Len(trace) = total_events
    BY <1>1
  <2>7. QED
    BY <2>1, <2>2, <2>3, <2>4, <2>5, <2>6 DEF TypeOK
<1>4. SeenIsTheTrace /\ LedgerIsTheTrace /\ OneVerdictEach
  BY <1>1, <1>2 DEF SeenIsTheTrace, LedgerIsTheTrace, OneVerdictEach
<1>5. NothingOverdueIsOpen /\ VerdictsAreDated
  BY <1>2 DEF NothingOverdueIsOpen, VerdictsAreDated
<1>6. FulfilmentsAreEarned /\ AnswersWereUsed /\ BoltsAreDeserved
  BY <1>2 DEF FulfilmentsAreEarned, AnswersWereUsed, BoltsAreDeserved
<1>7. CondemnationsAreExact
  BY <1>1, <1>2 DEF CondemnationsAreExact
<1>8. CoverageIsHonest
  BY <1>1, FS_EmptySet DEF CoverageIsHonest
<1>9. QED
  BY <1>3, <1>4, <1>5, <1>6, <1>7, <1>8 DEF EngineInv

(* Whether event k answered obligation id in time is settled by then.      *)
LEMMA SameAnswers ==
  ASSUME NEW n, NEW ts, NEW reason, NEW late, NEW kept, NEW fresh, NEW broken,
         Judged(n, ts, reason, late, kept, fresh, broken), NEW id \in DOMAIN ledger, NEW k,
         trace'[k] = trace[k], trace'[id[1]] = trace[id[1]]
  PROVE  AnswersInTime(k, id)' <=> AnswersInTime(k, id)
<1>1. ledger'[id].expires_at = ledger[id].expires_at /\ ledger'[id].expects = ledger[id].expects
  BY DEF Judged, Becomes
<1>2. QED
  BY <1>1 DEF AnswersInTime

(* The open obligations of a step: those left, and the fresh ones.         *)
LEMMA StillOpen ==
  ASSUME NEW n, NEW ts, NEW reason, NEW late, NEW kept, NEW fresh, NEW broken,
         Judged(n, ts, reason, late, kept, fresh, broken)
  PROVE  open_obligations' = (open_obligations \ (late \cup kept)) \cup fresh
<1>1. ASSUME NEW id \in DOMAIN ledger'
      PROVE  ledger'[id].state = "open" <=> id \in (open_obligations \ (late \cup kept)) \cup fresh
  <2>1. CASE id \in late \cup kept
    BY <2>1 DEF Judged, Becomes, open_obligations
  <2>2. CASE id \in DOMAIN ledger \ (late \cup kept)
    BY <2>2 DEF Judged, Becomes, open_obligations
  <2>3. CASE id \in fresh
    BY <2>3 DEF Judged, open_obligations
  <2>4. QED
    BY <1>1, <2>1, <2>2, <2>3 DEF Judged
<1>2. (open_obligations \ (late \cup kept)) \cup fresh \subseteq DOMAIN ledger'
  BY DEF Judged, open_obligations
<1>3. open_obligations' = {id \in DOMAIN ledger' : ledger'[id].state = "open"}
  BY DEF open_obligations
<1>4. QED
  BY <1>1, <1>2, <1>3

(* A tick and the end of the stream bolt, and do nothing else.             *)
LEMMA SilentStep ==
  ASSUME EngineInv, NEW ts \in Nat, NEW reason, NEW late,
         Judged(total_events, ts, reason, late, {}, {}, {}),
         UNCHANGED <<seen, total_events, unmatched_events, trace>>,
         last_ts' \in Nat, ended' \in BOOLEAN,
         \A id \in open_obligations \ late : last_ts' <= ledger[id].expires_at
  PROVE  EngineInv'
<1> DEFINE n == total_events
<1>0. /\ TypeOK /\ SeenIsTheTrace /\ LedgerIsTheTrace /\ VerdictsAreDated
      /\ NothingOverdueIsOpen /\ OneVerdictEach /\ FulfilmentsAreEarned /\ AnswersWereUsed
      /\ BoltsAreDeserved /\ CondemnationsAreExact /\ CoverageIsHonest
  BY DEF EngineInv
<1>1. /\ bolts' = bolts \cup _bolt(late, n, ts, reason)
      /\ fulfilments' = fulfilments /\ condemnations' = condemnations
  <2>1. Fulfils({}, n, ts) = {} /\ Condemns({}, n, ts) = {}
    BY DEF Fulfils, Condemns
  <2>2. QED
    BY <2>1, NewVerdicts
<1>2. /\ DOMAIN ledger' = DOMAIN ledger /\ late \subseteq open_obligations
      /\ \A id \in DOMAIN ledger : /\ ledger'[id] \in Obligation
                                   /\ ledger'[id].identifier = ledger[id].identifier
                                   /\ ledger'[id].correlation = ledger[id].correlation
                                   /\ ledger'[id].expires_at = ledger[id].expires_at
  BY DEF Judged, Becomes
<1>3. \A id \in DOMAIN ledger : \A k : AnswersInTime(k, id)' <=> AnswersInTime(k, id)
  BY SameAnswers
<1>4. open_obligations' = open_obligations \ late
  BY StillOpen
<1>5. TypeOK'
  <2>1. \A v \in _bolt(late, n, ts, reason) : v.at = n /\ v.closed_at = ts
    BY DEF _bolt, Verdict
  <2>2. verdicts' = verdicts \cup _bolt(late, n, ts, reason)
    BY DEF Judged, Fulfils, Condemns
  <2>3. QED
    BY <1>0, <1>2, <2>1, <2>2 DEF TypeOK
<1>6. SeenIsTheTrace' /\ LedgerIsTheTrace' /\ VerdictsAreDated'
  BY <1>0, <1>1, <1>2 DEF SeenIsTheTrace, LedgerIsTheTrace, VerdictsAreDated
<1>7. NothingOverdueIsOpen'
  BY <1>2, <1>4 DEF NothingOverdueIsOpen, open_obligations
<1>8. OneVerdictEach'
  BY <1>0, OneVerdictEachKept
<1>9. FulfilmentsAreEarned'
  BY <1>0, <1>1, <1>3 DEF FulfilmentsAreEarned, OneVerdictEach
<1>10. \A k, id : WentToAnEarlierOne(k, id)' <=> WentToAnEarlierOne(k, id)
  BY <1>1 DEF WentToAnEarlierOne
<1>11. AnswersWereUsed'
  BY <1>0, <1>3, <1>4, <1>10 DEF AnswersWereUsed, open_obligations
<1>12. BoltsAreDeserved'
  <2> SUFFICES ASSUME NEW v \in bolts', NEW k \in 1 .. v.at, AnswersInTime(k, v.of)'
               PROVE  WentToAnEarlierOne(k, v.of)'
    BY DEF BoltsAreDeserved, WentToAnEarlierOne
  <2>1. CASE v \in bolts
    BY <1>0, <1>3, <1>10, <2>1 DEF BoltsAreDeserved, WentToAnEarlierOne, OneVerdictEach
  <2>2. CASE v \in _bolt(late, n, ts, reason)
    <3>1. v.of \in open_obligations /\ v.at = n
      BY <1>2, <2>2 DEF _bolt, Verdict
    <3>2. QED
      BY <1>0, <1>3, <1>10, <3>1 DEF AnswersWereUsed, open_obligations
  <2>3. QED
    BY <1>1, <2>1, <2>2
<1>13. CondemnationsAreExact'
  BY <1>0, <1>1 DEF CondemnationsAreExact, Unexcused
<1>14. CoverageIsHonest'
  <2>1. \A k : LeftAMark(k)' <=> LeftAMark(k)
    BY <1>1, <1>2 DEF LeftAMark, fulfilments, condemnations
  <2>2. {k \in DOMAIN trace : ~LeftAMark(k)}' = {k \in DOMAIN trace : ~LeftAMark(k)}
    BY <2>1
  <2>3. QED
    BY <1>0, <2>2 DEF CoverageIsHonest
<1>15. QED
  BY <1>5, <1>6, <1>7, <1>8, <1>9, <1>11, <1>12, <1>13, <1>14 DEF EngineInv

-----------------------------------------------------------------------------
(* A wire event: it is recorded as event number n, and what it opens is    *)
(* about itself and in time.                                               *)
LEMMA Recorded ==
  ASSUME TypeOK, NEW ev \in Event, NEW ts \in Nat, WireEvent(ev, ts), NEW n, n = total_events + 1
  PROVE  /\ n \in Nat /\ n \notin 1 .. total_events /\ 1 .. n = (1 .. total_events) \cup {n}
         /\ total_events' = n /\ last_ts' = ts /\ seen' = Observed(ev)
         /\ trace' \in Seq([event : Event, ts : Nat]) /\ Len(trace') = n /\ DOMAIN trace' = 1 .. n
         /\ \A k \in 1 .. total_events : trace'[k] = trace[k]
         /\ trace'[n].event = ev /\ trace'[n].ts = ts
<1>1. trace \in Seq([event : Event, ts : Nat]) /\ Len(trace) = total_events /\ total_events \in Nat
  BY DEF TypeOK
<1>2. n \in Nat /\ n \notin 1 .. total_events /\ 1 .. n = (1 .. total_events) \cup {n}
  BY <1>1
<1> DEFINE record == [event |-> ev, ts |-> ts]
<1>3. record \in [event : Event, ts : Nat]
  OBVIOUS
<1>4. trace' = Append(trace, record) /\ total_events' = n /\ last_ts' = ts /\ seen' = Observed(ev)
  BY DEF WireEvent, Observed
<1>5. record.event = ev /\ record.ts = ts
  OBVIOUS
<1> HIDE DEF record
<1>6. /\ trace' \in Seq([event : Event, ts : Nat]) /\ Len(trace') = n
      /\ \A k \in 1 .. total_events : trace'[k] = trace[k]
      /\ trace'[n] = record
  BY <1>1, <1>3, <1>4, AppendProperties
<1>7. DOMAIN trace' = 1 .. n
  BY <1>6, LenProperties
<1>8. QED
  BY <1>2, <1>4, <1>5, <1>6, <1>7

TheWindows == {Triggers[r].window_ms : r \in DOMAIN Triggers}

LEMMA OpenedInTime ==
  ASSUME TypeOK, NEW ev \in Event, NEW ts \in Nat, WireEvent(ev, ts), NEW n, n = total_events + 1,
         NEW id \in Opened(ev, n)
  PROVE  /\ id[1] = n /\ id[2] \in Fired(ev) /\ id = <<n, id[2]>>
         /\ ledger'[id].identifier = ev.identifier /\ ledger'[id].correlation = ev.correlation
         /\ ledger'[id].opened_at = ts /\ ledger'[id].expires_at - ts \in TheWindows
         /\ ts <= ledger'[id].expires_at \/ Triggers[id[2]].window_ms < 0
<1>1. PICK r \in Fired(ev) : id = <<n, r>>
  BY DEF Opened
<1>2. id \notin DOMAIN ledger
  BY <1>1, Names, Recorded
<1>3. ledger'[id] = make_obligation(r, ev, ts)
  BY <1>1, <1>2 DEF WireEvent, LedgerAfter, Fired
<1>4. Triggers[r] \in TriggerRule
  BY <1>1, SpecAssumption, ElementOfSeq, LenProperties DEF Fired
<1>5. PICK w : w = Triggers[r].window_ms
  OBVIOUS
<1>6. w \in Int /\ w \in TheWindows
  BY <1>1, <1>4, <1>5 DEF TriggerRule, TheWindows, Fired
<1>7. /\ ledger'[id].identifier = ev.identifier /\ ledger'[id].correlation = ev.correlation
      /\ ledger'[id].opened_at = ts /\ ledger'[id].expires_at = ts + w
  BY <1>3, <1>5 DEF make_obligation
<1>8. (ts + w) - ts = w /\ (ts <= ts + w \/ w < 0)
  BY <1>6
<1>9. id[1] = n /\ id[2] = r
  BY <1>1
<1>10. QED
  BY <1>1, <1>5, <1>6, <1>7, <1>8, <1>9

LEMMA WireTypes ==
  ASSUME TypeOK, NEW ev \in Event, NEW ts \in Nat, WireEvent(ev, ts)
  PROVE  TypeOK'
<1> DEFINE n == total_events + 1
<1>1. Judged(n, ts, "liveness_window_expired", Expired(ts), Satisfied(ev, ts), Opened(ev, n), Broken(ev))
  BY WireStep
<1>2. /\ n \in Nat /\ 1 .. n = (1 .. total_events) \cup {n} /\ total_events' = n /\ last_ts' = ts
      /\ seen' = Observed(ev) /\ trace' \in Seq([event : Event, ts : Nat]) /\ Len(trace') = n
  BY Recorded
<1> HIDE DEF n
<1>3. /\ DOMAIN ledger' \subseteq (1 .. n) \X DOMAIN Triggers
      /\ \A id \in DOMAIN ledger' : ledger'[id] \in Obligation
  <2>1. Opened(ev, n) \subseteq (1 .. n) \X DOMAIN Triggers
    BY <1>2 DEF Opened, Fired
  <2>2. DOMAIN ledger \subseteq (1 .. n) \X DOMAIN Triggers
    BY <1>2 DEF TypeOK
  <2>3. ASSUME NEW id \in DOMAIN ledger' PROVE ledger'[id] \in Obligation
    BY <1>1, <2>3 DEF Judged, Becomes
  <2>4. QED
    BY <1>1, <2>1, <2>2, <2>3 DEF Judged
<1>4. seen' \in [Primitives -> SUBSET Identifiers]
  BY <1>2 DEF Observed, TypeOK, Event
<1>5. unmatched_events' \in 0 .. n
  BY <1>2 DEF WireEvent, TypeOK, n
<1>6. \A v \in verdicts' : v.at \in 0 .. n /\ v.closed_at \in Nat
  <2>1. \A v \in _bolt(Expired(ts), n, ts, "liveness_window_expired") : v.at = n /\ v.closed_at = ts
    BY DEF _bolt, Verdict
  <2>2. \A v \in Fulfils(Satisfied(ev, ts), n, ts) \cup Condemns(Broken(ev), n, ts) :
          v.at = n /\ v.closed_at = ts
    BY DEF Fulfils, Condemns, Verdict
  <2>3. \A v \in verdicts : v.at \in 0 .. n /\ v.closed_at \in Nat
    BY <1>2 DEF TypeOK, n
  <2>4. QED
    BY <1>1, <1>2, <2>1, <2>2, <2>3 DEF Judged
<1>7. ended' \in BOOLEAN
  BY DEF WireEvent, TypeOK
<1>8. QED
  BY <1>2, <1>3, <1>4, <1>5, <1>6, <1>7 DEF TypeOK

(* What the engine remembers keeps to the trace.                           *)
LEMMA WireHistory ==
  ASSUME EngineInv, NEW ev \in Event, NEW ts \in Nat, WireEvent(ev, ts)
  PROVE  SeenIsTheTrace' /\ LedgerIsTheTrace' /\ VerdictsAreDated'
<1> DEFINE n == total_events + 1
<1>0. TypeOK /\ SeenIsTheTrace /\ LedgerIsTheTrace /\ VerdictsAreDated
  BY DEF EngineInv
<1>1. Judged(n, ts, "liveness_window_expired", Expired(ts), Satisfied(ev, ts), Opened(ev, n), Broken(ev))
  BY <1>0, WireStep
<1>2. /\ n \in Nat /\ 1 .. n = (1 .. total_events) \cup {n} /\ total_events' = n
      /\ seen' = Observed(ev) /\ n \notin 1 .. total_events
      /\ \A k \in 1 .. total_events : trace'[k] = trace[k]
      /\ trace'[n].event = ev
  BY <1>0, Recorded
<1>3. \A id \in DOMAIN ledger : id[1] \in 1 .. total_events
  BY <1>0, Names
<1>4. \A id \in Opened(ev, n) : /\ id[1] = n /\ ledger'[id].identifier = ev.identifier
                                /\ ledger'[id].correlation = ev.correlation
  BY <1>0, OpenedInTime
<1>5. ASSUME NEW p \in Primitives, NEW i
      PROVE  i \in seen'[p] <=> \E k \in 1 .. n : /\ trace'[k].event.primitive = p
                                                  /\ trace'[k].event.identifier = i
  <2>1. i \in seen'[p] <=> i \in seen[p] \/ (p = ev.primitive /\ i = ev.identifier)
    BY <1>0, <1>2 DEF Observed, TypeOK
  <2>2. i \in seen[p] <=> \E k \in 1 .. total_events : /\ trace[k].event.primitive = p
                                                       /\ trace[k].event.identifier = i
    BY <1>0 DEF SeenIsTheTrace
  <2>3. QED
    BY <1>2, <2>1, <2>2
<1> HIDE DEF n
<1>6. SeenIsTheTrace'
  BY <1>2, <1>5 DEF SeenIsTheTrace
<1>7. LedgerIsTheTrace'
  <2> SUFFICES ASSUME NEW id \in DOMAIN ledger'
               PROVE  /\ ledger'[id].identifier = trace'[id[1]].event.identifier
                      /\ ledger'[id].correlation = trace'[id[1]].event.correlation
    BY DEF LedgerIsTheTrace
  <2>1. CASE id \in DOMAIN ledger
    BY <1>0, <1>1, <1>2, <1>3, <2>1 DEF Judged, Becomes, LedgerIsTheTrace
  <2>2. CASE id \in Opened(ev, n)
    BY <1>2, <1>4, <2>2
  <2>3. QED
    BY <1>1, <2>1, <2>2 DEF Judged
<1>8. VerdictsAreDated'
  <2>1. \A v \in Fulfils(Satisfied(ev, ts), n, ts) \cup Condemns(Broken(ev), n, ts) : v.at = n
    BY DEF Fulfils, Condemns, Verdict
  <2>2. /\ fulfilments' = fulfilments \cup Fulfils(Satisfied(ev, ts), n, ts)
        /\ condemnations' = condemnations \cup Condemns(Broken(ev), n, ts)
    BY <1>1, NewVerdicts
  <2>3. QED
    BY <1>0, <1>2, <2>1, <2>2 DEF VerdictsAreDated
<1>9. QED
  BY <1>6, <1>7, <1>8

(* What is left open is not overdue, and the fulfilled answered in time.   *)
LEMMA WireNothingOverdue ==
  ASSUME EngineInv, NEW ev \in Event, NEW ts \in Nat, WireEvent(ev, ts)
  PROVE  NothingOverdueIsOpen'
<1> DEFINE n == total_events + 1
<1>0. TypeOK
  BY DEF EngineInv
<1>1. Judged(n, ts, "liveness_window_expired", Expired(ts), Satisfied(ev, ts), Opened(ev, n), Broken(ev))
  BY <1>0, WireStep
<1>2. open_obligations' = (open_obligations \ (Expired(ts) \cup Satisfied(ev, ts))) \cup Opened(ev, n)
  BY <1>1, StillOpen
<1>3. n = total_events' /\ last_ts' = ts
  BY <1>0, Recorded
<1>5. \A id \in Opened(ev, n) : /\ id[1] = n /\ ledger'[id].opened_at = ts
                                /\ ts <= ledger'[id].expires_at \/ Triggers[id[2]].window_ms < 0
  BY <1>0, OpenedInTime
<1>4. \A id \in open_obligations \ Expired(ts) :
        ts <= ledger[id].expires_at /\ ledger'[id].expires_at = ledger[id].expires_at
  <2> SUFFICES ASSUME NEW id \in open_obligations, id \notin Expired(ts)
               PROVE  ts <= ledger[id].expires_at /\ ledger'[id].expires_at = ledger[id].expires_at
    OBVIOUS
  <2>1. id \in DOMAIN ledger /\ ledger[id].expires_at \in Int /\ ~(ts > ledger[id].expires_at)
    BY <1>0 DEF open_obligations, Expired, TypeOK, Obligation
  <2>2. ledger'[id].expires_at = ledger[id].expires_at
    BY <1>1, <2>1 DEF Judged, Becomes
  <2>3. QED
    BY <2>1, <2>2
<1> HIDE DEF n
<1>6. \A id \in Opened(ev, n) : last_ts' <= ledger'[id].expires_at \/ BornOverdue(id)'
  BY <1>3, <1>5 DEF BornOverdue
<1>7. \A id \in open_obligations \ (Expired(ts) \cup Satisfied(ev, ts)) : last_ts' <= ledger'[id].expires_at
  BY <1>3, <1>4
<1>8. QED
  BY <1>2, <1>6, <1>7 DEF NothingOverdueIsOpen

(* Event n is an answer in time to an old obligation just when the engine  *)
(* finds that it fits and its window is open.                              *)
LEMMA AnswerIsCandidate ==
  ASSUME EngineInv, NEW ev \in Event, NEW ts \in Nat, WireEvent(ev, ts), NEW n, n = total_events + 1,
         NEW id \in open_obligations
  PROVE  AnswersInTime(n, id)' <=> id \in Candidates(ev, ts)
<1>0. TypeOK /\ LedgerIsTheTrace
  BY DEF EngineInv
<1>1. /\ n \in Nat /\ \A k \in 1 .. total_events : trace'[k] = trace[k]
      /\ trace'[n].event = ev /\ trace'[n].ts = ts
  BY <1>0, Recorded
<1>2. /\ id \in DOMAIN ledger /\ id[1] \in 1 .. total_events /\ id[1] < n
      /\ ledger[id].expires_at \in Int
  BY <1>0, Names DEF open_obligations, TypeOK, Obligation
<1>3. Judged(n, ts, "liveness_window_expired", Expired(ts), Satisfied(ev, ts), Opened(ev, n), Broken(ev))
  BY <1>0, WireStep
<1>4. ledger'[id].expires_at = ledger[id].expires_at /\ ledger'[id].expects = ledger[id].expects
  BY <1>2, <1>3 DEF Judged, Becomes
<1>5. /\ trace'[id[1]].event.identifier = ledger[id].identifier
      /\ trace'[id[1]].event.correlation = ledger[id].correlation
  BY <1>0, <1>1, <1>2 DEF LedgerIsTheTrace
<1>6. id \notin Expired(ts) <=> ts <= ledger[id].expires_at
  BY <1>2 DEF Expired
<1>7. AnswersInTime(n, id)' <=> /\ ts <= ledger[id].expires_at
                                /\ ev.primitive = ledger[id].expects
                                /\ ev.identifier = ledger[id].identifier
                                /\ ev.correlation = ledger[id].correlation
  BY <1>1, <1>2, <1>4, <1>5 DEF AnswersInTime
<1>8. QED
  BY <1>6, <1>7 DEF Candidates, Fits

LEMMA WireFulfilments ==
  ASSUME EngineInv, NEW ev \in Event, NEW ts \in Nat, WireEvent(ev, ts)
  PROVE  FulfilmentsAreEarned'
<1>n. PICK n : n = total_events + 1
  OBVIOUS
<1>0. TypeOK /\ VerdictsAreDated /\ FulfilmentsAreEarned /\ OneVerdictEach
  BY DEF EngineInv
<1>1. Judged(n, ts, "liveness_window_expired", Expired(ts), Satisfied(ev, ts), Opened(ev, n), Broken(ev))
  BY <1>n, <1>0, WireStep
<1>2. /\ n \notin 1 .. total_events
      /\ \A k \in 1 .. total_events : trace'[k] = trace[k]
  BY <1>n, <1>0, Recorded
<1>3. \A id \in DOMAIN ledger : id[1] \in 1 .. total_events
  BY <1>0, Names
<1>4. fulfilments' = fulfilments \cup Fulfils(Satisfied(ev, ts), n, ts)
  BY <1>1, NewVerdicts
<1>5. ASSUME NEW v \in fulfilments
      PROVE  v.at \in 1 .. total_events /\ AnswersInTime(v.at, v.of)'
  <2>1. v.at \in 1 .. total_events /\ v.of \in DOMAIN ledger /\ AnswersInTime(v.at, v.of)
    BY <1>0 DEF VerdictsAreDated, OneVerdictEach, FulfilmentsAreEarned
  <2>2. trace'[v.at] = trace[v.at] /\ trace'[v.of[1]] = trace[v.of[1]]
    BY <1>2, <1>3, <2>1
  <2>3. AnswersInTime(v.at, v.of)' <=> AnswersInTime(v.at, v.of)
    BY <1>1, <2>1, <2>2, SameAnswers
  <2>4. QED
    BY <2>1, <2>3
<1>6. ASSUME NEW v \in Fulfils(Satisfied(ev, ts), n, ts)
      PROVE  v.at = n /\ AnswersInTime(v.at, v.of)'
  <2>1. PICK id \in Satisfied(ev, ts) : v = Verdict("FULFILLED", id, n, ts, "satisfied")
    BY DEF Fulfils
  <2>2. v.at = n /\ v.of = id
    BY <2>1 DEF Verdict
  <2>3. id \in Candidates(ev, ts) /\ id \in open_obligations
    BY DEF Satisfied, Candidates
  <2>4. AnswersInTime(n, id)'
    BY <1>n, <2>3, AnswerIsCandidate
  <2>5. QED
    BY <2>2, <2>4
<1>7. ASSUME NEW v \in Fulfils(Satisfied(ev, ts), n, ts), NEW w \in Fulfils(Satisfied(ev, ts), n, ts)
      PROVE  v = w
  <2>1. PICK id \in Satisfied(ev, ts) : v = Verdict("FULFILLED", id, n, ts, "satisfied")
    BY DEF Fulfils
  <2>2. PICK other \in Satisfied(ev, ts) : w = Verdict("FULFILLED", other, n, ts, "satisfied")
    BY DEF Fulfils
  <2>3. QED
    BY <1>0, <2>1, <2>2, AtMostOneSatisfied
<1>8. QED
  BY <1>0, <1>2, <1>4, <1>5, <1>6, <1>7 DEF FulfilmentsAreEarned

(* An answer that an obligation does not get goes to an earlier one.       *)
LEMMA WireAnswers ==
  ASSUME EngineInv, NEW ev \in Event, NEW ts \in Nat, WireEvent(ev, ts)
  PROVE  AnswersWereUsed' /\ BoltsAreDeserved'
<1>n. PICK n : n = total_events + 1
  OBVIOUS
<1> DEFINE newbolts == _bolt(Expired(ts), n, ts, "liveness_window_expired")
<1>0. TypeOK /\ AnswersWereUsed /\ BoltsAreDeserved /\ OneVerdictEach
  BY DEF EngineInv
<1>1. Judged(n, ts, "liveness_window_expired", Expired(ts), Satisfied(ev, ts), Opened(ev, n), Broken(ev))
  BY <1>n, <1>0, WireStep
<1>2. /\ n \in Nat /\ n \notin 1 .. total_events /\ 1 .. n = (1 .. total_events) \cup {n}
      /\ total_events' = n /\ \A k \in 1 .. total_events : trace'[k] = trace[k]
  BY <1>n, <1>0, Recorded
<1>3. \A id \in DOMAIN ledger : id[1] \in 1 .. total_events
  BY <1>0, Names
<1>4. /\ fulfilments' = fulfilments \cup Fulfils(Satisfied(ev, ts), n, ts)
      /\ bolts' = bolts \cup newbolts
  BY <1>1, NewVerdicts
<1>5. ASSUME NEW id \in DOMAIN ledger, NEW k \in 1 .. total_events
      PROVE  AnswersInTime(k, id)' <=> AnswersInTime(k, id)
  <2>1. trace'[k] = trace[k] /\ trace'[id[1]] = trace[id[1]]
    BY <1>2, <1>3
  <2>2. QED
    BY <1>1, <2>1, SameAnswers
<1>6. \A k, id : WentToAnEarlierOne(k, id) => WentToAnEarlierOne(k, id)'
  BY <1>4 DEF WentToAnEarlierOne
<1>7. ASSUME NEW id \in open_obligations, id \notin Satisfied(ev, ts), AnswersInTime(n, id)'
      PROVE  WentToAnEarlierOne(n, id)'
  <2>1. id \in Candidates(ev, ts)
    BY <1>n, <1>7, AnswerIsCandidate
  <2>2. PICK first \in Satisfied(ev, ts) : Before(first, id)
    BY <1>0, <1>7, <2>1, FirstCandidate
  <2> DEFINE w == Verdict("FULFILLED", first, n, ts, "satisfied")
  <2>3. w \in fulfilments' /\ w.at = n /\ w.of = first
    BY <1>4 DEF Fulfils, Verdict
  <2> HIDE DEF w
  <2>4. QED
    BY <2>2, <2>3 DEF WentToAnEarlierOne
<1>8. ASSUME NEW id \in open_obligations, id \notin Satisfied(ev, ts), NEW k \in 1 .. n,
             AnswersInTime(k, id)'
      PROVE  WentToAnEarlierOne(k, id)'
  <2>1. id \in DOMAIN ledger
    BY DEF open_obligations
  <2>2. CASE k \in 1 .. total_events
    BY <1>0, <1>5, <1>6, <1>8, <2>1, <2>2 DEF AnswersWereUsed
  <2>3. CASE k = n
    BY <1>7, <1>8, <2>3
  <2>4. QED
    BY <1>2, <2>2, <2>3
<1>9. \A id \in Opened(ev, n) : id[1] = n
  BY <1>n, <1>0, OpenedInTime
<1> HIDE DEF newbolts
<1>10. AnswersWereUsed'
  <2> SUFFICES ASSUME NEW id \in open_obligations', NEW k \in 1 .. n, AnswersInTime(k, id)'
               PROVE  WentToAnEarlierOne(k, id)'
    BY <1>2 DEF AnswersWereUsed
  <2>1. open_obligations' = (open_obligations \ (Expired(ts) \cup Satisfied(ev, ts))) \cup Opened(ev, n)
    BY <1>1, StillOpen
  <2>2. id \notin Opened(ev, n)
    BY <1>2, <1>9 DEF AnswersInTime
  <2>3. QED
    BY <1>8, <2>1, <2>2
<1>11. BoltsAreDeserved'
  <2> SUFFICES ASSUME NEW v \in bolts', NEW k \in 1 .. v.at, AnswersInTime(k, v.of)'
               PROVE  WentToAnEarlierOne(k, v.of)'
    BY DEF BoltsAreDeserved, WentToAnEarlierOne
  <2>1. CASE v \in bolts
    <3>1. v.at \in 0 .. total_events /\ v.of \in DOMAIN ledger
      BY <1>0, <2>1 DEF TypeOK, OneVerdictEach, bolts
    <3>2. k \in 1 .. total_events
      BY <1>0, <3>1 DEF TypeOK
    <3>3. WentToAnEarlierOne(k, v.of)
      BY <1>0, <1>5, <2>1, <3>1, <3>2 DEF BoltsAreDeserved, WentToAnEarlierOne
    <3>4. QED
      BY <1>6, <3>3
  <2>2. CASE v \in newbolts
    <3>1. v.of \in Expired(ts) /\ v.at = n
      BY <2>2 DEF newbolts, _bolt, Verdict
    <3>2. v.of \in open_obligations /\ v.of \notin Satisfied(ev, ts)
      BY <3>1 DEF Expired, Satisfied, Candidates
    <3>3. QED
      BY <1>8, <3>1, <3>2
  <2>3. QED
    BY <1>4, <2>1, <2>2
<1>12. QED
  BY <1>10, <1>11

(* An event is condemned just when the trace, itself included, does not    *)
(* excuse it, and nothing later changes that.                              *)
LEMMA WireCondemnations ==
  ASSUME EngineInv, NEW ev \in Event, NEW ts \in Nat, WireEvent(ev, ts)
  PROVE  CondemnationsAreExact'
<1>n. PICK n : n = total_events + 1
  OBVIOUS
<1> DEFINE new == Condemns(Broken(ev), n, ts)
<1>0. TypeOK /\ CondemnationsAreExact /\ SeenIsTheTrace'
  BY WireHistory DEF EngineInv
<1>1. Judged(n, ts, "liveness_window_expired", Expired(ts), Satisfied(ev, ts), Opened(ev, n), Broken(ev))
  BY <1>n, <1>0, WireStep
<1>2. /\ n \in Nat /\ n \notin 1 .. total_events /\ 1 .. n = (1 .. total_events) \cup {n}
      /\ DOMAIN trace' = 1 .. n /\ total_events' = n /\ seen' = Observed(ev)
      /\ \A k \in 1 .. total_events : trace'[k] = trace[k]
      /\ trace'[n].event = ev
  BY <1>n, <1>0, Recorded
<1>3. DOMAIN trace = 1 .. total_events
  BY <1>0, Names
<1>4. condemnations' = condemnations \cup new
  BY <1>1, NewVerdicts
<1>5. ASSUME NEW c
      PROVE  c \in {v.of : v \in new} <=> c \in {<<n, r>> : r \in Broken(ev)}
  <2>1. \A r : Verdict("CONDEMNED", <<n, r>>, n, ts, "assertion").of = <<n, r>>
    BY DEF Verdict
  <2>2. \A v : v \in new <=> \E r \in Broken(ev) : v = Verdict("CONDEMNED", <<n, r>>, n, ts, "assertion")
    BY DEF Condemns
  <2> HIDE DEF new
  <2>3. ASSUME NEW v \in new, c = v.of PROVE \E r \in Broken(ev) : c = <<n, r>>
    BY <2>1, <2>2, <2>3
  <2>4. ASSUME NEW r \in Broken(ev), c = <<n, r>> PROVE \E v \in new : c = v.of
    BY <2>1, <2>2, <2>4
  <2>5. QED
    BY <2>3, <2>4
<1>6. ASSUME NEW k \in 1 .. total_events, NEW r
      PROVE  Unexcused(k, r)' <=> Unexcused(k, r)
  <2>1. \A j \in 1 .. k : j \in 1 .. total_events
    BY <1>0 DEF TypeOK
  <2>2. QED
    BY <1>2, <2>1 DEF Unexcused
<1>7. ASSUME NEW r \in DOMAIN Assertions
      PROVE  Unexcused(n, r)' <=> r \in Broken(ev)
  <2>1. Assertions[r].required \in Primitives
    <3>1. Assertions[r] \in AssertRule
      BY SpecAssumption, ElementOfSeq, LenProperties
    <3>2. QED
      BY <3>1 DEF AssertRule
  <2>2. ev.identifier \in Observed(ev)[Assertions[r].required] <=>
          \E j \in 1 .. n : /\ trace'[j].event.primitive = Assertions[r].required
                            /\ trace'[j].event.identifier = ev.identifier
    BY <1>0, <1>2, <2>1 DEF SeenIsTheTrace
  <2>3. QED
    BY <1>2, <2>2 DEF Unexcused, Broken, violated_by
<1> HIDE DEF new
<1>8. ASSUME NEW k \in 1 .. n, NEW r \in DOMAIN Assertions
      PROVE  Unexcused(k, r)' <=> \/ k \in 1 .. total_events /\ Unexcused(k, r)
                                  \/ k = n /\ r \in Broken(ev)
  BY <1>2, <1>6, <1>7
<1>9. {v.of : v \in condemnations'} = {v.of : v \in condemnations} \cup {v.of : v \in new}
  BY <1>4
<1>10. {v.of : v \in condemnations} =
         {c \in (1 .. total_events) \X (DOMAIN Assertions) : Unexcused(c[1], c[2])}
  BY <1>0, <1>3 DEF CondemnationsAreExact
<1>11. Broken(ev) \subseteq DOMAIN Assertions
  BY DEF Broken
<1>12. ASSUME NEW c
       PROVE  c \in {v.of : v \in condemnations'} <=>
                c \in {d \in (1 .. n) \X (DOMAIN Assertions) : Unexcused(d[1], d[2])'}
  <2>1. c \in {v.of : v \in condemnations'} <=>
          \/ /\ c \in (1 .. total_events) \X (DOMAIN Assertions) /\ Unexcused(c[1], c[2])
          \/ c \in {<<n, r>> : r \in Broken(ev)}
    BY <1>5, <1>9, <1>10
  <2>2. CASE c \in (1 .. n) \X (DOMAIN Assertions)
    <3>1. /\ c[1] \in 1 .. n /\ c[2] \in DOMAIN Assertions /\ c = <<c[1], c[2]>>
          /\ c \in (1 .. total_events) \X (DOMAIN Assertions) <=> c[1] \in 1 .. total_events
      BY <2>2
    <3>2. c \in {<<n, r>> : r \in Broken(ev)} <=> c[1] = n /\ c[2] \in Broken(ev)
      BY <3>1
    <3>3. Unexcused(c[1], c[2])' <=> \/ c[1] \in 1 .. total_events /\ Unexcused(c[1], c[2])
                                     \/ c[1] = n /\ c[2] \in Broken(ev)
      BY <1>8, <3>1
    <3>4. QED
      BY <2>1, <2>2, <3>1, <3>2, <3>3
  <2>3. CASE c \notin (1 .. n) \X (DOMAIN Assertions)
    BY <1>2, <1>11, <2>1, <2>3
  <2>4. QED
    BY <2>2, <2>3
<1>13. CondemnationsAreExact' <=>
         {v.of : v \in condemnations'} = {c \in (1 .. n) \X (DOMAIN Assertions) : Unexcused(c[1], c[2])'}
  BY <1>2 DEF CondemnationsAreExact
<1>14. QED
  BY <1>12, <1>13

(* The coverage counts the events that left no mark.                       *)
LEMMA WireCoverage ==
  ASSUME EngineInv, NEW ev \in Event, NEW ts \in Nat, WireEvent(ev, ts)
  PROVE  CoverageIsHonest'
<1>n. PICK n : n = total_events + 1
  OBVIOUS
<1> DEFINE used      == matched(Satisfied(ev, ts), Broken(ev), Fired(ev))
           Blind     == {k \in 1 .. total_events : ~LeftAMark(k)}
           fulfilled == Fulfils(Satisfied(ev, ts), n, ts)
           condemned == Condemns(Broken(ev), n, ts)
<1>0. TypeOK /\ CoverageIsHonest /\ VerdictsAreDated
  BY DEF EngineInv
<1>1. Judged(n, ts, "liveness_window_expired", Expired(ts), Satisfied(ev, ts), Opened(ev, n), Broken(ev))
  BY <1>n, <1>0, WireStep
<1>2. /\ n \in Nat /\ n \notin 1 .. total_events /\ 1 .. n = (1 .. total_events) \cup {n}
      /\ DOMAIN trace' = 1 .. n
  BY <1>n, <1>0, Recorded
<1>3. /\ fulfilments' = fulfilments \cup fulfilled /\ condemnations' = condemnations \cup condemned
      /\ DOMAIN ledger' = DOMAIN ledger \cup Opened(ev, n)
  <2>1. DOMAIN ledger' = DOMAIN ledger \cup Opened(ev, n)
    BY <1>1 DEF Judged
  <2>2. QED
    BY <1>1, <2>1, NewVerdicts
<1>4. /\ \A v \in fulfilled \cup condemned : v.at = n
      /\ fulfilled # {} <=> Satisfied(ev, ts) # {}
      /\ condemned # {} <=> Broken(ev) # {}
      /\ \A id \in Opened(ev, n) : id[1] = n
      /\ Opened(ev, n) # {} <=> Fired(ev) # {}
  <2>1. \A v \in fulfilled \cup condemned : v.at = n
    BY DEF Fulfils, Condemns, Verdict
  <2>2. fulfilled # {} <=> Satisfied(ev, ts) # {}
    BY DEF Fulfils
  <2>3. condemned # {} <=> Broken(ev) # {}
    BY DEF Condemns
  <2>4. \A id \in Opened(ev, n) : id[1] = n
    BY DEF Opened
  <2>5. Opened(ev, n) # {} <=> Fired(ev) # {}
    BY Zenon DEF Opened
  <2>6. QED
    BY <2>1, <2>2, <2>3, <2>4, <2>5
<1>5. /\ \A v \in fulfilments \cup condemnations : v.at \in 1 .. total_events
      /\ \A id \in DOMAIN ledger : id[1] \in 1 .. total_events
  BY <1>0, Names DEF VerdictsAreDated
<1>6. /\ \A k : LeftAMark(k) <=> \/ \E id \in DOMAIN ledger : id[1] = k
                                 \/ \E v \in fulfilments \cup condemnations : v.at = k
      /\ \A k : LeftAMark(k)' <=> \/ \E id \in DOMAIN ledger' : id[1] = k
                                  \/ \E v \in fulfilments' \cup condemnations' : v.at = k
  BY DEF LeftAMark, fulfilments, condemnations
<1> HIDE DEF fulfilled, condemned
<1>7. \A k \in 1 .. total_events : LeftAMark(k)' <=> LeftAMark(k)
  BY <1>2, <1>3, <1>4, <1>6
<1>8. LeftAMark(n)' <=> used
  BY <1>2, <1>3, <1>4, <1>5, <1>6 DEF matched
<1>9. unmatched_events' = unmatched_events + (IF used THEN 0 ELSE 1)
  BY DEF WireEvent, Broken, Observed, Fired
<1>10. unmatched_events = Cardinality(Blind) /\ unmatched_events \in Nat
  BY <1>0, Names DEF CoverageIsHonest, TypeOK
<1>11. IsFiniteSet(Blind) /\ n \notin Blind
  <2>1. IsFiniteSet(1 .. total_events) /\ Blind \in SUBSET (1 .. total_events)
    BY <1>0, FS_Interval DEF TypeOK
  <2>2. QED
    BY <1>2, <2>1, FS_Subset
<1>12. {k \in 1 .. n : ~LeftAMark(k)'} = IF used THEN Blind ELSE Blind \cup {n}
  BY <1>2, <1>7, <1>8
<1> HIDE DEF Blind, used
<1>13. unmatched_events' = Cardinality({k \in 1 .. n : ~LeftAMark(k)'})
  <2>1. CASE used
    BY <1>9, <1>10, <1>12, <2>1
  <2>2. CASE ~used
    <3>1. Cardinality(Blind \cup {n}) = Cardinality(Blind) + 1
      BY <1>11, FS_AddElement
    <3>2. QED
      BY <1>9, <1>10, <1>12, <2>2, <3>1
  <2>3. QED
    BY <2>1, <2>2
<1>14. QED
  BY <1>2, <1>13 DEF CoverageIsHonest

-----------------------------------------------------------------------------
(* The theorems.                                                           *)
LEMMA EngineStep == EngineInv /\ [Next]_vars => EngineInv'
<1> SUFFICES ASSUME EngineInv, [Next]_vars PROVE EngineInv'
  OBVIOUS
<1>0. TypeOK /\ OneVerdictEach /\ NothingOverdueIsOpen
  BY DEF EngineInv
<1>1. ASSUME NEW ts \in Times, Tick(ts) PROVE EngineInv'
  <2>1. ts \in Nat
    BY SpecAssumption
  <2>2. Judged(total_events, ts, "liveness_window_expired", Expired(ts), {}, {}, {})
    BY <1>0, <1>1, TickStep
  <2>3. \A id \in open_obligations \ Expired(ts) : last_ts' <= ledger[id].expires_at
    BY <1>0, <1>1, <2>1 DEF Tick, Expired, open_obligations, TypeOK, Obligation
  <2>4. /\ UNCHANGED <<seen, total_events, unmatched_events, trace>>
        /\ last_ts' \in Nat /\ ended' \in BOOLEAN
    BY <1>0, <1>1, <2>1 DEF Tick, TypeOK
  <2>5. QED
    BY <2>1, <2>2, <2>3, <2>4, SilentStep
<1>2. ASSUME NEW ev \in Events, NEW ts \in Times, WireEvent(ev, ts) PROVE EngineInv'
  <2>1. ev \in Event /\ ts \in Nat
    BY SpecAssumption
  <2>2. OneVerdictEach'
    BY <1>0, <1>2, <2>1, WireStep, OneVerdictEachKept
  <2>3. QED
    BY <1>0, <1>2, <2>1, <2>2, WireTypes, WireHistory, WireNothingOverdue, WireFulfilments,
       WireAnswers, WireCondemnations, WireCoverage DEF EngineInv
<1>3. CASE EndOfStream
  <2>1. Judged(total_events, last_ts, "session_ended_unresolved", open_obligations, {}, {}, {})
    BY <1>0, <1>3, EndStep
  <2>2. /\ UNCHANGED <<seen, total_events, unmatched_events, trace>>
        /\ last_ts \in Nat /\ last_ts' \in Nat /\ ended' \in BOOLEAN
    BY <1>0, <1>3 DEF EndOfStream, TypeOK
  <2>3. QED
    BY <2>1, <2>2, SilentStep
<1>4. CASE UNCHANGED vars
  <2>1. /\ TypeOK' /\ SeenIsTheTrace' /\ LedgerIsTheTrace' /\ VerdictsAreDated' /\ NothingOverdueIsOpen'
    BY <1>4 DEF EngineInv, vars, TypeOK, SeenIsTheTrace, LedgerIsTheTrace, VerdictsAreDated, fulfilments,
                condemnations, NothingOverdueIsOpen, open_obligations, BornOverdue
  <2>2. OneVerdictEach'
    BY <1>4 DEF EngineInv, vars, OneVerdictEach, fulfilments, bolts, VerdictsOn, Sole
  <2>3. FulfilmentsAreEarned' /\ AnswersWereUsed' /\ BoltsAreDeserved'
    BY <1>4 DEF EngineInv, vars, FulfilmentsAreEarned, AnswersWereUsed, BoltsAreDeserved, fulfilments,
                bolts, open_obligations, AnswersInTime, WentToAnEarlierOne
  <2>4. CondemnationsAreExact'
    BY <1>4 DEF EngineInv, vars, CondemnationsAreExact, condemnations, Unexcused
  <2>5. CoverageIsHonest'
    BY <1>4 DEF EngineInv, vars, CoverageIsHonest, LeftAMark
  <2>6. QED
    BY <2>1, <2>2, <2>3, <2>4, <2>5 DEF EngineInv
<1>5. QED
  BY <1>1, <1>2, <1>3, <1>4 DEF Next

THEOREM EngineInvariant == Spec => []EngineInv
BY InitEngine, EngineStep, PTL DEF Spec

(* The types of the engine, for any rules and events.                      *)
THEOREM EngineTypes == Spec => []TypeOK
<1>1. EngineInv => TypeOK
  BY DEF EngineInv
<1>2. QED
  BY <1>1, EngineInvariant, PTL

(* Whatever the timestamps and the windows, none is left open past the     *)
(* last moment heard of, but one that ended before the event opening it.   *)
THEOREM EngineNothingOverdue == Spec => []NothingOverdueIsOpen
<1>1. EngineInv => NothingOverdueIsOpen
  BY DEF EngineInv
<1>2. QED
  BY <1>1, EngineInvariant, PTL

(* The report has one verdict for each obligation that is closed.          *)
THEOREM EngineVerdicts == Spec => []VerdictPerObligation
<1>1. ASSUME EngineInv PROVE VerdictPerObligation
  <2>1. ASSUME NEW id, NEW kind, Sole(id, kind) PROVE Reported(id, kind)
    <3>1. PICK v : VerdictsOn(id) = {v} /\ v.kind = kind
      BY <2>1 DEF Sole
    <3>2. QED
      BY <3>1, FS_Singleton DEF Reported
  <2>2. \A id \in DOMAIN ledger : ledger[id].state \in {"open", "fulfilled", "bolted"}
    BY <1>1 DEF EngineInv, TypeOK, Obligation
  <2>3. OneVerdictEach
    BY <1>1 DEF EngineInv
  <2>4. QED
    BY <2>1, <2>2, <2>3 DEF VerdictPerObligation, OneVerdictEach
<1>2. QED
  BY <1>1, EngineInvariant, PTL

(* Every fulfilment has its own answer in time.                            *)
THEOREM EngineFulfilments == Spec => []FulfilmentsAreEarned
<1>1. EngineInv => FulfilmentsAreEarned
  BY DEF EngineInv
<1>2. QED
  BY <1>1, EngineInvariant, PTL

(* Nobody is bolted whose answer was not taken by an earlier obligation.   *)
THEOREM EngineBolts == Spec => []BoltsAreDeserved
<1>1. EngineInv => BoltsAreDeserved
  BY DEF EngineInv
<1>2. QED
  BY <1>1, EngineInvariant, PTL

(* Condemned is what the trace up to there does not excuse.                *)
THEOREM EngineCondemnations == Spec => []CondemnationsAreExact
<1>1. EngineInv => CondemnationsAreExact
  BY DEF EngineInv
<1>2. QED
  BY <1>1, EngineInvariant, PTL

(* The coverage figure counts the events that left no mark.                *)
THEOREM EngineCoverage == Spec => []CoverageIsHonest
<1>1. EngineInv => CoverageIsHonest
  BY DEF EngineInv
<1>2. QED
  BY <1>1, EngineInvariant, PTL

-----------------------------------------------------------------------------
(* The engine implements the judge of Obligations.                         *)
Deadline == [id \in DOMAIN ledger |-> ledger[id].expires_at]
Fate     == [id \in DOMAIN ledger |-> ledger[id].state]

LEMMA EmptyMap ==
  ASSUME NEW f, f = [x \in {} |-> 0]
  PROVE  f = <<>>
<1>1. <<>> \in Seq({}) /\ Len(<<>>) = 0
  BY EmptySeq
<1>2. <<>> \in [1 .. 0 -> {}]
  BY <1>1, LenProperties
<1>3. QED
  BY <1>2

LEMMA JudgeInit == Init => Judge!Init
<1> SUFFICES ASSUME Init PROVE Judge!Init
  OBVIOUS
<1>1. DOMAIN ledger = {} /\ ended = FALSE
  BY DEF Init
<1>2. Deadline = [x \in {} |-> 0] /\ Fate = [x \in {} |-> 0]
  BY <1>1 DEF Deadline, Fate
<1>3. Deadline = <<>> /\ Fate = <<>>
  BY <1>2, EmptyMap
<1>4. QED
  BY <1>1, <1>3 DEF Judge!Init, Deadline, Fate

(* Open and late are the same of an obligation and of the abstract one.    *)
LEMMA JudgeSets ==
  ASSUME NEW t
  PROVE  Judge!Open = open_obligations /\ Judge!Late(t) = Expired(t)
<1>1. Judge!Open = open_obligations
  BY DEF Judge!Open, open_obligations
<1>2. QED
  BY <1>1 DEF Judge!Late, Expired, open_obligations

(* A step that bolts what is late and fulfils at most one obligation, in   *)
(* time, is heard by the judge.                                            *)
LEMMA JudgeHears ==
  ASSUME TypeOK, ~ended, UNCHANGED ended, NEW ts, NEW n, NEW reason, NEW kept, NEW fresh, NEW broken,
         Judged(n, ts, reason, Expired(ts), kept, fresh, broken),
         \A id \in kept, other \in kept : id = other,
         \A id \in fresh : ledger'[id].expires_at - ts \in TheWindows
  PROVE  Judge!Hear(ts)
<1>1. /\ DOMAIN Fate = DOMAIN ledger /\ DOMAIN Fate' = DOMAIN ledger'
      /\ DOMAIN Deadline = DOMAIN ledger /\ DOMAIN Deadline' = DOMAIN ledger'
      /\ \A id \in DOMAIN ledger : Fate[id] = ledger[id].state /\ Deadline[id] = ledger[id].expires_at
      /\ \A id \in DOMAIN ledger' : Fate'[id] = ledger'[id].state /\ Deadline'[id] = ledger'[id].expires_at
  BY DEF Fate, Deadline
<1>2. DOMAIN ledger' = DOMAIN ledger \cup fresh /\ fresh \cap DOMAIN ledger = {}
  BY DEF Judged
<1>3. \A id \in DOMAIN ledger : Deadline'[id] = Deadline[id]
  BY <1>1, <1>2 DEF Judged, Becomes
<1>4. \A id \in DOMAIN ledger' \ DOMAIN ledger : Fate'[id] = "open" /\ Deadline'[id] - ts \in TheWindows
  <2> SUFFICES ASSUME NEW id \in fresh
               PROVE  Fate'[id] = "open" /\ Deadline'[id] - ts \in TheWindows
    BY <1>2
  <2>1. Fate'[id] = "open" /\ Deadline'[id] = ledger'[id].expires_at
    BY <1>1, <1>2 DEF Judged
  <2>2. QED
    BY <2>1
<1>5. kept \in {{}} \cup {{id} : id \in Judge!Open \ Judge!Late(ts)}
  <2>1. kept \subseteq open_obligations \ Expired(ts)
    BY DEF Judged
  <2>2. kept = {} \/ \E id \in kept : kept = {id}
    OBVIOUS
  <2>3. QED
    BY <2>1, <2>2, JudgeSets
<1>6. \A id \in DOMAIN ledger : Fate'[id] = Judge!FateAt(id, ts, kept)
  <2> SUFFICES ASSUME NEW id \in DOMAIN ledger
               PROVE  ledger'[id].state = IF id \in kept THEN "fulfilled"
                        ELSE IF id \in Expired(ts) THEN "bolted" ELSE ledger[id].state
    BY <1>1, <1>2, JudgeSets DEF Judge!FateAt
  <2>1. Expired(ts) \cap kept = {}
    BY DEF Judged
  <2>2. QED
    BY <2>1 DEF Judged, Becomes
<1>7. QED
  BY <1>1, <1>2, <1>3, <1>4, <1>5, <1>6 DEF Judge!Hear, Fate, Deadline, TheWindows

LEMMA JudgeStep ==
  ASSUME TypeOK, [Next]_vars
  PROVE  [Judge!Next]_Judge!obligationvars
<1>1. ASSUME NEW ts \in Times, Tick(ts) PROVE Judge!Hear(ts)
  <2>1. Judged(total_events, ts, "liveness_window_expired", Expired(ts), {}, {}, {})
    BY <1>1, TickStep
  <2>2. ~ended /\ UNCHANGED ended
    BY <1>1 DEF Tick
  <2>3. QED
    BY <2>1, <2>2, JudgeHears
<1>2. ASSUME NEW ev \in Events, NEW ts \in Times, WireEvent(ev, ts) PROVE Judge!Hear(ts)
  <2>1. ev \in Event /\ ts \in Nat
    BY SpecAssumption
  <2>2. Judged(total_events + 1, ts, "liveness_window_expired", Expired(ts), Satisfied(ev, ts),
               Opened(ev, total_events + 1), Broken(ev))
    BY <1>2, <2>1, WireStep
  <2>3. ~ended /\ UNCHANGED ended
    BY <1>2 DEF WireEvent
  <2>4. \A id \in Satisfied(ev, ts), other \in Satisfied(ev, ts) : id = other
    BY AtMostOneSatisfied
  <2>5. \A id \in Opened(ev, total_events + 1) : ledger'[id].expires_at - ts \in TheWindows
    BY <1>2, <2>1, OpenedInTime
  <2>6. QED
    BY <2>2, <2>3, <2>4, <2>5, JudgeHears
<1>3. CASE EndOfStream
  <2>1. ledger' = Closed(open_obligations, "bolted") /\ ~ended /\ ended'
    BY <1>3 DEF EndOfStream
  <2>2. DOMAIN ledger' = DOMAIN ledger
    BY <2>1 DEF Closed
  <2>3. \A id \in DOMAIN ledger :
          /\ ledger'[id].state = IF id \in open_obligations THEN "bolted" ELSE ledger[id].state
          /\ ledger'[id].expires_at = ledger[id].expires_at
    BY <2>1 DEF Closed, TypeOK, Obligation
  <2>4. Fate' = [id \in DOMAIN Fate |-> IF id \in Judge!Open THEN "bolted" ELSE Fate[id]]
    BY <2>2, <2>3, JudgeSets DEF Fate
  <2>5. Deadline' = Deadline
    BY <2>2, <2>3 DEF Deadline
  <2>6. QED
    BY <2>1, <2>4, <2>5 DEF Judge!Next, Judge!End, Fate, Deadline
<1>4. CASE UNCHANGED vars
  BY <1>4 DEF vars, Judge!obligationvars
<1>5. QED
  BY <1>1, <1>2, <1>3, <1>4 DEF Next, Judge!Next

(* For any rules, events and timestamps, what becomes of an obligation is  *)
(* decided by its deadline, what is heard and the end of the session.      *)
THEOREM EngineImplementsObligations == Spec => ImplementsObligations
<1>1. Spec => Judge!Init
  BY JudgeInit DEF Spec
<1>2. TypeOK /\ [Next]_vars => [Judge!Next]_Judge!obligationvars
  BY JudgeStep
<1>3. QED
  BY <1>1, <1>2, EngineTypes, PTL DEF Spec, ImplementsObligations, Judge!Spec
=============================================================================
