--------------------------- MODULE MOReplayProofs ---------------------------
(***************************************************************************)
(* Judging a session live, with ticks, and again from its recording comes  *)
(* to the same, for every specification and every session in time order.   *)
(***************************************************************************)
EXTENDS MOReplay, MOEngineProofs

(* An obligation is the same to both engines, or only the live one has     *)
(* heard that its window is over.                                          *)
Overtaken(id) == /\ replay_ledger[id].state = "open" /\ ledger[id].state = "bolted"
                 /\ ~ended /\ last_ts > ledger[id].expires_at

SameObligation(id) ==
  /\ replay_ledger[id] \in Obligation
  /\ replay_ledger[id].identifier = ledger[id].identifier
  /\ replay_ledger[id].correlation = ledger[id].correlation
  /\ replay_ledger[id].expects = ledger[id].expects
  /\ replay_ledger[id].expires_at = ledger[id].expires_at
  /\ replay_ledger[id].state = ledger[id].state \/ Overtaken(id)

SameLedgers == /\ DOMAIN replay_ledger = DOMAIN ledger
               /\ \A id \in DOMAIN ledger : SameObligation(id)

(* Each has bolted what its ledger says.                                   *)
live_bolted   == {id \in DOMAIN ledger : ledger[id].state = "bolted"}
replay_bolted == {id \in DOMAIN replay_ledger : replay_ledger[id].state = "bolted"}

BoltsAreReported == /\ bolted_in(verdicts) = live_bolted
                    /\ bolted_in(replay_verdicts) = replay_bolted

SameCounters == /\ replay_seen = seen /\ replay_ended = ended
                /\ replay_total_events = total_events
                /\ replay_unmatched_events = unmatched_events

ReplayInv == /\ EngineInv /\ SameLedgers /\ SameCounters /\ BoltsAreReported
             /\ others_in(verdicts) = others_in(replay_verdicts)

-----------------------------------------------------------------------------
LEMMA ReplayInvEnough == ReplayInv => TicksOnlyHasten
<1> SUFFICES ASSUME ReplayInv PROVE TicksOnlyHasten
  OBVIOUS
<1>1. replay_bolted \subseteq live_bolted
  BY DEF ReplayInv, SameLedgers, SameObligation, Overtaken, replay_bolted, live_bolted
<1>2. ended => replay_bolted = live_bolted
  BY DEF ReplayInv, SameLedgers, SameObligation, Overtaken, replay_bolted, live_bolted
<1>3. QED
  BY <1>1, <1>2 DEF ReplayInv, SameCounters, BoltsAreReported, TicksOnlyHasten

LEMMA ReplayInit == Init /\ Replay!Init => ReplayInv
<1> SUFFICES ASSUME Init, Replay!Init PROVE ReplayInv
  OBVIOUS
<1>1. EngineInv
  BY InitEngine
<1>2. DOMAIN ledger = {} /\ DOMAIN replay_ledger = {} /\ verdicts = {} /\ replay_verdicts = {}
  BY DEF Init, Replay!Init
<1>3. SameLedgers
  BY <1>2 DEF SameLedgers
<1>4. SameCounters
  BY DEF SameCounters, Init, Replay!Init
<1>5. BoltsAreReported
  BY <1>2 DEF BoltsAreReported, bolted_in, live_bolted, replay_bolted
<1>6. others_in(verdicts) = others_in(replay_verdicts)
  BY <1>2
<1>7. QED
  BY <1>1, <1>3, <1>4, <1>5, <1>6 DEF ReplayInv

(* What verdicts a step adds, seen by the two halves of the comparison.    *)
AfterAdding(V, ids, kept, broken, n, ts, reason) ==
  V \cup _bolt(ids, n, ts, reason) \cup Fulfils(kept, n, ts) \cup Condemns(broken, n, ts)

LEMMA AddedVerdicts ==
  ASSUME NEW V, NEW ids, NEW kept, NEW broken, NEW n, NEW ts, NEW reason
  PROVE  /\ bolted_in(AfterAdding(V, ids, kept, broken, n, ts, reason)) = bolted_in(V) \cup ids
         /\ others_in(AfterAdding(V, ids, kept, broken, n, ts, reason))
              = others_in(V) \cup Fulfils(kept, n, ts) \cup Condemns(broken, n, ts)
<1> DEFINE W == AfterAdding(V, ids, kept, broken, n, ts, reason)
<1> DEFINE B == _bolt(ids, n, ts, reason)
           F == Fulfils(kept, n, ts)
           C == Condemns(broken, n, ts)
<1>1. /\ \A v \in B : v.kind = "BOLTED" /\ v.of \in ids
      /\ \A v \in F \cup C : v.kind # "BOLTED"
  BY DEF _bolt, Fulfils, Condemns, Verdict
<1>2. ASSUME NEW id \in ids PROVE \E v \in B : v.of = id
  <2>1. Verdict("BOLTED", id, n, ts, reason) \in B /\ Verdict("BOLTED", id, n, ts, reason).of = id
    BY DEF _bolt, Verdict
  <2>2. QED
    BY <2>1
<1>3. W = V \cup B \cup F \cup C
  BY DEF AfterAdding
<1> HIDE DEF B, F, C, W
<1>4. {u \in W : u.kind = "BOLTED"} = {u \in V : u.kind = "BOLTED"} \cup B
  BY <1>1, <1>3
<1>5. bolted_in(W) = bolted_in(V) \cup ids
  BY <1>1, <1>2, <1>4 DEF bolted_in
<1>6. others_in(W) = others_in(V) \cup F \cup C
  BY <1>1, <1>3 DEF others_in
<1>7. QED
  BY <1>5, <1>6 DEF F, C, W

-----------------------------------------------------------------------------
(* A step of the replaying engine, as Judged is one of the live engine.    *)
ReplayBecomes(id, state) ==
  /\ replay_ledger'[id] \in Obligation /\ replay_ledger'[id].state = state
  /\ replay_ledger'[id].identifier = replay_ledger[id].identifier
  /\ replay_ledger'[id].correlation = replay_ledger[id].correlation
  /\ replay_ledger'[id].expects = replay_ledger[id].expects
  /\ replay_ledger'[id].expires_at = replay_ledger[id].expires_at

ReplayJudged(n, ts, reason, late, kept, fresh, broken) ==
  /\ late \subseteq Replay!open_obligations /\ kept \subseteq Replay!open_obligations \ late
  /\ fresh \cap DOMAIN replay_ledger = {} /\ DOMAIN replay_ledger' = DOMAIN replay_ledger \cup fresh
  /\ \A id \in late : ReplayBecomes(id, "bolted")
  /\ \A id \in kept : ReplayBecomes(id, "fulfilled")
  /\ \A id \in DOMAIN replay_ledger \ (late \cup kept) : ReplayBecomes(id, replay_ledger[id].state)
  /\ \A id \in fresh : replay_ledger'[id] = ledger'[id]
  /\ replay_verdicts' = replay_verdicts \cup _bolt(late, n, ts, reason)
                          \cup Fulfils(kept, n, ts) \cup Condemns(broken, n, ts)

(* When both judge the same, and what the replay bolts besides was bolted  *)
(* already, they agree as before and on every obligation.                  *)
LEMMA JudgedAlike ==
  ASSUME ReplayInv, NEW n, NEW ts, NEW reason, NEW late, NEW replay_late, NEW kept, NEW fresh, NEW broken,
         NEW m, NEW rts,
         Judged(n, ts, reason, late, kept, fresh, broken),
         ReplayJudged(m, rts, reason, replay_late, kept, fresh, broken),
         Fulfils(kept, n, ts) \cup Condemns(broken, n, ts) = Fulfils(kept, m, rts) \cup Condemns(broken, m, rts),
         late \subseteq replay_late,
         \A id \in DOMAIN ledger : Overtaken(id) => id \in replay_late,
         \A id \in replay_late : id \in late \/ ledger[id].state = "bolted"
  PROVE  /\ SameLedgers' /\ BoltsAreReported'
         /\ others_in(verdicts)' = others_in(replay_verdicts)'
<1>0. SameLedgers /\ BoltsAreReported /\ others_in(verdicts) = others_in(replay_verdicts)
  BY DEF ReplayInv
<1>1. DOMAIN ledger' = DOMAIN ledger \cup fresh /\ DOMAIN replay_ledger' = DOMAIN ledger \cup fresh
  BY <1>0 DEF Judged, ReplayJudged, SameLedgers
<1>2. /\ late \subseteq open_obligations /\ kept \subseteq open_obligations
      /\ open_obligations \subseteq DOMAIN ledger /\ fresh \cap DOMAIN ledger = {}
      /\ replay_late \subseteq DOMAIN ledger /\ kept \cap replay_late = {}
  BY <1>0 DEF Judged, ReplayJudged, SameLedgers, open_obligations, Replay!open_obligations
<1>3. ASSUME NEW id \in DOMAIN ledger
      PROVE  /\ replay_ledger'[id] \in Obligation
             /\ ledger'[id].state = IF id \in late THEN "bolted"
                                    ELSE IF id \in kept THEN "fulfilled" ELSE ledger[id].state
             /\ replay_ledger'[id].state = IF id \in replay_late THEN "bolted"
                                    ELSE IF id \in kept THEN "fulfilled" ELSE replay_ledger[id].state
             /\ ledger'[id].identifier = ledger[id].identifier /\ ledger'[id].correlation = ledger[id].correlation
             /\ ledger'[id].expects = ledger[id].expects /\ ledger'[id].expires_at = ledger[id].expires_at
             /\ replay_ledger'[id].identifier = replay_ledger[id].identifier
             /\ replay_ledger'[id].correlation = replay_ledger[id].correlation
             /\ replay_ledger'[id].expects = replay_ledger[id].expects
             /\ replay_ledger'[id].expires_at = replay_ledger[id].expires_at
  <2>1. /\ Becomes(id, IF id \in late THEN "bolted" ELSE IF id \in kept THEN "fulfilled" ELSE ledger[id].state)
        /\ ReplayBecomes(id, IF id \in replay_late THEN "bolted"
                             ELSE IF id \in kept THEN "fulfilled" ELSE replay_ledger[id].state)
    BY <1>0, <1>2 DEF Judged, ReplayJudged, SameLedgers
  <2>2. QED
    BY <2>1 DEF Becomes, ReplayBecomes
<1>4. ASSUME NEW id \in DOMAIN ledger
      PROVE  replay_ledger'[id].state = ledger'[id].state
  <2>1. replay_ledger[id].state = ledger[id].state \/ Overtaken(id)
    BY <1>0 DEF SameLedgers, SameObligation
  <2>2. CASE id \in replay_late
    BY <1>2, <1>3, <2>2 DEF open_obligations
  <2>3. CASE id \notin replay_late
    BY <1>3, <2>1, <2>3
  <2>4. QED
    BY <2>2, <2>3
<1>5. SameLedgers'
  <2> SUFFICES ASSUME NEW id \in DOMAIN ledger' PROVE SameObligation(id)'
    BY <1>1 DEF SameLedgers
  <2>1. CASE id \in DOMAIN ledger
    BY <1>0, <1>3, <1>4, <2>1 DEF SameObligation, SameLedgers
  <2>2. CASE id \in fresh
    BY <2>2 DEF ReplayJudged, Judged, SameObligation
  <2>3. QED
    BY <1>1, <2>1, <2>2
<1>6. live_bolted' = live_bolted \cup late
  <2>1. \A id \in fresh : ledger'[id].state # "bolted"
    BY DEF Judged
  <2>2. \A id \in kept \cup late : ledger[id].state # "bolted"
    BY <1>2 DEF open_obligations
  <2>3. \A id \in DOMAIN ledger' : ledger'[id].state = "bolted" <=> id \in live_bolted \cup late
    BY <1>1, <1>2, <1>3, <2>1, <2>2 DEF live_bolted
  <2>4. live_bolted \cup late \subseteq DOMAIN ledger'
    BY <1>1, <1>2 DEF live_bolted
  <2>5. live_bolted' = {id \in DOMAIN ledger' : ledger'[id].state = "bolted"}
    BY DEF live_bolted
  <2>6. QED
    BY <2>3, <2>4, <2>5
<1>7. replay_bolted' = replay_bolted \cup replay_late
  <2>1. \A id \in fresh : replay_ledger'[id].state # "bolted"
    BY DEF ReplayJudged, Judged
  <2>2. \A id \in kept : replay_ledger[id].state # "bolted"
    BY DEF ReplayJudged, Replay!open_obligations
  <2>3. \A id \in DOMAIN replay_ledger' :
          replay_ledger'[id].state = "bolted" <=> id \in replay_bolted \cup replay_late
    BY <1>0, <1>1, <1>2, <1>3, <2>1, <2>2 DEF replay_bolted, SameLedgers
  <2>4. replay_bolted \cup replay_late \subseteq DOMAIN replay_ledger'
    BY <1>0, <1>1, <1>2 DEF replay_bolted, SameLedgers
  <2>5. replay_bolted' = {id \in DOMAIN replay_ledger' : replay_ledger'[id].state = "bolted"}
    BY DEF replay_bolted
  <2>6. QED
    BY <2>3, <2>4, <2>5
<1>8. /\ bolted_in(verdicts') = bolted_in(verdicts) \cup late
      /\ others_in(verdicts') = others_in(verdicts) \cup Fulfils(kept, n, ts) \cup Condemns(broken, n, ts)
  <2>1. verdicts' = AfterAdding(verdicts, late, kept, broken, n, ts, reason)
    BY DEF Judged, AfterAdding
  <2>2. QED
    BY <2>1, AddedVerdicts
<1>9. /\ bolted_in(replay_verdicts') = bolted_in(replay_verdicts) \cup replay_late
      /\ others_in(replay_verdicts') = others_in(replay_verdicts)
           \cup Fulfils(kept, m, rts) \cup Condemns(broken, m, rts)
  <2>1. replay_verdicts' = AfterAdding(replay_verdicts, replay_late, kept, broken, m, rts, reason)
    BY DEF ReplayJudged, AfterAdding
  <2>2. QED
    BY <2>1, AddedVerdicts
<1>10. /\ bolted_in(verdicts)' = bolted_in(verdicts') /\ others_in(verdicts)' = others_in(verdicts')
       /\ bolted_in(replay_verdicts)' = bolted_in(replay_verdicts')
       /\ others_in(replay_verdicts)' = others_in(replay_verdicts')
  BY DEF bolted_in, others_in
<1>11. BoltsAreReported'
  BY <1>0, <1>6, <1>7, <1>8, <1>9, <1>10 DEF BoltsAreReported
<1>12. others_in(verdicts)' = others_in(replay_verdicts)'
  BY <1>0, <1>8, <1>9, <1>10
<1>13. QED
  BY <1>5, <1>11, <1>12

-----------------------------------------------------------------------------
(* What the two engines have in common before a step.                      *)
LEMMA Shared ==
  ASSUME ReplayInv, NEW id \in DOMAIN ledger
  PROVE  /\ ledger[id] \in Obligation /\ replay_ledger[id] \in Obligation
         /\ SameObligation(id) /\ DOMAIN replay_ledger = DOMAIN ledger
         /\ id \in open_obligations => id \in Replay!open_obligations
         /\ id \in Replay!open_obligations => id \in open_obligations \/ Overtaken(id)
BY DEF ReplayInv, EngineInv, TypeOK, SameLedgers, SameObligation, Overtaken, open_obligations,
       Replay!open_obligations

LEMMA HearTickStep ==
  ASSUME ReplayInv, NEW ts \in Nat, InOrder(ts), Tick(ts), UNCHANGED replayvars
  PROVE  /\ SameLedgers' /\ SameCounters' /\ BoltsAreReported'
         /\ others_in(verdicts)' = others_in(replay_verdicts)'
<1>0. /\ TypeOK /\ SameLedgers /\ SameCounters /\ BoltsAreReported
      /\ others_in(verdicts) = others_in(replay_verdicts)
  BY DEF ReplayInv, EngineInv
<1>1. Judged(total_events, ts, "liveness_window_expired", Expired(ts), {}, {}, {})
  BY <1>0, TickStep
<1>2. /\ replay_ledger' = replay_ledger /\ replay_verdicts' = replay_verdicts
      /\ replay_seen' = replay_seen /\ replay_ended' = replay_ended
      /\ replay_total_events' = replay_total_events
      /\ replay_unmatched_events' = replay_unmatched_events
  BY DEF replayvars
<1>3. /\ last_ts' = ts /\ ~ended /\ ended' = ended /\ last_ts \in Nat /\ ts >= last_ts
      /\ UNCHANGED <<seen, total_events, unmatched_events>>
  BY <1>0 DEF Tick, TypeOK, InOrder
<1>4. SameCounters'
  BY <1>0, <1>2, <1>3 DEF SameCounters
<1>5. DOMAIN ledger' = DOMAIN ledger /\ DOMAIN replay_ledger = DOMAIN ledger
  BY <1>0, <1>1 DEF Judged, SameLedgers
<1>6. ASSUME NEW id \in DOMAIN ledger
      PROVE  /\ Becomes(id, IF id \in Expired(ts) THEN "bolted" ELSE ledger[id].state)
             /\ SameObligation(id) /\ ledger[id] \in Obligation
             /\ id \in Expired(ts) => ledger[id].state = "open" /\ ts > ledger[id].expires_at
  BY <1>1, Shared DEF Judged, Expired, open_obligations
<1>7. ASSUME NEW id \in DOMAIN ledger PROVE SameObligation(id)'
  <2>1. ledger[id].expires_at \in Int
    BY <1>6 DEF Obligation
  <2>2. CASE id \in Expired(ts)
    <3>1. ledger'[id].state = "bolted" /\ ledger'[id].expires_at = ledger[id].expires_at
      BY <1>6, <2>2 DEF Becomes
    <3>2. replay_ledger'[id].state = "open"
      BY <1>2, <1>6, <2>2 DEF SameObligation, Overtaken
    <3>3. Overtaken(id)'
      BY <1>3, <1>6, <2>2, <3>1, <3>2 DEF Overtaken
    <3>4. QED
      BY <1>2, <1>6, <2>2, <3>3 DEF SameObligation, Becomes
  <2>3. CASE id \notin Expired(ts)
    <3>1. ledger'[id].state = ledger[id].state /\ ledger'[id].expires_at = ledger[id].expires_at
      BY <1>6, <2>3 DEF Becomes
    <3>2. Overtaken(id) => Overtaken(id)'
      BY <1>2, <1>3, <2>1, <3>1 DEF Overtaken
    <3>3. QED
      BY <1>2, <1>6, <2>3, <3>1, <3>2 DEF SameObligation, Becomes
  <2>4. QED
    BY <2>2, <2>3
<1>8. SameLedgers'
  BY <1>2, <1>5, <1>7 DEF SameLedgers
<1>9. /\ bolted_in(verdicts') = bolted_in(verdicts) \cup Expired(ts)
      /\ others_in(verdicts') = others_in(verdicts)
  <2>1. verdicts' = AfterAdding(verdicts, Expired(ts), {}, {}, total_events, ts, "liveness_window_expired")
    BY <1>1 DEF Judged, AfterAdding
  <2>2. Fulfils({}, total_events, ts) = {} /\ Condemns({}, total_events, ts) = {}
    BY DEF Fulfils, Condemns
  <2>3. QED
    BY <2>1, <2>2, AddedVerdicts
<1>10. live_bolted' = live_bolted \cup Expired(ts)
  <2>1. \A id \in DOMAIN ledger : ledger'[id].state = "bolted" <=> id \in live_bolted \cup Expired(ts)
    BY <1>6 DEF Becomes, live_bolted
  <2>2. live_bolted \cup Expired(ts) \subseteq DOMAIN ledger
    BY DEF live_bolted, Expired, open_obligations
  <2>3. live_bolted' = {id \in DOMAIN ledger' : ledger'[id].state = "bolted"}
    BY DEF live_bolted
  <2>4. QED
    BY <1>5, <2>1, <2>2, <2>3
<1>11. BoltsAreReported'
  BY <1>0, <1>2, <1>9, <1>10 DEF BoltsAreReported, bolted_in, replay_bolted
<1>12. others_in(verdicts)' = others_in(replay_verdicts)'
  BY <1>0, <1>2, <1>9 DEF others_in
<1>13. QED
  BY <1>4, <1>8, <1>11, <1>12

(* The replay has not heard of the windows only a tick closed; the event   *)
(* tells it, before anything else is made of the event.                    *)
LEMMA ReplayCatchesUp ==
  ASSUME ReplayInv, NEW ts \in Nat, InOrder(ts)
  PROVE  /\ Expired(ts) \subseteq Replay!Expired(ts)
         /\ \A id \in DOMAIN ledger : Overtaken(id) => id \in Replay!Expired(ts)
         /\ \A id \in Replay!Expired(ts) : id \in Expired(ts) \/ ledger[id].state = "bolted"
         /\ open_obligations \ Expired(ts) = Replay!open_obligations \ Replay!Expired(ts)
<1>1. DOMAIN replay_ledger = DOMAIN ledger /\ last_ts \in Nat
  BY DEF ReplayInv, EngineInv, TypeOK, SameLedgers
<1>2. ASSUME NEW id \in DOMAIN ledger
      PROVE  /\ SameObligation(id) /\ ledger[id].expires_at \in Int
             /\ id \in Replay!Expired(ts) <=> /\ replay_ledger[id].state = "open"
                                              /\ ts > ledger[id].expires_at
             /\ id \in Expired(ts) <=> ledger[id].state = "open" /\ ts > ledger[id].expires_at
  BY <1>1, Shared DEF Expired, Replay!Expired, open_obligations, Replay!open_obligations, SameObligation,
                      Obligation
<1>3. ASSUME NEW id \in DOMAIN ledger
      PROVE  /\ id \in Expired(ts) => id \in Replay!Expired(ts)
             /\ Overtaken(id) => id \in Replay!Expired(ts)
             /\ id \in Replay!Expired(ts) => id \in Expired(ts) \/ ledger[id].state = "bolted"
             /\ id \in open_obligations \ Expired(ts)
                  <=> id \in Replay!open_obligations \ Replay!Expired(ts)
  <2>1. Overtaken(id) => id \in Replay!Expired(ts)
    BY <1>1, <1>2 DEF Overtaken, InOrder
  <2>2. id \in Expired(ts) => id \in Replay!Expired(ts)
    BY <1>2 DEF SameObligation, Overtaken
  <2>3. id \in Replay!Expired(ts) => id \in Expired(ts) \/ ledger[id].state = "bolted"
    BY <1>2 DEF SameObligation, Overtaken
  <2>4. id \in open_obligations \ Expired(ts) <=> id \in Replay!open_obligations \ Replay!Expired(ts)
    BY <1>1, <1>2, <2>1, <2>2 DEF SameObligation, Overtaken, open_obligations, Replay!open_obligations
  <2>5. QED
    BY <2>1, <2>2, <2>3, <2>4
<1>4. /\ open_obligations \subseteq DOMAIN ledger /\ Replay!open_obligations \subseteq DOMAIN ledger
      /\ Expired(ts) \subseteq DOMAIN ledger /\ Replay!Expired(ts) \subseteq DOMAIN ledger
  BY <1>1 DEF open_obligations, Replay!open_obligations, Expired, Replay!Expired
<1>5. QED
  BY <1>3, <1>4

(* Both engines let the same obligation have the event.                    *)
LEMMA SameSatisfied ==
  ASSUME ReplayInv, NEW ts \in Nat, InOrder(ts), NEW ev \in Event
  PROVE  Replay!Satisfied(ev, ts) = Satisfied(ev, ts)
<1>1. open_obligations \ Expired(ts) = Replay!open_obligations \ Replay!Expired(ts)
  BY ReplayCatchesUp
<1>2. \A id \in open_obligations : Fits(id, ev) <=> Replay!Fits(id, ev)
  BY Shared DEF Fits, Replay!Fits, SameObligation, open_obligations
<1>3. Replay!Candidates(ev, ts) = Candidates(ev, ts)
  BY <1>1, <1>2 DEF Candidates, Replay!Candidates
<1>4. QED
  BY <1>3 DEF Satisfied, Replay!Satisfied, Before, Replay!Before

(* What the replay makes of an event, the sets it computes named.          *)
ReplayHears(ev, ts, n, observed, kept, broken, fired) ==
  /\ replay_seen' = observed
  /\ replay_ledger' = Replay!LedgerAfter(ev, ts, n, fired)
  /\ replay_verdicts' = replay_verdicts
       \cup Replay!_bolt(Replay!Expired(ts), n, ts, "liveness_window_expired")
       \cup {Replay!Verdict("FULFILLED", id, n, ts, "satisfied") : id \in kept}
       \cup {Replay!Verdict("CONDEMNED", <<n, r>>, n, ts, "assertion") : r \in broken}
  /\ replay_unmatched_events' = replay_unmatched_events
       + (IF Replay!matched(kept, broken, fired) THEN 0 ELSE 1)
  /\ replay_total_events' = n /\ replay_ended' = replay_ended

LEMMA HearEventStep ==
  ASSUME ReplayInv, NEW ts \in Nat, InOrder(ts), NEW ev \in Event,
         WireEvent(ev, ts), Replay!WireEvent(ev, ts)
  PROVE  /\ SameLedgers' /\ SameCounters' /\ BoltsAreReported'
         /\ others_in(verdicts)' = others_in(replay_verdicts)'
<1>n. PICK n : n = total_events + 1
  OBVIOUS
<1>0. TypeOK /\ SameLedgers /\ SameCounters
  BY DEF ReplayInv, EngineInv
<1>1. Judged(n, ts, "liveness_window_expired", Expired(ts), Satisfied(ev, ts), Opened(ev, n), Broken(ev))
  BY <1>n, <1>0, WireStep
<1>2. Replay!Satisfied(ev, ts) = Satisfied(ev, ts)
  BY SameSatisfied
<1>3. /\ {r \in DOMAIN Triggers : Replay!fires_on(r, ev)} = Fired(ev)
      /\ [replay_seen EXCEPT ![ev.primitive] = @ \cup {ev.identifier}] = Observed(ev)
      /\ \A r : Replay!violated_by(r, ev, Observed(ev)) <=> violated_by(r, ev, Observed(ev))
      /\ replay_total_events + 1 = n
  <2>1. \A r : Replay!fires_on(r, ev) <=> fires_on(r, ev)
    BY DEF fires_on, Replay!fires_on
  <2>2. \A r : Replay!violated_by(r, ev, Observed(ev)) <=> violated_by(r, ev, Observed(ev))
    BY DEF violated_by, Replay!violated_by
  <2>3. replay_seen = seen /\ replay_total_events = total_events
    BY <1>0 DEF SameCounters
  <2>4. {r \in DOMAIN Triggers : Replay!fires_on(r, ev)} = Fired(ev)
    BY <2>1 DEF Fired
  <2>5. [replay_seen EXCEPT ![ev.primitive] = @ \cup {ev.identifier}] = Observed(ev)
    BY <2>3 DEF Observed
  <2>6. replay_total_events + 1 = n
    BY <1>n, <2>3
  <2>7. QED
    BY <2>2, <2>4, <2>5, <2>6
<1>4. {r \in DOMAIN Assertions : Replay!violated_by(r, ev, Observed(ev))} = Broken(ev)
  BY <1>3 DEF Broken
<1>5. ASSUME NEW observed, observed = [replay_seen EXCEPT ![ev.primitive] = @ \cup {ev.identifier}],
             NEW broken, broken = {r \in DOMAIN Assertions : Replay!violated_by(r, ev, observed)},
             NEW fired, fired = {r \in DOMAIN Triggers : Replay!fires_on(r, ev)},
             NEW kept, kept = Replay!Satisfied(ev, ts), NEW k, k = replay_total_events + 1
      PROVE  ReplayHears(ev, ts, k, observed, kept, broken, fired)
  BY <1>5, Zenon DEF Replay!WireEvent, ReplayHears
<1>6. ReplayHears(ev, ts, n, Observed(ev), Satisfied(ev, ts), Broken(ev), Fired(ev))
  BY <1>2, <1>3, <1>4, <1>5
<1>7. /\ replay_ledger' = Replay!LedgerAfter(ev, ts, n, Fired(ev))
      /\ replay_verdicts' = replay_verdicts \cup _bolt(Replay!Expired(ts), n, ts, "liveness_window_expired")
                              \cup Fulfils(Satisfied(ev, ts), n, ts) \cup Condemns(Broken(ev), n, ts)
  <2>1. /\ Replay!_bolt(Replay!Expired(ts), n, ts, "liveness_window_expired")
             = _bolt(Replay!Expired(ts), n, ts, "liveness_window_expired")
        /\ {Replay!Verdict("FULFILLED", id, n, ts, "satisfied") : id \in Satisfied(ev, ts)}
             = Fulfils(Satisfied(ev, ts), n, ts)
        /\ {Replay!Verdict("CONDEMNED", <<n, r>>, n, ts, "assertion") : r \in Broken(ev)}
             = Condemns(Broken(ev), n, ts)
    BY DEF _bolt, Replay!_bolt, Verdict, Replay!Verdict, Fulfils, Condemns
  <2>2. QED
    BY <1>6, <2>1 DEF ReplayHears
<1>8. SameCounters'
  <2>1. /\ seen' = Observed(ev) /\ total_events' = n /\ ended' = ended
        /\ unmatched_events' = unmatched_events
             + (IF matched(Satisfied(ev, ts), Broken(ev), Fired(ev)) THEN 0 ELSE 1)
    BY <1>n DEF WireEvent, Observed, Broken, Fired
  <2>2. QED
    BY <1>0, <1>6, <2>1 DEF ReplayHears, SameCounters, matched, Replay!matched
<1>9. DOMAIN replay_ledger = DOMAIN ledger /\ \A id \in DOMAIN ledger : replay_ledger[id] \in Obligation
  BY <1>0 DEF SameLedgers, SameObligation
<1>10. DOMAIN replay_ledger' = DOMAIN replay_ledger \cup Opened(ev, n)
  BY <1>7 DEF Replay!LedgerAfter, Opened
<1>11. ASSUME NEW id \in DOMAIN replay_ledger
      PROVE  ReplayBecomes(id, IF id \in Replay!Expired(ts) THEN "bolted"
                               ELSE IF id \in Satisfied(ev, ts) THEN "fulfilled" ELSE replay_ledger[id].state)
  <2>1. replay_ledger'[id] = [replay_ledger[id] EXCEPT !.state =
                                IF id \in Replay!Expired(ts) THEN "bolted"
                                ELSE IF id \in Satisfied(ev, ts) THEN "fulfilled" ELSE @]
    BY <1>2, <1>7 DEF Replay!LedgerAfter
  <2>2. QED
    BY <1>9, <2>1 DEF ReplayBecomes, Obligation
<1>12. ASSUME NEW id \in Opened(ev, n) PROVE replay_ledger'[id] = ledger'[id]
  <2>1. id \notin DOMAIN ledger /\ id \notin DOMAIN replay_ledger
    BY <1>1, <1>9 DEF Judged
  <2>2. ledger'[id] = make_obligation(id[2], ev, ts)
    BY <1>n, <2>1 DEF WireEvent, LedgerAfter, Opened, Fired
  <2>3. replay_ledger'[id] = Replay!make_obligation(id[2], ev, ts)
    BY <1>7, <2>1 DEF Replay!LedgerAfter, Opened
  <2>4. QED
    BY <2>2, <2>3 DEF make_obligation, Replay!make_obligation
<1>13. /\ Replay!Expired(ts) \subseteq Replay!open_obligations
       /\ Satisfied(ev, ts) \subseteq Replay!open_obligations \ Replay!Expired(ts)
       /\ Replay!open_obligations \subseteq DOMAIN replay_ledger
       /\ Opened(ev, n) \cap DOMAIN replay_ledger = {}
  <2>1. Satisfied(ev, ts) \subseteq open_obligations \ Expired(ts)
    BY DEF Satisfied, Candidates
  <2>2. open_obligations \ Expired(ts) = Replay!open_obligations \ Replay!Expired(ts)
    BY ReplayCatchesUp
  <2>3. QED
    BY <1>1, <1>9, <2>1, <2>2 DEF Replay!Expired, Replay!open_obligations, Judged
<1>14. ReplayJudged(n, ts, "liveness_window_expired", Replay!Expired(ts), Satisfied(ev, ts), Opened(ev, n), Broken(ev))
  <2>1. \A id \in Replay!Expired(ts) : ReplayBecomes(id, "bolted")
    BY <1>11, <1>13
  <2>2. \A id \in Satisfied(ev, ts) : ReplayBecomes(id, "fulfilled")
    BY <1>11, <1>13
  <2>3. \A id \in DOMAIN replay_ledger \ (Replay!Expired(ts) \cup Satisfied(ev, ts)) :
          ReplayBecomes(id, replay_ledger[id].state)
    BY <1>11
  <2>4. QED
    BY <1>7, <1>10, <1>12, <1>13, <2>1, <2>2, <2>3 DEF ReplayJudged
<1>15. /\ Expired(ts) \subseteq Replay!Expired(ts)
       /\ \A id \in DOMAIN ledger : Overtaken(id) => id \in Replay!Expired(ts)
       /\ \A id \in Replay!Expired(ts) : id \in Expired(ts) \/ ledger[id].state = "bolted"
  BY ReplayCatchesUp
<1>16. QED
  BY <1>1, <1>8, <1>14, <1>15, JudgedAlike

LEMMA SessionEndsStep ==
  ASSUME ReplayInv, EndOfStream, Replay!EndOfStream
  PROVE  /\ SameLedgers' /\ SameCounters' /\ BoltsAreReported'
         /\ others_in(verdicts)' = others_in(replay_verdicts)'
<1>0. TypeOK /\ SameLedgers /\ SameCounters
  BY DEF ReplayInv, EngineInv
<1>1. PICK n, m, ts, rts : n = total_events /\ m = replay_total_events /\ ts = last_ts /\ rts = replay_last_ts
  OBVIOUS
<1>2. Judged(n, ts, "session_ended_unresolved", open_obligations, {}, {}, {})
  BY <1>0, <1>1, EndStep
<1>3. DOMAIN replay_ledger = DOMAIN ledger /\ \A id \in DOMAIN ledger : replay_ledger[id] \in Obligation
  BY <1>0 DEF SameLedgers, SameObligation
<1>4. /\ replay_ledger' = Replay!Closed(Replay!open_obligations, "bolted")
      /\ replay_verdicts' = replay_verdicts \cup _bolt(Replay!open_obligations, m, rts, "session_ended_unresolved")
  BY <1>1 DEF Replay!EndOfStream, _bolt, Replay!_bolt, Verdict, Replay!Verdict
<1>5. DOMAIN replay_ledger' = DOMAIN replay_ledger
  BY <1>4 DEF Replay!Closed
<1>6. ASSUME NEW id \in DOMAIN replay_ledger
      PROVE  ReplayBecomes(id, IF id \in Replay!open_obligations THEN "bolted" ELSE replay_ledger[id].state)
  <2>1. replay_ledger'[id] = IF id \in Replay!open_obligations
                               THEN [replay_ledger[id] EXCEPT !.state = "bolted"] ELSE replay_ledger[id]
    BY <1>4 DEF Replay!Closed
  <2>2. QED
    BY <1>3, <2>1 DEF ReplayBecomes, Obligation
<1>7. Replay!open_obligations \subseteq DOMAIN replay_ledger
  BY DEF Replay!open_obligations
<1>8. \A k, t : Fulfils({}, k, t) = {} /\ Condemns({}, k, t) = {}
  BY DEF Fulfils, Condemns
<1>9. ReplayJudged(m, rts, "session_ended_unresolved", Replay!open_obligations, {}, {}, {})
  BY <1>4, <1>5, <1>6, <1>7, <1>8 DEF ReplayJudged
<1>10. /\ open_obligations \subseteq DOMAIN ledger
       /\ \A id \in DOMAIN ledger : /\ id \in open_obligations => id \in Replay!open_obligations
                                    /\ id \in Replay!open_obligations => id \in open_obligations \/ Overtaken(id)
  BY Shared DEF open_obligations
<1>11. \A id \in DOMAIN ledger : Overtaken(id) => id \in Replay!open_obligations /\ ledger[id].state = "bolted"
  BY <1>3 DEF Overtaken, Replay!open_obligations
<1>12. SameLedgers' /\ BoltsAreReported' /\ others_in(verdicts)' = others_in(replay_verdicts)'
  <2>1. Fulfils({}, n, ts) \cup Condemns({}, n, ts) = Fulfils({}, m, rts) \cup Condemns({}, m, rts)
    BY <1>8
  <2>2. /\ open_obligations \subseteq Replay!open_obligations
        /\ \A id \in Replay!open_obligations : id \in open_obligations \/ ledger[id].state = "bolted"
    BY <1>3, <1>7, <1>10, <1>11
  <2>3. QED
    BY <1>2, <1>9, <1>11, <2>1, <2>2, JudgedAlike
<1>13. SameCounters'
  BY <1>0 DEF SameCounters, EndOfStream, Replay!EndOfStream
<1>14. QED
  BY <1>12, <1>13

-----------------------------------------------------------------------------
LEMMA ReplayStep == ReplayInv /\ [SessionNext]_<<vars, replayvars>> => ReplayInv'
<1> SUFFICES ASSUME ReplayInv, [SessionNext]_<<vars, replayvars>> PROVE ReplayInv'
  OBVIOUS
<1>0. EngineInv
  BY DEF ReplayInv
<1>1. ASSUME NEW ts \in Times, InOrder(ts), Tick(ts), UNCHANGED replayvars PROVE ReplayInv'
  <2>1. EngineInv'
    BY <1>0, <1>1, EngineStep DEF Next
  <2>2. ts \in Nat
    BY SpecAssumption
  <2>3. QED
    BY <1>1, <2>1, <2>2, HearTickStep DEF ReplayInv
<1>2. ASSUME NEW ev \in Events, NEW ts \in Times, InOrder(ts), WireEvent(ev, ts), Replay!WireEvent(ev, ts)
      PROVE  ReplayInv'
  <2>1. EngineInv'
    BY <1>0, <1>2, EngineStep DEF Next
  <2>2. ts \in Nat /\ ev \in Event
    BY SpecAssumption
  <2>3. QED
    BY <1>2, <2>1, <2>2, HearEventStep DEF ReplayInv
<1>3. CASE SessionEnds
  <2>1. EndOfStream /\ Replay!EndOfStream
    BY <1>3 DEF SessionEnds
  <2>2. EngineInv'
    BY <1>0, <2>1, EngineStep DEF Next
  <2>3. QED
    BY <2>1, <2>2, SessionEndsStep DEF ReplayInv
<1>4. CASE UNCHANGED <<vars, replayvars>>
  <2>1. EngineInv' /\ UNCHANGED vars /\ UNCHANGED replayvars
    BY <1>0, <1>4, EngineStep
  <2>2. SameLedgers' /\ SameCounters' /\ BoltsAreReported'
    BY <2>1 DEF ReplayInv, vars, replayvars, SameLedgers, SameObligation, Overtaken, SameCounters,
                BoltsAreReported, bolted_in, live_bolted, replay_bolted
  <2>3. others_in(verdicts)' = others_in(replay_verdicts)'
    BY <2>1 DEF ReplayInv, vars, replayvars, others_in
  <2>4. QED
    BY <2>1, <2>2, <2>3 DEF ReplayInv
<1>5. QED
  BY <1>1, <1>2, <1>3, <1>4 DEF SessionNext, HearTick, HearEvent

(* A session in time order and its recording come to the same verdicts and *)
(* the same coverage, and a tick only brings a bolt forward.               *)
THEOREM ReplayIsFaithful == SessionSpec => []TicksOnlyHasten
BY ReplayInit, ReplayStep, ReplayInvEnough, PTL DEF SessionSpec
=============================================================================
