--------------------------- MODULE LiveTailProofs ---------------------------
(***************************************************************************)
(* A live session of MO, for every set of records and ids, every clock and *)
(* every way the log may grow: a result is heard as the answer of the      *)
(* latest call with its id, no frame is dropped, no event is out of order, *)
(* and the tailer hands on the lines as SessionFeed says.                  *)
(***************************************************************************)
EXTENDS LiveTail, TLAPS, WellFoundedInduction

CallLine(line, id)   == line.kind = "frame" /\ IsCall(line.frame) /\ line.frame.id = id
ResultLine(line, id) == line.kind = "frame" /\ HasResult(line.frame) /\ line.frame.id = id

(* Call i waits for its answer: its id has not been seen since.            *)
Waits(i, id) == /\ i \in CallsWith(id)
                /\ \A k \in DOMAIN handed : k \in CallsWith(id) \cup ResultsWith(id) => k <= i

(* The map holds the calls that wait, under the names they were made by.   *)
PendingWaits     == \A id \in DOMAIN pending : \E i \in DOMAIN handed :
                      Waits(i, id) /\ pending[id] = handed[i].frame.name
WaitingIsPending == \A id \in Ids : (\E i \in DOMAIN handed : Waits(i, id)) => id \in DOMAIN pending

Announces(c, frame) == /\ c.primitive = "tool_called" /\ c.identifier = frame.name
                       /\ c.correlation = corr(frame.id)

CallsAnnounced == \A i \in DOMAIN handed : IsFrame(i) /\ IsCall(handed[i].frame) =>
                    \E c \in EventsOf(i) : Announces(c, handed[i].frame)

(* The two halves of NothingSilentlyDropped.                               *)
FramesLeaveEvents == \A k \in DOMAIN handed : IsFrame(k) =>
                       IF IsList(handed[k].frame)
                         THEN {e.identifier : e \in EventsOf(k)} = ToolsNamed(handed[k].frame)
                         ELSE EventsOf(k) # {}
EventsInOrder     == \A i, j \in DOMAIN delivered :
                       i < j /\ delivered[i].of # 0 /\ delivered[j].of # 0
                         => delivered[i].of <= delivered[j].of

TailInv == /\ TypeOK /\ PendingWaits /\ WaitingIsPending /\ CallsAnnounced
           /\ ResultsNameTheirCalls /\ FramesLeaveEvents /\ EventsInOrder

(* What the tailer would read next: between two turns the file stands, and *)
(* within one the remembered position is, behind the lines handed on.      *)
InPlace == /\ pc = "poll" => fh = Behind(Len(handed))
           /\ pc \in {"poll", "silent"} => pos = Behind(Len(handed))

-----------------------------------------------------------------------------
LEMMA EventLine == ASSUME NEW e \in ProjectedEvent PROVE e.of \in Nat
  BY DEF ProjectedEvent

(* What the delivered sequence says of a line when events are added.       *)
LEMMA EventsAdded ==
  ASSUME delivered \in Seq(ProjectedEvent), NEW new \in Seq(ProjectedEvent), delivered' = delivered \o new,
         NEW n \in Nat, \A j \in DOMAIN new : new[j].of = n
  PROVE  /\ delivered' \in Seq(ProjectedEvent)
         /\ \A k : k # n => EventsOf(k)' = EventsOf(k)
         /\ \A j \in DOMAIN new : new[j] \in EventsOf(n)'
         /\ \A e \in EventsOf(n)' : e \in EventsOf(n) \/ \E j \in DOMAIN new : e = new[j]
         /\ DOMAIN delivered' = 1 .. Len(delivered) + Len(new)
         /\ \A j \in DOMAIN delivered : delivered'[j] = delivered[j]
         /\ \A j \in DOMAIN delivered' \ DOMAIN delivered : delivered'[j].of = n
<1>1. /\ delivered' \in Seq(ProjectedEvent)
      /\ DOMAIN delivered' = 1 .. Len(delivered) + Len(new) /\ DOMAIN delivered = 1 .. Len(delivered)
      /\ DOMAIN new = 1 .. Len(new) /\ Len(delivered) \in Nat /\ Len(new) \in Nat
      /\ \A j \in 1 .. Len(delivered) : delivered'[j] = delivered[j]
      /\ \A j \in 1 .. Len(new) : delivered'[Len(delivered) + j] = new[j]
  OBVIOUS
<1>2. \A j \in DOMAIN delivered' \ DOMAIN delivered :
        /\ j - Len(delivered) \in DOMAIN new /\ delivered'[j] = new[j - Len(delivered)]
  BY <1>1
<1>3. \A j \in DOMAIN delivered' \ DOMAIN delivered : delivered'[j].of = n
  BY <1>2
<1>4. /\ \A k, e : e \in EventsOf(k) <=> \E j \in DOMAIN delivered : delivered[j].of = k /\ e = delivered[j]
      /\ \A k, e : e \in EventsOf(k)' <=> \E j \in DOMAIN delivered' : delivered'[j].of = k /\ e = delivered'[j]
  BY Zenon DEF EventsOf
<1>5. ASSUME NEW k, k # n PROVE EventsOf(k)' = EventsOf(k)
  <2>1. \A e : e \in EventsOf(k)' <=> e \in EventsOf(k)
    BY <1>1, <1>3, <1>4, <1>5
  <2>2. QED
    BY <2>1
<1>6. ASSUME NEW j \in DOMAIN new PROVE new[j] \in EventsOf(n)'
  <2>1. Len(delivered) + j \in DOMAIN delivered' /\ delivered'[Len(delivered) + j] = new[j]
    BY <1>1
  <2>2. QED
    BY <1>4, <2>1
<1>7. ASSUME NEW e \in EventsOf(n)' PROVE e \in EventsOf(n) \/ \E j \in DOMAIN new : e = new[j]
  <2>1. PICK j \in DOMAIN delivered' : delivered'[j].of = n /\ e = delivered'[j]
    BY <1>4
  <2>2. QED
    BY <1>1, <1>2, <1>4, <2>1
<1>8. QED
  BY <1>1, <1>3, <1>5, <1>6, <1>7

(* What the history says when one more line is handed on.                  *)
LEMMA LineHanded ==
  ASSUME handed \in Seq(Lines), NEW line \in Lines, handed' = Append(handed, line),
         NEW n, n = Len(handed) + 1
  PROVE  /\ handed' \in Seq(Lines) /\ n \in Nat \ {0} /\ Len(handed') = n
         /\ DOMAIN handed = 1 .. n - 1 /\ DOMAIN handed' = 1 .. n /\ handed'[n] = line
         /\ \A k \in DOMAIN handed : handed'[k] = handed[k]
         /\ \A id : \A k \in DOMAIN handed : /\ k \in CallsWith(id)' <=> k \in CallsWith(id)
                                             /\ k \in ResultsWith(id)' <=> k \in ResultsWith(id)
         /\ \A id : /\ n \in CallsWith(id)' <=> CallLine(line, id)
                    /\ n \in ResultsWith(id)' <=> ResultLine(line, id)
<1>1. /\ handed' \in Seq(Lines) /\ n \in Nat \ {0} /\ Len(handed') = n
      /\ DOMAIN handed = 1 .. n - 1 /\ DOMAIN handed' = 1 .. n /\ handed'[n] = line
      /\ \A k \in DOMAIN handed : handed'[k] = handed[k]
  OBVIOUS
<1>2. n \in DOMAIN handed' /\ \A k \in DOMAIN handed : k \in DOMAIN handed'
  BY <1>1
<1>3. \A id : \A k \in DOMAIN handed : /\ k \in CallsWith(id)' <=> k \in CallsWith(id)
                                       /\ k \in ResultsWith(id)' <=> k \in ResultsWith(id)
  BY <1>1, <1>2 DEF CallsWith, ResultsWith, IsFrame
<1>4. \A id : /\ n \in CallsWith(id)' <=> CallLine(line, id)
              /\ n \in ResultsWith(id)' <=> ResultLine(line, id)
  BY <1>1, <1>2 DEF CallsWith, ResultsWith, IsFrame, CallLine, ResultLine
<1>5. QED
  BY <1>1, <1>3, <1>4, Zenon

(* What it does to the calls that wait, and to the answers.                *)
LEMMA LineAnswers ==
  ASSUME handed \in Seq(Lines), NEW line \in Lines, handed' = Append(handed, line),
         NEW n, n = Len(handed) + 1
  PROVE  /\ \A id : \A i \in DOMAIN handed :
              Waits(i, id)' <=> Waits(i, id) /\ ~CallLine(line, id) /\ ~ResultLine(line, id)
         /\ \A id : Waits(n, id)' <=> CallLine(line, id)
         /\ \A k \in DOMAIN handed : \A i \in 1 .. k - 1 : AnswerTo(i, k)' <=> AnswerTo(i, k)
         /\ \A i \in DOMAIN handed : AnswerTo(i, n)' <=>
              /\ line.frame.id # None /\ ResultLine(line, line.frame.id)
              /\ Waits(i, line.frame.id)
<1>1. /\ n \in Nat \ {0} /\ DOMAIN handed = 1 .. n - 1 /\ DOMAIN handed' = 1 .. n
      /\ handed'[n] = line /\ \A k \in DOMAIN handed : handed'[k] = handed[k]
  BY LineHanded
<1>2. \A id : /\ CallsWith(id) \subseteq 1 .. n - 1 /\ ResultsWith(id) \subseteq 1 .. n - 1
              /\ CallsWith(id)' \subseteq 1 .. n /\ ResultsWith(id)' \subseteq 1 .. n
  BY <1>1 DEF CallsWith, ResultsWith
<1>3. \A id : \A k \in 1 .. n - 1 : /\ k \in CallsWith(id)' <=> k \in CallsWith(id)
                                    /\ k \in ResultsWith(id)' <=> k \in ResultsWith(id)
  BY <1>1, LineHanded
<1>4. \A id : /\ n \in CallsWith(id)' <=> CallLine(line, id)
              /\ n \in ResultsWith(id)' <=> ResultLine(line, id)
  BY LineHanded
<1>5. ASSUME NEW id, NEW i \in DOMAIN handed
      PROVE  Waits(i, id)' <=> Waits(i, id) /\ ~CallLine(line, id) /\ ~ResultLine(line, id)
  BY <1>1, <1>2, <1>3, <1>4 DEF Waits
<1>6. ASSUME NEW id PROVE Waits(n, id)' <=> CallLine(line, id)
  BY <1>1, <1>2, <1>4 DEF Waits
<1>7. ASSUME NEW k \in DOMAIN handed, NEW i \in 1 .. k - 1 PROVE AnswerTo(i, k)' <=> AnswerTo(i, k)
  <2>1. k \in 1 .. n - 1 /\ i \in 1 .. n - 1 /\ handed'[k] = handed[k]
    BY <1>1
  <2>2. \A id : (CallsWith(id) \cup ResultsWith(id))' \cap (i + 1 .. k - 1)
                  = (CallsWith(id) \cup ResultsWith(id)) \cap (i + 1 .. k - 1)
    BY <1>1, <1>3, <2>1
  <2>3. QED
    BY <1>3, <2>1, <2>2 DEF AnswerTo
<1>8. ASSUME NEW i \in DOMAIN handed
      PROVE  AnswerTo(i, n)' <=> /\ line.frame.id # None /\ ResultLine(line, line.frame.id)
                                 /\ Waits(i, line.frame.id)
  <2>1. PICK id : id = line.frame.id
    OBVIOUS
  <2>2. i \in 1 .. n - 1
    BY <1>1
  <2>3. ((CallsWith(id) \cup ResultsWith(id))' \cap (i + 1 .. n - 1) = {})
          <=> \A k \in DOMAIN handed : k \in CallsWith(id) \cup ResultsWith(id) => k <= i
    BY <1>1, <1>2, <1>3, <2>2
  <2>4. AnswerTo(i, n)' <=>
          /\ id # None /\ n \in ResultsWith(id)' /\ i \in CallsWith(id)' /\ i < n
          /\ (CallsWith(id) \cup ResultsWith(id))' \cap (i + 1 .. n - 1) = {}
    BY <1>1, <2>1 DEF AnswerTo
  <2>5. QED
    BY <1>1, <1>3, <1>4, <2>1, <2>2, <2>3, <2>4 DEF Waits
<1>9. QED
  BY <1>5, <1>6, <1>7, <1>8

-----------------------------------------------------------------------------
(* What handing on a line adds to the events and does to the map.          *)
NewEvents(new) == /\ new \in Seq(ProjectedEvent) /\ delivered' = delivered \o new
                  /\ \A j \in DOMAIN new : new[j].of = Len(handed) + 1

MapAfter(line) ==
  /\ \A id : id \in DOMAIN pending' <=> \/ id \in DOMAIN pending /\ ~ResultLine(line, id)
                                        \/ id \in Ids /\ CallLine(line, id)
  /\ \A id \in DOMAIN pending' :
       pending'[id] = IF CallLine(line, id) THEN line.frame.name ELSE pending[id]

(* A result is announced exactly when its request waits in the map.        *)
HeardAsResult(line, new) ==
  LET id == line.frame.id
  IN  /\ \A j \in DOMAIN new : new[j].primitive = "tool_result" =>
            /\ ResultLine(line, id) /\ id \in DOMAIN pending
            /\ new[j].identifier = pending[id] /\ new[j].correlation = corr(id)
      /\ ResultLine(line, id) /\ id \in DOMAIN pending
           => \E j \in DOMAIN new : new[j].primitive = "tool_result"

HeardAsCall(line, new) ==
  CallLine(line, line.frame.id) => \E j \in DOMAIN new : Announces(new[j], line.frame)

NotDropped(line, new) ==
  line.kind = "frame" => IF IsList(line.frame)
                           THEN {new[j].identifier : j \in DOMAIN new} = ToolsNamed(line.frame)
                           ELSE DOMAIN new # {}

Handed(line, new) == /\ NewEvents(new) /\ MapAfter(line) /\ HeardAsResult(line, new)
                     /\ HeardAsCall(line, new) /\ NotDropped(line, new)

(* The least-number principle, for a set.                                  *)
LEMMA Smallest ==
  ASSUME NEW T, T \subseteq Nat, T # {}
  PROVE  \E x \in T : \A y \in T : x <= y
<1>1. PICK x \in T : \A y \in T : ~(<<y, x>> \in OpToRel(<, Nat))
  BY NatLessThanWellFounded, WFMin
<1>2. \A y \in T : ~(y < x)
  BY <1>1, Zenon DEF OpToRel
<1>3. \A y \in T : x <= y
  BY <1>2
<1>4. QED
  BY <1>3

(* One step of the selection, and the selections of a list's beginnings.   *)
Kept(tools, f, i) == IF i = 0 THEN <<>>
                     ELSE IF HasName(tools[i]) THEN Append(f[i - 1], tools[i]) ELSE f[i - 1]

Keeps(tools, f, n) == f = [i \in 0 .. n |-> Kept(tools, f, i)]

LEMMA KeepsExist ==
  ASSUME NEW tools, NEW n \in Nat
  PROVE  \E f : Keeps(tools, f, n)
<1>1. SUFFICES ASSUME ~\E f : Keeps(tools, f, n) PROVE FALSE
  OBVIOUS
<1>2. PICK T : T = {m \in Nat : ~\E f : Keeps(tools, f, m)}
  OBVIOUS
<1>3. PICK m \in T : \A k \in T : m <= k
  BY <1>1, <1>2, Smallest
<1>4. m \in Nat /\ ~\E f : Keeps(tools, f, m)
  BY <1>2, <1>3
<1>5. CASE m = 0
  <2>1. PICK f : f = [i \in 0 .. 0 |-> <<>>]
    OBVIOUS
  <2>2. f = [i \in 0 .. 0 |-> Kept(tools, f, i)]
    BY <2>1 DEF Kept
  <2>3. QED
    BY <1>4, <1>5, <2>2 DEF Keeps
<1>6. CASE m # 0
  <2>1. m - 1 \in Nat /\ m - 1 \notin T
    BY <1>3, <1>4, <1>6
  <2>2. PICK f : Keeps(tools, f, m - 1)
    BY <1>2, <2>1
  <2>3. PICK g : g = [i \in 0 .. m |-> Kept(tools, f, i)]
    OBVIOUS
  <2>4. \A j \in 0 .. m - 1 : g[j] = f[j]
    BY <1>4, <2>2, <2>3 DEF Keeps
  <2>5. \A i \in 0 .. m : Kept(tools, f, i) = Kept(tools, g, i)
    <3>1. TAKE i \in 0 .. m
    <3>2. i # 0 => g[i - 1] = f[i - 1]
      BY <1>4, <2>4
    <3>3. QED
      BY <3>2 DEF Kept
  <2>6. g = [i \in 0 .. m |-> Kept(tools, g, i)]
    BY <2>3, <2>5
  <2>7. QED
    BY <1>4, <2>6 DEF Keeps
<1>7. QED
  BY <1>5, <1>6

(* named is the last of them.                                              *)
LEMMA NamedIsKept ==
  ASSUME NEW S, NEW tools \in Seq(S)
  PROVE  \E f : Keeps(tools, f, Len(tools)) /\ named(tools) = f[Len(tools)]
<1>1. PICK n \in Nat : n = Len(tools)
  OBVIOUS
<1>2. PICK g : Keeps(tools, g, n)
  BY KeepsExist
<1>3. PICK f : f = CHOOSE h : Keeps(tools, h, n)
  OBVIOUS
<1>4. Keeps(tools, f, n)
  BY <1>2, <1>3
<1>5. named(tools) = f[n]
  BY <1>1, <1>3 DEF named, Keeps, Kept
<1>6. QED
  BY <1>1, <1>4, <1>5

(* named keeps the names and drops the rest.                               *)
Selects(tools, f, i) == /\ f[i] \in Seq(Names)
                        /\ {f[i][j] : j \in DOMAIN f[i]} = {tools[j] : j \in 1 .. i} \ {None}

LEMMA NamedTools ==
  ASSUME NEW tools \in Seq(Names \cup {None}), None \notin Names
  PROVE  /\ named(tools) \in Seq(Names)
         /\ {named(tools)[j] : j \in DOMAIN named(tools)} = {tools[j] : j \in DOMAIN tools} \ {None}
<1>1. PICK n \in Nat : n = Len(tools) /\ DOMAIN tools = 1 .. n
  OBVIOUS
<1>2. PICK f : Keeps(tools, f, n) /\ named(tools) = f[n]
  BY <1>1, NamedIsKept
<1>3. ASSUME NEW i \in 0 .. n PROVE f[i] = Kept(tools, f, i)
  BY <1>2 DEF Keeps
<1>4. \A i \in 0 .. n : Selects(tools, f, i)
  <2>1. SUFFICES ASSUME NEW bad \in 0 .. n, ~Selects(tools, f, bad) PROVE FALSE
    OBVIOUS
  <2>2. PICK T : T = {i \in 0 .. n : ~Selects(tools, f, i)}
    OBVIOUS
  <2>3. PICK m \in T : \A k \in T : m <= k
    <3>1. T \subseteq Nat /\ T # {}
      BY <2>1, <2>2
    <3>2. QED
      BY <3>1, Smallest
  <2>4. m \in 0 .. n /\ ~Selects(tools, f, m)
    BY <2>2, <2>3
  <2>5. CASE m = 0
    <3>1. f[m] = <<>>
      BY <1>3, <2>4, <2>5 DEF Kept
    <3>2. 1 .. m = {}
      BY <2>5
    <3>3. QED
      BY <2>4, <3>1, <3>2 DEF Selects
  <2>6. CASE m # 0
    <3>1. m - 1 \in 0 .. n /\ m - 1 \notin T
      BY <2>3, <2>4, <2>6
    <3>2. PICK s : s = f[m - 1]
      OBVIOUS
    <3>3. s \in Seq(Names) /\ {s[j] : j \in DOMAIN s} = {tools[j] : j \in 1 .. m - 1} \ {None}
      BY <2>2, <3>1, <3>2 DEF Selects
    <3>4. PICK tool : tool = tools[m] /\ tool \in Names \cup {None}
      BY <1>1, <2>4, <2>6
    <3>5. {tools[j] : j \in 1 .. m} = {tools[j] : j \in 1 .. m - 1} \cup {tool}
      BY <2>4, <2>6, <3>4
    <3>6. CASE tool = None
      <4>1. f[m] = s
        BY <1>3, <2>4, <2>6, <3>2, <3>4, <3>6 DEF Kept, HasName
      <4>2. QED
        BY <2>4, <3>3, <3>5, <3>6, <4>1 DEF Selects
    <3>7. CASE tool # None
      <4>1. f[m] = Append(s, tool)
        BY <1>3, <2>4, <2>6, <3>2, <3>4, <3>7 DEF Kept, HasName
      <4>2. PICK t : t = Append(s, tool)
        OBVIOUS
      <4>3. t \in Seq(Names) /\ {t[j] : j \in DOMAIN t} = {s[j] : j \in DOMAIN s} \cup {tool}
        <5>1. t \in Seq(Names) /\ Len(t) = Len(s) + 1 /\ t[Len(s) + 1] = tool
          BY <3>3, <3>4, <3>7, <4>2
        <5>2. Len(s) \in Nat /\ DOMAIN s = 1 .. Len(s) /\ DOMAIN t = 1 .. Len(s) + 1
          BY <3>3, <5>1
        <5>3. \A j \in DOMAIN s : t[j] = s[j]
          BY <3>3, <3>4, <3>7, <4>2
        <5>4. DOMAIN t = DOMAIN s \cup {Len(s) + 1}
          BY <5>2
        <5>5. QED
          BY <5>1, <5>3, <5>4
      <4>4. {t[j] : j \in DOMAIN t} = {tools[j] : j \in 1 .. m} \ {None}
        BY <3>3, <3>5, <3>7, <4>3
      <4>5. QED
        BY <2>4, <4>1, <4>2, <4>3, <4>4 DEF Selects
    <3>8. QED
      BY <3>6, <3>7
  <2>7. QED
    BY <2>5, <2>6
<1>5. Selects(tools, f, n)
  BY <1>1, <1>4
<1>6. QED
  BY <1>1, <1>2, <1>5 DEF Selects

LEMMA Appended ==
  ASSUME NEW S, NEW s \in Seq(S), NEW e \in S
  PROVE  /\ Append(s, e) = s \o <<e>> /\ <<e>> \in Seq(S)
         /\ DOMAIN <<e>> = {1} /\ <<e>>[1] = e
  OBVIOUS

(* One event e of line n.                                                  *)
LEMMA OneEvent ==
  ASSUME delivered \in Seq(ProjectedEvent), NEW e \in ProjectedEvent, e.of = Len(handed) + 1,
         delivered' = Append(delivered, e)
  PROVE  NewEvents(<<e>>) /\ DOMAIN <<e>> = {1} /\ <<e>>[1] = e
<1>1. delivered' = delivered \o <<e>> /\ <<e>> \in Seq(ProjectedEvent) /\ DOMAIN <<e>> = {1} /\ <<e>>[1] = e
  BY Appended
<1>2. QED
  BY <1>1 DEF NewEvents

LEMMA HandsOnEvents ==
  ASSUME TailAssumption, ProjectorAssumption, TypeOK, NEW line \in Lines, HandLine(line)
  PROVE  \E new : Handed(line, new)
<1>1. PICK f, ts, n : f = line.frame /\ ts = _rec_ms(line) /\ n = Len(handed) + 1
  OBVIOUS
<1>2. f \in Frame /\ ts \in Nat /\ n \in Nat
  BY <1>1 DEF TypeOK, Lines, _rec_ms, TailAssumption
<1>3. /\ f.id \in Ids \cup {None} /\ f.name \in Names \cup {None} /\ f.tools \in Seq(Names \cup {None})
      /\ f.method \in {"tools/call", "other", "None"}
  BY <1>2 DEF Frame
<1>4. /\ \A id \in DOMAIN pending : id \in Ids /\ pending[id] \in Names \cup {None}
      /\ delivered \in Seq(ProjectedEvent) /\ handed \in Seq(Lines) /\ None \notin Ids
  BY DEF TypeOK, ProjectorAssumption
<1>5. PICK c : c = corr(f.id) /\ c \in {"None"} \cup {str[id] : id \in Ids}
  BY <1>3 DEF corr
<1>6. line.kind = "frame" => project(f, ts, n)
  <2>1. handed' = Append(handed, line)
    BY DEF HandLine
  <2>2. Len(handed') = n
    BY <1>1, <1>4, <2>1
  <2>3. QED
    BY <1>1, <2>2 DEF HandLine
<1>7. CASE line.kind # "frame"
  <2>1. UNCHANGED <<pending, delivered>>
    BY <1>7 DEF HandLine
  <2>2. delivered' = delivered \o <<>> /\ <<>> \in Seq(ProjectedEvent) /\ DOMAIN <<>> = {}
    BY <1>4, <2>1
  <2>3. NewEvents(<<>>)
    BY <2>2 DEF NewEvents
  <2>4. MapAfter(line)
    BY <1>7, <2>1 DEF MapAfter, CallLine, ResultLine
  <2>5. HeardAsResult(line, <<>>) /\ HeardAsCall(line, <<>>) /\ NotDropped(line, <<>>)
    BY <1>7, <2>2 DEF HeardAsResult, HeardAsCall, NotDropped, CallLine, ResultLine
  <2>6. QED
    BY <2>3, <2>4, <2>5 DEF Handed
<1>8. CASE line.kind = "frame" /\ IsCall(f)
  <2>1. PICK e : e = Event("tool_called", f.name, corr(f.id), FALSE, ts, n)
    OBVIOUS
  <2>2. e.of = n /\ e.primitive = "tool_called" /\ e.identifier = f.name /\ e.correlation = corr(f.id)
    BY <2>1 DEF Event
  <2>3. e \in ProjectedEvent
    BY <1>2, <1>3, <1>5, <2>1 DEF Event, ProjectedEvent, Primitives
  <2>4. /\ delivered' = Append(delivered, e)
        /\ pending' = IF f.id = None THEN pending ELSE Waiting(f.id, f.name)
    BY <1>6, <1>8, <2>1 DEF project, IsList, Answers, HasResult
  <2>5. NewEvents(<<e>>) /\ DOMAIN <<e>> = {1} /\ <<e>>[1] = e
    BY <1>1, <1>4, <2>2, <2>3, <2>4, OneEvent
  <2>6. \A id : ~ResultLine(line, id) /\ (CallLine(line, id) <=> id = f.id)
    BY <1>1, <1>8 DEF ResultLine, CallLine, HasResult
  <2>7. /\ \A id : id \in DOMAIN pending' <=> id \in DOMAIN pending \/ (id \in Ids /\ id = f.id)
        /\ \A id \in DOMAIN pending' : pending'[id] = IF id = f.id THEN f.name ELSE pending[id]
    <3>1. CASE f.id = None
      BY <1>4, <2>4, <3>1
    <3>2. CASE f.id # None
      BY <1>3, <2>4, <3>2 DEF Waiting
    <3>3. QED
      BY <3>1, <3>2
  <2>8. MapAfter(line)
    BY <1>1, <2>6, <2>7 DEF MapAfter
  <2>9. HeardAsResult(line, <<e>>) /\ HeardAsCall(line, <<e>>) /\ NotDropped(line, <<e>>)
    BY <1>1, <1>8, <2>2, <2>5, <2>6 DEF HeardAsResult, HeardAsCall, NotDropped, Announces, IsList
  <2>10. QED
    BY <2>5, <2>8, <2>9 DEF Handed
<1>9. CASE line.kind = "frame" /\ IsList(f)
  <2>1. PICK new, tools : new = Declared(f, ts, n) /\ tools = named(f.tools)
    OBVIOUS
  <2>2. /\ tools \in Seq(Names) /\ {tools[i] : i \in DOMAIN tools} = ToolsNamed(f)
        /\ Len(tools) \in Nat /\ DOMAIN tools = 1 .. Len(tools)
    <3>1. PICK list : list = f.tools /\ list \in Seq(Names \cup {None})
      BY <1>3
    <3>2. None \notin Names
      BY DEF ProjectorAssumption
    <3>3. /\ tools \in Seq(Names)
          /\ {tools[i] : i \in DOMAIN tools} = {list[i] : i \in DOMAIN list} \ {None}
      BY <2>1, <3>1, <3>2, NamedTools
    <3>4. QED
      BY <3>1, <3>3 DEF ToolsNamed
  <2>3. ASSUME NEW i \in DOMAIN tools
        PROVE  /\ i \in DOMAIN new /\ new[i] \in ProjectedEvent /\ new[i].identifier = tools[i]
               /\ new[i].of = n /\ new[i].primitive = "tool_declared"
    <3>1. i \in DOMAIN new /\ new[i] = Event("tool_declared", tools[i], "None", FALSE, ts, n)
      BY <2>1 DEF Declared
    <3>2. PICK tool : tool = tools[i] /\ tool \in Names
      BY <2>2
    <3>3. QED
      BY <1>2, <3>1, <3>2 DEF Event, ProjectedEvent, Primitives
  <2>4. DOMAIN new = DOMAIN tools /\ new \in Seq(ProjectedEvent)
    <3>1. new \in [1 .. Len(tools) -> ProjectedEvent]
      BY <2>1, <2>2, <2>3 DEF Declared
    <3>2. QED
      BY <2>2, <3>1
  <2>5. delivered' = delivered \o new /\ UNCHANGED pending
    BY <1>6, <1>9, <2>1 DEF project, IsList, Answers, HasResult
  <2>6. \A id : ~ResultLine(line, id) /\ ~CallLine(line, id)
    BY <1>1, <1>9 DEF ResultLine, CallLine, HasResult, IsList
  <2>7. NewEvents(new)
    BY <1>1, <2>3, <2>4, <2>5 DEF NewEvents
  <2>8. MapAfter(line)
    BY <2>5, <2>6 DEF MapAfter
  <2>9. {new[j].identifier : j \in DOMAIN new} = ToolsNamed(f)
    BY <2>2, <2>3, <2>4
  <2>10. HeardAsResult(line, new) /\ HeardAsCall(line, new) /\ NotDropped(line, new)
    BY <1>1, <1>9, <2>3, <2>4, <2>6, <2>9 DEF HeardAsResult, HeardAsCall, NotDropped
  <2>11. QED
    BY <2>7, <2>8, <2>10 DEF Handed
<1>10. CASE line.kind = "frame" /\ Answers(f)
  <2>1. PICK e, name : /\ name = pending[f.id]
                       /\ e = Event("tool_result", name, corr(f.id), f.result = "error", ts, n)
    OBVIOUS
  <2>2. f.id \in DOMAIN pending /\ name \in Names \cup {None}
    BY <1>4, <1>10, <2>1 DEF Answers
  <2>3. e.of = n /\ e.primitive = "tool_result" /\ e.identifier = name /\ e.correlation = corr(f.id)
    BY <2>1 DEF Event
  <2>4. PICK error : error = (f.result = "error")
    OBVIOUS
  <2>5. error \in BOOLEAN /\ e = Event("tool_result", name, corr(f.id), error, ts, n)
    BY <2>1, <2>4
  <2>6. e \in ProjectedEvent
    BY <1>2, <1>5, <2>2, <2>5 DEF Event, ProjectedEvent, Primitives
  <2>7. delivered' = Append(delivered, e) /\ pending' = Popped(f.id)
    BY <1>6, <1>10, <2>1 DEF project, IsList, Answers, HasResult
  <2>8. NewEvents(<<e>>) /\ DOMAIN <<e>> = {1} /\ <<e>>[1] = e
    BY <1>1, <1>4, <2>3, <2>6, <2>7, OneEvent
  <2>9. \A id : ~CallLine(line, id) /\ (ResultLine(line, id) <=> id = f.id)
    BY <1>1, <1>10 DEF ResultLine, CallLine, HasResult, Answers
  <2>10. /\ \A id : id \in DOMAIN pending' <=> id \in DOMAIN pending /\ id # f.id
         /\ \A id \in DOMAIN pending' : pending'[id] = pending[id]
    BY <2>7 DEF Popped
  <2>11. MapAfter(line)
    BY <2>9, <2>10 DEF MapAfter
  <2>12. HeardAsResult(line, <<e>>) /\ HeardAsCall(line, <<e>>) /\ NotDropped(line, <<e>>)
    BY <1>1, <1>10, <2>1, <2>2, <2>3, <2>8, <2>9
       DEF HeardAsResult, HeardAsCall, NotDropped, Answers, HasResult, IsList
  <2>13. QED
    BY <2>8, <2>11, <2>12 DEF Handed
<1>11. CASE line.kind = "frame" /\ ~IsCall(f) /\ ~IsList(f) /\ ~Answers(f)
  <2>1. PICK e, called : called = label(f) /\ e = Event(called, None, "None", FALSE, ts, n)
    OBVIOUS
  <2>2. called \in Primitives /\ called # "tool_result"
    BY <1>3, <2>1 DEF label, Primitives
  <2>3. e.of = n /\ e.primitive # "tool_result" /\ e \in ProjectedEvent
    BY <1>2, <2>1, <2>2 DEF Event, ProjectedEvent, Primitives
  <2>4. delivered' = delivered \o <<e>> /\ UNCHANGED pending
    BY <1>6, <1>11, <2>1 DEF project, Generic
  <2>5. delivered' = Append(delivered, e)
    BY <1>4, <2>3, <2>4
  <2>6. NewEvents(<<e>>) /\ DOMAIN <<e>> = {1} /\ <<e>>[1] = e
    BY <1>1, <1>4, <2>3, <2>5, OneEvent
  <2>7. \A id : ~CallLine(line, id) /\ (ResultLine(line, id) => id = f.id /\ id \notin DOMAIN pending)
    BY <1>1, <1>11 DEF ResultLine, CallLine, Answers
  <2>8. MapAfter(line)
    BY <2>4, <2>7 DEF MapAfter
  <2>9. HeardAsResult(line, <<e>>) /\ HeardAsCall(line, <<e>>) /\ NotDropped(line, <<e>>)
    BY <1>1, <1>11, <2>3, <2>6, <2>7 DEF HeardAsResult, HeardAsCall, NotDropped
  <2>10. QED
    BY <2>6, <2>8, <2>9 DEF Handed
<1>12. QED
  BY <1>7, <1>8, <1>9, <1>10, <1>11

-----------------------------------------------------------------------------
(* The parts of the invariant about the past survive a line.               *)
LEMMA LineKeeps ==
  ASSUME TailAssumption, ProjectorAssumption, TailInv, NEW line \in Lines, HandLine(line)
  PROVE  /\ PendingWaits' /\ WaitingIsPending' /\ CallsAnnounced' /\ ResultsNameTheirCalls'
         /\ FramesLeaveEvents' /\ EventsInOrder'
<1>1. PICK new, n : Handed(line, new) /\ n = Len(handed) + 1
  BY HandsOnEvents DEF TailInv
<1>2. /\ handed \in Seq(Lines) /\ handed' = Append(handed, line) /\ delivered \in Seq(ProjectedEvent)
      /\ DOMAIN pending \subseteq Ids /\ \A j \in DOMAIN delivered : delivered[j].of <= Len(handed)
  BY DEF TailInv, TypeOK, HandLine
<1>3. /\ n \in Nat \ {0} /\ DOMAIN handed = 1 .. n - 1 /\ DOMAIN handed' = 1 .. n
      /\ handed'[n] = line /\ \A k \in DOMAIN handed : handed'[k] = handed[k]
  BY <1>1, <1>2, LineHanded
<1>4. /\ \A id : \A i \in DOMAIN handed :
           Waits(i, id)' <=> Waits(i, id) /\ ~CallLine(line, id) /\ ~ResultLine(line, id)
      /\ \A id : Waits(n, id)' <=> CallLine(line, id)
  BY <1>1, <1>2, LineAnswers
<1>5. /\ \A k \in DOMAIN handed : \A i \in 1 .. k - 1 : AnswerTo(i, k)' <=> AnswerTo(i, k)
      /\ \A i \in DOMAIN handed : AnswerTo(i, n)' <=>
           line.frame.id # None /\ ResultLine(line, line.frame.id) /\ Waits(i, line.frame.id)
  BY <1>1, <1>2, LineAnswers
<1>6. /\ \A k \in DOMAIN handed : EventsOf(k)' = EventsOf(k)
      /\ \A j \in DOMAIN new : new[j] \in EventsOf(n)'
      /\ \A e \in EventsOf(n)' : \E j \in DOMAIN new : e = new[j]
      /\ DOMAIN delivered' = 1 .. Len(delivered) + Len(new) /\ DOMAIN delivered = 1 .. Len(delivered)
      /\ Len(delivered) \in Nat /\ Len(new) \in Nat
      /\ \A j \in DOMAIN delivered : delivered'[j] = delivered[j]
      /\ \A j \in DOMAIN delivered' \ DOMAIN delivered : delivered'[j].of = n
  <2>1. /\ delivered \in Seq(ProjectedEvent) /\ new \in Seq(ProjectedEvent) /\ delivered' = delivered \o new
        /\ n \in Nat /\ \A j \in DOMAIN new : new[j].of = n
    BY <1>1, <1>2, <1>3 DEF Handed, NewEvents
  <2>2. /\ \A k : k # n => EventsOf(k)' = EventsOf(k)
        /\ \A j \in DOMAIN new : new[j] \in EventsOf(n)'
        /\ \A e \in EventsOf(n)' : e \in EventsOf(n) \/ \E j \in DOMAIN new : e = new[j]
        /\ DOMAIN delivered' = 1 .. Len(delivered) + Len(new)
        /\ \A j \in DOMAIN delivered : delivered'[j] = delivered[j]
        /\ \A j \in DOMAIN delivered' \ DOMAIN delivered : delivered'[j].of = n
    BY <2>1, EventsAdded, Zenon
  <2>3. EventsOf(n) = {}
    <3>1. \A j \in DOMAIN delivered : delivered[j].of \in Nat /\ delivered[j].of <= Len(handed)
      <4>1. \A j \in DOMAIN delivered : delivered[j] \in ProjectedEvent
        BY <1>2
      <4>2. QED
        BY <1>2, <4>1, EventLine
    <3>2. \A j \in DOMAIN delivered : delivered[j].of # n
      BY <1>1, <1>2, <3>1
    <3>3. QED
      BY <3>2 DEF EventsOf
  <2>4. DOMAIN delivered = 1 .. Len(delivered) /\ Len(delivered) \in Nat /\ Len(new) \in Nat
    BY <1>2, <2>1
  <2>5. QED
    BY <1>3, <2>2, <2>3, <2>4
<1>7. PendingWaits'
  <2> SUFFICES ASSUME NEW id \in DOMAIN pending'
               PROVE  \E i \in DOMAIN handed' : Waits(i, id)' /\ pending'[id] = handed'[i].frame.name
    BY DEF PendingWaits
  <2>1. MapAfter(line)
    BY <1>1 DEF Handed
  <2>2. CASE CallLine(line, id)
    BY <1>3, <1>4, <2>1, <2>2 DEF MapAfter
  <2>3. CASE ~CallLine(line, id)
    <3>1. id \in DOMAIN pending /\ ~ResultLine(line, id) /\ pending'[id] = pending[id]
      BY <2>1, <2>3 DEF MapAfter
    <3>2. PICK i \in DOMAIN handed : Waits(i, id) /\ pending[id] = handed[i].frame.name
      BY <3>1 DEF TailInv, PendingWaits
    <3>3. i \in DOMAIN handed' /\ Waits(i, id)' /\ handed'[i] = handed[i]
      BY <1>3, <1>4, <2>3, <3>1, <3>2
    <3>4. QED
      BY <3>1, <3>2, <3>3
  <2>4. QED
    BY <2>2, <2>3
<1>8. WaitingIsPending'
  <2> SUFFICES ASSUME NEW id \in Ids, NEW i \in DOMAIN handed', Waits(i, id)'
               PROVE  id \in DOMAIN pending'
    BY DEF WaitingIsPending
  <2>1. MapAfter(line)
    BY <1>1 DEF Handed
  <2>2. CASE i = n
    BY <1>4, <2>1, <2>2 DEF MapAfter
  <2>3. CASE i \in DOMAIN handed
    <3>1. Waits(i, id) /\ ~ResultLine(line, id)
      BY <1>4, <2>3
    <3>2. id \in DOMAIN pending
      BY <2>3, <3>1 DEF TailInv, WaitingIsPending
    <3>3. QED
      BY <2>1, <3>1, <3>2 DEF MapAfter
  <2>4. QED
    BY <1>3, <2>2, <2>3
<1>9. CallsAnnounced'
  <2> SUFFICES ASSUME NEW i \in DOMAIN handed', handed'[i].kind = "frame", IsCall(handed'[i].frame)
               PROVE  \E c \in EventsOf(i)' : Announces(c, handed'[i].frame)
    BY DEF CallsAnnounced, IsFrame
  <2>1. CASE i = n
    <3>1. \E j \in DOMAIN new : Announces(new[j], line.frame)
      BY <1>1, <1>3, <2>1 DEF Handed, HeardAsCall, CallLine
    <3>2. QED
      BY <1>3, <1>6, <2>1, <3>1
  <2>2. CASE i \in DOMAIN handed
    <3>1. handed'[i] = handed[i] /\ EventsOf(i)' = EventsOf(i)
      BY <1>3, <1>6, <2>2
    <3>2. QED
      BY <2>2, <3>1 DEF TailInv, CallsAnnounced, IsFrame
  <2>3. QED
    BY <1>3, <2>1, <2>2
<1>10. ASSUME NEW k \in DOMAIN handed', NEW e \in EventsOf(k)', e.primitive = "tool_result"
       PROVE  \E i \in 1 .. k - 1 :
                /\ AnswerTo(i, k)'
                /\ \E c \in EventsOf(i)' : /\ c.primitive = "tool_called"
                                           /\ c.identifier = e.identifier
                                           /\ c.correlation = e.correlation
  <2>1. CASE k \in DOMAIN handed
    <3>1. e \in EventsOf(k)
      BY <1>6, <1>10, <2>1
    <3>2. PICK i \in 1 .. k - 1 :
             /\ AnswerTo(i, k)
             /\ \E c \in EventsOf(i) : /\ c.primitive = "tool_called"
                                       /\ c.identifier = e.identifier
                                       /\ c.correlation = e.correlation
      BY <1>10, <2>1, <3>1 DEF TailInv, ResultsNameTheirCalls
    <3>3. i \in DOMAIN handed
      BY <1>3, <2>1, <3>2
    <3>4. AnswerTo(i, k)' /\ EventsOf(i)' = EventsOf(i)
      BY <1>5, <1>6, <2>1, <3>2, <3>3
    <3>5. QED
      BY <3>2, <3>4
  <2>2. CASE k = n
    <3>1. PICK id : id = line.frame.id
      OBVIOUS
    <3>2. PICK j \in DOMAIN new : e = new[j]
      BY <1>6, <1>10, <2>2
    <3>3. /\ ResultLine(line, id) /\ id \in DOMAIN pending
          /\ e.identifier = pending[id] /\ e.correlation = corr(id)
      BY <1>1, <1>10, <3>1, <3>2 DEF Handed, HeardAsResult
    <3>4. PICK i \in DOMAIN handed : Waits(i, id) /\ pending[id] = handed[i].frame.name
      BY <3>3 DEF TailInv, PendingWaits
    <3>5. IsFrame(i) /\ IsCall(handed[i].frame) /\ handed[i].frame.id = id
      BY <3>4 DEF Waits, CallsWith
    <3>6. PICK c \in EventsOf(i) : Announces(c, handed[i].frame)
      BY <3>4, <3>5 DEF TailInv, CallsAnnounced
    <3>7. id # None
      BY <1>2, <3>3 DEF ProjectorAssumption
    <3>8. AnswerTo(i, n)'
      BY <1>5, <3>1, <3>3, <3>4, <3>7
    <3>9. c \in EventsOf(i)'
      BY <1>6, <3>4, <3>6
    <3>10. QED
      BY <1>3, <2>2, <3>3, <3>4, <3>5, <3>6, <3>8, <3>9 DEF Announces
  <2>3. QED
    BY <1>3, <2>1, <2>2
<1>11. ASSUME NEW k \in DOMAIN handed', IsFrame(k)', NEW i \in 1 .. k - 1, AnswerTo(i, k)'
       PROVE  \E e \in EventsOf(k)' : e.primitive = "tool_result"
  <2>1. CASE k \in DOMAIN handed
    <3>1. AnswerTo(i, k) /\ IsFrame(k) /\ EventsOf(k)' = EventsOf(k)
      BY <1>3, <1>5, <1>6, <1>11, <2>1 DEF IsFrame
    <3>2. QED
      BY <2>1, <3>1 DEF TailInv, ResultsNameTheirCalls
  <2>2. CASE k = n
    <3>1. PICK id : id = line.frame.id
      OBVIOUS
    <3>2. i \in DOMAIN handed
      BY <1>3, <2>2
    <3>3. id # None /\ ResultLine(line, id) /\ Waits(i, id)
      BY <1>5, <1>11, <2>2, <3>1, <3>2
    <3>4. id \in Ids
      BY <3>1, <3>3 DEF Lines, Frame
    <3>5. id \in DOMAIN pending
      BY <3>2, <3>3, <3>4 DEF TailInv, WaitingIsPending
    <3>6. PICK j \in DOMAIN new : new[j].primitive = "tool_result"
      BY <1>1, <3>1, <3>3, <3>5 DEF Handed, HeardAsResult
    <3>7. QED
      BY <1>6, <2>2, <3>6
  <2>3. QED
    BY <1>3, <2>1, <2>2
<1>12. ResultsNameTheirCalls'
  BY <1>10, <1>11 DEF ResultsNameTheirCalls
<1>13. FramesLeaveEvents'
  <2> SUFFICES ASSUME NEW k \in DOMAIN handed', handed'[k].kind = "frame"
               PROVE  IF IsList(handed'[k].frame)
                        THEN {e.identifier : e \in EventsOf(k)'} = ToolsNamed(handed'[k].frame)
                        ELSE EventsOf(k)' # {}
    BY DEF FramesLeaveEvents, IsFrame
  <2>1. CASE k = n
    <3>1. handed'[k] = line
      BY <1>3, <2>1
    <3>2. NotDropped(line, new) /\ line.kind = "frame"
      BY <1>1, <3>1 DEF Handed
    <3>3. CASE IsList(line.frame)
      <4>1. {new[j].identifier : j \in DOMAIN new} = ToolsNamed(line.frame)
        BY <3>2, <3>3 DEF NotDropped
      <4>2. {e.identifier : e \in EventsOf(n)'} = {new[j].identifier : j \in DOMAIN new}
        BY <1>6
      <4>3. QED
        BY <2>1, <3>1, <3>3, <4>1, <4>2
    <3>4. CASE ~IsList(line.frame)
      <4>1. PICK j : j \in DOMAIN new
        BY <3>2, <3>4 DEF NotDropped
      <4>2. EventsOf(k)' # {}
        BY <1>6, <2>1, <4>1
      <4>3. QED
        BY <3>1, <3>4, <4>2
    <3>5. QED
      BY <3>3, <3>4
  <2>2. CASE k \in DOMAIN handed
    <3>1. handed'[k] = handed[k] /\ EventsOf(k)' = EventsOf(k)
      BY <1>3, <1>6, <2>2
    <3>2. QED
      BY <2>2, <3>1 DEF TailInv, FramesLeaveEvents, IsFrame
  <2>3. QED
    BY <1>3, <2>1, <2>2
<1>14. EventsInOrder'
  <2> SUFFICES ASSUME NEW i \in DOMAIN delivered', NEW j \in DOMAIN delivered', i < j,
                      delivered'[i].of # 0, delivered'[j].of # 0
               PROVE  delivered'[i].of <= delivered'[j].of
    BY DEF EventsInOrder
  <2>1. CASE j \in DOMAIN delivered
    <3>1. i \in DOMAIN delivered
      BY <1>6, <2>1
    <3>2. QED
      BY <1>6, <2>1, <3>1 DEF TailInv, EventsInOrder
  <2>2. CASE j \notin DOMAIN delivered
    <3>1. delivered'[j].of = n
      BY <1>6, <2>2
    <3>2. delivered'[i].of <= n
      <4>1. CASE i \in DOMAIN delivered
        <5>1. delivered[i].of <= Len(handed) /\ delivered[i] \in ProjectedEvent /\ delivered'[i] = delivered[i]
          BY <1>2, <1>6, <4>1
        <5>2. delivered[i].of \in Nat
          BY <5>1, EventLine
        <5>3. QED
          BY <1>1, <1>2, <5>1, <5>2
      <4>2. CASE i \notin DOMAIN delivered
        BY <1>3, <1>6, <4>2
      <4>3. QED
        BY <4>1, <4>2
    <3>3. QED
      BY <3>1, <3>2
  <2>3. QED
    BY <2>1, <2>2
<1>15. QED
  BY <1>7, <1>8, <1>9, <1>12, <1>13, <1>14

(* They survive a step that hands on nothing and delivers nothing ...      *)
LEMMA QuietKeeps ==
  ASSUME TailInv, UNCHANGED <<handed, pending, delivered>>
  PROVE  /\ PendingWaits' /\ WaitingIsPending' /\ CallsAnnounced' /\ ResultsNameTheirCalls'
         /\ FramesLeaveEvents' /\ EventsInOrder'
<1>1. /\ \A id : CallsWith(id)' = CallsWith(id) /\ ResultsWith(id)' = ResultsWith(id)
      /\ \A k : EventsOf(k)' = EventsOf(k)
  BY DEF CallsWith, ResultsWith, EventsOf, IsFrame
<1>2. /\ \A i, id : Waits(i, id)' <=> Waits(i, id)
      /\ \A i, k : AnswerTo(i, k)' <=> AnswerTo(i, k)
  BY <1>1 DEF Waits, AnswerTo
<1>3. PendingWaits' /\ WaitingIsPending'
  BY <1>2 DEF TailInv, PendingWaits, WaitingIsPending
<1>4. CallsAnnounced' /\ FramesLeaveEvents' /\ EventsInOrder'
  BY <1>1 DEF TailInv, CallsAnnounced, FramesLeaveEvents, EventsInOrder, IsFrame
<1>5. ResultsNameTheirCalls'
  BY <1>1, <1>2 DEF TailInv, ResultsNameTheirCalls, IsFrame
<1>6. QED
  BY <1>3, <1>4, <1>5

(* ... and a tick, which is an event of no line.                           *)
LEMMA TickKeeps ==
  ASSUME TailInv, UNCHANGED <<handed, pending>>, wall \in Nat,
         delivered' = Append(delivered, Event("tick", None, "None", FALSE, wall, 0))
  PROVE  /\ PendingWaits' /\ WaitingIsPending' /\ CallsAnnounced' /\ ResultsNameTheirCalls'
         /\ FramesLeaveEvents' /\ EventsInOrder'
         /\ delivered' \in Seq(ProjectedEvent) /\ \A j \in DOMAIN delivered' : delivered'[j].of <= Len(handed')
<1>1. PICK e : e = Event("tick", None, "None", FALSE, wall, 0)
  OBVIOUS
<1>2. e \in ProjectedEvent /\ e.of = 0
  BY <1>1 DEF Event, ProjectedEvent, Primitives
<1>3. /\ delivered \in Seq(ProjectedEvent) /\ handed \in Seq(Lines)
      /\ \A j \in DOMAIN delivered : delivered[j].of <= Len(handed)
  BY DEF TailInv, TypeOK
<1>4. /\ <<e>> \in Seq(ProjectedEvent) /\ delivered' = delivered \o <<e>>
      /\ \A j \in DOMAIN <<e>> : <<e>>[j].of = 0
  <2>1. delivered' = Append(delivered, e)
    BY <1>1
  <2>2. /\ Append(delivered, e) = delivered \o <<e>>
        /\ DOMAIN <<e>> = {1} /\ <<e>>[1] = e /\ <<e>> \in Seq(ProjectedEvent)
    BY <1>2, <1>3, Appended
  <2>3. QED
    BY <1>2, <2>1, <2>2
<1>5. /\ delivered' \in Seq(ProjectedEvent)
      /\ \A k : k # 0 => EventsOf(k)' = EventsOf(k)
      /\ \A j \in DOMAIN delivered : delivered'[j] = delivered[j]
      /\ \A j \in DOMAIN delivered' \ DOMAIN delivered : delivered'[j].of = 0
  BY <1>3, <1>4, EventsAdded
<1>6. \A k \in DOMAIN handed : EventsOf(k)' = EventsOf(k)
  BY <1>3, <1>5
<1>7. \A id : CallsWith(id)' = CallsWith(id) /\ ResultsWith(id)' = ResultsWith(id)
  BY DEF CallsWith, ResultsWith, IsFrame
<1>8. /\ \A i, id : Waits(i, id)' <=> Waits(i, id)
      /\ \A i, k : AnswerTo(i, k)' <=> AnswerTo(i, k)
  BY <1>7 DEF Waits, AnswerTo
<1>9. PendingWaits' /\ WaitingIsPending'
  BY <1>8 DEF TailInv, PendingWaits, WaitingIsPending
<1>10. CallsAnnounced' /\ FramesLeaveEvents'
  BY <1>6 DEF TailInv, CallsAnnounced, FramesLeaveEvents, IsFrame
<1>11. ResultsNameTheirCalls'
  <2>1. \A k \in DOMAIN handed : \A i \in 1 .. k - 1 : i \in DOMAIN handed
    BY <1>3
  <2>2. QED
    BY <1>6, <1>8, <2>1 DEF TailInv, ResultsNameTheirCalls, IsFrame
<1>12. EventsInOrder'
  <2> SUFFICES ASSUME NEW i \in DOMAIN delivered', NEW j \in DOMAIN delivered', i < j,
                      delivered'[i].of # 0, delivered'[j].of # 0
               PROVE  delivered'[i].of <= delivered'[j].of
    BY DEF EventsInOrder
  <2>1. i \in DOMAIN delivered /\ j \in DOMAIN delivered
    BY <1>5
  <2>2. QED
    BY <1>5, <2>1 DEF TailInv, EventsInOrder
<1>13. \A j \in DOMAIN delivered' : delivered'[j].of <= Len(handed')
  <2>1. Len(handed) \in Nat /\ 0 <= Len(handed) /\ Len(handed') = Len(handed)
    BY <1>3
  <2>2. ASSUME NEW j \in DOMAIN delivered' PROVE delivered'[j].of <= Len(handed)
    <3>1. CASE j \in DOMAIN delivered
      BY <1>3, <1>5, <3>1
    <3>2. CASE j \notin DOMAIN delivered
      <4>1. delivered'[j].of = 0
        BY <1>5, <3>2, Zenon
      <4>2. QED
        BY <2>1, <4>1, Zenon
    <3>3. QED
      BY <3>1, <3>2
  <2>3. QED
    BY <2>1, <2>2
<1>14. QED
  BY <1>5, <1>9, <1>10, <1>11, <1>12, <1>13

-----------------------------------------------------------------------------
(* The parts of TypeOK: what the tap and the clock keep, and the tailer.   *)
TapTyped    == /\ file \in Seq(Lines) /\ tail \in {"empty", "text", "torn"}
               /\ spoiled \in {"no", "text", "bytes"} /\ writing \in Lines \cup {None}
               /\ captured \in 0 .. MaxLines /\ wall \in START .. MaxTime
ReaderTyped == /\ pc \in {"poll", "silent", "returned", "dead"}
               /\ fh \in Position /\ pos \in Position
               /\ last_line \in START .. wall /\ last_tick \in START .. wall
PastTyped   == /\ handed \in Seq(Lines) /\ DOMAIN pending \subseteq Ids
               /\ \A id \in DOMAIN pending : pending[id] \in Names \cup {None}
               /\ delivered \in Seq(ProjectedEvent)
               /\ \A j \in DOMAIN delivered : delivered[j].of <= Len(handed)

LEMMA TypesSplit == TypeOK <=> TapTyped /\ ReaderTyped /\ PastTyped
  BY DEF TypeOK, TapTyped, ReaderTyped, PastTyped

LEMMA TypesJoin == ASSUME TapTyped', ReaderTyped', PastTyped' PROVE TypeOK'
  BY DEF TypeOK, TapTyped, ReaderTyped, PastTyped

LEMMA TapStepTyped ==
  ASSUME TailAssumption, TapTyped, Capture \/ FlushPart \/ FlushLine \/ TapCrash
  PROVE  TapTyped'
<1>1. wall \in Nat /\ captured \in Nat /\ MaxLines \in Nat
  BY DEF TapTyped, TailAssumption
<1>2. CASE Capture
  <2>1. PICK rec \in Records : writing' = Line(rec, captured + 1)
    BY <1>2 DEF Capture
  <2>2. captured + 1 \in 1 .. MaxLines /\ captured' = captured + 1
    BY <1>1, <1>2 DEF Capture
  <2>3. rec \in Record
    BY <2>1 DEF TailAssumption
  <2>4. rec.frame \in Frame /\ rec.kind \in {"frame", "raw", "poison"}
    BY <2>3 DEF Record
  <2>5. PICK at, seq : /\ at = (IF rec.stamp = "ts" THEN wall ELSE None)
                       /\ seq = (IF rec.stamp = "none" THEN None ELSE captured + 1)
                       /\ at \in START .. MaxTime \cup {None} /\ seq \in 1 .. MaxLines \cup {None}
    BY <2>2 DEF TapTyped
  <2>6. writing' \in Lines
    BY <2>1, <2>4, <2>5 DEF Line, Lines
  <2>7. QED
    BY <1>1, <1>2, <2>2, <2>6 DEF Capture, TapTyped
<1>3. CASE FlushPart
  BY <1>3 DEF FlushPart, TapTyped
<1>4. CASE FlushLine
  <2>1. PICK line : line = writing /\ line \in Lines
    BY <1>4 DEF FlushLine, TapTyped
  <2>2. [line EXCEPT !.kind = "garbage"] \in Lines /\ [line EXCEPT !.kind = "undecodable"] \in Lines
    BY <2>1 DEF Lines
  <2>3. Finished(line) \in Lines
    BY <2>1, <2>2 DEF Finished, TapTyped
  <2>4. file' \in Seq(Lines)
    BY <1>4, <2>1, <2>3 DEF FlushLine, TapTyped
  <2>5. QED
    BY <1>4, <2>4 DEF FlushLine, TapTyped
<1>5. CASE TapCrash
  BY <1>5 DEF TapCrash, TapTyped
<1>6. QED
  BY <1>2, <1>3, <1>4, <1>5

LEMMA LineTyped ==
  ASSUME TailAssumption, ProjectorAssumption, TypeOK, NEW line \in Lines, HandLine(line)
  PROVE  PastTyped'
<1>1. PICK new : Handed(line, new)
  BY HandsOnEvents
<1>2. PICK n : n = Len(handed) + 1
  OBVIOUS
<1>3. /\ handed \in Seq(Lines) /\ handed' = Append(handed, line) /\ delivered \in Seq(ProjectedEvent)
      /\ \A j \in DOMAIN delivered : delivered[j].of <= Len(handed)
      /\ \A id \in DOMAIN pending : id \in Ids /\ pending[id] \in Names \cup {None}
  BY DEF TypeOK, HandLine
<1>4. handed' \in Seq(Lines) /\ n \in Nat /\ Len(handed') = n
  BY <1>2, <1>3
<1>5. /\ delivered' \in Seq(ProjectedEvent) /\ \A j \in DOMAIN delivered : delivered'[j] = delivered[j]
      /\ \A j \in DOMAIN delivered' \ DOMAIN delivered : delivered'[j].of = n
  <2>1. new \in Seq(ProjectedEvent) /\ delivered' = delivered \o new /\ \A j \in DOMAIN new : new[j].of = n
    BY <1>1, <1>2 DEF Handed, NewEvents
  <2>2. QED
    BY <1>3, <1>4, <2>1, EventsAdded
<1>6. \A j \in DOMAIN delivered : delivered[j].of \in Nat
  <2>1. \A j \in DOMAIN delivered : delivered[j] \in ProjectedEvent
    BY <1>3
  <2>2. QED
    BY <2>1, EventLine
<1>7. \A j \in DOMAIN delivered' : delivered'[j].of <= Len(handed')
  BY <1>2, <1>3, <1>4, <1>5, <1>6
<1>8. \A id \in DOMAIN pending' : id \in Ids /\ pending'[id] \in Names \cup {None}
  <2>1. line.frame.name \in Names \cup {None}
    BY DEF Lines, Frame
  <2>2. QED
    BY <1>1, <1>3, <2>1 DEF Handed, MapAfter
<1>9. QED
  BY <1>4, <1>5, <1>7, <1>8 DEF PastTyped

-----------------------------------------------------------------------------
LEMMA TailInit == TailAssumption /\ Init => TailInv
<1> SUFFICES ASSUME TailAssumption, Init PROVE TailInv
  OBVIOUS
<1>1. /\ file = <<>> /\ handed = <<>> /\ pending = <<>> /\ delivered = <<>>
      /\ DOMAIN handed = {} /\ DOMAIN pending = {} /\ DOMAIN delivered = {} /\ Len(handed) = 0
  BY DEF Init
<1>2. TypeOK
  BY <1>1 DEF Init, TypeOK, TailAssumption, Position, Behind
<1>3. /\ PendingWaits /\ WaitingIsPending /\ CallsAnnounced /\ ResultsNameTheirCalls
      /\ FramesLeaveEvents /\ EventsInOrder
  BY <1>1 DEF PendingWaits, WaitingIsPending, CallsAnnounced, ResultsNameTheirCalls,
              FramesLeaveEvents, EventsInOrder
<1>4. QED
  BY <1>2, <1>3 DEF TailInv

LEMMA TailStep ==
  ASSUME TailAssumption, ProjectorAssumption, TailInv, [Next]_vars
  PROVE  TailInv'
<1>1. TypeOK /\ TapTyped /\ ReaderTyped /\ PastTyped
  BY TypesSplit DEF TailInv
<1>2. START \in Nat /\ MaxTime \in Nat /\ wall \in Nat
  BY <1>1 DEF TapTyped, TailAssumption
<1>3. CASE Capture \/ FlushPart \/ FlushLine \/ TapCrash
  <2>1. UNCHANGED <<wall, readervars>>
    BY <1>3 DEF Capture, FlushPart, FlushLine, TapCrash
  <2>2. TapTyped'
    BY <1>1, <1>3, TapStepTyped
  <2>3. Position \subseteq Position'
    <3>1. file' = file \/ \E line : file' = Append(file, line)
      BY <1>3 DEF Capture, FlushPart, FlushLine, TapCrash
    <3>2. Len(file) \in Nat /\ Len(file') \in Nat /\ Len(file) <= Len(file')
      BY <1>1, <2>2, <3>1 DEF TapTyped
    <3>3. QED
      BY <3>2 DEF Position
  <2>4. ReaderTyped' /\ PastTyped'
    BY <1>1, <2>1, <2>3 DEF ReaderTyped, PastTyped, readervars
  <2>5. QED
    BY <2>1, <2>2, <2>4, QuietKeeps, TypesJoin DEF readervars, TailInv
<1>4. CASE TimePasses \/ UNCHANGED vars
  <2>1. UNCHANGED <<tapvars, readervars>> /\ wall' \in wall .. MaxTime
    BY <1>1, <1>2, <1>4 DEF TimePasses, vars, TapTyped
  <2>2. TapTyped' /\ ReaderTyped' /\ PastTyped'
    BY <1>1, <1>2, <2>1 DEF TapTyped, ReaderTyped, PastTyped, Position, tapvars, readervars
  <2>3. QED
    BY <2>1, <2>2, QuietKeeps, TypesJoin DEF readervars, TailInv
<1>5. CASE StopRequested \/ Die \/ PollEmpty
  <2>1. /\ UNCHANGED <<tapvars, wall, last_tick, handed, pending, delivered>>
        /\ last_line' \in {last_line, wall} /\ pc' \in {"silent", "returned", "dead"}
        /\ fh' \in {fh, past_tail} /\ pos' = pos
    BY <1>5 DEF StopRequested, Die, PollEmpty
  <2>2. fh' \in Position /\ pos' \in Position /\ Position' = Position
    BY <1>1, <2>1 DEF ReaderTyped, Position, past_tail, tapvars
  <2>3. TapTyped' /\ ReaderTyped' /\ PastTyped'
    BY <1>1, <1>2, <2>1, <2>2 DEF TapTyped, ReaderTyped, PastTyped, tapvars
  <2>4. QED
    BY <2>1, <2>3, QuietKeeps, TypesJoin DEF TailInv
<1>6. CASE ReadLine
  <2>1. /\ HandLine(next_line) /\ UNCHANGED <<tapvars, wall, pc, last_tick>> /\ last_line' = wall
        /\ unread # {} /\ fh' = past_line /\ pos' = past_line
    BY <1>6 DEF ReadLine, tell
  <2>2. next_line \in Lines /\ past_line \in Position
    <3>1. PICK n : n = fh.line /\ n \in 0 .. Len(file) /\ file \in Seq(Lines)
      BY <1>1 DEF ReaderTyped, Position, TapTyped
    <3>2. n + 1 \in 1 .. Len(file)
      BY <2>1, <3>1 DEF unread
    <3>3. PICK line : line = file[n + 1] /\ line \in Lines
      BY <3>1, <3>2
    <3>4. [line EXCEPT !.kind = "garbage"] \in Lines
      BY <3>3 DEF Lines
    <3>5. next_line \in Lines
      BY <3>1, <3>3, <3>4 DEF next_line
    <3>6. past_line \in Position
      BY <3>1, <3>2 DEF past_line, Behind, Position
    <3>7. QED
      BY <3>5, <3>6
  <2>3. TapTyped' /\ ReaderTyped'
    BY <1>1, <1>2, <2>1, <2>2 DEF TapTyped, ReaderTyped, Position, tapvars
  <2>4. PastTyped'
    BY <1>1, <2>1, <2>2, LineTyped
  <2>5. QED
    BY <2>1, <2>2, <2>3, <2>4, LineKeeps, TypesJoin DEF TailInv
<1>7. CASE Silent
  <2>1. /\ UNCHANGED <<tapvars, wall, last_line, handed, pending>>
        /\ last_tick' \in {last_tick, wall} /\ pc' \in {"poll", "returned"}
        /\ fh' = pos /\ pos' = pos
    BY <1>7 DEF Silent, seek, tell
  <2>2. TapTyped' /\ ReaderTyped'
    BY <1>1, <1>2, <2>1 DEF TapTyped, ReaderTyped, Position, tapvars
  <2>3. CASE UNCHANGED delivered
    <3>1. PastTyped'
      BY <1>1, <2>1, <2>3 DEF PastTyped
    <3>2. QED
      BY <2>1, <2>2, <2>3, <3>1, QuietKeeps, TypesJoin DEF TailInv
  <2>4. CASE delivered' = Append(delivered, Event("tick", None, "None", FALSE, wall, 0))
    <3>1. /\ PendingWaits' /\ WaitingIsPending' /\ CallsAnnounced' /\ ResultsNameTheirCalls'
          /\ FramesLeaveEvents' /\ EventsInOrder' /\ delivered' \in Seq(ProjectedEvent)
          /\ \A j \in DOMAIN delivered' : delivered'[j].of <= Len(handed')
      BY <1>2, <2>1, <2>4, TickKeeps
    <3>2. PastTyped'
      BY <1>1, <2>1, <3>1 DEF PastTyped
    <3>3. QED
      BY <2>2, <3>1, <3>2, TypesJoin DEF TailInv
  <2>5. QED
    BY <1>7, <2>3, <2>4 DEF Silent
<1>8. QED
  BY <1>3, <1>4, <1>5, <1>6, <1>7 DEF Next, Reader

(* The tailer keeps its invariant, whatever the tap and the clock do.      *)
LEMMA TailInvariant == Spec => []TailInv
<1>1. Init => TailInv
  BY TailInit, TailAssumption
<1>2. TailInv /\ [Next]_vars => TailInv'
  BY TailStep, TailAssumption, ProjectorAssumption
<1>3. QED
  BY <1>1, <1>2, PTL DEF Spec

(* Every line is one the tap wrote, whole or spoiled, every event has its  *)
(* time and comes of no line that was not handed on.                       *)
THEOREM TailTypes == Spec => []TypeOK
<1>1. TailInv => TypeOK
  BY DEF TailInv
<1>2. QED
  BY <1>1, TailInvariant, PTL

(* A tool_result the engine hears is the answer of the latest call with    *)
(* its id, under the name that call was announced with, and the answer of  *)
(* a waiting call is heard as one (mcp.py, the pending map).               *)
THEOREM TailResults == Spec => []ResultsNameTheirCalls
<1>1. TailInv => ResultsNameTheirCalls
  BY DEF TailInv
<1>2. QED
  BY <1>1, TailInvariant, PTL

(* A list of tools declares the tools it names, any other parsed frame     *)
(* leaves an event, and events keep the order of the lines.                *)
THEOREM TailDropsNothing == Spec => []NothingSilentlyDropped
<1>1. TailInv => NothingSilentlyDropped
  BY DEF TailInv, FramesLeaveEvents, EventsInOrder, NothingSilentlyDropped
<1>2. QED
  BY <1>1, TailInvariant, PTL

-----------------------------------------------------------------------------
LEMMA AppendKeepsPrefix ==
  ASSUME NEW S, NEW s \in Seq(S), NEW e \in S
  PROVE  Len(Append(s, e)) = Len(s) + 1 /\ SubSeq(Append(s, e), 1, Len(s)) = s
  OBVIOUS

(* The position is where the lines handed on end, through partial reads    *)
(* and the rewinds over them.                                              *)
LEMMA PlaceStep == TailInv /\ InPlace /\ [Next]_vars => InPlace'
<1> SUFFICES ASSUME TailInv, InPlace, [Next]_vars PROVE InPlace'
  OBVIOUS
<1>1. CASE Capture \/ FlushPart \/ FlushLine \/ TapCrash \/ TimePasses \/ UNCHANGED vars
  <2>1. UNCHANGED <<pc, fh, pos, handed>>
    BY <1>1 DEF Capture, FlushPart, FlushLine, TapCrash, TimePasses, vars, readervars
  <2>2. QED
    BY <2>1 DEF InPlace
<1>2. CASE StopRequested \/ Die
  BY <1>2 DEF StopRequested, Die, InPlace
<1>3. CASE PollEmpty
  BY <1>3 DEF PollEmpty, InPlace
<1>4. CASE ReadLine
  <2>1. /\ pc = "poll" /\ pc' = pc /\ fh = Behind(Len(handed))
        /\ fh' = Behind(fh.line + 1) /\ pos' = fh'
        /\ handed' = Append(handed, next_line) /\ handed \in Seq(Lines)
    BY <1>4 DEF ReadLine, HandLine, past_line, tell, InPlace, TailInv, TypeOK
  <2>2. Len(handed') = Len(handed) + 1 /\ fh.line = Len(handed)
    BY <2>1 DEF Behind
  <2>3. QED
    BY <2>1, <2>2 DEF InPlace
<1>5. CASE Silent
  BY <1>5 DEF Silent, seek, tell, InPlace
<1>6. QED
  BY <1>1, <1>2, <1>3, <1>4, <1>5 DEF Next, Reader

LEMMA FeedStep == TypeOK /\ InPlace /\ [Next]_vars => [Feed!FeedNext]_(Feed!feedvars)
<1> SUFFICES ASSUME TypeOK, InPlace, [Next]_vars PROVE [Feed!FeedNext]_(Feed!feedvars)
  OBVIOUS
<1>1. CASE \/ Capture \/ FlushPart \/ TapCrash \/ TimePasses \/ PollEmpty
           \/ UNCHANGED vars
  <2>1. UNCHANGED <<file, handed>> /\ Followed' = Followed
    BY <1>1 DEF Capture, FlushPart, TapCrash, TimePasses, PollEmpty, vars, tapvars, readervars, Followed
  <2>2. QED
    BY <2>1 DEF Feed!feedvars
<1>2. CASE FlushLine
  <2>1. PICK line : line = Finished(writing) /\ file' = Append(file, line)
    BY <1>2 DEF FlushLine
  <2>2. PICK S : file \in Seq(S) /\ line \in S
    <3>1. PICK S : S = Lines \cup {line}
      OBVIOUS
    <3>2. file \in Seq(S) /\ line \in S
      BY <3>1 DEF TypeOK
    <3>3. QED
      BY <3>2
  <2>3. Len(file') = Len(file) + 1 /\ SubSeq(file', 1, Len(file)) = file
    BY <2>1, <2>2, AppendKeepsPrefix
  <2>4. handed' = handed /\ Followed' = Followed
    BY <1>2 DEF FlushLine, readervars, Followed
  <2>5. QED
    BY <2>3, <2>4 DEF Feed!FeedNext, Feed!Write
<1>3. CASE ReadLine
  <2>1. PICK n \in Nat : n = Len(handed)
    BY DEF TypeOK
  <2>2. fh = Behind(n) /\ pc = "poll" /\ unread # {}
    BY <1>3, <2>1 DEF ReadLine, InPlace
  <2>3. fh.line = n /\ fh.inside = FALSE
    BY <2>2 DEF Behind
  <2>4. n < Len(file) /\ next_line = file[n + 1]
    BY <2>2, <2>3 DEF unread, next_line, TypeOK
  <2>5. Followed /\ Followed' = Followed /\ file' = file /\ handed' = Append(handed, next_line)
    BY <1>3 DEF ReadLine, HandLine, tapvars, Followed
  <2>6. QED
    BY <2>1, <2>4, <2>5 DEF Feed!FeedNext, Feed!HandOn
<1>4. CASE StopRequested \/ Die
  <2>1. Followed /\ ~Followed' /\ file' = file /\ handed' = handed
    BY <1>4 DEF StopRequested, Die, tapvars, Followed
  <2>2. QED
    BY <2>1 DEF Feed!FeedNext, Feed!GiveUp
<1>5. CASE Silent
  <2>1. pc = "silent" /\ pc' \in {"poll", "returned"} /\ file' = file /\ handed' = handed
    BY <1>5 DEF Silent, tapvars
  <2>2. CASE pc' = "poll"
    <3>1. Followed' = Followed
      BY <2>1, <2>2 DEF Followed
    <3>2. QED
      BY <2>1, <3>1 DEF Feed!feedvars
  <2>3. CASE pc' = "returned"
    <3>1. Followed /\ ~Followed'
      BY <2>1, <2>3 DEF Followed
    <3>2. QED
      BY <2>1, <3>1 DEF Feed!FeedNext, Feed!GiveUp
  <2>4. QED
    BY <2>1, <2>2, <2>3
<1>6. QED
  BY <1>1, <1>2, <1>3, <1>4, <1>5 DEF Next, Reader

(* Every complete line is handed on once, in the order it was written, for *)
(* as long as the log is followed, wherever reads over partial lines and   *)
(* the rewinds put the file: the safety half of ImplementsFeed.            *)
THEOREM TailFeedsInOrder == Spec => Feed!FeedInit /\ [][Feed!FeedNext]_(Feed!feedvars)
<1>1. Init => Feed!FeedInit
  BY DEF Init, Feed!FeedInit, Followed
<1>2. Init => InPlace
  BY DEF Init, InPlace
<1>3. TailInv /\ InPlace /\ [Next]_vars => InPlace'
  BY PlaceStep
<1>4. TypeOK /\ InPlace /\ [Next]_vars => [Feed!FeedNext]_(Feed!feedvars)
  BY FeedStep
<1>5. QED
  BY <1>1, <1>2, <1>3, <1>4, TailTypes, TailInvariant, PTL DEF Spec
=============================================================================
