------------------------ MODULE AgentSessionsProofs ------------------------
(***************************************************************************)
(* Theorems about AgentSessions: whatever the order in which the workers   *)
(* of one status change run their statements, and wherever a crash or a    *)
(* lost connection cuts them off, the tables keep their shape, segments of *)
(* a session differ, and the history comes to agree with mod_callcenter,   *)
(* unless a status change runs into the startup sequence.                  *)
(***************************************************************************)
EXTENDS AgentSessions, SequenceTheorems, TLAPS

Active(w) == work[w].pc # "off"

\* The open segment is the latest one and lies in the open session.
Shape ==
  /\ openE # 0 => openE = Len(events) /\ events[openE].session = openS
  /\ \A i \in 1..Len(events) : events[i].session <= sessions

\* The workers that run belong to one occasion and want the same status.
Occasion ==
  /\ \A v, w \in Worker : Active(v) /\ Active(w) =>
       v[1] = w[1] /\ work[v].status = work[w].status
  /\ \A w \in Worker : work[w].pc = "esl" =>
       w[2] = "http" /\ \A v \in Worker : Active(v) => v = w
  /\ boot = "push" => \A w \in Worker : ~Active(w)
  /\ boot \in {"read", "list"} => \A w \in Worker : w[1] = startup => ~Active(w)
  /\ boot # "off" => link /\ startup > 0

\* What a worker's data have to do with the agents row.
Carries(w) ==
  /\ work[w].code # "none" => w[2] = "http" /\ work[w].status = "OnBreak"
  /\ work[w].pc \notin {"off", "esl", "row"} =>
       /\ w[2] = "http" => row.code = work[w].code
       /\ w[2] # "reconciliation" => row.status = work[w].status
  /\ ~SlowModule /\ link /\ work[w].pc \notin {"off", "esl"} =>
       work[w].status = fs
  /\ ~SlowModule /\ w[2] = "reconciliation" /\ Active(w)
       /\ work[w].status = "LoggedOut" => fs = "LoggedOut"
  /\ w[2] = "reconciliation" => work[w].pc # "row"

\* What a worker of a logout, and of a change to another status, may rely on of
\* what it has read, although the other worker has gone on since.
LeavesAt(w) ==
  /\ work[w].pc \notin {"openSession", "openEvent"}
  /\ work[w].pc \in {"event", "closeEvent", "closeSession"} => openS \in {0, work[w].s}
  /\ work[w].pc \in {"closeEvent", "closeSession"} => work[w].s # 0
  /\ work[w].pc = "closeEvent" => /\ work[w].e \in 1..Len(events)
                                  /\ openE \in {0, work[w].e}
  /\ work[w].pc = "closeSession" => openE = 0

\* There is no open segment, or it has the status that w wants.
NoneOrWanted(w) == openE = 0 \/ events[openE].status = work[w].status

StaysAt(w) ==
  /\ work[w].pc # "closeSession"
  /\ work[w].pc \in {"event", "closeEvent"} => work[w].s \in {0, openS}
  /\ work[w].pc = "event" /\ work[w].s = 0 => NoneOrWanted(w)
  /\ work[w].pc = "closeEvent" =>
       /\ work[w].e \in 1..Len(events) /\ openS # 0
       /\ openE = work[w].e \/ NoneOrWanted(w)
       /\ events[work[w].e].status = work[w].status => work[w].code # "none"
       /\ work[w].s = 0 => events[work[w].e].status = work[w].status
  /\ work[w].pc = "openSession" => work[w].s = 0 /\ NoneOrWanted(w)
  /\ work[w].pc = "openEvent" => /\ work[w].s # 0 /\ work[w].s = openS
                                 /\ NoneOrWanted(w)

Stages(w) ==
  IF work[w].status = "LoggedOut" THEN LeavesAt(w) ELSE StaysAt(w)

Workers ==
  Occasion /\ \A w \in Worker : Carries(w) /\ Stages(w)

\* A worker that will still bring the tables in line with the status it wants.
Responsible(w) ==
  \/ work[w].pc \in {"esl", "row", "openEvent"}
  \/ work[w].pc = "session" /\ w[2] # "reconciliation"
  \/ work[w].pc \in {"event", "closeEvent", "closeSession"} /\ work[w].s = openS
  \/ work[w].pc = "openSession" /\ openS = 0

\* The tables tell that the agent's status is f.
Tells(f) ==
  /\ openS # 0 <=> f # "LoggedOut"
  /\ openE # 0 => events[openE].status = f
  /\ openS # 0 /\ row.code = "none" => openE # 0

\* A connected history agrees already, or a worker will see to it.
Covered ==
  link /\ boot \notin {"read", "push"} =>
    Tells(fs) \/ \E w \in Worker : Responsible(w)

\* The session goes on but its latest segment, on duty, is closed.
Gap ==
  /\ openE = 0 /\ openS # 0 /\ Len(events) > 0
  /\ events[Len(events)].session = openS
  /\ events[Len(events)].status = "Available"

Closes ==
  faults = 0 /\ Gap =>
    \E w \in Worker : Responsible(w) /\ work[w].status # "Available"

----------------------------------------------------------------------------
(* What a step does to the worker that makes it.                            *)

Keeps(w) ==
  /\ work' = [work EXCEPT ![w] = work'[w]]
  /\ \A v \in Worker : v # w => work'[v] = work[v]

Goes(w, pc, s, e) ==
  /\ Keeps(w)
  /\ work'[w] = [pc |-> pc, status |-> work[w].status, code |-> work[w].code,
                 s |-> s, e |-> e]

Stops(w) == Keeps(w) /\ work'[w] = Off

LEMMA StartingIs ==
  ASSUME NEW pc, NEW status, NEW code
  PROVE  Starting(pc, status, code) =
           [pc |-> pc, status |-> status, code |-> code, s |-> 0, e |-> 0]
<1>1. ASSUME NEW r, r = Starting(pc, status, code)
      PROVE  /\ r.pc = pc /\ r.status = status /\ r.code = code
             /\ r.s = 0 /\ r.e = 0
             /\ r = [f \in {"pc", "status", "code", "s", "e"} |-> r[f]]
  BY <1>1 DEF Starting, Off
<1>. QED  BY <1>1

LEMMA GotoGoes ==
  ASSUME TypeOK, NEW w \in Worker, NEW pc, Goto(w, pc)
  PROVE  IF pc = "off" THEN Stops(w) ELSE Goes(w, pc, work[w].s, work[w].e)
<1>1. CASE pc = "off"
  <2>1. work' = [work EXCEPT ![w] = Off]
    BY <1>1 DEF Goto
  <2>. QED  BY <1>1, <2>1 DEF Stops, Keeps, TypeOK
<1>2. CASE pc # "off"
  <2>1. work' = [work EXCEPT ![w] = [work[w] EXCEPT !.pc = pc]]
    BY <1>2 DEF Goto
  <2>. QED  BY <1>2, <2>1 DEF Goes, Keeps, TypeOK, Transition
<1>. QED  BY <1>1, <1>2

\* The steps of a worker, each with what it leaves the worker to do.
LEMMA StepOf ==
  ASSUME TypeOK, NEW w \in Worker, Step(w)
  PROVE  /\ UNCHANGED <<fs, link, acts, boot, startup, pushed, crossed, faults>>
         /\ \/ /\ work[w].pc = "row" /\ UNCHANGED tables
               /\ row' = [status |-> work[w].status,
                          code |-> IF w[2] = "http" THEN work[w].code ELSE row.code]
               /\ Goes(w, "session", work[w].s, work[w].e)
            \/ /\ work[w].pc = "session" /\ UNCHANGED <<row, tables>>
               /\ \/ openS = 0 /\ w[2] = "reconciliation" /\ Stops(w)
                  \/ /\ ~(openS = 0 /\ w[2] = "reconciliation")
                     /\ Goes(w, "event", openS, work[w].e)
            \/ /\ work[w].pc = "event" /\ UNCHANGED <<row, tables>>
               /\ IF AfterRead(w, openE) = "off"
                  THEN Stops(w) ELSE Goes(w, AfterRead(w, openE), work[w].s, openE)
            \/ /\ work[w].pc = "closeEvent" /\ UNCHANGED <<row, sessions, openS, events>>
               /\ openE' = IF openE = work[w].e THEN 0 ELSE openE
               /\ IF AfterClose(w) = "off"
                  THEN Stops(w)
                  ELSE Goes(w, AfterClose(w), work[w].s, work[w].e)
            \/ /\ work[w].pc = "closeSession" /\ UNCHANGED <<row, sessions, events, openE>>
               /\ openS' = IF openS = work[w].s THEN 0 ELSE openS
               /\ Stops(w)
            \/ /\ work[w].pc = "openSession" /\ UNCHANGED <<row, events, openE>>
               /\ \/ /\ openS = 0 /\ sessions' = sessions + 1 /\ openS' = sessions + 1
                     /\ Goes(w, "openEvent", sessions + 1, work[w].e)
                  \/ /\ openS # 0 /\ UNCHANGED <<sessions, openS>>
                     /\ Goes(w, "openEvent", openS, work[w].e) \/ Stops(w)
            \/ /\ work[w].pc = "openEvent" /\ UNCHANGED <<row, sessions, openS>>
               /\ IF openE = 0
                  THEN /\ events' = Append(events, NewSegment(w))
                       /\ openE' = Len(events) + 1
                  ELSE UNCHANGED <<events, openE>>
               /\ Stops(w)
<1>. USE DEF Others, tables, bootVars
<1>1. CASE UpdateAgent(w)
  BY <1>1, GotoGoes DEF UpdateAgent
<1>2. CASE ReadSession(w)
  <2>1. CASE openS = 0 /\ w[2] = "reconciliation"
    BY <1>2, <2>1, GotoGoes DEF ReadSession
  <2>2. CASE ~(openS = 0 /\ w[2] = "reconciliation")
    <3>1. work' = [work EXCEPT ![w].s = openS, ![w].pc = "event"]
      BY <1>2, <2>2 DEF ReadSession
    <3>2. Goes(w, "event", openS, work[w].e)
      BY <3>1 DEF Goes, Keeps, TypeOK, Transition
    <3>. QED  BY <1>2, <2>2, <3>2 DEF ReadSession
  <2>. QED  BY <2>1, <2>2
<1>3. CASE ReadEvent(w)
  <2>1. CASE AfterRead(w, openE) = "off"
    BY <1>3, <2>1, GotoGoes DEF ReadEvent
  <2>2. CASE AfterRead(w, openE) # "off"
    <3>1. work' = [work EXCEPT ![w].e = openE, ![w].pc = AfterRead(w, openE)]
      BY <1>3, <2>2 DEF ReadEvent
    <3>2. Goes(w, AfterRead(w, openE), work[w].s, openE)
      BY <3>1 DEF Goes, Keeps, TypeOK, Transition
    <3>. QED  BY <1>3, <2>2, <3>2 DEF ReadEvent
  <2>. QED  BY <2>1, <2>2
<1>4. CASE CloseEvent(w)
  BY <1>4, GotoGoes DEF CloseEvent
<1>5. CASE CloseSession(w)
  BY <1>5, GotoGoes DEF CloseSession
<1>6. CASE OpenSession(w)
  <2>1. CASE openS = 0
    <3>1. work' = [work EXCEPT ![w].s = sessions + 1, ![w].pc = "openEvent"]
      BY <1>6, <2>1 DEF OpenSession
    <3>2. Goes(w, "openEvent", sessions + 1, work[w].e)
      BY <3>1 DEF Goes, Keeps, TypeOK, Transition
    <3>. QED  BY <1>6, <2>1, <3>2 DEF OpenSession
  <2>2. CASE openS # 0
    <3>1. \/ work' = [work EXCEPT ![w].s = openS, ![w].pc = "openEvent"]
          \/ Goto(w, "off")
      BY <1>6, <2>2 DEF OpenSession
    <3>2. Goto(w, "off") => Stops(w)
      BY GotoGoes
    <3>3. work' = [work EXCEPT ![w].s = openS, ![w].pc = "openEvent"]
          => Goes(w, "openEvent", openS, work[w].e)
      BY DEF Goes, Keeps, TypeOK, Transition
    <3>. QED  BY <1>6, <2>2, <3>1, <3>2, <3>3 DEF OpenSession
  <2>. QED  BY <2>1, <2>2
<1>7. CASE OpenEvent(w)
  BY <1>7, GotoGoes DEF OpenEvent
<1>. QED  BY <1>1, <1>2, <1>3, <1>4, <1>5, <1>6, <1>7 DEF Step

----------------------------------------------------------------------------
(* Types.                                                                   *)

PcOf == {"off", "esl", "row", "session", "event", "closeEvent",
            "closeSession", "openSession", "openEvent"}

LEMMA WorkTyped ==
  ASSUME TypeOK, NEW w \in Worker
  PROVE  /\ work[w].pc \in PcOf /\ work[w].status \in Status
         /\ work[w].code \in Code /\ work[w].s \in Nat /\ work[w].e \in Nat
<1>1. work[w] \in Transition
  BY DEF TypeOK
<1>. QED  BY <1>1 DEF Transition, PcOf

\* A worker's new data are in the type when its two numbers are.
LEMMA WorkStays ==
  ASSUME TypeOK, NEW w \in Worker,
         \/ Stops(w)
         \/ \E pc \in PcOf, s \in Nat, e \in Nat : Goes(w, pc, s, e)
  PROVE  work' \in [Worker -> Transition]
<1>1. CASE Stops(w)
  <2>1. Off \in Transition
    BY DEF Off, Transition, Status, Code
  <2>. QED  BY <1>1, <2>1 DEF Stops, Keeps, TypeOK
<1>2. ASSUME NEW pc \in PcOf, NEW s \in Nat, NEW e \in Nat, Goes(w, pc, s, e)
      PROVE  work' \in [Worker -> Transition]
  <2>1. /\ work'[w] = [pc |-> pc, status |-> work[w].status,
                      code |-> work[w].code, s |-> s, e |-> e]
        /\ work' = [work EXCEPT ![w] = work'[w]]
    BY <1>2 DEF Goes, Keeps
  <2>2. work[w].status \in Status /\ work[w].code \in Code
    BY WorkTyped
  <2>3. [pc |-> pc, status |-> work[w].status, code |-> work[w].code,
         s |-> s, e |-> e] \in Transition
    BY <2>2 DEF Transition, PcOf
  <2>. QED  BY <2>1, <2>3 DEF TypeOK
<1>. QED  BY <1>1, <1>2

\* Every step ends its worker, or leaves it at another statement.
LEMMA WorkerOfStep ==
  ASSUME TypeOK, NEW w \in Worker, Step(w)
  PROVE  \/ Stops(w)
         \/ \E pc \in PcOf \ {"esl", "row"}, s \in Nat, e \in Nat : Goes(w, pc, s, e)
<1>1. /\ work[w].pc \in PcOf /\ work[w].s \in Nat /\ work[w].e \in Nat
      /\ sessions \in Nat /\ openS \in Nat /\ openE \in Nat
  BY WorkTyped DEF TypeOK
<1>. QED  BY <1>1, StepOf DEF AfterRead, AfterClose, PcOf

\* What holds of a worker whatever the others do: it opens rows only for an
\* agent on duty, and a segment only in a session that it knows.
Opens(w) ==
  /\ work[w].pc \in {"openSession", "openEvent"} => work[w].status # "LoggedOut"
  /\ work[w].pc = "openEvent" => work[w].s # 0

Sound == TypeOK /\ \A w \in Worker : Opens(w)

LEMMA TypeOfStep ==
  ASSUME TypeOK, NEW w \in Worker, Opens(w), Step(w)
  PROVE  TypeOK'
<1>1. /\ work[w].pc \in PcOf /\ work[w].status \in Status
      /\ work[w].code \in Code /\ work[w].s \in Nat /\ work[w].e \in Nat
      /\ sessions \in Nat /\ openS \in 0..sessions /\ openS \in Nat
      /\ events \in Seq(Segment) /\ Len(events) \in Nat
      /\ openE \in 0..Len(events) /\ openE \in Nat
      /\ row \in [status: Status, code: Code]
  BY WorkTyped DEF TypeOK
<1>2. /\ fs' \in Status /\ link' \in BOOLEAN /\ acts' \in 0..ActBound
      /\ boot' \in {"off", "read", "push", "sync", "list"}
      /\ pushed' \in Status /\ faults' \in 0..FaultBound
      /\ startup' \in 0..acts' /\ crossed' \in BOOLEAN
  BY StepOf DEF TypeOK
<1>4. work' \in [Worker -> Transition]
  BY WorkerOfStep, WorkStays
<1>5. row' \in [status: Status, code: Code]
  BY <1>1, StepOf
<1>6. sessions' \in Nat /\ openS' \in 0..sessions'
  BY <1>1, StepOf DEF tables
<1>7. events' \in Seq(Segment) /\ openE' \in 0..Len(events')
  <2>1. CASE UNCHANGED events /\ openE' \in {openE, 0}
    BY <1>1, <2>1
  <2>2. CASE /\ work[w].pc = "openEvent" /\ events' = Append(events, NewSegment(w))
             /\ openE' = Len(events) + 1
    <3>1. NewSegment(w) \in Segment
      BY <1>1, <2>2 DEF NewSegment, Segment, Opens, Status
    <3>. QED  BY <1>1, <2>2, <3>1, AppendProperties
  <2>. QED  BY <2>1, <2>2, StepOf DEF tables
<1>. QED  BY <1>2, <1>4, <1>5, <1>6, <1>7 DEF TypeOK

----------------------------------------------------------------------------
(* What a step leaves true of the tables and of the workers.                *)

\* The numbers of the tables.
LEMMA TablesTyped ==
  ASSUME TypeOK
  PROVE  /\ sessions \in Nat /\ openS \in Nat /\ openS <= sessions
         /\ events \in Seq(Segment) /\ Len(events) \in Nat
         /\ openE \in Nat /\ openE <= Len(events)
         /\ \A i \in 1..Len(events) :
              /\ events[i].session \in Nat /\ events[i].session # 0
              /\ events[i].status \in {"Available", "OnBreak"}
<1>1. \A i \in 1..Len(events) : events[i] \in Segment
  BY ElementOfSeq DEF TypeOK
<1>. QED  BY <1>1 DEF TypeOK, Segment, Status

\* With no open session there is no open segment.
LEMMA NoSessionNoSegment ==
  ASSUME TypeOK, Shape, openS = 0
  PROVE  openE = 0
BY TablesTyped DEF Shape

\* The two ways in which a step changes the segments.
LEMMA SegmentsOfStep ==
  ASSUME TypeOK, NEW w \in Worker, Step(w)
  PROVE  \/ UNCHANGED events /\ openE' \in {openE, 0}
         \/ /\ work[w].pc = "openEvent" /\ openE = 0
            /\ UNCHANGED <<sessions, openS>>
            /\ openE' = Len(events) + 1 /\ Len(events') = Len(events) + 1
            /\ \A i \in 1..Len(events) : events'[i] = events[i]
            /\ events'[Len(events) + 1] = NewSegment(w)
<1>1. CASE UNCHANGED events /\ openE' \in {openE, 0}
  BY <1>1
<1>2. CASE /\ work[w].pc = "openEvent" /\ openE = 0
           /\ events' = Append(events, NewSegment(w))
           /\ openE' = Len(events) + 1 /\ UNCHANGED <<sessions, openS>>
  <2>1. /\ Len(events') = Len(events) + 1
        /\ \A i \in 1..Len(events) : events'[i] = events[i]
        /\ events'[Len(events) + 1] = NewSegment(w)
    BY <1>2, TablesTyped
  <2>. QED  BY <1>2, <2>1
<1>. QED  BY <1>1, <1>2, StepOf DEF tables

LEMMA ShapeOfStep ==
  ASSUME TypeOK, Shape, Workers, NEW w \in Worker, Step(w)
  PROVE  Shape'
<1>. USE TablesTyped DEF Shape
<1>0. Stages(w)
  BY DEF Workers
<1>1. sessions' \in Nat /\ sessions <= sessions'
  BY StepOf DEF tables
<1>2. CASE UNCHANGED events /\ openE' \in {openE, 0}
  <2>1. openE' # 0 => openS' = openS
    <3>1. CASE work[w].pc = "closeSession"
      <4>1. openE = 0
        BY <1>0, <3>1 DEF Stages, LeavesAt, StaysAt
      <4>. QED  BY <1>2, <4>1
    <3>2. CASE work[w].pc = "openSession" /\ openS = 0
      BY <1>2, <3>2, NoSessionNoSegment
    <3>. QED  BY <3>1, <3>2, StepOf DEF tables
  <2>. QED  BY <1>1, <1>2, <2>1
<1>3. CASE /\ work[w].pc = "openEvent" /\ UNCHANGED <<sessions, openS>>
           /\ openE' = Len(events) + 1 /\ Len(events') = Len(events) + 1
           /\ \A i \in 1..Len(events) : events'[i] = events[i]
           /\ events'[Len(events) + 1] = NewSegment(w)
  <2>1. NewSegment(w).session = openS
    BY <1>0, <1>3 DEF NewSegment, Stages, LeavesAt, StaysAt
  <2>. QED  BY <1>3, <2>1
<1>. QED  BY <1>2, <1>3, SegmentsOfStep

LEMMA CarriesOfStep ==
  ASSUME TypeOK, Workers, NEW w \in Worker, Step(w), NEW v \in Worker
  PROVE  Carries(v)'
<1>1. UNCHANGED <<fs, link>> /\ Active(w) /\ work[w].pc # "esl"
  BY StepOf DEF Active
<1>2. Carries(v) /\ Carries(w)
  BY DEF Workers
<1>3. CASE v = w
  <2>1. \/ Stops(w)
        \/ /\ \E pc \in PcOf \ {"esl", "row"}, s \in Nat, e \in Nat : Goes(w, pc, s, e)
           /\ work[w].pc # "row" /\ row' = row
        \/ /\ Goes(w, "session", work[w].s, work[w].e)
           /\ row'.status = work[w].status
           /\ w[2] = "http" => row'.code = work[w].code
    <3>1. CASE work[w].pc = "row"
      BY <3>1, StepOf
    <3>2. CASE work[w].pc # "row"
      <4>1. row' = row
        BY <3>2, StepOf
      <4>2. \/ Stops(w)
            \/ \E pc \in PcOf \ {"esl", "row"}, s \in Nat, e \in Nat : Goes(w, pc, s, e)
        BY WorkerOfStep
      <4>. QED  BY <3>2, <4>1, <4>2
    <3>. QED  BY <3>1, <3>2
  <2>2. CASE Stops(w)
    BY <1>3, <2>2 DEF Stops, Off, Carries, Active
  <2>3. ASSUME NEW pc \in PcOf \ {"esl", "row"}, NEW s \in Nat, NEW e \in Nat,
               Goes(w, pc, s, e), work[w].pc # "row", row' = row
        PROVE  Carries(w)'
    <3>1. work'[w].pc = pc /\ work'[w].status = work[w].status
          /\ work'[w].code = work[w].code
      BY <2>3 DEF Goes
    <3>. QED  BY <1>1, <1>2, <2>3, <3>1 DEF Carries, Active
  <2>4. CASE /\ Goes(w, "session", work[w].s, work[w].e)
             /\ row'.status = work[w].status
             /\ w[2] = "http" => row'.code = work[w].code
    <3>1. work'[w].pc = "session" /\ work'[w].status = work[w].status
          /\ work'[w].code = work[w].code
      BY <2>4 DEF Goes
    <3>. QED  BY <1>1, <1>2, <2>4, <3>1, <1>3 DEF Carries, Active
  <2>. QED  BY <1>3, <2>1, <2>2, <2>3, <2>4
<1>4. CASE v # w
  <2>1. work'[v] = work[v]
    BY <1>4, StepOf DEF Goes, Stops, Keeps
  <2>2. CASE work[v].pc \in {"off", "esl", "row"} \/ row' = row
    BY <1>1, <1>2, <2>1, <2>2 DEF Carries, Active
  <2>3. CASE Active(v) /\ row' # row
    <3>1. row' = [status |-> work[w].status,
                  code |-> IF w[2] = "http" THEN work[w].code ELSE row.code]
      BY <2>3, StepOf
    <3>2. work[v].status = work[w].status /\ v[1] = w[1]
      BY <1>1, <2>3 DEF Workers, Occasion
    <3>3. ~(v[2] = "http" /\ w[2] = "http")
      BY <1>4, <3>2 DEF Worker
    <3>4. /\ row'.status = work[v].status
          /\ v[2] = "http" => row'.code = row.code
      BY <3>1, <3>2, <3>3
    <3>. QED  BY <1>1, <1>2, <2>1, <3>4 DEF Carries, Active
  <2>. QED  BY <2>2, <2>3 DEF Active
<1>. QED  BY <1>3, <1>4

\* Another worker can rely on what it has read: only a worker that wants the same
\* status changes the tables meanwhile.
LEMMA StagesOfOthers ==
  ASSUME TypeOK, Shape, Workers, NEW w \in Worker, Step(w),
         NEW v \in Worker, v # w
  PROVE  Stages(v)'
<1>1. work'[v] = work[v]
  BY StepOf DEF Goes, Stops, Keeps
<1>2. Stages(v) /\ Stages(w)
  BY DEF Workers
<1>3. CASE ~Active(v)
  BY <1>1, <1>2, <1>3 DEF Stages, LeavesAt, StaysAt, Active
<1>4. CASE Active(v)
  <2>1. work[w].status = work[v].status
    BY <1>4, StepOf DEF Workers, Occasion, Active
  <2>2. CASE UNCHANGED tables
    BY <1>1, <1>2, <2>2 DEF Stages, LeavesAt, StaysAt, NoneOrWanted, tables
  <2>3. CASE work[v].status = "LoggedOut"
    <3>1. UNCHANGED events /\ openS' \in {openS, 0} /\ openE' \in {openE, 0}
      BY <1>2, <2>1, <2>3, StepOf DEF Stages, LeavesAt, tables
    <3>. QED  BY <1>1, <1>2, <2>3, <3>1 DEF Stages, LeavesAt
  <2>4. CASE work[v].status # "LoggedOut"
    <3>1. StaysAt(v) /\ StaysAt(w)
      BY <1>2, <2>1, <2>4 DEF Stages
    <3>2. CASE work[w].pc = "closeEvent"
      <4>1. UNCHANGED <<events, openS>> /\ openE' \in {openE, 0}
        BY <3>2, StepOf
      <4>. QED  BY <1>1, <2>4, <3>1, <4>1 DEF Stages, StaysAt, NoneOrWanted
    <3>3. CASE work[w].pc = "openSession" /\ ~UNCHANGED tables
      <4>1. openS = 0 /\ openE' = 0 /\ UNCHANGED events
        BY <3>3, StepOf, NoSessionNoSegment DEF tables
      <4>. QED  BY <1>1, <2>4, <3>1, <4>1 DEF Stages, StaysAt, NoneOrWanted
    <3>4. CASE work[w].pc = "openEvent" /\ openE = 0
      <4>1. /\ UNCHANGED openS /\ openE' = Len(events) + 1
            /\ Len(events') = Len(events) + 1 /\ openE' # 0
            /\ \A i \in 1..Len(events) : events'[i] = events[i]
            /\ events'[openE'].status = work[v].status
            /\ \A i \in 1..Len(events) : i \in 1..Len(events')
        <5>1. UNCHANGED openS /\ events' # events
          BY <3>4, StepOf, TablesTyped
        <5>2. /\ openE' = Len(events) + 1 /\ Len(events') = Len(events) + 1
              /\ \A i \in 1..Len(events) : events'[i] = events[i]
              /\ events'[Len(events) + 1] = NewSegment(w)
          BY <5>1, SegmentsOfStep
        <5>3. NewSegment(w).status = work[v].status
          BY <2>1 DEF NewSegment
        <5>4. Len(events) \in Nat
          BY TablesTyped
        <5>. QED  BY <5>1, <5>2, <5>3, <5>4
      <4>. QED  BY <1>1, <2>4, <3>1, <4>1 DEF Stages, StaysAt, NoneOrWanted
    <3>. QED  BY <2>2, <3>1, <3>2, <3>3, <3>4, StepOf DEF tables, StaysAt
  <2>. QED  BY <2>2, <2>3, <2>4
<1>. QED  BY <1>3, <1>4

\* What a worker has read for a logout.
LEMMA LeavesOfStep ==
  ASSUME TypeOK, Shape, Workers, NEW w \in Worker, Step(w),
         work[w].status = "LoggedOut"
  PROVE  Stages(w)'
<1>1. LeavesAt(w)
  BY DEF Workers, Stages
<1>2. CASE Stops(w)
  BY <1>2 DEF Stops, Off, Stages, LeavesAt
<1>3. ASSUME NEW pc, NEW s, NEW e, Goes(w, pc, s, e)
      PROVE  /\ work'[w].pc = pc /\ work'[w].status = "LoggedOut"
             /\ work'[w].s = s /\ work'[w].e = e
  BY <1>3 DEF Goes
<1>4. CASE work[w].pc = "row"
  BY <1>3, <1>4, StepOf DEF Stages, LeavesAt
<1>5. CASE work[w].pc = "session"
  BY <1>2, <1>3, <1>5, StepOf DEF Stages, LeavesAt, tables
<1>6. CASE work[w].pc = "event"
  <2>1. UNCHANGED tables
    BY <1>6, StepOf
  <2>2. \/ Stops(w)
        \/ /\ work[w].s # 0
           /\ \/ openE # 0 /\ Goes(w, "closeEvent", work[w].s, openE)
              \/ openE = 0 /\ Goes(w, "closeSession", work[w].s, openE)
    BY <1>6, StepOf DEF AfterRead
  <2>3. openE # 0 => openE \in 1..Len(events)
    BY TablesTyped
  <2>. QED  BY <1>1, <1>2, <1>3, <1>6, <2>1, <2>2, <2>3 DEF Stages, LeavesAt, tables
<1>7. CASE work[w].pc = "closeEvent"
  <2>1. openE' = 0 /\ openS' = openS /\ Goes(w, "closeSession", work[w].s, work[w].e)
    BY <1>1, <1>7, StepOf DEF AfterClose, LeavesAt
  <2>. QED  BY <1>1, <1>3, <1>7, <2>1 DEF Stages, LeavesAt
<1>8. CASE work[w].pc = "closeSession"
  BY <1>2, <1>8, StepOf
<1>. QED  BY <1>1, <1>4, <1>5, <1>6, <1>7, <1>8, StepOf DEF LeavesAt

\* What a worker has read for a change to another status.
LEMMA StaysOfStep ==
  ASSUME TypeOK, Shape, Workers, NEW w \in Worker, Step(w),
         work[w].status # "LoggedOut"
  PROVE  Stages(w)'
<1>1. StaysAt(w)
  BY DEF Workers, Stages
<1>2. CASE Stops(w)
  BY <1>2 DEF Stops, Off, Stages, LeavesAt
<1>3. ASSUME NEW pc, NEW s, NEW e, Goes(w, pc, s, e)
      PROVE  /\ work'[w].pc = pc /\ work'[w].status = work[w].status
             /\ work'[w].code = work[w].code
             /\ work'[w].s = s /\ work'[w].e = e
  BY <1>3 DEF Goes
<1>4. CASE work[w].pc = "row"
  BY <1>3, <1>4, StepOf DEF Stages, StaysAt
<1>5. CASE work[w].pc = "session"
  BY <1>2, <1>3, <1>5, StepOf, NoSessionNoSegment
     DEF Stages, StaysAt, NoneOrWanted, tables
<1>6. CASE work[w].pc = "event"
  <2>1. UNCHANGED tables
    BY <1>6, StepOf
  <2>2. \/ Stops(w)
        \/ /\ openE # 0 /\ Goes(w, "closeEvent", work[w].s, openE)
           /\ events[openE].status = work[w].status => work[w].code # "none"
        \/ openE = 0 /\ work[w].s = 0 /\ Goes(w, "openSession", work[w].s, openE)
        \/ openE = 0 /\ work[w].s # 0 /\ Goes(w, "openEvent", work[w].s, openE)
    BY <1>6, StepOf DEF AfterRead, NewReason
  <2>3. openE # 0 => openE \in 1..Len(events) /\ openS # 0
    BY TablesTyped, NoSessionNoSegment
  <2>. QED  BY <1>1, <1>2, <1>3, <1>6, <2>1, <2>2, <2>3
            DEF Stages, StaysAt, NoneOrWanted, tables
<1>7. CASE work[w].pc = "closeEvent"
  <2>1. /\ UNCHANGED <<openS, events>>
        /\ IF openE = work[w].e THEN openE' = 0 ELSE openE' = openE
    BY <1>7, StepOf
  <2>2. \/ Stops(w)
        \/ work[w].s # 0 /\ Goes(w, "openEvent", work[w].s, work[w].e)
    BY <1>1, <1>7, StepOf DEF AfterClose, StaysAt
  <2>. QED  BY <1>1, <1>2, <1>3, <1>7, <2>1, <2>2 DEF Stages, StaysAt, NoneOrWanted
<1>8. CASE work[w].pc = "openSession"
  <2>1. \/ Stops(w)
        \/ /\ Goes(w, "openEvent", openS', work[w].e) /\ openS' # 0
           /\ UNCHANGED <<openE, events>>
    BY <1>8, StepOf, TablesTyped
  <2>. QED  BY <1>1, <1>2, <1>3, <1>8, <2>1 DEF Stages, StaysAt, NoneOrWanted
<1>9. CASE work[w].pc = "openEvent"
  BY <1>2, <1>9, StepOf
<1>. QED  BY <1>1, <1>4, <1>5, <1>6, <1>7, <1>8, <1>9, StepOf DEF StaysAt

LEMMA OccasionOfStep ==
  ASSUME TypeOK, Workers, NEW w \in Worker, Step(w)
  PROVE  Occasion'
<1>1. UNCHANGED <<link, acts, boot, startup>> /\ Active(w) /\ work[w].pc # "esl"
  BY StepOf DEF Active
<1>2. ASSUME NEW v \in Worker, v # w
      PROVE  work'[v] = work[v]
  BY <1>2, WorkerOfStep DEF Goes, Stops, Keeps
<1>3. /\ work'[w].pc # "esl"
      /\ work'[w].pc # "off" => work'[w].status = work[w].status
  <2>1. CASE Stops(w)
    BY <2>1 DEF Stops, Off
  <2>2. ASSUME NEW pc \in PcOf \ {"esl", "row"}, NEW s \in Nat, NEW e \in Nat,
               Goes(w, pc, s, e)
        PROVE  work'[w].pc # "esl" /\ work'[w].status = work[w].status
    BY <2>2 DEF Goes
  <2>. QED  BY <2>1, <2>2, WorkerOfStep
<1>4. ASSUME NEW v \in Worker, Active(v)'
      PROVE  Active(v) /\ work'[v].status = work[v].status
  BY <1>1, <1>2, <1>3, <1>4 DEF Active
<1>5. ASSUME NEW v \in Worker, work'[v].pc = "esl"
      PROVE  FALSE
  BY <1>1, <1>2, <1>3, <1>5 DEF Workers, Occasion
<1>. QED  BY <1>1, <1>4, <1>5 DEF Workers, Occasion

LEMMA WorkersOfStep ==
  ASSUME TypeOK, Shape, Workers, NEW w \in Worker, Step(w)
  PROVE  Workers'
BY CarriesOfStep, StagesOfOthers, LeavesOfStep, StaysOfStep, OccasionOfStep
   DEF Workers

----------------------------------------------------------------------------
(* The other actions leave the tables alone: they start workers, all of one *)
(* occasion, or stop them.                                                  *)

\* A worker that starts, and the others.
LEMMA WorkerStarts ==
  ASSUME TypeOK, NEW w \in Worker, NEW pc \in PcOf, NEW status \in Status,
         NEW code \in Code, work' = [work EXCEPT ![w] = Starting(pc, status, code)]
  PROVE  /\ work' \in [Worker -> Transition]
         /\ work'[w].pc = pc /\ work'[w].status = status /\ work'[w].code = code
         /\ \A v \in Worker : v # w => work'[v] = work[v]
<1>1. Starting(pc, status, code) =
        [pc |-> pc, status |-> status, code |-> code, s |-> 0, e |-> 0]
  BY StartingIs
<1>2. Starting(pc, status, code) \in Transition
  BY <1>1 DEF Transition, PcOf
<1>3. work'[w] = Starting(pc, status, code)
  BY DEF TypeOK
<1>4. work'[w].pc = pc /\ work'[w].status = status /\ work'[w].code = code
  BY <1>1, <1>3
<1>. QED  BY <1>2, <1>4 DEF TypeOK

\* Nobody was at work, and one worker starts.
LEMMA FirstWorker ==
  ASSUME TypeOK, Workers, \A v \in Worker : ~Active(v),
         NEW w \in Worker, NEW pc \in {"esl", "row", "session"},
         NEW status \in Status, NEW code \in Code,
         work' = [work EXCEPT ![w] = Starting(pc, status, code)],
         pc = "esl" => w[2] = "http",
         pc = "session" <=> w[2] = "reconciliation",
         code # "none" => w[2] = "http" /\ status = "OnBreak",
         ~SlowModule /\ link' /\ pc # "esl" => status = fs',
         ~SlowModule /\ w[2] = "reconciliation" => status = fs',
         boot' # "push",
         boot' \in {"read", "list"} => w[1] # startup',
         boot' # "off" => link' /\ startup' > 0
  PROVE  Workers'
<1>. DEFINE Starts == Starting(pc, status, code)
<1>1. pc \in PcOf
  BY DEF PcOf
<1>2. /\ work' \in [Worker -> Transition]
      /\ work'[w].pc = pc /\ work'[w].status = status /\ work'[w].code = code
      /\ \A v \in Worker : v # w => work'[v] = work[v]
  BY <1>1, WorkerStarts
<1>3. \A v \in Worker : Active(v)' => v = w
  BY <1>2 DEF Active
<1>4. Occasion'
  BY <1>2, <1>3 DEF Occasion, Active
<1>5. ASSUME NEW v \in Worker
      PROVE  Carries(v)' /\ Stages(v)'
  <2>1. CASE v = w
    BY <1>2, <2>1 DEF Carries, Active, Stages, LeavesAt, StaysAt
  <2>2. CASE v # w
    <3>1. work'[v] = work[v] /\ work[v].pc = "off" /\ Carries(v)
      BY <1>2, <2>2 DEF Active, Workers
    <3>. QED  BY <3>1 DEF Carries, Active, Stages, LeavesAt, StaysAt
  <2>. QED  BY <2>1, <2>2
<1>. QED  BY <1>2, <1>4, <1>5 DEF Workers

\* Nobody is at work.
LEMMA NoWorker ==
  ASSUME \/ \A v \in Worker : work'[v].pc = "off" /\ work'[v].code = "none"
         \/ UNCHANGED work /\ \A v \in Worker : ~Active(v) /\ Carries(v),
         boot' # "off" => link' /\ startup' > 0
  PROVE  Workers'
<1>1. ASSUME NEW v \in Worker
      PROVE  Carries(v)' /\ Stages(v)' /\ ~Active(v)'
  BY DEF Carries, Active, Stages, LeavesAt, StaysAt
<1>. QED  BY <1>1 DEF Workers, Occasion, Active

\* A change that does not run into the startup sequence finds nobody at work.
LEMMA NobodyAtWork ==
  ASSUME Recorded, StartupRests
  PROVE  boot # "push" /\ \A v \in Worker : ~Active(v)
BY DEF Recorded, StartupRests, Resting, Active

LEMMA AskKeeps ==
  ASSUME TypeOK, Shape, Workers, ~crossed', NEW status \in Status, NEW code \in Code,
         Ask(status, code)
  PROVE  Shape' /\ Workers'
<1>1. /\ UNCHANGED <<fs, link, row, boot, startup, pushed, faults>>
      /\ UNCHANGED tables /\ acts' = acts + 1 /\ acts < ActBound
      /\ boot # "push" /\ \A v \in Worker : ~Active(v)
      /\ work' = [work EXCEPT ![<<acts + 1, "http">>] = Starting("esl", status, code)]
      /\ code # "none" => status = "OnBreak"
  BY NobodyAtWork DEF Ask, bootVars
<1>2. acts + 1 \in 1..ActBound /\ startup # acts + 1
  BY <1>1, AgentConstantsOK DEF TypeOK
<1>3. PICK u : u = <<acts + 1, "http">>
  OBVIOUS
<1>4. u \in Worker /\ u[1] # startup /\ u[2] = "http"
  BY <1>2, <1>3 DEF Worker
<1>5. boot # "off" => link /\ startup > 0
  BY DEF Workers, Occasion
<1>6. Workers'
  BY <1>1, <1>3, <1>4, <1>5, FirstWorker
<1>. QED  BY <1>1, <1>6 DEF Shape, tables

LEMMA FsChangeKeeps ==
  ASSUME TypeOK, Shape, Workers, ~crossed', NEW status \in Status, FsChange(status)
  PROVE  Shape' /\ Workers'
<1>1. /\ UNCHANGED <<link, row, boot, startup, pushed, faults>>
      /\ UNCHANGED tables /\ acts' = acts + 1 /\ acts < ActBound /\ fs' = status
      /\ boot # "push" /\ \A v \in Worker : ~Active(v)
      /\ IF link
         THEN work' = [work EXCEPT ![<<acts + 1, "fs_event">>] =
                                     Starting("row", status, "none")]
         ELSE UNCHANGED work
  BY NobodyAtWork DEF FsChange, bootVars
<1>2. acts + 1 \in 1..ActBound /\ startup # acts + 1 /\ "none" \in Code
  BY <1>1, AgentConstantsOK DEF TypeOK, Code
<1>3. PICK u : u = <<acts + 1, "fs_event">>
  OBVIOUS
<1>4. u \in Worker /\ u[1] # startup /\ u[2] = "fs_event"
  BY <1>2, <1>3 DEF Worker
<1>5. boot # "off" => link /\ startup > 0
  BY DEF Workers, Occasion
<1>6. Workers'
  <2>1. CASE link
    BY <1>1, <1>2, <1>3, <1>4, <1>5, <2>1, FirstWorker
  <2>2. CASE ~link
    BY <1>1, <1>5, <2>2, NoWorker DEF Workers
  <2>. QED  BY <2>1, <2>2 DEF TypeOK
<1>. QED  BY <1>1, <1>6 DEF Shape, tables

\* mod_callcenter takes the status: the HTTP worker goes on, and the worker of the
\* event starts when there is a connection.
LEMMA SetInFsStarts ==
  ASSUME TypeOK, NEW a \in 1..ActBound, NEW w, w = <<a, "http">>,
         NEW u, u = <<a, "fs_event">>, SetInFs(a)
  PROVE  /\ w \in Worker /\ u \in Worker /\ u # w
         /\ UNCHANGED <<link, row, acts, boot, startup, pushed, crossed, faults>> /\ UNCHANGED tables
         /\ work[w].pc = "esl" /\ fs' \in Status
         /\ link => fs' = work[w].status
         /\ work' \in [Worker -> Transition]
         /\ work'[w].pc = "row" /\ work'[w].status = work[w].status
         /\ work'[w].code = work[w].code
         /\ \/ /\ link /\ work'[u].pc = "row" /\ work'[u].status = work[w].status
               /\ work'[u].code = "none"
            \/ work'[u] = work[u]
         /\ \A v \in Worker : v # w /\ v # u => work'[v] = work[v]
<1>. DEFINE Next_ == [work EXCEPT ![w].pc = "row"]
<1>1. w \in Worker /\ u \in Worker /\ u # w
  BY DEF Worker
<1>2. /\ UNCHANGED <<link, row, acts, boot, startup, pushed, crossed, faults>> /\ UNCHANGED tables
      /\ work[w].pc = "esl"
      /\ IF link
         THEN /\ fs' = work[w].status
              /\ work' = [Next_ EXCEPT ![u] = Starting("row", work[w].status, "none")]
         ELSE work' = Next_ /\ UNCHANGED fs
  BY DEF SetInFs, bootVars
<1>4. work[w].status \in Status /\ work[w].code \in Code /\ "none" \in Code
      /\ work[w] \in Transition
  BY <1>1, WorkTyped DEF Code, TypeOK
<1>5. /\ Next_ \in [Worker -> Transition]
      /\ Next_[w].pc = "row" /\ Next_[w].status = work[w].status
      /\ Next_[w].code = work[w].code
      /\ \A v \in Worker : v # w => Next_[v] = work[v]
  BY <1>1, <1>4 DEF TypeOK, Transition
<1>6. CASE link
  <2>1. Starting("row", work[w].status, "none") =
          [pc |-> "row", status |-> work[w].status, code |-> "none",
           s |-> 0, e |-> 0]
    BY StartingIs
  <2>2. Starting("row", work[w].status, "none") \in Transition
    BY <1>4, <2>1 DEF Transition
  <2>3. work' = [Next_ EXCEPT ![u] = Starting("row", work[w].status, "none")]
    BY <1>2, <1>6
  <2>4. /\ work' \in [Worker -> Transition]
        /\ work'[u] = Starting("row", work[w].status, "none")
        /\ \A v \in Worker : v # u => work'[v] = Next_[v]
    BY ONLY <1>1, <1>5, <2>2, <2>3
  <2>. HIDE DEF Next_
  <2>5. /\ work'[u].pc = "row" /\ work'[u].status = work[w].status
        /\ work'[u].code = "none"
    BY <2>1, <2>4
  <2>6. fs' = work[w].status
    BY <1>2, <1>6
  <2>. QED  BY <1>1, <1>2, <1>4, <1>5, <1>6, <2>4, <2>5, <2>6
<1>7. CASE ~link
  <2>1. work' = Next_ /\ fs' = fs
    BY <1>2, <1>7
  <2>. HIDE DEF Next_
  <2>. QED  BY <1>1, <1>2, <1>5, <1>7, <2>1 DEF TypeOK
<1>. QED  BY <1>6, <1>7

LEMMA SetInFsKeeps ==
  ASSUME TypeOK, Shape, Workers, NEW a \in 1..ActBound, SetInFs(a)
  PROVE  Shape' /\ Workers'
<1>1. PICK w, u : w = <<a, "http">> /\ u = <<a, "fs_event">>
  OBVIOUS
<1>2. /\ w \in Worker /\ u \in Worker /\ u # w
      /\ UNCHANGED <<link, row, acts, boot, startup, pushed, crossed, faults>> /\ UNCHANGED tables
      /\ work[w].pc = "esl" /\ fs' \in Status
  BY <1>1, SetInFsStarts
<1>3. /\ \A v \in Worker : Active(v) => v = w
      /\ Active(w) /\ Carries(w) /\ boot # "push"
      /\ boot \in {"read", "list"} => a # startup
  BY <1>1, <1>2 DEF Workers, Occasion, Active
<1>6. /\ work' \in [Worker -> Transition]
      /\ work'[w].pc = "row" /\ work'[w].status = work[w].status
      /\ work'[w].code = work[w].code
      /\ \/ /\ link /\ work'[u].pc = "row" /\ work'[u].status = work[w].status
            /\ work'[u].code = "none"
         \/ work'[u] = work[u]
      /\ \A v \in Worker : v # w /\ v # u => work'[v] = work[v]
      /\ link => fs' = work[w].status
  BY <1>1, SetInFsStarts
<1>7. ASSUME NEW v \in Worker
      PROVE  /\ Carries(v)' /\ Stages(v)'
             /\ work'[v].pc # "esl"
             /\ Active(v)' => v[1] = a /\ work'[v].status = work[w].status
  <2>1. CASE v = w
    BY <1>1, <1>2, <1>3, <1>6, <2>1 DEF Carries, Active, Stages, LeavesAt, StaysAt
  <2>2. CASE v = u /\ work'[u] # work[u]
    BY <1>1, <1>2, <1>3, <1>6, <2>2 DEF Carries, Active, Stages, LeavesAt, StaysAt
  <2>3. CASE v # w /\ work'[v] = work[v]
    <3>1. work'[v].pc = "off" /\ Carries(v)
      BY <1>3, <2>3 DEF Active, Workers
    <3>. QED  BY <2>3, <3>1 DEF Carries, Active, Stages, LeavesAt, StaysAt
  <2>. QED  BY <1>6, <2>1, <2>2, <2>3
<1>8. Occasion'
  BY <1>2, <1>3, <1>7 DEF Occasion, Workers
<1>. QED  BY <1>2, <1>7, <1>8 DEF Shape, Workers, tables

LEMMA LinkLostKeeps ==
  ASSUME Shape, Workers, LinkLost
  PROVE  Shape' /\ Workers'
<1>1. /\ UNCHANGED <<row, acts, work, startup>> /\ UNCHANGED tables
      /\ link' = FALSE /\ boot' = "off" /\ fs' \in {fs, "LoggedOut"}
  BY DEF LinkLost
<1>2. ASSUME NEW v \in Worker
      PROVE  Carries(v)' /\ Stages(v)'
  BY <1>1 DEF Workers, Carries, Active, Stages, LeavesAt, StaysAt, NoneOrWanted,
              tables
<1>3. Occasion'
  BY <1>1 DEF Workers, Occasion, Active
<1>. QED  BY <1>1, <1>2, <1>3 DEF Shape, Workers, tables

LEMMA CrashKeeps ==
  ASSUME Shape, Workers, Crash
  PROVE  Shape' /\ Workers'
<1>1. /\ UNCHANGED tables
      /\ link' = FALSE /\ boot' = "off" /\ work' = [w \in Worker |-> Off]
  BY DEF Crash
<1>2. \A v \in Worker : work'[v].pc = "off" /\ work'[v].code = "none"
  BY <1>1 DEF Off
<1>. QED  BY <1>1, <1>2, NoWorker DEF Shape, tables

LEMMA ReconnectKeeps ==
  ASSUME TypeOK, Shape, Workers, Reconnect
  PROVE  Shape' /\ Workers'
<1>1. /\ UNCHANGED work /\ UNCHANGED tables
      /\ link' = TRUE /\ boot' = "read" /\ startup' = acts + 1
      /\ \A v \in Worker : ~Active(v)
  BY DEF Reconnect, Quiet, Resting, Active
<1>2. startup' > 0
  BY <1>1 DEF TypeOK
<1>3. Workers'
  BY <1>1, <1>2, NoWorker DEF Workers
<1>. QED  BY <1>1, <1>3 DEF Shape, tables

\* The steps of the startup sequence that meet no half recorded change.
LEMMA NothingCrosses ==
  ASSUME Workers, ~crossed', Crossing, boot \in {"read", "push", "list"}
  PROVE  (\A v \in Worker : ~Active(v)) /\ link /\ startup > 0
<1>1. Recorded
  BY DEF Crossing
<1>. QED  BY <1>1 DEF Recorded, Resting, Active, Workers, Occasion

LEMMA PushReadKeeps ==
  ASSUME Shape, Workers, ~crossed', PushRead
  PROVE  Shape' /\ Workers'
<1>1. /\ UNCHANGED <<link, work, startup>> /\ UNCHANGED tables
      /\ boot = "read" /\ Crossing
  BY DEF PushRead
<1>2. (\A v \in Worker : ~Active(v)) /\ link /\ startup > 0
  BY <1>1, NothingCrosses
<1>3. Workers'
  BY <1>1, <1>2, NoWorker DEF Workers
<1>. QED  BY <1>1, <1>3 DEF Shape, tables

LEMMA PushSetKeeps ==
  ASSUME TypeOK, Shape, Workers, ~crossed', PushSet
  PROVE  Shape' /\ Workers'
<1>1. /\ UNCHANGED <<link, row, startup>> /\ UNCHANGED tables
      /\ boot = "push" /\ boot' = "sync" /\ Crossing
      /\ \/ /\ fs' = pushed
            /\ work' = [work EXCEPT ![<<startup, "fs_event">>] =
                                      Starting("row", pushed, "none")]
         \/ UNCHANGED <<fs, work>>
  BY DEF PushSet
<1>2. (\A v \in Worker : ~Active(v)) /\ link /\ startup > 0
  BY <1>1, NothingCrosses
<1>3. PICK u : u = <<startup, "fs_event">>
  OBVIOUS
<1>4. /\ u \in Worker /\ u[2] = "fs_event"
      /\ pushed \in Status /\ "none" \in Code
  BY <1>2, <1>3, AgentConstantsOK DEF Worker, TypeOK, Code
<1>5. Workers'
  <2>1. CASE UNCHANGED <<fs, work>>
    BY <1>1, <1>2, <2>1, NoWorker DEF Workers
  <2>2. CASE /\ fs' = pushed
             /\ work' = [work EXCEPT ![u] = Starting("row", pushed, "none")]
    BY <1>1, <1>2, <1>4, <2>2, FirstWorker
  <2>. QED  BY <1>1, <1>3, <2>1, <2>2
<1>. QED  BY <1>1, <1>5 DEF Shape, tables

LEMMA SyncAgentsKeeps ==
  ASSUME Shape, Workers, ~crossed', SyncAgents
  PROVE  Shape' /\ Workers'
<1>1. /\ UNCHANGED <<link, work, startup>> /\ UNCHANGED tables
      /\ boot = "sync" /\ boot' = "list"
      /\ \A v \in Worker : ~Active(v)
  BY NobodyAtWork DEF SyncAgents, Crossing
<1>2. link /\ startup > 0
  BY <1>1 DEF Workers, Occasion
<1>3. Workers'
  BY <1>1, <1>2, NoWorker DEF Workers
<1>. QED  BY <1>1, <1>3 DEF Shape, tables

LEMMA ReconcileKeeps ==
  ASSUME TypeOK, Shape, Workers, ~crossed', Reconcile
  PROVE  Shape' /\ Workers'
<1>1. /\ UNCHANGED <<fs, link, row, startup>> /\ UNCHANGED tables
      /\ boot = "list" /\ boot' = "off" /\ Crossing
  BY DEF Reconcile
<1>2. PICK status \in Seen :
        work' = [work EXCEPT ![<<startup, "reconciliation">>] =
                               Starting("session", status, "none")]
  BY DEF Reconcile
<1>3. (\A v \in Worker : ~Active(v)) /\ link /\ startup > 0
  BY <1>1, NothingCrosses
<1>4. PICK u : u = <<startup, "reconciliation">>
  OBVIOUS
<1>5. /\ u \in Worker /\ u[2] = "reconciliation"
      /\ status \in Status /\ "none" \in Code
      /\ ~SlowModule => status = fs
  BY <1>3, <1>4, AgentConstantsOK DEF Worker, TypeOK, Code, Seen, Status
<1>6. Workers'
  BY <1>1, <1>2, <1>3, <1>4, <1>5, FirstWorker
<1>. QED  BY <1>1, <1>6 DEF Shape, tables

----------------------------------------------------------------------------
(* Types, and logouts.                                                      *)

\* Types need no more than what each worker knows.
LEMMA OpensOfStep ==
  ASSUME Sound, NEW w \in Worker, Step(w), NEW v \in Worker
  PROVE  Opens(v)'
<1>1. CASE v # w
  <2>1. work'[v] = work[v]
    BY <1>1, StepOf DEF Goes, Stops, Keeps, Sound
  <2>. QED  BY <2>1 DEF Sound, Opens
<1>2. CASE v = w
  <2>1. CASE Stops(w)
    BY <1>2, <2>1 DEF Stops, Off, Opens
  <2>2. ASSUME NEW pc, NEW s, NEW e, Goes(w, pc, s, e)
        PROVE  work'[w].pc = pc /\ work'[w].status = work[w].status /\ work'[w].s = s
    BY <2>2 DEF Goes
  <2>3. Opens(w) /\ sessions \in Nat /\ openS \in Nat
    BY TablesTyped DEF Sound
  <2>4. CASE work[w].pc \in {"row", "session"}
    BY <1>2, <2>1, <2>2, <2>4, StepOf DEF Sound, Opens
  <2>5. CASE work[w].pc = "event"
    BY <1>2, <2>1, <2>2, <2>5, StepOf DEF Sound, Opens, AfterRead
  <2>6. CASE work[w].pc = "closeEvent"
    BY <1>2, <2>1, <2>2, <2>6, StepOf DEF Sound, Opens, AfterClose
  <2>7. CASE work[w].pc \in {"closeSession", "openSession", "openEvent"}
    BY <1>2, <2>1, <2>2, <2>3, <2>7, StepOf DEF Sound, Opens
  <2>. QED  BY <2>4, <2>5, <2>6, <2>7, StepOf DEF Sound
<1>. QED  BY <1>1, <1>2

\* The workers that an action starts are at their first statement.
LEMMA StartsSound ==
  ASSUME Sound, work' \in [Worker -> Transition],
         \A v \in Worker : work'[v] = work[v] \/ work'[v].pc \in {"off", "esl", "row", "session"}
  PROVE  \A v \in Worker : Opens(v)'
BY DEF Sound, Opens

\* One worker starts.
LEMMA OneStarts ==
  ASSUME Sound, NEW w, NEW pc \in {"esl", "row", "session"}, NEW status \in Status,
         NEW code \in Code, work' = [work EXCEPT ![w] = Starting(pc, status, code)]
  PROVE  work' \in [Worker -> Transition] /\ \A v \in Worker : Opens(v)'
<1>1. CASE w \in Worker
  <2>1. pc \in PcOf
    BY DEF PcOf
  <2>2. work' \in [Worker -> Transition] /\ work'[w].pc = pc
        /\ \A v \in Worker : v # w => work'[v] = work[v]
    BY <1>1, <2>1, WorkerStarts DEF Sound
  <2>. QED  BY <2>2, StartsSound
<1>2. CASE w \notin Worker
  <2>1. work' = work
    BY <1>2 DEF Sound, TypeOK
  <2>. QED  BY <2>1, StartsSound DEF Sound, TypeOK
<1>. QED  BY <1>1, <1>2

LEMMA SoundStays ==
  ASSUME Sound, [Next]_vars
  PROVE  Sound'
<1>. USE AgentConstantsOK
<1>0. /\ TypeOK /\ "none" \in Code /\ "LoggedOut" \in Status /\ Off \in Transition
      /\ acts \in Nat /\ ActBound \in Nat /\ faults \in Nat /\ FaultBound \in Nat
      /\ (acts < ActBound => acts + 1 \in 0..ActBound /\ \A i \in 0..acts : i \in 0..(acts + 1))
      /\ (faults < FaultBound => faults + 1 \in 0..FaultBound)
  BY DEF Sound, TypeOK, Code, Status, Off, Transition
<1>1. ASSUME NEW w \in Worker, Step(w)
      PROVE  Sound'
  BY <1>1, TypeOfStep, OpensOfStep DEF Sound
<1>2. ASSUME NEW status \in Status, NEW code \in Code, Ask(status, code)
      PROVE  Sound'
  <2>1. work' \in [Worker -> Transition] /\ \A v \in Worker : Opens(v)'
    BY <1>2, OneStarts DEF Ask
  <2>. QED  BY <1>0, <1>2, <2>1 DEF Ask, Sound, TypeOK, tables, bootVars
<1>3. ASSUME NEW status \in Status, FsChange(status)
      PROVE  Sound'
  <2>1. work' \in [Worker -> Transition] /\ \A v \in Worker : Opens(v)'
    <3>1. CASE link
      BY <1>0, <1>3, <3>1, OneStarts DEF FsChange
    <3>2. CASE ~link
      BY <1>0, <1>3, <3>2, StartsSound DEF FsChange, TypeOK
    <3>. QED  BY <3>1, <3>2
  <2>. QED  BY <1>0, <1>3, <2>1 DEF FsChange, Sound, TypeOK, tables, bootVars
<1>4. ASSUME NEW a \in 1..ActBound, SetInFs(a)
      PROVE  Sound'
  <2>1. PICK w, u : w = <<a, "http">> /\ u = <<a, "fs_event">>
    OBVIOUS
  <2>2. /\ UNCHANGED <<link, row, acts, boot, startup, pushed, crossed, faults>>
        /\ UNCHANGED tables /\ fs' \in Status
        /\ work' \in [Worker -> Transition]
        /\ work'[w].pc = "row"
        /\ work'[u].pc = "row" \/ work'[u] = work[u]
        /\ \A v \in Worker : v # w /\ v # u => work'[v] = work[v]
    BY <1>0, <1>4, <2>1, SetInFsStarts
  <2>3. \A v \in Worker : Opens(v)'
    BY <2>2, StartsSound
  <2>. QED  BY <1>0, <2>2, <2>3 DEF Sound, TypeOK, tables
<1>5. CASE LinkLost
  <2>1. \A v \in Worker : Opens(v)'
    BY <1>0, <1>5, StartsSound DEF LinkLost, TypeOK
  <2>. QED  BY <1>0, <1>5, <2>1 DEF LinkLost, Sound, TypeOK, tables
<1>6. CASE Crash
  <2>1. work' \in [Worker -> Transition] /\ \A v \in Worker : work'[v].pc = "off"
    BY <1>0, <1>6 DEF Crash, Off
  <2>2. \A v \in Worker : Opens(v)'
    BY <2>1, StartsSound
  <2>. QED  BY <1>0, <1>6, <2>1, <2>2 DEF Crash, Sound, TypeOK, tables
<1>7. CASE Reconnect
  <2>1. \A v \in Worker : Opens(v)'
    BY <1>0, <1>7, StartsSound DEF Reconnect, TypeOK
  <2>. QED  BY <1>0, <1>7, <2>1 DEF Reconnect, Sound, TypeOK, tables
<1>8. CASE PushRead
  <2>1. \A v \in Worker : Opens(v)'
    BY <1>0, <1>8, StartsSound DEF PushRead, TypeOK
  <2>. QED  BY <1>0, <1>8, <2>1 DEF PushRead, Crossing, Sound, TypeOK, tables
<1>9. CASE PushSet
  <2>1. work' \in [Worker -> Transition] /\ \A v \in Worker : Opens(v)'
    <3>1. CASE UNCHANGED work
      BY <1>0, <3>1, StartsSound DEF TypeOK
    <3>2. CASE work' = [work EXCEPT ![<<startup, "fs_event">>] =
                                      Starting("row", pushed, "none")]
      <4>1. pushed \in Status
        BY <1>0 DEF TypeOK
      <4>. QED  BY <1>0, <3>2, <4>1, OneStarts
    <3>. QED  BY <1>9, <3>1, <3>2 DEF PushSet
  <2>. QED  BY <1>0, <1>9, <2>1 DEF PushSet, Crossing, Sound, TypeOK, tables
<1>10. CASE SyncAgents
  <2>1. \A v \in Worker : Opens(v)'
    BY <1>0, <1>10, StartsSound DEF SyncAgents, TypeOK
  <2>. QED  BY <1>0, <1>10, <2>1 DEF SyncAgents, Crossing, Sound, TypeOK, tables
<1>11. CASE Reconcile
  <2>1. work' \in [Worker -> Transition] /\ \A v \in Worker : Opens(v)'
    <3>1. PICK status \in Seen :
            work' = [work EXCEPT ![<<startup, "reconciliation">>] =
                                   Starting("session", status, "none")]
      BY <1>11 DEF Reconcile
    <3>2. status \in Status
      BY <1>0 DEF TypeOK, Seen
    <3>. QED  BY <1>0, <3>1, <3>2, OneStarts
  <2>. QED  BY <1>0, <1>11, <2>1 DEF Reconcile, Crossing, Sound, TypeOK, tables
<1>12. CASE UNCHANGED vars
  BY <1>12 DEF Sound, TypeOK, Opens, vars, tables, bootVars
<1>. QED  BY <1>1, <1>2, <1>3, <1>4, <1>5, <1>6, <1>7, <1>8, <1>9, <1>10, <1>11, <1>12
          DEF Next

\* What holds as long as no change has run into the startup sequence.
IInv == TypeOK /\ Shape /\ Workers

LEMMA NextKeeps ==
  ASSUME Sound, IInv, ~crossed', [Next]_vars
  PROVE  IInv'
<1>. USE DEF IInv
<1>0. TypeOK'
  BY SoundStays DEF Sound
<1>1. ASSUME NEW w \in Worker, Step(w)
      PROVE  IInv'
  BY <1>0, <1>1, ShapeOfStep, WorkersOfStep
<1>2. CASE UNCHANGED vars
  <2>1. Workers'
    BY <1>2 DEF Workers, Occasion, Carries, Active, Stages, LeavesAt, StaysAt,
                NoneOrWanted, vars, tables, bootVars
  <2>. QED  BY <1>0, <1>2, <2>1 DEF Shape, vars, tables
<1>. QED  BY <1>0, <1>1, <1>2, AskKeeps, FsChangeKeeps, SetInFsKeeps, LinkLostKeeps,
             CrashKeeps, ReconnectKeeps, PushReadKeeps, PushSetKeeps,
             SyncAgentsKeeps, ReconcileKeeps DEF Next

\* Once a change has run into a startup sequence, the history remembers it.
LEMMA CrossedStays ==
  ASSUME TypeOK, [Next]_vars, crossed
  PROVE  crossed'
<1>1. ASSUME NEW w \in Worker, Step(w)
      PROVE  crossed'
  BY <1>1, StepOf
<1>2. ASSUME NEW a \in 1..ActBound, SetInFs(a)
      PROVE  crossed'
  BY <1>2 DEF SetInFs
<1>. QED  BY <1>1, <1>2 DEF Next, Ask, FsChange, LinkLost, Crash, Reconnect, PushRead,
             PushSet, SyncAgents, Reconcile, Crossing, vars

LEMMA StartsRight == Init => IInv
<1>. SUFFICES ASSUME Init PROVE IInv
  OBVIOUS
<1>. USE AgentConstantsOK DEF Init
<1>1. TypeOK
  <2>1. Off \in Transition
    BY DEF Off, Transition, Status, Code
  <2>2. /\ startup \in 0..acts /\ acts \in 0..ActBound /\ faults \in 0..FaultBound
        /\ openS \in 0..sessions /\ openE \in 0..Len(events)
    OBVIOUS
  <2>3. work \in [Worker -> Transition]
    BY <2>1
  <2>4. row \in [status: Status, code: Code] /\ fs \in Status /\ pushed \in Status
    BY DEF Status, Code
  <2>5. events \in Seq(Segment)
    OBVIOUS
  <2>. QED  BY <2>2, <2>3, <2>4, <2>5 DEF TypeOK
<1>2. \A v \in Worker : work[v].pc = "off" /\ work[v].code = "none"
  BY DEF Off
<1>3. Workers
  BY <1>2 DEF Workers, Occasion, Carries, Active, Stages, LeavesAt, StaysAt
<1>. QED  BY <1>1, <1>3 DEF IInv, Shape

LEMMA StartsSoundly == Init => Sound
BY StartsRight DEF IInv, Sound, Opens, Init, Off

LEMMA AlwaysSound == Spec => []Sound
BY StartsSoundly, SoundStays, PTL DEF Spec

LEMMA AlwaysIInv == Spec => [](Sound /\ (~crossed => IInv))
<1>1. Sound /\ (~crossed => IInv) /\ [Next]_vars => (Sound /\ (~crossed => IInv))'
  <2>. SUFFICES ASSUME Sound, ~crossed => IInv, [Next]_vars
                PROVE  Sound' /\ (~crossed' => IInv')
    OBVIOUS
  <2>1. ~crossed' => ~crossed
    BY CrossedStays DEF Sound
  <2>. QED  BY <2>1, SoundStays, NextKeeps
<1>. QED  BY <1>1, StartsRight, StartsSoundly, PTL DEF Spec

\* The tables, the agents row and the workers keep their types: what a worker
\* has read is a number of a row, and a segment that is written has a session and
\* a status on duty.
THEOREM SessionsTypeCorrect == Spec => []TypeOK
<1>1. Sound => TypeOK
  BY DEF Sound
<1>. QED  BY <1>1, AlwaysSound, PTL

\* As long as FreeSWITCH answers the startup sequence, and until a status change
\* has run into it, a session is closed only when the agent has logged out, in
\* mod_callcenter or in the agents row: neither a reconnect between changes nor
\* two handlers at once end the work time of an agent on duty.
THEOREM LogoutsAreTrue ==
  ASSUME ~SlowModule
  PROVE  Spec => UncrossedLogouts
<1>1. ASSUME IInv, [Next]_vars, openS # 0, openS' = 0
      PROVE  "LoggedOut" \in {fs, row.status}
  <2>1. PICK w \in Worker : Step(w)
    BY <1>1 DEF Next, vars, tables, Ask, FsChange, SetInFs, LinkLost, Crash,
                Reconnect, PushRead, PushSet, SyncAgents, Reconcile
  <2>2. work[w].pc = "closeSession"
    BY <1>1, <2>1, StepOf, TablesTyped DEF tables, IInv
  <2>3. work[w].status = "LoggedOut" /\ Carries(w)
    BY <1>1, <2>2 DEF IInv, Workers, Stages, StaysAt
  <2>. QED  BY <2>2, <2>3 DEF Carries, Active
<1>2. Sound /\ (~crossed => IInv) /\ [Next]_vars
      => [openS # 0 /\ openS' = 0 /\ ~crossed => "LoggedOut" \in {fs, row.status}]_vars
  BY <1>1
<1>. QED  BY <1>2, AlwaysIInv, PTL DEF Spec, UncrossedLogouts

----------------------------------------------------------------------------
(* Segments.                                                                *)

\* Without faults the connection stays, and nothing is reconciled.
Calm ==
  faults = 0 => /\ link /\ boot = "off" /\ startup = 0 /\ ~crossed
                /\ \A w \in Worker : w[2] = "reconciliation" => ~Active(w)

\* A worker that has read the open session, in a gap, goes on for it.
LEMMA ResponsibleGoesOn ==
  ASSUME IInv, Calm, faults = 0, Gap, NEW w \in Worker, Step(w), Responsible(w), Gap',
         work[w].status # "Available"
  PROVE  Responsible(w)' /\ work'[w].status # "Available"
<1>. USE DEF Gap
<1>1. Stages(w) /\ openE = 0 /\ openE' = 0 /\ openS # 0 /\ openS' # 0
  BY DEF IInv, Workers
<1>2. w[2] # "reconciliation" /\ Active(w) /\ work[w].pc # "esl"
  BY StepOf DEF Calm, Active, IInv
<1>3. ASSUME NEW pc, NEW s, NEW e, Goes(w, pc, s, e)
      PROVE  work'[w].pc = pc /\ work'[w].status = work[w].status /\ work'[w].s = s
  BY <1>3 DEF Goes
<1>4. work[w].status \in Status /\ Len(events) \in Nat
  BY WorkTyped DEF IInv, TypeOK
<1>5. CASE work[w].pc = "row"
  BY <1>2, <1>3, <1>5, StepOf DEF Responsible, IInv
<1>6. CASE work[w].pc = "session"
  BY <1>2, <1>3, <1>6, StepOf DEF Responsible, IInv, tables
<1>7. CASE work[w].pc = "event"
  <2>1. \/ Goes(w, "closeSession", work[w].s, openE)
        \/ Goes(w, "openEvent", work[w].s, openE)
    BY <1>1, <1>7, StepOf DEF AfterRead, Responsible, IInv
  <2>2. openS' = openS /\ work[w].s = openS
    BY <1>7, StepOf DEF Responsible, IInv, tables
  <2>. QED  BY <1>3, <2>1, <2>2 DEF Responsible
<1>8. CASE work[w].pc = "closeEvent"
  <2>1. openS' = openS /\ work[w].s = openS
    BY <1>8, StepOf DEF Responsible, IInv
  <2>2. \/ Goes(w, "closeSession", work[w].s, work[w].e)
        \/ Goes(w, "openEvent", work[w].s, work[w].e)
    BY <1>1, <1>8, <2>1, StepOf DEF AfterClose, IInv
  <2>. QED  BY <1>3, <2>1, <2>2 DEF Responsible
<1>9. CASE work[w].pc \in {"closeSession", "openSession"}
  BY <1>1, <1>9, StepOf DEF Responsible, IInv
<1>10. CASE work[w].pc = "openEvent"
  BY <1>1, <1>4, <1>10, StepOf DEF IInv
<1>. QED  BY <1>2, <1>5, <1>6, <1>7, <1>8, <1>9, <1>10, WorkTyped
          DEF PcOf, Active, IInv

\* The worker that closes the segment of an agent on duty will open the next one,
\* or close the session.
LEMMA GapOpens ==
  ASSUME IInv, NEW w \in Worker, Step(w), ~Gap, Gap'
  PROVE  Responsible(w)' /\ work'[w].status # "Available"
<1>. USE DEF Gap
<1>0. /\ IInv /\ TypeOK /\ Shape /\ Stages(w) /\ Carries(w)
      /\ work[w].status \in Status
  BY WorkTyped DEF IInv, Workers
<1>1. UNCHANGED events /\ openE' = 0
  <2>1. Len(events) \in Nat
    BY <1>0, TablesTyped
  <2>. QED  BY <1>0, <2>1, SegmentsOfStep
<1>2. UNCHANGED openS
  <2>1. events[Len(events)].session <= sessions /\ Len(events) \in 1..Len(events)
    BY <1>0, <1>1, TablesTyped DEF Shape
  <2>2. openS' # sessions + 1
    BY <1>0, <1>1, <2>1, TablesTyped
  <2>. QED  BY <1>0, <1>1, <2>2, StepOf DEF tables
<1>3. openE # 0
  BY <1>1, <1>2
<1>4. work[w].pc = "closeEvent" /\ openE = work[w].e
  BY <1>0, <1>1, <1>3, StepOf DEF tables
<1>5. events[work[w].e].status = "Available" /\ openS # 0
  BY <1>0, <1>1, <1>2, <1>3, <1>4 DEF Shape
<1>6. work[w].status # "Available"
  BY <1>0, <1>4, <1>5 DEF Stages, StaysAt, Carries, Status
<1>7. work[w].s = openS
  BY <1>0, <1>4, <1>5, <1>6 DEF Stages, StaysAt, LeavesAt
<1>8. \/ Goes(w, "closeSession", work[w].s, work[w].e)
      \/ Goes(w, "openEvent", work[w].s, work[w].e)
  BY <1>0, <1>4, <1>5, <1>7, StepOf DEF AfterClose
<1>. QED  BY <1>2, <1>6, <1>7, <1>8 DEF Responsible, Goes

LEMMA ClosesOfStep ==
  ASSUME IInv, Calm, Closes, NEW w \in Worker, Step(w)
  PROVE  Closes'
<1>. SUFFICES ASSUME faults = 0, Gap'
              PROVE  \E v \in Worker : Responsible(v)' /\ work'[v].status # "Available"
  BY StepOf DEF Closes, IInv
<1>1. CASE ~Gap
  BY <1>1, GapOpens
<1>2. CASE Gap
  <2>1. PICK v \in Worker : Responsible(v) /\ work[v].status # "Available"
    BY <1>2 DEF Closes
  <2>2. CASE v = w
    BY <1>2, <2>1, <2>2, ResponsibleGoesOn
  <2>3. CASE v # w
    <3>1. work'[v] = work[v]
      BY <2>3, StepOf DEF Goes, Stops, Keeps, IInv
    <3>2. openS # 0 /\ openS' # 0 /\ openS' = openS
      BY <1>2, StepOf, TablesTyped DEF Gap, IInv, tables
    <3>. QED  BY <2>1, <3>1, <3>2 DEF Responsible
  <2>. QED  BY <2>1, <2>2, <2>3
<1>. QED  BY <1>1, <1>2

\* In a fault-free history only a worker's step, and the start of an occasion by
\* an idle agent, are possible.
LEMMA CalmStays ==
  ASSUME IInv, Calm, Closes, [Next]_vars
  PROVE  Calm' /\ Closes'
<1>1. CASE \E w \in Worker : Step(w)
  <2>1. PICK w \in Worker : Step(w)
    BY <1>1
  <2>2. /\ UNCHANGED <<link, boot, startup, crossed, faults>>
        /\ \A v \in Worker : Active(v)' => Active(v)
    <3>1. ASSUME NEW v \in Worker
          PROVE  Active(v)' => Active(v)
      <4>1. CASE v = w
        BY <2>1, <4>1, StepOf DEF Active, IInv
      <4>2. CASE v # w
        BY <2>1, <4>2, StepOf DEF Active, Goes, Stops, Keeps, IInv
      <4>. QED  BY <4>1, <4>2
    <3>. QED  BY <2>1, <3>1, StepOf DEF IInv
  <2>. QED  BY <2>1, <2>2, ClosesOfStep DEF Calm
<1>2. CASE \/ LinkLost \/ Crash
  <2>1. faults' # 0
    BY <1>2 DEF LinkLost, Crash, IInv, TypeOK
  <2>. QED  BY <2>1 DEF Calm, Closes
<1>3. CASE Reconnect \/ PushRead \/ PushSet \/ SyncAgents \/ Reconcile
  <2>1. faults # 0 /\ faults' # 0
    BY <1>3 DEF Reconnect, PushRead, PushSet, SyncAgents, Reconcile, Calm
  <2>. QED  BY <2>1 DEF Calm, Closes
<1>4. CASE UNCHANGED vars
  BY <1>4 DEF Calm, Closes, Gap, Responsible, Active, vars, tables, bootVars
<1>5. CASE \/ \E status \in Status : FsChange(status)
           \/ \E status \in Status, code \in Code : Ask(status, code)
  <2>1. /\ UNCHANGED <<link, boot, startup, faults>> /\ UNCHANGED tables
        /\ Recorded /\ crossed' = (crossed \/ ~StartupRests)
        /\ acts < ActBound /\ acts' = acts + 1
        /\ \E v \in {<<acts + 1, "http">>, <<acts + 1, "fs_event">>} :
             \/ UNCHANGED work
             \/ \E pc \in {"esl", "row"}, status \in Status, code \in Code :
                  work' = [work EXCEPT ![v] = Starting(pc, status, code)]
    <3>1. "none" \in Code
      BY DEF Code
    <3>2. ASSUME NEW status \in Status, FsChange(status)
          PROVE  /\ UNCHANGED <<link, boot, startup, faults>> /\ UNCHANGED tables
                 /\ Recorded /\ crossed' = (crossed \/ ~StartupRests)
                 /\ acts < ActBound /\ acts' = acts + 1
                 /\ \/ UNCHANGED work
                    \/ work' = [work EXCEPT ![<<acts + 1, "fs_event">>] =
                                              Starting("row", status, "none")]
      BY <3>2 DEF FsChange, bootVars
    <3>3. ASSUME NEW status \in Status, NEW code \in Code, Ask(status, code)
          PROVE  /\ UNCHANGED <<link, boot, startup, faults>> /\ UNCHANGED tables
                 /\ Recorded /\ crossed' = (crossed \/ ~StartupRests)
                 /\ acts < ActBound /\ acts' = acts + 1
                 /\ work' = [work EXCEPT ![<<acts + 1, "http">>] =
                                           Starting("esl", status, code)]
      BY <3>3 DEF Ask, bootVars
    <3>. QED  BY <1>5, <3>1, <3>2, <3>3
  <2>2. /\ <<acts + 1, "http">> \in Worker /\ <<acts + 1, "fs_event">> \in Worker
    <3>1. acts + 1 \in 1..ActBound
      BY <2>1, AgentConstantsOK DEF IInv, TypeOK
    <3>. QED  BY <3>1 DEF Worker
  <2>3. \A v \in Worker : v[2] = "reconciliation" => work'[v] = work[v]
    BY <2>1, <2>2 DEF IInv, TypeOK
  <2>4. SUFFICES ASSUME faults = 0
                 PROVE  Calm' /\ Closes'
    BY <2>1 DEF Calm, Closes
  <2>5. StartupRests /\ \A v \in Worker : ~Active(v)
    BY <2>1, <2>4 DEF Calm, Recorded, StartupRests, Resting, Active, Worker
  <2>6. ~Gap
    BY <2>4, <2>5 DEF Closes, Responsible, Active
  <2>7. Calm'
    BY <2>1, <2>3, <2>4, <2>5 DEF Calm, Active
  <2>. QED  BY <2>1, <2>6, <2>7 DEF Closes, Gap, tables
<1>6. CASE \E a \in 1..ActBound : SetInFs(a)
  <2>1. PICK a \in 1..ActBound : SetInFs(a)
    BY <1>6
  <2>2. PICK w, u : w = <<a, "http">> /\ u = <<a, "fs_event">>
    OBVIOUS
  <2>3. /\ w \in Worker /\ UNCHANGED <<link, boot, startup, crossed, faults>>
        /\ UNCHANGED tables /\ work[w].pc = "esl"
        /\ \A v \in Worker : v # w /\ v # u => work'[v] = work[v]
        /\ work'[w].pc = "row" /\ work'[w].status = work[w].status
    BY <2>1, <2>2, SetInFsStarts DEF IInv
  <2>4. \A v \in Worker : Active(v) => v = w
    BY <2>2, <2>3 DEF IInv, Workers, Occasion
  <2>5. w[2] # "reconciliation" /\ u[2] # "reconciliation"
    BY <2>2
  <2>6. Calm'
    BY <2>3, <2>5 DEF Calm, Active
  <2>7. Closes'
    <3>1. SUFFICES ASSUME faults = 0, Gap
                   PROVE  Responsible(w)' /\ work'[w].status # "Available"
      BY <2>2, <2>3 DEF Closes, Gap, tables
    <3>2. PICK v \in Worker : Responsible(v) /\ work[v].status # "Available"
      BY <3>1 DEF Closes
    <3>3. v = w
      BY <2>4, <3>2 DEF Responsible, Active
    <3>. QED  BY <2>3, <3>2, <3>3 DEF Responsible
  <2>. QED  BY <2>6, <2>7
<1>. QED  BY <1>1, <1>2, <1>3, <1>4, <1>5, <1>6 DEF Next

LEMMA DifferOfStep ==
  ASSUME IInv, Closes, SegmentsDiffer, NEW w \in Worker, Step(w)
  PROVE  SegmentsDiffer'
<1>. SUFFICES ASSUME faults = 0, NEW i \in 2..Len(events'),
                     events'[i].session = events'[i - 1].session,
                     events'[i].status = events'[i - 1].status
              PROVE  events'[i].status = "OnBreak"
  BY StepOf DEF SegmentsDiffer, IInv
<1>0. IInv /\ TypeOK /\ Shape /\ Stages(w) /\ Len(events) \in Nat
  BY TablesTyped DEF IInv, Workers
<1>1. CASE UNCHANGED events
  BY <1>1 DEF SegmentsDiffer
<1>2. CASE events' # events
  <2>1. /\ work[w].pc = "openEvent" /\ openE = 0 /\ UNCHANGED openS
        /\ Len(events') = Len(events) + 1
        /\ \A j \in 1..Len(events) : events'[j] = events[j]
        /\ events'[Len(events) + 1] = NewSegment(w)
    BY <1>0, <1>2, SegmentsOfStep
  <2>2. CASE i \in 2..Len(events)
    <3>1. i - 1 \in 1..Len(events) /\ i \in 1..Len(events)
      BY <1>0, <2>2
    <3>. QED  BY <2>1, <2>2, <3>1 DEF SegmentsDiffer
  <2>3. CASE i = Len(events) + 1
    <3>1. Len(events) > 0 /\ i - 1 = Len(events) /\ Len(events) \in 1..Len(events)
      BY <1>0, <2>3
    <3>2. /\ events'[i].session = openS /\ events'[i].status = work[w].status
          /\ openS # 0
      BY <1>0, <2>1, <2>3 DEF NewSegment, Stages, LeavesAt, StaysAt
    <3>3. /\ events[Len(events)].session = openS
          /\ events[Len(events)].status = work[w].status
      BY <2>1, <3>1, <3>2
    <3>4. work[w].status # "Available"
      <4>1. SUFFICES ASSUME work[w].status = "Available"
                     PROVE  FALSE
        OBVIOUS
      <4>2. Gap
        BY <2>1, <3>1, <3>2, <3>3, <4>1 DEF Gap
      <4>3. PICK v \in Worker : Responsible(v) /\ work[v].status # "Available"
        BY <4>2 DEF Closes
      <4>4. Active(v) /\ Active(w)
        BY <2>1, <4>3 DEF Active, Responsible
      <4>. QED  BY <1>0, <4>1, <4>3, <4>4 DEF IInv, Workers, Occasion
    <3>5. events[Len(events)].status \in {"Available", "OnBreak"}
      BY <1>0, <3>1, TablesTyped
    <3>. QED  BY <3>2, <3>3, <3>4, <3>5
  <2>. QED  BY <1>0, <2>1, <2>2, <2>3
<1>. QED  BY <1>1, <1>2

\* Whatever the two handlers of a change do at the same time, its duplicate leaves
\* no second segment: in a history without faults, neighbours in a session differ
\* in status unless the status is a break, whose reason may change.
THEOREM NeighboursDiffer == Spec => []SegmentsDiffer
<1>. DEFINE I == /\ Sound /\ Calm /\ SegmentsDiffer
                 /\ faults = 0 => IInv /\ Closes
<1>1. Init => I
  <2>1. Init => Calm /\ Closes /\ SegmentsDiffer
    BY DEF Init, Calm, Closes, Gap, SegmentsDiffer, Active, Off, Worker
  <2>. QED  BY <2>1, StartsRight, StartsSoundly
<1>2. I /\ [Next]_vars => I'
  <2>. SUFFICES ASSUME I, [Next]_vars PROVE I'
    OBVIOUS
  <2>0. Sound'
    BY SoundStays
  <2>1. CASE faults' # 0
    BY <2>0, <2>1 DEF Calm, SegmentsDiffer
  <2>2. CASE faults' = 0
    <3>1. faults = 0
      <4>1. faults \in Nat
        BY DEF Sound, TypeOK
      <4>2. faults' \in {faults, faults + 1}
        <5>1. ASSUME NEW w \in Worker, Step(w)
              PROVE  faults' = faults
          BY <5>1, StepOf DEF Sound
        <5>. QED  BY <5>1 DEF Next, vars, Ask, FsChange, SetInFs, LinkLost, Crash,
                      Reconnect, PushRead, PushSet, SyncAgents, Reconcile
      <4>. QED  BY <2>2, <4>1, <4>2
    <3>2. IInv /\ Calm /\ Closes
      BY <3>1
    <3>3. Calm' /\ Closes'
      BY <3>2, CalmStays
    <3>4. IInv'
      BY <2>2, <3>2, <3>3, NextKeeps DEF Calm
    <3>5. CASE \E w \in Worker : Step(w)
      BY <2>0, <3>2, <3>3, <3>4, <3>5, DifferOfStep
    <3>6. CASE ~\E w \in Worker : Step(w)
      <4>1. UNCHANGED events
        BY <3>6 DEF Next, vars, tables, Ask, FsChange, SetInFs, LinkLost, Crash,
                    Reconnect, PushRead, PushSet, SyncAgents, Reconcile
      <4>2. SegmentsDiffer
        OBVIOUS
      <4>3. SegmentsDiffer'
        BY ONLY <2>2, <3>1, <4>1, <4>2 DEF SegmentsDiffer
      <4>. QED  BY <2>0, <3>3, <3>4, <4>3
    <3>. QED  BY <3>5, <3>6
  <2>. QED  BY <2>1, <2>2
<1>3. I => SegmentsDiffer
  OBVIOUS
<1>. QED  BY <1>1, <1>2, <1>3, PTL DEF Spec

----------------------------------------------------------------------------
(* The history.                                                             *)

\* The step of a worker that wants what the tables tell already.
LEMMA ToldStays ==
  ASSUME ~SlowModule, IInv, link, NEW w \in Worker, Step(w), Tells(fs)
  PROVE  Tells(fs)' \/ Responsible(w)'
<1>0. /\ IInv /\ TypeOK /\ Shape /\ Stages(w) /\ Carries(w)
      /\ Active(w) /\ work[w].pc # "esl" /\ UNCHANGED <<fs, link>>
      /\ work[w].status = fs
  <2>1. Active(w) /\ work[w].pc # "esl" /\ UNCHANGED <<fs, link>>
    BY StepOf DEF Active, IInv
  <2>. QED  BY <2>1 DEF IInv, Workers, Carries, Active
<1>1. CASE work[w].pc = "row"
  <2>1. Goes(w, "session", work[w].s, work[w].e) /\ w[2] # "reconciliation"
    BY <1>0, <1>1, StepOf DEF Carries
  <2>. QED  BY <2>1 DEF Goes, Responsible
<1>2. CASE work[w].pc \in {"session", "event"}
  BY <1>0, <1>2, StepOf DEF Tells, tables
<1>3. CASE work[w].pc = "closeEvent"
  <2>1. UNCHANGED <<row, openS, events>> /\ openE' \in {openE, 0}
    BY <1>0, <1>3, StepOf
  <2>2. CASE openE' = openE
    BY <1>0, <2>1, <2>2 DEF Tells
  <2>3. CASE openE' = 0 /\ openE = work[w].e /\ openE # 0
    <3>1. openS # 0 => row.code # "none"
      <4>1. SUFFICES ASSUME openS # 0
                     PROVE  row.code # "none"
        OBVIOUS
      <4>2. work[w].status # "LoggedOut" /\ events[work[w].e].status = work[w].status
        BY <1>0, <2>3, <4>1 DEF Tells
      <4>3. work[w].code # "none"
        BY <1>0, <1>3, <4>2 DEF Stages, StaysAt
      <4>. QED  BY <1>0, <1>3, <4>3 DEF Carries
    <3>. QED  BY <1>0, <2>1, <2>3, <3>1 DEF Tells
  <2>. QED  BY <1>0, <1>3, <2>1, <2>2, <2>3, StepOf
<1>4. CASE work[w].pc = "closeSession"
  <2>1. work[w].status = "LoggedOut" /\ openS = 0
    BY <1>0, <1>4 DEF Stages, StaysAt, Tells
  <2>2. UNCHANGED <<row, events, openE>> /\ openS' = 0
    BY <1>0, <1>4, <2>1, StepOf
  <2>. QED  BY <1>0, <2>1, <2>2 DEF Tells
<1>5. CASE work[w].pc = "openSession"
  <2>1. openS # 0
    BY <1>0, <1>5 DEF Stages, LeavesAt, Tells
  <2>. QED  BY <1>0, <1>5, <2>1, StepOf DEF Tells
<1>6. CASE work[w].pc = "openEvent"
  <2>1. UNCHANGED <<row, openS>>
    BY <1>0, <1>6, StepOf
  <2>2. CASE openE # 0
    BY <1>0, <1>6, <2>1, <2>2, StepOf DEF Tells
  <2>3. CASE openE = 0
    <3>1. openE' = Len(events) + 1 /\ events'[Len(events) + 1] = NewSegment(w)
          /\ Len(events) \in Nat
      <4>1. openE' # 0 /\ Len(events) \in Nat
        BY <1>0, <1>6, <2>3, StepOf, TablesTyped
      <4>. QED  BY <1>0, <2>3, <4>1, SegmentsOfStep
    <3>. QED  BY <1>0, <2>1, <3>1 DEF Tells, NewSegment
  <2>. QED  BY <2>2, <2>3
<1>. QED  BY <1>0, <1>1, <1>2, <1>3, <1>4, <1>5, <1>6, WorkTyped DEF PcOf, Active

\* A worker that is responsible has done its work, or goes on with it.
LEMMA ResponsibleTells ==
  ASSUME ~SlowModule, IInv, link, NEW w \in Worker, Step(w), Responsible(w)
  PROVE  Tells(fs)' \/ Responsible(w)'
<1>0. /\ IInv /\ TypeOK /\ Shape /\ Stages(w) /\ Carries(w)
      /\ Active(w) /\ work[w].pc # "esl" /\ UNCHANGED <<fs, link>>
      /\ work[w].status = fs
  <2>1. Active(w) /\ work[w].pc # "esl" /\ UNCHANGED <<fs, link>>
    BY StepOf DEF Active, IInv
  <2>. QED  BY <2>1 DEF IInv, Workers, Carries, Active
<1>1. ASSUME NEW pc, NEW s, NEW e, Goes(w, pc, s, e)
      PROVE  work'[w].pc = pc /\ work'[w].status = work[w].status /\ work'[w].s = s
  BY <1>1 DEF Goes
<1>2. CASE work[w].pc = "row"
  <2>1. Goes(w, "session", work[w].s, work[w].e) /\ w[2] # "reconciliation"
    BY <1>0, <1>2, StepOf DEF Carries
  <2>. QED  BY <1>1, <2>1 DEF Responsible
<1>3. CASE work[w].pc = "session"
  <2>1. Goes(w, "event", openS, work[w].e) /\ UNCHANGED openS
    BY <1>0, <1>3, StepOf DEF Responsible, tables
  <2>. QED  BY <1>1, <2>1 DEF Responsible
<1>4. CASE work[w].pc = "event"
  <2>1. UNCHANGED <<row, tables>> /\ work[w].s = openS
    BY <1>0, <1>4, StepOf DEF Responsible
  <2>2. CASE AfterRead(w, openE) = "off"
    <3>1. \/ work[w].status = "LoggedOut" /\ openS = 0
          \/ /\ work[w].status # "LoggedOut" /\ openE # 0
             /\ events[openE].status = work[w].status
      BY <2>1, <2>2 DEF AfterRead
    <3>2. openS = 0 => openE = 0
      BY <1>0, NoSessionNoSegment
    <3>. QED  BY <1>0, <2>1, <3>1, <3>2 DEF Tells, tables
  <2>3. CASE AfterRead(w, openE) # "off"
    <3>1. Goes(w, AfterRead(w, openE), work[w].s, openE)
      BY <1>0, <1>4, <2>3, StepOf
    <3>2. \/ AfterRead(w, openE) \in {"closeEvent", "closeSession", "openEvent"}
          \/ AfterRead(w, openE) = "openSession" /\ work[w].s = 0
      BY <2>3 DEF AfterRead
    <3>. QED  BY <1>1, <2>1, <3>1, <3>2 DEF Responsible, tables
  <2>. QED  BY <2>2, <2>3
<1>5. CASE work[w].pc = "closeEvent"
  <2>1. UNCHANGED openS /\ work[w].s = openS
    BY <1>0, <1>5, StepOf DEF Responsible
  <2>2. work[w].status # "LoggedOut" => work[w].s # 0
    BY <1>0, <1>5, <2>1 DEF Stages, StaysAt
  <2>3. \/ Goes(w, "closeSession", work[w].s, work[w].e)
        \/ Goes(w, "openEvent", work[w].s, work[w].e)
    BY <1>0, <1>5, <2>2, StepOf DEF AfterClose
  <2>. QED  BY <1>1, <2>1, <2>3 DEF Responsible
<1>6. CASE work[w].pc = "closeSession"
  <2>1. work[w].status = "LoggedOut" /\ openE = 0
    BY <1>0, <1>6 DEF Stages, StaysAt, LeavesAt
  <2>2. UNCHANGED <<row, events, openE>> /\ openS' = 0
    BY <1>0, <1>6, StepOf DEF Responsible
  <2>. QED  BY <1>0, <2>1, <2>2 DEF Tells
<1>7. CASE work[w].pc = "openSession"
  <2>1. Goes(w, "openEvent", sessions + 1, work[w].e)
    BY <1>0, <1>7, StepOf DEF Responsible
  <2>. QED  BY <1>1, <2>1 DEF Responsible
<1>8. CASE work[w].pc = "openEvent"
  <2>1. UNCHANGED <<row, openS>> /\ openS # 0 /\ work[w].status # "LoggedOut"
        /\ NoneOrWanted(w)
    BY <1>0, <1>8, StepOf DEF Stages, StaysAt, LeavesAt
  <2>2. CASE openE # 0
    BY <1>0, <1>8, <2>1, <2>2, StepOf DEF Tells, NoneOrWanted
  <2>3. CASE openE = 0
    <3>1. openE' = Len(events) + 1 /\ events'[Len(events) + 1] = NewSegment(w)
          /\ Len(events) \in Nat
      <4>1. openE' # 0 /\ Len(events) \in Nat
        BY <1>0, <1>8, <2>3, StepOf, TablesTyped
      <4>. QED  BY <1>0, <2>3, <4>1, SegmentsOfStep
    <3>. QED  BY <1>0, <2>1, <3>1 DEF Tells, NewSegment
  <2>. QED  BY <2>2, <2>3
<1>. QED  BY <1>0, <1>2, <1>3, <1>4, <1>5, <1>6, <1>7, <1>8, WorkTyped
          DEF PcOf, Active

\* A step of w leaves another worker responsible, or what it does is enough.
LEMMA OtherTells ==
  ASSUME ~SlowModule, IInv, link, NEW w \in Worker, Step(w),
         NEW v \in Worker, v # w, Responsible(v)
  PROVE  Tells(fs)' \/ Responsible(w)' \/ Responsible(v)'
<1>0. /\ IInv /\ TypeOK /\ Stages(w) /\ Carries(w)
      /\ work[w].pc # "esl" /\ UNCHANGED <<fs, link>>
      /\ work'[v] = work[v] /\ work[w].status = fs
  <2>1. Active(w) /\ work[w].pc # "esl" /\ UNCHANGED <<fs, link>>
    BY StepOf DEF Active, IInv
  <2>2. work'[v] = work[v]
    BY StepOf DEF Goes, Stops, Keeps, IInv
  <2>. QED  BY <2>1, <2>2 DEF IInv, Workers, Carries, Active
<1>1. CASE UNCHANGED openS
  BY <1>0, <1>1 DEF Responsible
<1>2. CASE work[w].pc = "closeSession" /\ openS' # openS
  <2>1. work[w].status = "LoggedOut" /\ openE = 0
    BY <1>0, <1>2 DEF Stages, StaysAt, LeavesAt
  <2>2. UNCHANGED <<row, events, openE>> /\ openS' = 0
    BY <1>0, <1>2, StepOf
  <2>. QED  BY <1>0, <2>1, <2>2 DEF Tells
<1>3. CASE work[w].pc = "openSession" /\ openS' # openS
  <2>1. Goes(w, "openEvent", sessions + 1, work[w].e)
    BY <1>0, <1>3, StepOf
  <2>. QED  BY <2>1 DEF Goes, Responsible
<1>. QED  BY <1>0, <1>1, <1>2, <1>3, StepOf DEF tables

LEMMA CoveredStays ==
  ASSUME ~SlowModule, IInv, Covered, ~crossed', [Next]_vars
  PROVE  Covered'
<1>. SUFFICES ASSUME link', boot' \notin {"read", "push"}
              PROVE  Tells(fs)' \/ \E w \in Worker : Responsible(w)'
  BY DEF Covered
<1>0. IInv /\ TypeOK
  BY DEF IInv
<1>1. CASE \E w \in Worker : Step(w)
  <2>1. PICK w \in Worker : Step(w)
    BY <1>1
  <2>2. link /\ boot \notin {"read", "push"}
    BY <1>0, <2>1, StepOf
  <2>3. CASE Tells(fs)
    BY <2>1, <2>2, <2>3, ToldStays
  <2>4. CASE \E v \in Worker : Responsible(v)
    BY <2>1, <2>2, <2>4, ResponsibleTells, OtherTells
  <2>. QED  BY <2>2, <2>3, <2>4 DEF Covered
<1>2. ASSUME NEW status \in Status, NEW code \in Code, Ask(status, code)
      PROVE  \E w \in Worker : Responsible(w)'
  <2>1. <<acts + 1, "http">> \in Worker
    <3>1. acts + 1 \in 1..ActBound
      BY <1>0, <1>2, AgentConstantsOK DEF Ask, TypeOK
    <3>. QED  BY <3>1 DEF Worker
  <2>2. work' = [work EXCEPT ![<<acts + 1, "http">>] = Starting("esl", status, code)]
    BY <1>2 DEF Ask
  <2>3. work'[<<acts + 1, "http">>].pc = "esl"
    BY <1>0, <2>1, <2>2, WorkerStarts DEF PcOf
  <2>. QED  BY <2>1, <2>3 DEF Responsible
<1>3. ASSUME NEW status \in Status, FsChange(status)
      PROVE  \E w \in Worker : Responsible(w)'
  <2>1. <<acts + 1, "fs_event">> \in Worker
    <3>1. acts + 1 \in 1..ActBound
      BY <1>0, <1>3, AgentConstantsOK DEF FsChange, TypeOK
    <3>. QED  BY <3>1 DEF Worker
  <2>2. work' = [work EXCEPT ![<<acts + 1, "fs_event">>] =
                               Starting("row", status, "none")]
    BY <1>3 DEF FsChange
  <2>3. "none" \in Code
    BY DEF Code
  <2>4. work'[<<acts + 1, "fs_event">>].pc = "row"
    BY <1>0, <2>1, <2>2, <2>3, WorkerStarts DEF PcOf
  <2>. QED  BY <2>1, <2>4 DEF Responsible
<1>4. ASSUME NEW a \in 1..ActBound, SetInFs(a)
      PROVE  \E w \in Worker : Responsible(w)'
  BY <1>0, <1>4, SetInFsStarts DEF Responsible
<1>5. CASE LinkLost \/ Crash \/ Reconnect \/ PushRead
  BY <1>5 DEF LinkLost, Crash, Reconnect, PushRead
<1>6. CASE PushSet
  <2>1. /\ boot = "push"
        /\ work' = [work EXCEPT ![<<startup, "fs_event">>] =
                                  Starting("row", pushed, "none")]
    BY <1>6 DEF PushSet
  <2>2. startup \in 1..ActBound /\ pushed \in Status /\ "none" \in Code
    BY <1>0, <2>1, AgentConstantsOK DEF IInv, TypeOK, Workers, Occasion, Code
  <2>3. <<startup, "fs_event">> \in Worker
    BY <2>2 DEF Worker
  <2>4. work'[<<startup, "fs_event">>].pc = "row"
    BY <1>0, <2>1, <2>2, <2>3, WorkerStarts DEF PcOf
  <2>. QED  BY <2>3, <2>4 DEF Responsible
<1>7. CASE SyncAgents \/ Reconcile
  <2>0. \A w \in Worker : ~Active(w)
    <3>1. CASE SyncAgents
      BY <3>1, NobodyAtWork DEF SyncAgents, Crossing
    <3>2. CASE Reconcile
      BY <1>0, <3>2, NothingCrosses DEF Reconcile, IInv
    <3>. QED  BY <1>7, <3>1, <3>2
  <2>1. /\ UNCHANGED <<fs, link>> /\ UNCHANGED tables
        /\ boot \in {"sync", "list"} /\ row'.code = row.code
    BY <1>0, <1>7 DEF SyncAgents, Reconcile, TypeOK
  <2>2. Tells(fs)
    BY <1>7, <2>0, <2>1 DEF Covered, Responsible, Active
  <2>. QED  BY <2>1, <2>2 DEF Tells, tables
<1>8. CASE UNCHANGED vars
  BY <1>8 DEF Covered, Tells, Responsible, vars, tables, bootVars
<1>. QED  BY <1>1, <1>2, <1>3, <1>4, <1>5, <1>6, <1>7, <1>8 DEF Next

\* As long as FreeSWITCH answers the startup sequence and no status change has run
\* into it: whenever every change has been recorded, an agent on duty has an open
\* session and in it an open segment with the status that mod_callcenter has, and
\* an agent who is logged out has neither, whatever the order of the two handlers
\* and wherever a crash or a lost connection cut them off.
THEOREM HistoryHolds ==
  ASSUME ~SlowModule
  PROVE  Spec => []HistoryAgrees
<1>. DEFINE I == Sound /\ (~crossed => IInv /\ Covered)
<1>1. Init => I
  <2>1. Init => Covered
    BY DEF Init, Covered, Tells
  <2>. QED  BY <2>1, StartsRight, StartsSoundly
<1>2. I /\ [Next]_vars => I'
  <2>. SUFFICES ASSUME I, [Next]_vars PROVE I'
    OBVIOUS
  <2>1. ~crossed' => ~crossed
    BY CrossedStays DEF Sound
  <2>. QED  BY <2>1, SoundStays, NextKeeps, CoveredStays
<1>3. I => HistoryAgrees
  BY DEF IInv, Shape, Covered, Tells, Responsible, HistoryAgrees, Quiet, Resting
<1>. QED  BY <1>1, <1>2, <1>3, PTL DEF Spec
=============================================================================
