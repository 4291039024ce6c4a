-------------------------- MODULE RecordingNewsProofs --------------------------
(***************************************************************************)
(* What the dashboard shows of a recording, and what the messages on the    *)
(* connection will still tell of it: theorems about ConferenceRecording,    *)
(* for any file names, faults and length of the connection's queue.         *)
(***************************************************************************)
EXTENDS ConferenceRecordingProofs

----------------------------------------------------------------------------
(* The queue.                                                              *)

LEMMA MsgIs == \A k, p, l, q : /\ Msg(k, p).kind = k /\ Msg(k, p).path = p
                               /\ Msg(k, p) = Msg(l, q) => k = l /\ p = q
BY DEF Msg

\* A message that is taken is the first one, and the others move up.
LEMMA TakeIs ==
  ASSUME TypeOK, NEW k, Take(k)
  PROVE  /\ Len(events) \in Nat \ {0} /\ Len(events') = Len(events) - 1
         /\ \A i \in 1..Len(events') : events'[i] = events[i + 1]
         /\ events[1] = Msg(events[1].kind, At) /\ events[1].kind \in k
         /\ Head(events) = events[1]
<1>1. events \in Seq(Event) /\ events # <<>> /\ events' = Tail(events)
      /\ Head(events).kind \in k
  BY DEF TypeOK, Take
<1>2. /\ Len(events) \in Nat \ {0} /\ Len(events') = Len(events) - 1
      /\ \A i \in 1..Len(events') : events'[i] = events[i + 1]
      /\ Head(events) = events[1] /\ events[1] \in Event
  <2>1. Len(events) \in Nat /\ Len(events) # 0
    BY <1>1
  <2>2. Len(Tail(events)) = Len(events) - 1
    BY <1>1, <2>1
  <2>3. \A i \in 1..(Len(events) - 1) : Tail(events)[i] = events[i + 1]
    BY <1>1, <2>1
  <2>4. Head(events) = events[1]
    BY <1>1
  <2>5. events[1] \in Event
    BY <1>1, <2>1
  <2>6. Len(events') = Len(events) - 1
    BY <1>1, <2>2
  <2>7. \A i \in 1..Len(events') : events'[i] = events[i + 1]
    BY <1>1, <2>3, <2>6
  <2>. QED  BY <2>1, <2>4, <2>5, <2>6, <2>7
<1>3. ASSUME NEW e \in Event
      PROVE  e = Msg(e.kind, e.path)
  <2>1. \E K, P : e \in [kind: K, path: P]
    BY DEF Event
  <2>2. PICK K, P : e \in [kind: K, path: P]
    BY <2>1
  <2>. QED  BY <2>2 DEF Msg
<1>. QED  BY <1>1, <1>2, <1>3 DEF At

\* Messages that are sent come last.
LEMMA EmitIs ==
  ASSUME TypeOK, NEW es \in Seq(Event), Len(es) > 0, Emit(es), ~deaf'
  PROVE  /\ ~deaf /\ linked
         /\ Len(events) \in Nat /\ Len(es) \in Nat
         /\ Len(events') = Len(events) + Len(es)
         /\ \A i \in 1..Len(events) : events'[i] = events[i]
         /\ \A i \in 1..Len(es) : events'[Len(events) + i] = es[i]
<1>1. es # <<>>
  OBVIOUS
<1>2. linked /\ ~deaf /\ events' = events \o es
  BY <1>1 DEF Emit
<1>3. events \in Seq(Event)
  BY DEF TypeOK
<1>. QED  BY <1>2, <1>3

LEMMA EmitOne ==
  ASSUME TypeOK, NEW e \in Event, Emit(<<e>>), ~deaf'
  PROVE  /\ ~deaf /\ linked
         /\ Len(events) \in Nat /\ Len(events') = Len(events) + 1
         /\ \A i \in 1..Len(events) : events'[i] = events[i]
         /\ events'[Len(events) + 1] = e
         /\ \A j \in (Len(events) + 1)..Len(events') : j = Len(events) + 1
<1>. DEFINE es == <<e>>
<1>1. es \in Seq(Event) /\ Len(es) = 1 /\ es[1] = e /\ Emit(es)
  OBVIOUS
<1>. HIDE DEF es
<1>2. /\ ~deaf /\ linked
      /\ Len(events) \in Nat /\ Len(events') = Len(events) + 1
      /\ \A i \in 1..Len(events) : events'[i] = events[i]
      /\ events'[Len(events) + 1] = e
  BY <1>1, EmitIs
<1>3. ASSUME NEW n \in Nat, NEW m, m = n + 1, NEW j \in (n + 1)..m
      PROVE  j = n + 1
  BY <1>3
<1>. QED  BY <1>2, <1>3

LEMMA EmitTwo ==
  ASSUME TypeOK, NEW e \in Event, NEW f \in Event, Emit(<<e, f>>), ~deaf'
  PROVE  /\ ~deaf /\ linked
         /\ Len(events) \in Nat /\ Len(events') = Len(events) + 2
         /\ \A i \in 1..Len(events) : events'[i] = events[i]
         /\ events'[Len(events) + 1] = e /\ events'[Len(events) + 2] = f
         /\ \A j \in (Len(events) + 1)..Len(events') :
              j = Len(events) + 1 \/ j = Len(events) + 2
<1>. DEFINE es == <<e, f>>
<1>1. es \in Seq(Event) /\ Len(es) = 2 /\ es[1] = e /\ es[2] = f /\ Emit(es)
  OBVIOUS
<1>. HIDE DEF es
<1>2. /\ ~deaf /\ linked
      /\ Len(events) \in Nat /\ Len(events') = Len(events) + 2
      /\ \A i \in 1..Len(events) : events'[i] = events[i]
      /\ events'[Len(events) + 1] = e /\ events'[Len(events) + 2] = f
  <2>0. es \in Seq(Event) /\ Len(es) > 0 /\ Emit(es)
    BY <1>1
  <2>1. /\ ~deaf /\ linked
        /\ Len(events) \in Nat /\ Len(events') = Len(events) + Len(es)
        /\ \A i \in 1..Len(events) : events'[i] = events[i]
        /\ \A i \in 1..Len(es) : events'[Len(events) + i] = es[i]
    BY <2>0, EmitIs
  <2>2. 1 \in 1..Len(es) /\ 2 \in 1..Len(es)
    BY <1>1
  <2>3. events'[Len(events) + 1] = es[1] /\ events'[Len(events) + 2] = es[2]
    BY <2>1, <2>2
  <2>. QED  BY <1>1, <2>1, <2>3
<1>3. ASSUME NEW n \in Nat, NEW m, m = n + 2, NEW j \in (n + 1)..m
      PROVE  j = n + 1 \/ j = n + 2
  BY <1>3
<1>. QED  BY <1>2, <1>3

\* The stops that FreeSWITCH sends name exactly the files that it closes.
LEMMA ReportsAre ==
  ASSUME NEW S \in SUBSET Path, NEW e \in Event, NEW es \in Reports(S, e)
  PROVE  /\ es \in Seq(Event) /\ Len(es) \in Nat /\ Len(es) > 0
         /\ \E i \in 1..Len(es) : es[i] = e
         /\ \A p \in S : \E i \in 1..Len(es) : es[i] = Msg("stop", p)
         /\ \A i \in 1..Len(es) : es[i] = e \/ \E p \in S : es[i] = Msg("stop", p)
<1>. DEFINE list == SetToSeq(S)
            n == Cardinality(S)
<1>1. IsFiniteSet(S) /\ n \in Nat
  BY RecordingConstantsOK, FS_Subset, FS_CardinalityType DEF RecordingConstantsOK
<1>2. PICK f \in Bijection(1..n, S) : TRUE
  BY <1>1, FS_CardinalityType DEF ExistsBijection
<1>3. f \in [1..n -> S] /\ IsInjective(f)
  BY <1>2 DEF Bijection, Injection, IsInjective
<1>4. list \in [1..n -> S] /\ IsInjective(list)
  BY <1>3 DEF SetToSeq
<1>. HIDE DEF list
<1>5. list \in Injection(1..n, S)
  BY <1>4 DEF Injection, IsInjective
<1>6. Cardinality(1..n) = n
  BY <1>1, FS_Interval
<1>7. list \in Surjection(1..n, S)
  BY <1>1, <1>5, <1>6, FS_Injection
<1>8. \A p \in S : \E i \in 1..n : list[i] = p
  BY <1>7 DEF Surjection
<1>9. StopEvents(S) = [i \in 1..n |-> Msg("stop", list[i])]
  <2>1. StopEvents(S) = [i \in DOMAIN list |-> Msg("stop", list[i])]
    BY DEF StopEvents, list
  <2>2. DOMAIN list = 1..n
    BY <1>4
  <2>. QED  BY <2>1, <2>2
<1>10. \A i \in 1..n : Msg("stop", list[i]) \in Event
  BY <1>4, MsgType
<1>. HIDE DEF n
<1>11. /\ StopEvents(S) \in Seq(Event) /\ Len(StopEvents(S)) = n
       /\ \A i \in 1..n : StopEvents(S)[i] = Msg("stop", list[i])
  BY <1>1, <1>9, <1>10
<1>12. \/ es = StopEvents(S) \o <<e>>
       \/ es = <<e>> \o StopEvents(S)
  BY DEF Reports
<1>13. CASE es = StopEvents(S) \o <<e>>
  <2>1. /\ es \in Seq(Event) /\ Len(es) = n + 1 /\ es[n + 1] = e
        /\ \A i \in 1..n : es[i] = Msg("stop", list[i])
    BY <1>1, <1>11, <1>13
  <2>. QED  BY <1>1, <1>4, <1>8, <2>1
<1>14. CASE es = <<e>> \o StopEvents(S)
  <2>1. /\ es \in Seq(Event) /\ Len(es) = n + 1 /\ es[1] = e
        /\ \A i \in 1..n : es[i + 1] = Msg("stop", list[i])
    BY <1>1, <1>11, <1>14
  <2>2. \A j \in 1..Len(es) : j = 1 \/ (j - 1 \in 1..n /\ j = (j - 1) + 1)
    BY <1>1, <2>1
  <2>3. \A i \in 1..n : i + 1 \in 1..Len(es)
    BY <1>1, <2>1
  <2>4. 1 \in 1..Len(es)
    BY <1>1, <2>1
  <2>5. \A p \in S : \E i \in 1..Len(es) : es[i] = Msg("stop", p)
    BY <1>8, <2>1, <2>3
  <2>6. ASSUME NEW j \in 1..Len(es), j - 1 \in 1..n, j = (j - 1) + 1
        PROVE  \E p \in S : es[j] = Msg("stop", p)
    <3>1. es[j] = Msg("stop", list[j - 1])
      BY <2>1, <2>6
    <3>2. list[j - 1] \in S
      BY <1>4, <2>6
    <3>. QED  BY <3>1, <3>2
  <2>7. \A i \in 1..Len(es) : es[i] = e \/ \E p \in S : es[i] = Msg("stop", p)
    BY <2>1, <2>2, <2>6
  <2>. QED  BY <1>1, <2>1, <2>4, <2>5, <2>7
<1>. QED  BY <1>12, <1>13, <1>14

----------------------------------------------------------------------------
(* What is shown as recorded is recorded, or the news that it ended comes.  *)

EndOf(e, p) == e = Msg("stop", p) \/ e.kind = "destroy"

\* The file is being written, or a message after the i-th tells that it is not.
Told(i, p) == p \in recording \/ \E j \in (i + 1)..Len(events) : EndOf(events[j], p)

\* The end of a file comes after its start and after the answer to its request.
Starts(e, p) == e = Msg("start", p) \/ (e = Msg("+OK", p) /\ p \in file)
FileTold == \A i \in 1..Len(events), p \in Path : Starts(events[i], p) => Told(i, p)

\* ACTIVE is shown of a file, or Verify is going to show it.
OnScreen(p) == \/ Shows("ACTIVE") /\ entry.path = p
               \/ Shows("STARTING") /\ p \in file /\ cmd[p] = "verify"
ShownTold == \A p \in Path \cup {None} : OnScreen(p) => Told(0, p)

Pending(p) == cmd[p] \in {"asked", "sent", "verify"}
\* The operator has one request at a time.
OneRequest == \A p, q \in Path \ auto : Pending(p) /\ Pending(q) => p = q

Asked ==
  /\ recording \subseteq file
  /\ \A p \in file \cup opening : cmd[p] \notin {"new", "asked"}
  /\ \A p \in Path : cmd[p] = "verify" => p \notin auto

News == /\ Asked
        /\ ~overlap => OneRequest
        /\ ~deaf => FileTold
        /\ ~deaf /\ ~overlap => ShownTold

\* A step of FreeSWITCH, when nothing that it says is lost.
LEMMA FreeswitchSends ==
  ASSUME TypeOK, Asked, Freeswitch, ~deaf'
  PROVE  /\ ~deaf /\ UNCHANGED <<entry, auto, overlap>>
         /\ Len(events) \in Nat /\ Len(events') \in Nat /\ Len(events) <= Len(events')
         /\ \A i \in 1..Len(events) : events'[i] = events[i]
         /\ \A p \in recording :
              \/ p \in recording'
              \/ \E j \in (Len(events) + 1)..Len(events') : EndOf(events'[j], p)
         /\ \A j \in (Len(events) + 1)..Len(events'), p \in Path :
              Starts(events[j], p)' => p \in recording'
         /\ \A p \in file' \ file : p \in recording'
         /\ \A p \in Path : cmd'[p] = cmd[p] \/ (cmd[p] = "asked" /\ cmd'[p] = "sent")
<1>. USE DEF shown, asks, Starts
<1>0. Len(events) \in Nat
  BY DEF TypeOK
<1>1. CASE ConferenceStarts
  <2>1. Emit(<<Msg("create", None)>>) /\ Msg("create", None) \in Event
    BY <1>1, MsgType DEF ConferenceStarts
  <2>2. /\ ~deaf /\ Len(events') = Len(events) + 1
        /\ \A i \in 1..Len(events) : events'[i] = events[i]
        /\ \A j \in (Len(events) + 1)..Len(events') : events'[j] = Msg("create", None)
    BY <2>1, EmitOne
  <2>. QED  BY <1>0, <1>1, <2>2, MsgIs DEF ConferenceStarts
<1>2. CASE ConferenceEnds
  <2>0. PICK S \in {recording, {}} : \E es \in Reports(S, Msg("destroy", None)) : Emit(es)
    BY <1>2 DEF ConferenceEnds
  <2>1. PICK es \in Reports(S, Msg("destroy", None)) : Emit(es)
    BY <2>0
  <2>2. S \in SUBSET Path /\ Msg("destroy", None) \in Event
    BY <2>1, MsgType DEF TypeOK
  <2>3. /\ es \in Seq(Event) /\ Len(es) \in Nat /\ Len(es) > 0
        /\ \E i \in 1..Len(es) : es[i] = Msg("destroy", None)
        /\ \A i \in 1..Len(es) : \/ es[i] = Msg("destroy", None)
                                 \/ \E p \in S : es[i] = Msg("stop", p)
    BY <2>2, ReportsAre
  <2>4. /\ ~deaf /\ Len(events') = Len(events) + Len(es)
        /\ \A i \in 1..Len(events) : events'[i] = events[i]
        /\ \A i \in 1..Len(es) : events'[Len(events) + i] = es[i]
    BY <2>1, <2>3, EmitIs
  <2>5. \E j \in (Len(events) + 1)..Len(events') : events'[j] = Msg("destroy", None)
    <3>1. PICK i \in 1..Len(es) : es[i] = Msg("destroy", None)
      BY <2>3
    <3>2. Len(events) + i \in (Len(events) + 1)..Len(events')
      BY <1>0, <2>3, <2>4
    <3>. QED  BY <2>4, <3>1, <3>2
  <2>6. ASSUME NEW j \in (Len(events) + 1)..Len(events')
        PROVE  events'[j].kind \in {"destroy", "stop"}
    <3>1. j - Len(events) \in 1..Len(es) /\ Len(events) + (j - Len(events)) = j
      BY <1>0, <2>3, <2>4, <2>6
    <3>2. events'[j] = es[j - Len(events)]
      BY <2>4, <3>1
    <3>. QED  BY <2>3, <3>1, <3>2, MsgIs
  <2>7. /\ UNCHANGED <<entry, auto, overlap, cmd, file>>
        /\ Len(events') \in Nat /\ Len(events) <= Len(events')
    BY <1>0, <1>2, <2>3, <2>4 DEF ConferenceEnds
  <2>8. \A p : \E j \in (Len(events) + 1)..Len(events') : EndOf(events'[j], p)
    BY <2>5, MsgIs DEF EndOf
  <2>9. \A j \in (Len(events) + 1)..Len(events'), p \in Path : ~Starts(events[j], p)'
    BY <2>6, MsgIs
  <2>. QED  BY <1>0, <2>4, <2>7, <2>8, <2>9
<1>3. CASE FsStops
  <2>. DEFINE named  == IF stop.path = None THEN Path ELSE {stop.path}
              ended  == named \cap (recording \cup opening)
              answer == IF ended # {} \/ stop.path = None THEN "stopped"
                        ELSE "nopath"
  <2>1. /\ recording' = recording \ ended
        /\ \E es \in Reports(ended \cap recording, Msg(answer, None)) : Emit(es)
    BY <1>3 DEF FsStops
  <2>2. answer \in {"stopped", "nopath"}
    OBVIOUS
  <2>. HIDE DEF answer, ended
  <2>3. ended \cap recording \in SUBSET Path /\ Msg(answer, None) \in Event
    BY <2>2, MsgType DEF TypeOK
  <2>4. PICK es \in Reports(ended \cap recording, Msg(answer, None)) : Emit(es)
    BY <2>1
  <2>5. /\ es \in Seq(Event) /\ Len(es) \in Nat /\ Len(es) > 0
        /\ \A p \in ended \cap recording :
             \E i \in 1..Len(es) : es[i] = Msg("stop", p)
        /\ \A i \in 1..Len(es) : \/ es[i] = Msg(answer, None)
                                 \/ \E p \in ended \cap recording : es[i] = Msg("stop", p)
    BY <2>3, ReportsAre
  <2>6. /\ ~deaf /\ Len(events') = Len(events) + Len(es)
        /\ \A i \in 1..Len(events) : events'[i] = events[i]
        /\ \A i \in 1..Len(es) : events'[Len(events) + i] = es[i]
    BY <2>4, <2>5, EmitIs
  <2>7. ASSUME NEW p \in ended \cap recording
        PROVE  \E j \in (Len(events) + 1)..Len(events') : events'[j] = Msg("stop", p)
    <3>1. PICK i \in 1..Len(es) : es[i] = Msg("stop", p)
      BY <2>5
    <3>2. Len(events) + i \in (Len(events) + 1)..Len(events')
      BY <1>0, <2>5, <2>6
    <3>. QED  BY <2>6, <3>1, <3>2
  <2>8. ASSUME NEW j \in (Len(events) + 1)..Len(events')
        PROVE  events'[j].kind \in {"stopped", "nopath", "stop"}
    <3>1. j - Len(events) \in 1..Len(es) /\ Len(events) + (j - Len(events)) = j
      BY <1>0, <2>5, <2>6, <2>8
    <3>2. events'[j] = es[j - Len(events)]
      BY <2>6, <3>1
    <3>3. events'[j] = Msg(answer, None) \/ \E p : events'[j] = Msg("stop", p)
      BY <2>5, <3>1, <3>2
    <3>4. Msg(answer, None).kind = answer /\ \A p : Msg("stop", p).kind = "stop"
      BY MsgIs
    <3>5. CASE events'[j] = Msg(answer, None)
      BY <2>2, <3>4, <3>5
    <3>6. CASE \E p : events'[j] = Msg("stop", p)
      BY <3>4, <3>6
    <3>. QED  BY <3>3, <3>5, <3>6
  <2>9. /\ UNCHANGED <<entry, auto, overlap, cmd, file>>
        /\ Len(events') \in Nat /\ Len(events) <= Len(events')
    <3>1. UNCHANGED <<entry, auto, overlap, cmd, file>>
      BY <1>3 DEF FsStops
    <3>. QED  BY <1>0, <2>5, <2>6, <3>1
  <2>10. \A p \in recording : \/ p \in recording'
                               \/ \E j \in (Len(events) + 1)..Len(events') : EndOf(events'[j], p)
    BY <2>1, <2>7 DEF EndOf
  <2>11. \A j \in (Len(events) + 1)..Len(events'), p \in Path : ~Starts(events[j], p)'
    BY <2>8, MsgIs
  <2>. QED  BY <1>0, <2>6, <2>9, <2>10, <2>11
<1>4. ASSUME NEW q \in Path, FsAccepts(q)
      PROVE  /\ ~deaf /\ Len(events') = Len(events) + 1
             /\ \A i \in 1..Len(events) : events'[i] = events[i]
             /\ \A j \in (Len(events) + 1)..Len(events') :
                  events'[j] \in {Msg("+OK", q), Msg("-ERR", q)}
             /\ q \notin file
  <2>1. PICK e \in {Msg("+OK", q), Msg("-ERR", q)} : Emit(<<e>>)
    BY <1>4 DEF FsAccepts
  <2>2. e \in Event
    BY <2>1, MsgType
  <2>3. /\ ~deaf /\ Len(events') = Len(events) + 1
        /\ \A i \in 1..Len(events) : events'[i] = events[i]
        /\ \A j \in (Len(events) + 1)..Len(events') : events'[j] = e
    BY <2>1, <2>2, EmitOne
  <2>. QED  BY <1>4, <2>1, <2>3 DEF FsAccepts, Asked
<1>5. ASSUME NEW q \in Path, FsOpens(q)
      PROVE  /\ ~deaf /\ Len(events') \in Nat /\ Len(events) <= Len(events')
             /\ \A i \in 1..Len(events) : events'[i] = events[i]
             /\ \A j \in (Len(events) + 1)..Len(events') :
                  events'[j] \in {Msg("+OK", q), Msg("start", q)}
  <2>1. Msg("start", q) \in Event /\ Msg("+OK", q) \in Event
    BY MsgType
  <2>2. CASE Emit(<<Msg("start", q)>>)
    <3>1. /\ ~deaf /\ Len(events') = Len(events) + 1
          /\ \A i \in 1..Len(events) : events'[i] = events[i]
          /\ \A j \in (Len(events) + 1)..Len(events') : events'[j] = Msg("start", q)
      BY <2>1, <2>2, EmitOne
    <3>. QED  BY <1>0, <3>1
  <2>3. CASE Emit(<<Msg("start", q), Msg("+OK", q)>>)
    <3>1. /\ ~deaf /\ Len(events') = Len(events) + 2
          /\ \A i \in 1..Len(events) : events'[i] = events[i]
          /\ \A j \in (Len(events) + 1)..Len(events') :
               events'[j] \in {Msg("+OK", q), Msg("start", q)}
      BY <2>1, <2>3, EmitTwo
    <3>. QED  BY <1>0, <3>1
  <2>. QED  BY <1>5, <2>2, <2>3 DEF FsOpens
<1>6. CASE \E q \in Path : FsAccepts(q)
  <2>1. PICK q \in Path : FsAccepts(q)
    BY <1>6
  <2>2. \A p \in Path : cmd'[p] = cmd[p] \/ (cmd[p] = "asked" /\ cmd'[p] = "sent")
    BY <2>1 DEF FsAccepts, TypeOK
  <2>3. UNCHANGED <<entry, auto, overlap, recording, file>>
    BY <2>1 DEF FsAccepts
  <2>4. /\ ~deaf /\ Len(events') = Len(events) + 1
        /\ \A i \in 1..Len(events) : events'[i] = events[i]
        /\ \A j \in (Len(events) + 1)..Len(events') :
             events'[j] \in {Msg("+OK", q), Msg("-ERR", q)}
        /\ q \notin file
    BY <1>4, <2>1
  <2>5. \A j \in (Len(events) + 1)..Len(events'), p \in Path : ~Starts(events[j], p)'
    BY <2>3, <2>4, MsgIs
  <2>. QED  BY <1>0, <2>2, <2>3, <2>4, <2>5
<1>7. CASE \E q \in Path : FsOpens(q)
  <2>1. PICK q \in Path : FsOpens(q)
    BY <1>7
  <2>2. \A p \in Path : cmd'[p] = cmd[p] \/ (cmd[p] = "asked" /\ cmd'[p] = "sent")
    BY <2>1 DEF FsOpens, TypeOK
  <2>. QED  BY <1>0, <1>5, <2>1, <2>2, MsgIs DEF FsOpens
<1>8. CASE \E q \in Path : FsCannotOpen(q)
  BY <1>0, <1>8 DEF FsCannotOpen, link
<1>. QED  BY <1>1, <1>2, <1>3, <1>6, <1>7, <1>8 DEF Freeswitch

\* What FreeSWITCH sends next keeps the news of every file.
LEMMA FreeswitchNews ==
  ASSUME TypeOK, News, Freeswitch
  PROVE  News'
<1>1. Asked' /\ UNCHANGED <<entry, auto, overlap>> /\ (deaf => deaf')
      /\ \A p \in Path : cmd'[p] = cmd[p] \/ (cmd[p] = "asked" /\ cmd'[p] = "sent")
  <2>1. CASE ConferenceStarts \/ ConferenceEnds \/ FsStops
    BY <2>1 DEF ConferenceStarts, ConferenceEnds, FsStops, News, Asked, shown, asks, Emit
  <2>2. CASE \E p \in Path : FsCannotOpen(p)
    BY <2>2 DEF FsCannotOpen, News, Asked, shown, asks
  <2>3. ASSUME NEW q \in Path, FsAccepts(q)
        PROVE  /\ Asked' /\ UNCHANGED <<entry, auto, overlap>> /\ (deaf => deaf')
               /\ \A p \in Path : cmd'[p] = cmd[p] \/ (cmd[p] = "asked" /\ cmd'[p] = "sent")
    <3>1. /\ cmd'[q] = "sent" /\ cmd[q] = "asked"
          /\ \A p \in Path : p # q => cmd'[p] = cmd[p]
      BY <2>3 DEF FsAccepts, TypeOK
    <3>2. /\ UNCHANGED <<entry, auto, overlap, recording, file>> /\ (deaf => deaf')
          /\ opening' \subseteq opening \cup {q}
      BY <2>3 DEF FsAccepts, shown, Emit
    <3>3. file \subseteq Path /\ opening \subseteq Path
      BY DEF TypeOK
    <3>. QED  BY <3>1, <3>2, <3>3 DEF News, Asked
  <2>4. ASSUME NEW q \in Path, FsOpens(q)
        PROVE  /\ Asked' /\ UNCHANGED <<entry, auto, overlap>> /\ (deaf => deaf')
               /\ \A p \in Path : cmd'[p] = cmd[p] \/ (cmd[p] = "asked" /\ cmd'[p] = "sent")
    <3>1. \/ cmd' = cmd /\ q \in opening
          \/ /\ cmd'[q] = "sent" /\ cmd[q] = "asked"
             /\ \A p \in Path : p # q => cmd'[p] = cmd[p]
      BY <2>4 DEF FsOpens, TypeOK
    <3>2. /\ UNCHANGED <<entry, auto, overlap>> /\ (deaf => deaf')
          /\ opening' \subseteq opening /\ recording' = recording \cup {q}
          /\ file' = file \cup {q}
      BY <2>4 DEF FsOpens, shown, Emit
    <3>3. file \subseteq Path /\ opening \subseteq Path
      BY DEF TypeOK
    <3>. QED  BY <3>1, <3>2, <3>3 DEF News, Asked
  <2>. QED  BY <2>1, <2>2, <2>3, <2>4 DEF Freeswitch
<1>2. ~overlap' => OneRequest'
  BY <1>1 DEF News, OneRequest, Pending
<1>3. ASSUME ~deaf'
      PROVE  /\ FileTold'
             /\ ~overlap' => ShownTold'
  <2>1. /\ Len(events) \in Nat /\ Len(events') \in Nat /\ Len(events) <= Len(events')
        /\ \A i \in 1..Len(events) : events'[i] = events[i]
        /\ \A p \in recording :
             \/ p \in recording'
             \/ \E j \in (Len(events) + 1)..Len(events') : EndOf(events'[j], p)
        /\ \A j \in (Len(events) + 1)..Len(events'), p \in Path :
             Starts(events[j], p)' => p \in recording'
        /\ \A p \in file' \ file : p \in recording'
        /\ ~deaf
    BY <1>3, FreeswitchSends DEF News
  <2>2. ASSUME NEW i \in 0..Len(events), NEW p, Told(i, p)
        PROVE  Told(i, p)'
    <3>1. CASE p \in recording
      <4>1. \A j \in (Len(events) + 1)..Len(events') : j \in (i + 1)..Len(events')
        BY <2>1, <2>2
      <4>. QED  BY <2>1, <3>1, <4>1 DEF Told
    <3>2. CASE \E j \in (i + 1)..Len(events) : EndOf(events[j], p)
      <4>1. PICK j \in (i + 1)..Len(events) : EndOf(events[j], p)
        BY <3>2
      <4>2. j \in 1..Len(events) /\ j \in (i + 1)..Len(events')
        BY <2>1, <2>2, <4>1
      <4>. QED  BY <2>1, <4>1, <4>2 DEF Told
    <3>. QED  BY <2>2, <3>1, <3>2 DEF Told
  <2>3. FileTold'
    <3>1. SUFFICES ASSUME NEW i \in 1..Len(events'), NEW p \in Path, Starts(events[i], p)'
                   PROVE  Told(i, p)'
      BY DEF FileTold
    <3>2. CASE i \in 1..Len(events)
      <4>1. events'[i] = events[i] /\ i \in 0..Len(events)
        BY <2>1, <3>2
      <4>2. CASE Starts(events[i], p)
        BY <1>3, <2>1, <2>2, <3>2, <4>1, <4>2 DEF FileTold, News
      <4>3. CASE ~Starts(events[i], p)
        <5>1. p \in file' \ file
          BY <3>1, <4>1, <4>3 DEF Starts
        <5>. QED  BY <2>1, <5>1 DEF Told
      <4>. QED  BY <4>2, <4>3
    <3>3. CASE i \notin 1..Len(events)
      <4>1. i \in (Len(events) + 1)..Len(events')
        BY <2>1, <3>1, <3>3
      <4>. QED  BY <2>1, <3>1, <4>1 DEF Told
    <3>. QED  BY <3>2, <3>3
  <2>4. ~overlap' => ShownTold'
    <3>1. SUFFICES ASSUME ~overlap, NEW p \in Path \cup {None}, OnScreen(p)'
                   PROVE  Told(0, p)'
      BY <1>1 DEF ShownTold
    <3>2. CASE OnScreen(p)
      <4>1. Told(0, p) /\ 0 \in 0..Len(events)
        BY <2>1, <3>1, <3>2 DEF News, ShownTold
      <4>. QED  BY <2>2, <4>1
    <3>3. CASE ~OnScreen(p)
      <4>1. p \in file'
        BY <1>1, <3>1, <3>3 DEF OnScreen, Shows
      <4>2. p \in Path
        <5>1. file' \subseteq Path
          BY TypeFreeswitch DEF TypeOK
        <5>. QED  BY <4>1, <5>1
      <4>3. p \notin file
        BY <1>1, <3>1, <3>3, <4>2 DEF OnScreen, Shows
      <4>. QED  BY <2>1, <4>1, <4>3 DEF Told
    <3>. QED  BY <3>2, <3>3
  <2>. QED  BY <2>3, <2>4
<1>. QED  BY <1>1, <1>2, <1>3 DEF News

\* A message that is taken: what the others tell is still to come.
LEMMA TakeTold ==
  ASSUME TypeOK, NEW k, Take(k), UNCHANGED <<recording, file>>
  PROVE  /\ \A i \in 0..Len(events') : \A p : Told(i + 1, p) => Told(i, p)'
         /\ \A p : Told(0, p) /\ ~EndOf(events[1], p) => Told(0, p)'
         /\ FileTold => FileTold'
<1>1. /\ Len(events) \in Nat /\ Len(events) # 0 /\ Len(events') = Len(events) - 1
      /\ Len(events') \in Nat
      /\ \A i \in 1..Len(events') : events'[i] = events[i + 1]
  BY TakeIs
<1>2. ASSUME NEW i \in 0..Len(events'), NEW p, Told(i + 1, p)
      PROVE  Told(i, p)'
  <2>1. CASE p \in recording
    BY <2>1 DEF Told
  <2>2. CASE \E j \in (i + 2)..Len(events) : EndOf(events[j], p)
    <3>1. PICK j \in (i + 2)..Len(events) : EndOf(events[j], p)
      BY <2>2
    <3>2. j - 1 \in (i + 1)..Len(events') /\ j - 1 \in 1..Len(events') /\ (j - 1) + 1 = j
      BY <1>1, <1>2, <3>1
    <3>3. events'[j - 1] = events[j]
      BY <1>1, <3>2
    <3>. QED  BY <3>1, <3>2, <3>3 DEF Told
  <2>3. (i + 1) + 1 = i + 2
    BY <1>1, <1>2
  <2>. QED  BY <1>2, <2>1, <2>2, <2>3 DEF Told
<1>3. ASSUME NEW p, Told(0, p), ~EndOf(events[1], p)
      PROVE  Told(0, p)'
  <2>1. Told(1, p)
    <3>1. \A j \in (0 + 1)..Len(events) : j = 1 \/ j \in (1 + 1)..Len(events)
      BY <1>1
    <3>. QED  BY <1>3, <3>1 DEF Told
  <2>2. 0 \in 0..Len(events') /\ 0 + 1 = 1
    BY <1>1
  <2>. QED  BY <1>2, <2>1, <2>2
<1>4. ASSUME FileTold, NEW i \in 1..Len(events'), NEW p \in Path, Starts(events[i], p)'
      PROVE  Told(i, p)'
  <2>1. i + 1 \in 1..Len(events) /\ events'[i] = events[i + 1] /\ i \in 0..Len(events')
    BY <1>1, <1>4
  <2>2. Starts(events[i + 1], p)
    BY <1>4, <2>1 DEF Starts
  <2>3. Told(i + 1, p)
    BY <1>4, <2>1, <2>2 DEF FileTold
  <2>. QED  BY <1>2, <2>1, <2>3
<1>. QED  BY <1>2, <1>3, <1>4 DEF FileTold

\* The screen stays as it is.
LEMMA ScreenStays ==
  ASSUME ShownTold, UNCHANGED <<entry, file>>,
         \A p \in Path : cmd'[p] = "verify" => cmd[p] = "verify",
         file \subseteq Path,
         \A p \in Path \cup {None} : OnScreen(p) /\ Told(0, p) => Told(0, p)'
  PROVE  ShownTold'
<1>1. \A p \in Path \cup {None} : OnScreen(p)' => OnScreen(p)
  BY DEF OnScreen, Shows
<1>. QED  BY <1>1 DEF ShownTold

\* The screen shows no recording.
LEMMA ScreenOff ==
  ASSUME \/ ~entry.known /\ entry' = entry
         \/ \E s \in {"OFF", "FAILED", "STOPPING"} : \E p, b : Set(s, p, b)
  PROVE  ShownTold'
<1>1. ASSUME NEW s \in {"OFF", "FAILED", "STOPPING"}, NEW p, NEW b, Set(s, p, b)
      PROVE  ~Shows("ACTIVE")' /\ ~Shows("STARTING")'
  BY <1>1 DEF Set, Shows
<1>2. ~Shows("ACTIVE")' /\ ~Shows("STARTING")'
  BY <1>1 DEF Shows
<1>. QED  BY <1>2 DEF ShownTold, OnScreen

LEMMA ScreenBlank ==
  ASSUME entry' = Unknown \/ entry' = Fresh
  PROVE  ShownTold'
<1>1. ~Shows("ACTIVE")' /\ ~Shows("STARTING")'
  BY DEF Shows, Unknown, Fresh
<1>. QED  BY <1>1 DEF ShownTold, OnScreen

LEMMA HandleNews ==
  ASSUME TypeOK, News, Handle
  PROVE  News'
<1>0. /\ UNCHANGED <<recording, file, opening, deaf>>
      /\ file \subseteq Path /\ opening \subseteq Path
      /\ \E k : Take(k)
  BY DEF Handle, HandleCreate, HandleDestroy, HandleStart, HandleStop, HandleStarted,
         HandleStopped, fs, history, TypeOK
<1>1. /\ \A i \in 0..Len(events') : \A p : Told(i + 1, p) => Told(i, p)'
      /\ \A p : Told(0, p) /\ ~EndOf(events[1], p) => Told(0, p)'
      /\ FileTold => FileTold'
      /\ events[1] = Msg(events[1].kind, At) /\ Head(events) = events[1]
      /\ Len(events) \in Nat \ {0} /\ Len(events') \in Nat
  <2>1. PICK k : Take(k)
    BY <1>0
  <2>2. /\ \A i \in 0..Len(events') : \A p : Told(i + 1, p) => Told(i, p)'
        /\ \A p : Told(0, p) /\ ~EndOf(events[1], p) => Told(0, p)'
        /\ FileTold => FileTold'
    BY <1>0, <2>1, TakeTold
  <2>3. events[1] = Msg(events[1].kind, At) /\ Head(events) = events[1]
        /\ Len(events) \in Nat \ {0} /\ Len(events') = Len(events) - 1
    BY <2>1, TakeIs
  <2>. QED  BY <2>2, <2>3
<1>2. (~deaf' => FileTold') /\ Head(events).kind = events[1].kind
  BY <1>0, <1>1 DEF News
<1>3. ASSUME events[1].kind \in {"create", "+OK", "-ERR", "stopped", "nopath"}
      PROVE  \A p : ~EndOf(events[1], p)
  <2>1. \A p : Msg("stop", p).kind = "stop"
    BY MsgIs
  <2>. QED  BY <1>3, <2>1 DEF EndOf
<1>4. CASE HandleCreate
  <2>1. /\ entry' = entry \/ entry' = Fresh
        /\ events[1].kind = "create"
    BY <1>2, <1>4 DEF HandleCreate, Take
  <2>2. \/ UNCHANGED <<cmd, auto, overlap>>
        \/ \E q \in Path : /\ cmd[q] = "new" /\ cmd'[q] = "asked" /\ auto' = auto \cup {q}
                           /\ \A p \in Path : p # q => cmd'[p] = cmd[p]
                           /\ overlap => overlap'
    BY <1>4 DEF HandleCreate, New, Overlap, TypeOK
  <2>3. Asked'
    BY <1>0, <2>2 DEF News, Asked
  <2>4. ~overlap' => OneRequest'
    BY <2>2 DEF News, OneRequest, Pending
  <2>5. ~deaf' /\ ~overlap' => ShownTold'
    <3>1. CASE entry' = Fresh
      BY <3>1, ScreenBlank
    <3>2. CASE entry' = entry
      <4>1. \A p \in Path : cmd'[p] = "verify" => cmd[p] = "verify"
        BY <2>2
      <4>. QED  BY <1>0, <1>1, <1>3, <2>1, <2>2, <3>2, <4>1, ScreenStays DEF News
    <3>. QED  BY <2>1, <3>1, <3>2
  <2>. QED  BY <1>2, <2>3, <2>4, <2>5 DEF News
<1>5. CASE HandleDestroy
  <2>1. UNCHANGED <<cmd, auto, overlap>> /\ entry' = Unknown
    BY <1>5 DEF HandleDestroy, asks, history
  <2>2. ShownTold'
    BY <2>1, ScreenBlank
  <2>. QED  BY <1>0, <1>2, <2>1, <2>2 DEF News, Asked, OneRequest, Pending
<1>6. CASE HandleStart
  <2>1. UNCHANGED <<cmd, auto, overlap>> /\ Set("ACTIVE", At, TRUE) /\ events[1].kind = "start"
    BY <1>2, <1>6 DEF HandleStart, SetActive, asks, history, Take
  <2>2. At \in Path
    BY <1>6, TakeType DEF HandleStart, Take
  <2>3. ~deaf' => ShownTold'
    <3>1. SUFFICES ASSUME ~deaf, NEW p \in Path \cup {None}, OnScreen(p)'
                   PROVE  Told(0, p)'
      BY <1>0 DEF ShownTold
    <3>2. p = At
      BY <2>1, <3>1 DEF OnScreen, Shows, Set
    <3>3. Starts(events[1], At) /\ 1 \in 1..Len(events)
      BY <1>1, <2>1 DEF Starts
    <3>4. Told(1, At)
      BY <2>2, <3>1, <3>3 DEF News, FileTold
    <3>5. 0 \in 0..Len(events') /\ 0 + 1 = 1
      BY <1>1
    <3>. QED  BY <1>1, <3>2, <3>4, <3>5
  <2>. QED  BY <1>0, <1>2, <2>1, <2>3 DEF News, Asked, OneRequest, Pending
<1>7. CASE HandleStop
  <2>1. UNCHANGED <<cmd, auto, overlap>> /\ Set("OFF", entry.path, FALSE)
    BY <1>7 DEF HandleStop, asks, history
  <2>. QED  BY <1>0, <1>2, <2>1, ScreenOff DEF News, Asked, OneRequest, Pending
<1>8. CASE HandleStarted
  <2>1. /\ UNCHANGED <<auto, overlap>> /\ cmd[At] = "sent" /\ At \in Path
        /\ events[1].kind \in {"+OK", "-ERR"}
    BY <1>2, <1>8, TakeType DEF HandleStarted, history, Take
  <2>2. \/ cmd'[At] = "done"
        \/ /\ cmd'[At] = "verify" /\ At \notin auto /\ events[1].kind = "+OK"
           /\ Set("STARTING", At, FALSE)
    BY <1>2, <1>8, <2>1 DEF HandleStarted, TypeOK, SetStarting
  <2>3. /\ \A p \in Path : p # At => cmd'[p] = cmd[p]
        /\ cmd'[At] = "done" => entry' = entry \/ Set("FAILED", entry.path, FALSE)
    BY <1>2, <1>8, <2>1 DEF HandleStarted, TypeOK, SetError, shown
  <2>4. Asked'
    BY <1>0, <2>1, <2>2, <2>3 DEF News, Asked
  <2>5. ~overlap' => OneRequest'
    BY <2>1, <2>2, <2>3 DEF News, OneRequest, Pending
  <2>6. ~deaf' /\ ~overlap' => ShownTold'
    <3>1. CASE Set("FAILED", entry.path, FALSE)
      BY <3>1, ScreenOff
    <3>2. CASE cmd'[At] = "done" /\ entry' = entry
      <4>1. \A p \in Path : cmd'[p] = "verify" => cmd[p] = "verify"
        BY <2>3, <3>2
      <4>2. \A p : ~EndOf(events[1], p)
        BY <1>3, <2>1
      <4>. QED  BY <1>0, <1>1, <2>1, <3>2, <4>1, <4>2, ScreenStays DEF News
    <3>3. CASE /\ cmd'[At] = "verify" /\ At \notin auto /\ events[1].kind = "+OK"
               /\ Set("STARTING", At, FALSE)
      <4>1. SUFFICES ASSUME ~deaf, ~overlap, NEW p \in Path \cup {None}, OnScreen(p)'
                     PROVE  Told(0, p)'
        BY <1>0, <2>1 DEF ShownTold
      <4>2. p \in Path /\ p \in file /\ cmd'[p] = "verify"
        BY <1>0, <3>3, <4>1 DEF OnScreen, Shows, Set
      <4>3. p = At
        BY <2>1, <2>3, <3>3, <4>1, <4>2 DEF News, Asked, OneRequest, Pending
      <4>4. Starts(events[1], At) /\ 1 \in 1..Len(events)
        BY <1>1, <3>3, <4>2, <4>3 DEF Starts
      <4>5. Told(1, At)
        BY <2>1, <4>1, <4>4 DEF News, FileTold
      <4>6. 0 \in 0..Len(events') /\ 0 + 1 = 1
        BY <1>1
      <4>. QED  BY <1>1, <4>3, <4>5, <4>6
    <3>. QED  BY <2>2, <2>3, <3>1, <3>2, <3>3
  <2>. QED  BY <1>2, <2>4, <2>5, <2>6 DEF News
<1>9. CASE HandleStopped
  <2>1. /\ UNCHANGED <<cmd, auto, overlap>>
        /\ events[1].kind \in {"stopped", "nopath"}
        /\ entry' = entry \/ Set("OFF", None, FALSE)
    BY <1>2, <1>9 DEF HandleStopped, history, Take, SetOff, shown
  <2>2. ~deaf' /\ ~overlap' => ShownTold'
    <3>1. CASE Set("OFF", None, FALSE)
      BY <3>1, ScreenOff
    <3>2. CASE entry' = entry
      BY <1>0, <1>1, <1>3, <2>1, <3>2, ScreenStays DEF News
    <3>. QED  BY <2>1, <3>1, <3>2
  <2>. QED  BY <1>0, <1>2, <2>1, <2>2 DEF News, Asked, OneRequest, Pending
<1>. QED  BY <1>4, <1>5, <1>6, <1>7, <1>8, <1>9 DEF Handle

\* A step that leaves the files and the messages as they are.
LEMMA QuietNews ==
  ASSUME News, UNCHANGED <<recording, file, opening, events>>, deaf => deaf',
         Asked', ~overlap' => OneRequest',
         ~deaf /\ ~overlap' => ShownTold'
  PROVE  News'
<1>1. FileTold => FileTold'
  BY DEF FileTold, Starts, Told
<1>. QED  BY <1>1 DEF News

LEMMA ScreenQuiet ==
  ASSUME TypeOK, ShownTold, UNCHANGED <<entry, recording, file, events>>,
         \A p \in Path : cmd'[p] = "verify" => cmd[p] = "verify"
  PROVE  ShownTold'
<1>1. \A p \in Path \cup {None} : OnScreen(p) /\ Told(0, p) => Told(0, p)'
  BY DEF Told
<1>2. file \subseteq Path
  BY DEF TypeOK
<1>. QED  BY <1>1, <1>2, ScreenStays

LEMMA OperatorNews ==
  ASSUME TypeOK, News, Operator
  PROVE  News'
<1>. USE DEF fs, link, history
<1>0. file \subseteq Path /\ opening \subseteq Path
  BY DEF TypeOK
<1>1. CASE RequestStop
  <2>1. /\ UNCHANGED <<recording, file, opening, events, deaf, cmd, auto>>
        /\ Set("STOPPING", entry.path, entry.on) /\ (overlap => overlap')
    BY <1>1 DEF RequestStop, Overlap
  <2>2. Asked' /\ (~overlap' => OneRequest')
    BY <2>1 DEF News, Asked, OneRequest, Pending
  <2>3. ShownTold'
    BY <2>1, ScreenOff
  <2>. QED  BY <2>1, <2>2, <2>3, QuietNews
<1>2. CASE StopFails
  <2>1. /\ UNCHANGED <<recording, file, opening, events, deaf, cmd, auto, overlap>>
        /\ entry' = entry \/ Set("OFF", None, FALSE)
    BY <1>2 DEF StopFails, SetOff, shown
  <2>2. Asked' /\ (~overlap' => OneRequest')
    BY <2>1 DEF News, Asked, OneRequest, Pending
  <2>3. ~deaf /\ ~overlap' => ShownTold'
    BY <2>1, ScreenOff, ScreenQuiet DEF News
  <2>. QED  BY <2>1, <2>2, <2>3, QuietNews
<1>3. ASSUME NEW q \in Path, RequestStart(q)
      PROVE  News'
  <2>1. /\ UNCHANGED <<recording, file, opening, events, deaf, entry, auto>>
        /\ cmd[q] = "new" /\ cmd'[q] = "asked"
        /\ \A p \in Path : p # q => cmd'[p] = cmd[p]
        /\ overlap => overlap'
        /\ ~overlap' => \A p \in Path : ~Pending(p)
    BY <1>3 DEF RequestStart, New, Overlap, Pending, TypeOK, shown
  <2>2. Asked' /\ (~overlap' => OneRequest')
    BY <1>0, <2>1 DEF News, Asked, OneRequest, Pending
  <2>3. ~deaf /\ ~overlap' => ShownTold'
    BY <2>1, ScreenQuiet DEF News
  <2>. QED  BY <2>1, <2>2, <2>3, QuietNews
<1>4. ASSUME NEW q \in Path, StartFails(q)
      PROVE  News'
  <2>1. /\ UNCHANGED <<recording, file, opening, events, deaf, auto, overlap>>
        /\ cmd'[q] = "done" /\ \A p \in Path : p # q => cmd'[p] = cmd[p]
        /\ entry' = entry \/ Set("FAILED", entry.path, FALSE)
    BY <1>4 DEF StartFails, SetError, TypeOK, shown
  <2>2. Asked' /\ (~overlap' => OneRequest')
    BY <1>0, <2>1 DEF News, Asked, OneRequest, Pending
  <2>3. \A p \in Path : cmd'[p] = "verify" => cmd[p] = "verify"
    BY <2>1
  <2>4. ~deaf /\ ~overlap' => ShownTold'
    BY <2>1, <2>3, ScreenOff, ScreenQuiet DEF News
  <2>. QED  BY <2>1, <2>2, <2>4, QuietNews
<1>5. ASSUME NEW q \in Path, Verify(q)
      PROVE  News'
  <2>1. /\ UNCHANGED <<recording, file, opening, events, deaf, auto, overlap>>
        /\ cmd[q] = "verify" /\ cmd'[q] = "done"
        /\ \A p \in Path : p # q => cmd'[p] = cmd[p]
        /\ \/ entry' = entry
           \/ Shows("STARTING") /\ q \in file /\ Set("ACTIVE", q, TRUE)
    BY <1>5 DEF Verify, Opened, SetActive, TypeOK, shown
  <2>2. Asked' /\ (~overlap' => OneRequest')
    BY <1>0, <2>1 DEF News, Asked, OneRequest, Pending
  <2>3. CASE entry' = entry
    <3>1. \A p \in Path : cmd'[p] = "verify" => cmd[p] = "verify"
      BY <2>1
    <3>2. ~deaf /\ ~overlap' => ShownTold'
      BY <2>1, <2>3, <3>1, ScreenQuiet DEF News
    <3>. QED  BY <2>1, <2>2, <3>2, QuietNews
  <2>4. CASE Shows("STARTING") /\ q \in file /\ Set("ACTIVE", q, TRUE)
    <3>1. ASSUME ~deaf, ~overlap'
          PROVE  ShownTold'
      <4>1. Told(0, q)
        BY <2>1, <2>4, <3>1 DEF News, ShownTold, OnScreen
      <4>2. Told(0, q)'
        BY <2>1, <4>1 DEF Told
      <4>3. \A p : OnScreen(p)' => p = q
        BY <2>4 DEF OnScreen, Shows, Set
      <4>. QED  BY <4>2, <4>3 DEF ShownTold
    <3>. QED  BY <2>1, <2>2, <3>1, QuietNews
  <2>. QED  BY <2>1, <2>3, <2>4
<1>. QED  BY <1>1, <1>2, <1>3, <1>4, <1>5 DEF Operator

LEMMA AroundNews ==
  ASSUME TypeOK, News, Around
  PROVE  News'
<1>. USE DEF fs, link, history, asks
<1>0. file \subseteq Path /\ opening \subseteq Path
  BY DEF TypeOK
<1>1. ASSUME UNCHANGED <<recording, file, opening, events, cmd, auto>>, deaf => deaf',
             overlap => overlap',
             \/ entry' = entry
             \/ entry' = Unknown \/ entry' = Fresh
             \/ Set("FAILED", entry.path, FALSE)
      PROVE  News'
  <2>1. Asked' /\ (~overlap' => OneRequest')
    BY <1>1 DEF News, Asked, OneRequest, Pending
  <2>2. ~deaf /\ ~overlap' => ShownTold'
    <3>1. CASE entry' = entry
      BY <1>1, <3>1, ScreenQuiet DEF News
    <3>2. CASE entry' = Unknown \/ entry' = Fresh
      BY <3>2, ScreenBlank
    <3>3. CASE Set("FAILED", entry.path, FALSE)
      BY <3>3, ScreenOff
    <3>. QED  BY <1>1, <3>1, <3>2, <3>3
  <2>. QED  BY <1>1, <2>1, <2>2, QuietNews
<1>2. ASSUME UNCHANGED <<recording, file, opening, auto>>, deaf',
             overlap => overlap',
             \A p \in Path : cmd'[p] = cmd[p] \/ (cmd[p] # "new" /\ cmd'[p] = "done")
      PROVE  News'
  <2>1. Asked' /\ (~overlap' => OneRequest')
    BY <1>0, <1>2 DEF News, Asked, OneRequest, Pending
  <2>. QED  BY <1>2, <2>1 DEF News
<1>3. CASE Table
  <2>1. UNCHANGED <<recording, file, opening, events, cmd, auto, deaf, overlap, entry>>
    BY <1>3 DEF Table, CloseRow, Scan, shown
  <2>. QED  BY <1>1, <2>1
<1>4. CASE TimerFires
  <2>1. /\ UNCHANGED <<recording, file, opening, events, cmd, auto, deaf>>
        /\ overlap => overlap'
        /\ entry' = entry \/ Set("FAILED", entry.path, FALSE)
    BY <1>4 DEF TimerFires
  <2>. QED  BY <1>1, <2>1
<1>5. CASE Seed
  <2>1. /\ UNCHANGED <<recording, file, opening, events, cmd, auto, deaf, overlap>>
        /\ entry' = Unknown \/ entry' = Fresh
    BY <1>5 DEF Seed
  <2>. QED  BY <1>1, <2>1
<1>6. CASE LinkDown
  <2>1. /\ UNCHANGED <<recording, file, opening, cmd, auto, overlap, entry>>
        /\ deaf => deaf'
        /\ deaf' \/ UNCHANGED events
    BY <1>6 DEF LinkDown, shown
  <2>. QED  BY <1>1, <1>2, <2>1
<1>7. CASE LinkUp
  <2>1. UNCHANGED <<recording, file, opening, events, cmd, auto, deaf, overlap, entry>>
    BY <1>7 DEF LinkUp, shown
  <2>. QED  BY <1>1, <2>1
<1>8. CASE Restart
  <2>1. /\ UNCHANGED <<recording, file, opening, auto, overlap>> /\ deaf'
        /\ \A p \in Path : cmd'[p] = cmd[p] \/ (cmd[p] # "new" /\ cmd'[p] = "done")
    BY <1>8 DEF Restart, TypeOK
  <2>. QED  BY <1>2, <2>1
<1>. QED  BY <1>3, <1>4, <1>5, <1>6, <1>7, <1>8 DEF Around

LEMMA NewsHolds == Spec => []News
<1>1. Init => News
  <2>. SUFFICES ASSUME Init PROVE News
    OBVIOUS
  <2>1. recording = {} /\ file = {} /\ opening = {} /\ events = <<>> /\ entry = Unknown
        /\ \A p \in Path : cmd[p] = "new"
    BY DEF Init
  <2>2. Len(events) = 0
    BY <2>1
  <2>. QED  BY <2>1, <2>2 DEF News, Asked, OneRequest, Pending, FileTold, ShownTold,
                              OnScreen, Shows, Unknown
<1>2. TypeOK /\ News /\ [Next]_vars => News'
  <2>1. ASSUME TypeOK, News, UNCHANGED vars
        PROVE  News'
    BY <2>1 DEF vars, fs, link, shown, asks, history, News, Asked, OneRequest, Pending,
                FileTold, Starts, Told, ShownTold, OnScreen, Shows
  <2>. QED  BY <2>1, NextCases, FreeswitchNews, OperatorNews, HandleNews, AroundNews
<1>. QED  BY <1>1, <1>2, TypeCorrect, PTL DEF Spec

\* While the dashboard says that a recording is active the file it names is
\* being written, or the news that it ended is on its way, although event,
\* reply, timer and the look at the file set the state in any order
\* (eslService.js:116-185, monitoringController.js:128-152): with any faults and
\* any number of requests, where no message was lost and no requests overlapped.
THEOREM ActiveIsTrue == Spec => []ActiveIsRecorded
<1>1. TypeOK /\ News => ActiveIsRecorded
  <2>. SUFFICES ASSUME TypeOK, News, Shows("ACTIVE"), ~deaf, ~overlap,
                       entry.path \notin recording
                PROVE  Sent("stop", entry.path) \/ Awaits("destroy")
    BY DEF ActiveIsRecorded
  <2>1. entry.path \in Path \cup {None}
    BY EntryFields
  <2>2. Told(0, entry.path)
    BY <2>1 DEF News, ShownTold, OnScreen
  <2>3. PICK j \in (0 + 1)..Len(events) : EndOf(events[j], entry.path)
    BY <2>2 DEF Told
  <2>4. events \in Seq(Event) /\ j \in 1..Len(events)
    BY <2>3 DEF TypeOK
  <2>5. events[j] \in Event /\ events[j] \in Range(events)
    BY <2>4 DEF Range
  <2>6. CASE events[j] = Msg("stop", entry.path)
    BY <2>5, <2>6 DEF Sent
  <2>7. CASE events[j].kind = "destroy"
    <3>1. events[j] = Msg("destroy", events[j].path) /\ events[j].path \in Path \cup {None}
      <4>1. \E K, P : events[j] \in [kind: K, path: P] /\ P \subseteq Path \cup {None}
        BY <2>5 DEF Event
      <4>2. PICK K, P : events[j] \in [kind: K, path: P] /\ P \subseteq Path \cup {None}
        BY <4>1
      <4>. QED  BY <2>7, <4>2 DEF Msg
    <3>. QED  BY <2>5, <3>1 DEF Awaits, Sent
  <2>. QED  BY <2>3, <2>6, <2>7 DEF EndOf
<1>. QED  BY <1>1, NewsHolds, TypeCorrect, PTL

----------------------------------------------------------------------------
(* The story of a file: what the backend will know of it when it has        *)
(* handled the messages that are on their way.                              *)

\* After the next m messages the conference is in the registry.
KnownAfter(m) ==
  \/ entry.known /\ \A j \in 1..m : events[j].kind # "destroy"
  \/ \E k \in 1..m : /\ events[k].kind = "create"
                     /\ \A j \in (k + 1)..m : events[j].kind # "destroy"

\* A message that leaves the file on the screen.
Harmless(e, p) == e = Msg("+OK", p) \/ e.kind = "nopath"

ShownAs(p) == /\ entry.known /\ entry.path = p /\ row[p] # "none"
              /\ \/ entry.state \in {"STARTING", "ACTIVE"}
                 \/ entry.state = "STOPPING" /\ entry.on

\* After the next m messages the file is on the screen, with a row.
SeenAfter(m, p) ==
  \/ ShownAs(p) /\ \A j \in 1..m : Harmless(events[j], p)
  \/ \E k \in 1..m : /\ events[k] = Msg("start", p) /\ KnownAfter(k - 1)
                     /\ \A j \in (k + 1)..m : Harmless(events[j], p)

\* The ways in which the row of a file that has ended will be closed.
Dropped(p) == \E m \in 1..Len(events) :
                events[m].kind = "destroy" /\ SeenAfter(m - 1, p)
Stopped(p) == \E m \in 1..Len(events) :
                /\ events[m] = Msg("stop", p)
                /\ row[p] # "none" \/ \E k \in 1..(m - 1) : events[k] = Msg("start", p)
Closed(p) == row[p] = "COMPLETED" \/ (p \in closes /\ row[p] # "none")

\* Every command has its answer.
Answered == /\ linked /\ ~deaf
            /\ \A p \in Path : cmd[p] = "sent" => (Sent("+OK", p) \/ Sent("-ERR", p))
            /\ stop.st = "sent" => (Awaits("stopped") \/ Awaits("nopath"))

\* A request is made when nothing is being recorded.
Alone == /\ \A p \in Path : cmd[p] = "asked" =>
              /\ recording \cup opening = {}
              /\ \A q \in Path : q # p => cmd[q] \notin {"asked", "sent"}
         /\ \A p, q \in recording \cup opening : p = q
         /\ opening \cap file = {}

\* STARTING has its look at the file.
Looks == /\ Shows("STARTING") => (entry.path \in Path /\ cmd[entry.path] = "verify")
         /\ Shows("ACTIVE") => entry.on

Lives == /\ live <=> KnownAfter(Len(events))
         /\ ~live => recording \cup opening = {}

Recorded == \A p \in recording : SeenAfter(Len(events), p)
Ended == \A p \in file \ recording : Dropped(p) \/ Stopped(p) \/ Closed(p)

Story == Answered /\ Alone /\ Looks /\ Lives /\ Recorded /\ Ended
StoryInv == Usual => Story

\* Messages that come last change nothing of what those before them tell.
Appends == /\ Len(events) \in Nat /\ Len(events') \in Nat /\ Len(events) <= Len(events')
           /\ \A i \in 1..Len(events) : events'[i] = events[i]

LEMMA AppendKnown ==
  ASSUME Appends, UNCHANGED entry, NEW m \in 0..Len(events)
  PROVE  KnownAfter(m)' <=> KnownAfter(m)
<1>1. \A j \in 1..m : events'[j] = events[j]
  BY DEF Appends
<1>2. \A k \in 1..m : \A j \in (k + 1)..m : j \in 1..m
  BY DEF Appends
<1>. QED  BY <1>1, <1>2 DEF KnownAfter

LEMMA AppendSeen ==
  ASSUME Appends, UNCHANGED <<entry, row>>, NEW m \in 0..Len(events), NEW p,
         SeenAfter(m, p)
  PROVE  SeenAfter(m, p)'
<1>1. \A j \in 1..m : events'[j] = events[j]
  BY DEF Appends
<1>2. CASE ShownAs(p) /\ \A j \in 1..m : Harmless(events[j], p)
  BY <1>1, <1>2 DEF SeenAfter, ShownAs, Harmless
<1>3. CASE \E k \in 1..m : /\ events[k] = Msg("start", p) /\ KnownAfter(k - 1)
                           /\ \A j \in (k + 1)..m : Harmless(events[j], p)
  <2>1. PICK k \in 1..m : /\ events[k] = Msg("start", p) /\ KnownAfter(k - 1)
                          /\ \A j \in (k + 1)..m : Harmless(events[j], p)
    BY <1>3
  <2>2. k - 1 \in 0..Len(events) /\ \A j \in (k + 1)..m : j \in 1..m
    BY DEF Appends
  <2>3. KnownAfter(k - 1)'
    BY <2>1, <2>2, AppendKnown
  <2>4. events'[k] = Msg("start", p) /\ \A j \in (k + 1)..m : Harmless(events'[j], p)
    BY <1>1, <2>1, <2>2
  <2>. QED  BY <2>3, <2>4 DEF SeenAfter, Harmless
<1>. QED  BY <1>2, <1>3 DEF SeenAfter

LEMMA AppendEnds ==
  ASSUME Appends, UNCHANGED <<entry, row, closes>>, NEW p,
         Dropped(p) \/ Stopped(p) \/ Closed(p)
  PROVE  (Dropped(p) \/ Stopped(p) \/ Closed(p))'
<1>1. \A m \in 1..Len(events) : /\ m \in 1..Len(events') /\ events'[m] = events[m]
                                /\ m - 1 \in 0..Len(events)
                                /\ \A k \in 1..(m - 1) : events'[k] = events[k]
  BY DEF Appends
<1>2. CASE Dropped(p)
  <2>1. PICK m \in 1..Len(events) : events[m].kind = "destroy" /\ SeenAfter(m - 1, p)
    BY <1>2 DEF Dropped
  <2>2. SeenAfter(m - 1, p)'
    BY <1>1, <2>1, AppendSeen
  <2>. QED  BY <1>1, <2>1, <2>2 DEF Dropped
<1>3. CASE Stopped(p)
  <2>1. PICK m \in 1..Len(events) :
               /\ events[m] = Msg("stop", p)
               /\ row[p] # "none" \/ \E k \in 1..(m - 1) : events[k] = Msg("start", p)
    BY <1>3 DEF Stopped
  <2>2. row'[p] # "none" \/ \E k \in 1..(m - 1) : events'[k] = Msg("start", p)
    BY <1>1, <2>1
  <2>. QED  BY <1>1, <2>1, <2>2 DEF Stopped
<1>4. CASE Closed(p)
  BY <1>4 DEF Closed
<1>. QED  BY <1>2, <1>3, <1>4

\* A message that is handled has done what it told, and the others tell the rest.
LEMMA TakeKnown ==
  ASSUME TypeOK, NEW kinds, Take(kinds),
         events[1].kind = "create" => entry'.known,
         events[1].kind = "destroy" => ~entry'.known,
         events[1].kind \notin {"create", "destroy"} => entry'.known = entry.known,
         NEW m \in 0..Len(events')
  PROVE  KnownAfter(m + 1) <=> KnownAfter(m)'
<1>1. /\ Len(events) \in Nat \ {0} /\ Len(events') = Len(events) - 1 /\ m \in Nat
      /\ \A j \in 1..m : events'[j] = events[j + 1]
  BY TakeIs
<1>2. ASSUME KnownAfter(m + 1)
      PROVE  KnownAfter(m)'
  <2>1. CASE entry.known /\ \A j \in 1..(m + 1) : events[j].kind # "destroy"
    <3>1. \A j \in 1..m : j + 1 \in 1..(m + 1) /\ 1 \in 1..(m + 1)
      BY <1>1
    <3>2. \A j \in 1..m : events'[j].kind # "destroy"
      BY <1>1, <2>1, <3>1
    <3>3. 1 \in 1..(m + 1)
      BY <1>1
    <3>4. entry'.known
      BY <2>1, <3>3
    <3>. QED  BY <3>2, <3>4 DEF KnownAfter
  <2>2. CASE \E k \in 1..(m + 1) : /\ events[k].kind = "create"
                                   /\ \A j \in (k + 1)..(m + 1) : events[j].kind # "destroy"
    <3>1. PICK k \in 1..(m + 1) : /\ events[k].kind = "create"
                                  /\ \A j \in (k + 1)..(m + 1) : events[j].kind # "destroy"
      BY <2>2
    <3>2. CASE k = 1
      <4>1. \A j \in 1..m : j + 1 \in (k + 1)..(m + 1)
        BY <1>1, <3>2
      <4>2. \A j \in 1..m : events'[j].kind # "destroy"
        BY <1>1, <3>1, <4>1
      <4>3. entry'.known
        BY <3>1, <3>2
      <4>. QED  BY <4>2, <4>3 DEF KnownAfter
    <3>3. CASE k # 1
      <4>1. k - 1 \in 1..m /\ (k - 1) + 1 = k
        BY <1>1, <3>3
      <4>2. events'[k - 1].kind = "create"
        BY <1>1, <3>1, <4>1
      <4>3. \A j \in ((k - 1) + 1)..m : j \in 1..m /\ j + 1 \in (k + 1)..(m + 1)
        BY <1>1, <4>1
      <4>4. \A j \in ((k - 1) + 1)..m : events'[j].kind # "destroy"
        BY <1>1, <3>1, <4>3
      <4>. QED  BY <4>1, <4>2, <4>4 DEF KnownAfter
    <3>. QED  BY <3>2, <3>3
  <2>. QED  BY <1>2, <2>1, <2>2 DEF KnownAfter
<1>3. ASSUME KnownAfter(m)'
      PROVE  KnownAfter(m + 1)
  <2>0. \A j \in 2..(m + 1) : j - 1 \in 1..m /\ events[j] = events'[j - 1]
    <3>1. \A j \in 2..(m + 1) : j - 1 \in 1..m /\ (j - 1) + 1 = j
      BY <1>1
    <3>. QED  BY <1>1, <3>1
  <2>1. CASE entry'.known /\ \A j \in 1..m : events'[j].kind # "destroy"
    <3>1. \A j \in 2..(m + 1) : events[j].kind # "destroy"
      BY <2>0, <2>1
    <3>2. events[1].kind # "destroy"
      BY <2>1
    <3>3. 1 \in 1..(m + 1) /\ (\A j \in 1..(m + 1) : j = 1 \/ j \in 2..(m + 1))
          /\ (\A j \in (1 + 1)..(m + 1) : j \in 2..(m + 1))
      BY <1>1
    <3>4. CASE events[1].kind = "create"
      BY <3>1, <3>3, <3>4 DEF KnownAfter
    <3>5. CASE events[1].kind # "create"
      <4>1. entry.known
        BY <2>1, <3>2, <3>5
      <4>2. \A j \in 1..(m + 1) : events[j].kind # "destroy"
        BY <3>1, <3>2, <3>3
      <4>. QED  BY <4>1, <4>2 DEF KnownAfter
    <3>. QED  BY <3>4, <3>5
  <2>2. CASE \E k \in 1..m : /\ events'[k].kind = "create"
                             /\ \A j \in (k + 1)..m : events'[j].kind # "destroy"
    <3>1. PICK k \in 1..m : /\ events'[k].kind = "create"
                            /\ \A j \in (k + 1)..m : events'[j].kind # "destroy"
      BY <2>2
    <3>2. k + 1 \in 1..(m + 1) /\ events[k + 1].kind = "create"
      BY <1>1, <3>1
    <3>3. \A j \in ((k + 1) + 1)..(m + 1) : j \in 2..(m + 1) /\ j - 1 \in (k + 1)..m
      BY <1>1
    <3>4. \A j \in ((k + 1) + 1)..(m + 1) : events[j].kind # "destroy"
      BY <2>0, <3>1, <3>3
    <3>. QED  BY <3>2, <3>4 DEF KnownAfter
  <2>. QED  BY <1>3, <2>1, <2>2 DEF KnownAfter
<1>. QED  BY <1>2, <1>3

LEMMA TakeSeen ==
  ASSUME TypeOK, NEW kinds, Take(kinds),
         \A m \in 0..Len(events') : KnownAfter(m + 1) => KnownAfter(m)',
         NEW p,
         ShownAs(p) /\ Harmless(events[1], p) => ShownAs(p)',
         events[1] = Msg("start", p) /\ entry.known => ShownAs(p)',
         NEW m \in 0..Len(events'), SeenAfter(m + 1, p)
  PROVE  SeenAfter(m, p)'
<1>1. /\ Len(events) \in Nat \ {0} /\ Len(events') = Len(events) - 1 /\ m \in Nat
      /\ \A j \in 1..m : events'[j] = events[j + 1]
  BY TakeIs
<1>2. CASE ShownAs(p) /\ \A j \in 1..(m + 1) : Harmless(events[j], p)
  <2>1. 1 \in 1..(m + 1) /\ \A j \in 1..m : j + 1 \in 1..(m + 1)
    BY <1>1
  <2>2. ShownAs(p)' /\ \A j \in 1..m : Harmless(events'[j], p)
    BY <1>1, <1>2, <2>1
  <2>. QED  BY <2>2 DEF SeenAfter, Harmless
<1>3. ASSUME NEW k \in 1..(m + 1), events[k] = Msg("start", p), KnownAfter(k - 1),
             \A j \in (k + 1)..(m + 1) : Harmless(events[j], p)
      PROVE  SeenAfter(m, p)'
  <2>1. CASE k = 1
    <3>1. entry.known
      <4>1. KnownAfter(0) /\ \A j : j \notin 1..0
        BY <1>3, <2>1
      <4>. QED  BY <4>1 DEF KnownAfter
    <3>2. \A j \in 1..m : j + 1 \in (k + 1)..(m + 1)
      BY <1>1, <2>1
    <3>3. \A j \in 1..m : Harmless(events'[j], p)
      BY <1>1, <1>3, <3>2
    <3>. QED  BY <1>3, <2>1, <3>1, <3>3 DEF SeenAfter, Harmless
  <2>2. CASE k # 1
    <3>1. /\ k - 1 \in 1..m /\ (k - 1) + 1 = k
          /\ (k - 1) - 1 \in 0..Len(events') /\ ((k - 1) - 1) + 1 = k - 1
      BY <1>1, <2>2
    <3>2. KnownAfter((k - 1) - 1)'
      BY <1>3, <3>1
    <3>3. events'[k - 1] = Msg("start", p)
      BY <1>1, <1>3, <3>1
    <3>4. \A j \in ((k - 1) + 1)..m : j \in 1..m /\ j + 1 \in (k + 1)..(m + 1)
      BY <1>1, <3>1
    <3>5. \A j \in ((k - 1) + 1)..m : Harmless(events'[j], p)
      BY <1>1, <1>3, <3>4
    <3>. QED  BY <3>1, <3>2, <3>3, <3>5 DEF SeenAfter, Harmless
  <2>. QED  BY <2>1, <2>2
<1>. QED  BY <1>2, <1>3 DEF SeenAfter

LEMMA TakeEnds ==
  ASSUME TypeOK, NEW kinds, Take(kinds), NEW p,
         \A m \in 0..Len(events') : SeenAfter(m + 1, p) => SeenAfter(m, p)',
         row[p] # "none" => row'[p] # "none",
         row[p] = "COMPLETED" => row'[p] = "COMPLETED",
         p \in closes => p \in closes',
         events[1] = Msg("start", p) => row'[p] # "none",
         events[1] = Msg("stop", p) => p \in closes',
         events[1].kind = "destroy" /\ ShownAs(p) => p \in closes',
         Dropped(p) \/ Stopped(p) \/ Closed(p)
  PROVE  (Dropped(p) \/ Stopped(p) \/ Closed(p))'
<1>1. /\ Len(events) \in Nat \ {0} /\ Len(events') = Len(events) - 1
      /\ \A j \in 1..Len(events') : events'[j] = events[j + 1]
  BY TakeIs
<1>2. \A m \in 1..Len(events) : m # 1 =>
        m - 1 \in 1..Len(events') /\ (m - 1) + 1 = m /\ (m - 1) - 1 \in 0..Len(events')
        /\ ((m - 1) - 1) + 1 = m - 1 /\ events'[m - 1] = events[m]
  <2>1. \A m \in 1..Len(events) : m # 1 =>
          m - 1 \in 1..Len(events') /\ (m - 1) + 1 = m /\ (m - 1) - 1 \in 0..Len(events')
          /\ ((m - 1) - 1) + 1 = m - 1
    BY <1>1
  <2>. QED  BY <1>1, <2>1
<1>3. CASE Dropped(p)
  <2>1. PICK m \in 1..Len(events) : events[m].kind = "destroy" /\ SeenAfter(m - 1, p)
    BY <1>3 DEF Dropped
  <2>2. CASE m = 1
    <3>1. SeenAfter(0, p) /\ \A j : j \notin 1..0
      BY <2>1, <2>2
    <3>2. ShownAs(p)
      BY <3>1 DEF SeenAfter
    <3>. QED  BY <2>1, <2>2, <3>2 DEF Closed, ShownAs
  <2>3. CASE m # 1
    <3>1. SeenAfter((m - 1) - 1, p)'
      BY <1>2, <2>1, <2>3
    <3>. QED  BY <1>2, <2>1, <2>3, <3>1 DEF Dropped
  <2>. QED  BY <2>2, <2>3
<1>4. CASE Stopped(p)
  <2>1. PICK m \in 1..Len(events) :
               /\ events[m] = Msg("stop", p)
               /\ row[p] # "none" \/ \E k \in 1..(m - 1) : events[k] = Msg("start", p)
    BY <1>4 DEF Stopped
  <2>2. CASE m = 1
    <3>1. \A k : k \notin 1..(m - 1)
      BY <2>2
    <3>. QED  BY <2>1, <2>2, <3>1 DEF Closed
  <2>3. CASE m # 1
    <3>1. row'[p] # "none" \/ \E k \in 1..((m - 1) - 1) : events'[k] = Msg("start", p)
      <4>1. CASE \E k \in 1..(m - 1) : events[k] = Msg("start", p)
        <5>1. PICK k \in 1..(m - 1) : events[k] = Msg("start", p)
          BY <4>1
        <5>2. k = 1 \/ (k - 1 \in 1..((m - 1) - 1) /\ k \in 1..Len(events) /\ k # 1)
          BY <1>1, <2>3
        <5>. QED  BY <1>2, <5>1, <5>2
      <4>. QED  BY <2>1, <4>1
    <3>. QED  BY <1>2, <2>1, <2>3, <3>1 DEF Stopped
  <2>. QED  BY <2>2, <2>3
<1>5. CASE Closed(p)
  BY <1>5 DEF Closed
<1>. QED  BY <1>3, <1>4, <1>5

LEMMA LastKnown ==
  ASSUME NEW n, n = Len(events')
  PROVE  KnownAfter(Len(events))' <=> KnownAfter(n)'
BY DEF KnownAfter

LEMMA LastSeen ==
  ASSUME NEW n, n = Len(events'), NEW p
  PROVE  SeenAfter(Len(events), p)' <=> SeenAfter(n, p)'
BY DEF SeenAfter

LEMMA TakeRange ==
  ASSUME TypeOK, NEW kinds, Take(kinds), NEW e \in Range(events), e # events[1]
  PROVE  e \in Range(events')
<1>1. /\ Len(events) \in Nat \ {0} /\ Len(events') = Len(events) - 1
      /\ \A j \in 1..Len(events') : events'[j] = events[j + 1]
  BY TakeIs
<1>2. events \in Seq(Event)
  BY DEF TypeOK
<1>3. events' \in Seq(Event)
  BY TakeType
<1>4. PICK i \in 1..Len(events) : events[i] = e
  BY <1>2 DEF Range
<1>5. i - 1 \in 1..Len(events') /\ (i - 1) + 1 = i
  BY <1>1, <1>4
<1>6. events'[i - 1] = e
  BY <1>1, <1>4, <1>5
<1>. QED  BY <1>3, <1>5, <1>6 DEF Range

LEMMA OneLess == \A a, b : a \in Nat \ {0} /\ b = a - 1 => b \in Nat /\ b \in 0..b /\ b + 1 = a
OBVIOUS

\* What a handler must do for the story to go on.
LEMMA TakeStory ==
  ASSUME TypeOK, Story, NEW kinds, Take(kinds),
         UNCHANGED <<live, recording, opening, file, linked, deaf>>,
         \* the commands and their answers
         \A p \in Path : cmd'[p] = "sent" =>
           /\ cmd[p] = "sent"
           /\ events[1] # Msg("+OK", p) /\ events[1] # Msg("-ERR", p),
         stop'.st = "sent" => /\ stop.st = "sent"
                              /\ events[1].kind \notin {"stopped", "nopath"},
         Alone', Looks',
         \* the registry
         events[1].kind = "create" => entry'.known,
         events[1].kind = "destroy" => ~entry'.known,
         events[1].kind \notin {"create", "destroy"} => entry'.known = entry.known,
         \* the screen
         \A p \in Path : ShownAs(p) /\ Harmless(events[1], p) => ShownAs(p)',
         \A p \in Path : events[1] = Msg("start", p) /\ entry.known => ShownAs(p)',
         \* the table
         \A p \in Path : /\ row[p] # "none" => row'[p] # "none"
                         /\ row[p] = "COMPLETED" => row'[p] = "COMPLETED"
                         /\ p \in closes => p \in closes'
                         /\ events[1] = Msg("start", p) => row'[p] # "none"
                         /\ events[1] = Msg("stop", p) => p \in closes'
                         /\ events[1].kind = "destroy" /\ ShownAs(p) => p \in closes'
  PROVE  Story'
<1>1. /\ Len(events) \in Nat \ {0} /\ Len(events') = Len(events) - 1
      /\ Len(events') \in Nat /\ Len(events') \in 0..Len(events')
      /\ Len(events') + 1 = Len(events)
  <2>1. Len(events) \in Nat \ {0} /\ Len(events') = Len(events) - 1
    BY TakeIs
  <2>. QED  BY <2>1, OneLess
<1>2. recording \subseteq Path /\ file \subseteq Path
  BY DEF TypeOK
<1>3. \A m \in 0..Len(events') : KnownAfter(m + 1) <=> KnownAfter(m)'
  BY TakeKnown
<1>4. \A p \in Path : \A m \in 0..Len(events') : SeenAfter(m + 1, p) => SeenAfter(m, p)'
  BY <1>3, TakeSeen
<1>5. PICK n : n = Len(events')
  OBVIOUS
<1>6. Answered'
  <2>1. ASSUME NEW k \in {"+OK", "-ERR"}, NEW p \in Path, cmd'[p] = "sent", Sent(k, p)
        PROVE  Sent(k, p)'
    <3>1. Msg(k, p) \in Range(events) /\ Msg(k, p) # events[1]
      BY <2>1 DEF Sent
    <3>. QED  BY <3>1, TakeRange DEF Sent, Msg
  <2>2. ASSUME NEW k \in {"stopped", "nopath"}, stop'.st = "sent", Awaits(k)
        PROVE  Awaits(k)'
    <3>1. PICK p \in Path \cup {None} : Msg(k, p) \in Range(events)
      BY <2>2 DEF Awaits, Sent
    <3>2. Msg(k, p) # events[1]
      <4>1. Msg(k, p).kind = k
        BY MsgIs
      <4>. QED  BY <2>2, <4>1
    <3>3. Msg(k, p) \in Range(events')
      BY <3>1, <3>2, TakeRange
    <3>. QED  BY <3>3 DEF Awaits, Sent, Msg
  <2>3. \A p \in Path : cmd'[p] = "sent" => (Sent("+OK", p)' \/ Sent("-ERR", p)')
    BY <2>1 DEF Story, Answered
  <2>4. stop'.st = "sent" => (Awaits("stopped")' \/ Awaits("nopath")')
    BY <2>2 DEF Story, Answered
  <2>. QED  BY <2>3, <2>4 DEF Story, Answered
<1>7. Lives'
  <2>1. KnownAfter(n + 1) <=> KnownAfter(n)'
    BY <1>1, <1>3, <1>5
  <2>2. KnownAfter(Len(events))' <=> KnownAfter(n)'
    BY <1>5, LastKnown
  <2>3. KnownAfter(n + 1) <=> KnownAfter(Len(events))
    BY <1>1, <1>5
  <2>4. KnownAfter(Len(events))' <=> live
    BY <2>1, <2>2, <2>3 DEF Story, Lives
  <2>5. ~live => recording \cup opening = {}
    BY DEF Story, Lives
  <2>. QED  BY <2>4, <2>5 DEF Lives
<1>8. Recorded'
  <2>1. ASSUME NEW p \in recording
        PROVE  SeenAfter(Len(events), p)'
    <3>1. SeenAfter(n + 1, p)
      BY <1>1, <1>5, <2>1 DEF Story, Recorded
    <3>2. SeenAfter(n, p)'
      BY <1>1, <1>2, <1>4, <1>5, <2>1, <3>1
    <3>. QED  BY <1>5, <3>2, LastSeen
  <2>. QED  BY <2>1 DEF Recorded
<1>9. Ended'
  <2>1. ASSUME NEW p \in file \ recording
        PROVE  (Dropped(p) \/ Stopped(p) \/ Closed(p))'
    <3>1. Dropped(p) \/ Stopped(p) \/ Closed(p)
      BY <2>1 DEF Story, Ended
    <3>2. p \in Path
      BY <1>2, <2>1
    <3>3. \A m \in 0..Len(events') : SeenAfter(m + 1, p) => SeenAfter(m, p)'
      BY <1>4, <3>2
    <3>. QED  BY <3>1, <3>2, <3>3, TakeEnds
  <2>. QED  BY <2>1 DEF Ended
<1>. QED  BY <1>6, <1>7, <1>8, <1>9 DEF Story

LEMMA SetKnown ==
  ASSUME TypeOK, NEW s, NEW p, NEW b, Set(s, p, b)
  PROVE  entry'.known = entry.known
<1>1. entry.known \in BOOLEAN
  BY EntryFields
<1>2. entry'.known = IF entry.known THEN TRUE ELSE entry.known
  BY DEF Set
<1>. QED  BY <1>1, <1>2

LEMMA HandleStory ==
  ASSUME TypeOK, News, Story, Usual, Usual', Handle
  PROVE  Story'
<1>. USE DEF fs
<1>0. /\ UNCHANGED <<live, recording, opening, file, linked, deaf>>
      /\ \A k, p : Msg(k, p).kind = k /\ Msg(k, p).path = p
  BY MsgIs DEF Handle, HandleCreate, HandleDestroy, HandleStart, HandleStop, HandleStarted,
         HandleStopped, history
<1>1. ASSUME NEW kinds, Take(kinds)
      PROVE  events[1].kind \in kinds /\ events[1] = Msg(events[1].kind, At)
             /\ Head(events) = events[1]
  BY <1>1, TakeIs
<1>2. CASE HandleCreate
  <2>1. /\ Take({"create"}) /\ events[1].kind = "create"
        /\ UNCHANGED <<row, closes, stop>>
        /\ entry' = IF entry.known THEN entry ELSE Fresh
    BY <1>1, <1>2 DEF HandleCreate
  <2>2. \/ UNCHANGED cmd
        \/ \E q \in Path : /\ cmd[q] = "new" /\ cmd'[q] = "asked"
                           /\ \A p \in Path : p # q => cmd'[p] = cmd[p]
                           /\ recording \cup opening = {}
                           /\ \A p \in Path : cmd[p] \notin {"asked", "sent"}
    BY <1>2 DEF HandleCreate, New, Overlap, TypeOK, Usual
  <2>3. Alone'
    <3>1. CASE UNCHANGED cmd
      BY <1>0, <3>1 DEF Story, Alone
    <3>2. CASE ~UNCHANGED cmd
      BY <1>0, <2>2, <3>2 DEF Story, Alone
    <3>. QED  BY <3>1, <3>2
  <2>4. Looks'
    <3>1. \/ ~Shows("STARTING")' /\ ~Shows("ACTIVE")'
          \/ entry' = entry
      BY <2>1 DEF Shows, Fresh
    <3>2. \A p \in Path : cmd[p] = "verify" => cmd'[p] = "verify"
      BY <2>2
    <3>3. CASE ~Shows("STARTING")' /\ ~Shows("ACTIVE")'
      BY <3>3 DEF Looks
    <3>4. CASE entry' = entry
      BY <3>2, <3>4 DEF Story, Looks, Shows
    <3>. QED  BY <3>1, <3>3, <3>4
  <2>5. entry'.known /\ \A p : ShownAs(p) => ShownAs(p)'
    BY <2>1 DEF Fresh, ShownAs
  <2>6. \A p \in Path : events[1] # Msg("start", p) /\ events[1] # Msg("stop", p)
    BY <1>0, <2>1
  <2>7. \A p \in Path : cmd'[p] = "sent" =>
           /\ cmd[p] = "sent"
           /\ events[1] # Msg("+OK", p) /\ events[1] # Msg("-ERR", p)
    BY <1>0, <2>1, <2>2
  <2>. QED  BY <1>0, <2>1, <2>3, <2>4, <2>5, <2>6, <2>7, TakeStory
<1>3. CASE HandleDestroy
  <2>1. /\ Take({"destroy"}) /\ events[1].kind = "destroy"
        /\ UNCHANGED <<row, cmd, stop>>
        /\ entry' = Unknown
        /\ closes' = IF Unclosed THEN closes \cup {entry.path} ELSE closes
    BY <1>1, <1>3 DEF HandleDestroy, asks
  <2>2. Alone' /\ Looks' /\ ~entry'.known
    BY <1>0, <2>1 DEF Story, Alone, Looks, Shows, Unknown
  <2>3. \A p \in Path : ~Harmless(events[1], p)
    BY <1>0, <2>1 DEF Harmless
  <2>4. \A p \in Path : ShownAs(p) => p \in closes'
    <3>1. None \notin Path
      BY RecordingConstantsOK DEF RecordingConstantsOK
    <3>. QED  BY <2>1, <3>1 DEF ShownAs, Unclosed
  <2>5. \A p \in Path : events[1] # Msg("start", p) /\ events[1] # Msg("stop", p)
    BY <1>0, <2>1
  <2>6. \A p \in Path : p \in closes => p \in closes'
    BY <2>1
  <2>7. \A p \in Path : cmd'[p] = "sent" =>
           /\ cmd[p] = "sent"
           /\ events[1] # Msg("+OK", p) /\ events[1] # Msg("-ERR", p)
    BY <1>0, <2>1
  <2>. QED  BY <1>0, <2>1, <2>2, <2>3, <2>4, <2>5, <2>6, <2>7, TakeStory
<1>4. CASE HandleStart
  <2>1. /\ Take({"start"}) /\ events[1].kind = "start"
        /\ UNCHANGED <<cmd, stop, closes>>
        /\ Set("ACTIVE", At, TRUE)
        /\ row' = Registered(At) /\ At \in Path
    BY <1>1, <1>4, TakeType DEF HandleStart, SetActive, asks, Take
  <2>2. entry'.known = entry.known
    BY <2>1, SetKnown
  <2>3. \A p \in Path : /\ row[p] # "none" => row'[p] # "none"
                        /\ row[p] = "COMPLETED" => row'[p] = "COMPLETED"
                        /\ p = At => row'[p] # "none"
    BY <2>1 DEF Registered, TypeOK
  <2>4. Alone' /\ Looks'
    BY <1>0, <2>1 DEF Story, Alone, Looks, Shows, Set
  <2>5. \A p \in Path : /\ ~Harmless(events[1], p) /\ events[1] # Msg("stop", p)
                        /\ events[1] = Msg("start", p) => p = At
    BY <1>0, <2>1 DEF Harmless, At
  <2>6. \A p \in Path : events[1] = Msg("start", p) /\ entry.known => ShownAs(p)'
    BY <2>1, <2>3, <2>5 DEF Set, ShownAs
  <2>7. \A p \in Path : cmd'[p] = "sent" =>
           /\ cmd[p] = "sent"
           /\ events[1] # Msg("+OK", p) /\ events[1] # Msg("-ERR", p)
    BY <1>0, <2>1
  <2>. QED  BY <1>0, <2>1, <2>2, <2>3, <2>4, <2>5, <2>6, <2>7, TakeStory
<1>5. CASE HandleStop
  <2>1. /\ Take({"stop"}) /\ events[1].kind = "stop"
        /\ UNCHANGED <<cmd, stop, row>>
        /\ Set("OFF", entry.path, FALSE)
        /\ closes' = closes \cup {At}
    <3>1. /\ Take({"stop"}) /\ UNCHANGED <<cmd, stop, row>>
          /\ Set("OFF", entry.path, FALSE) /\ closes' = closes \cup {At}
      BY <1>5 DEF HandleStop, asks
    <3>2. events[1].kind = "stop"
      BY <1>1, <3>1
    <3>. QED  BY <3>1, <3>2
  <2>2. entry'.known = entry.known
    BY <2>1, SetKnown
  <2>4. Alone' /\ Looks'
    BY <1>0, <2>1 DEF Story, Alone, Looks, Shows, Set
  <2>5. \A p \in Path : /\ ~Harmless(events[1], p) /\ events[1] # Msg("start", p)
                        /\ events[1] = Msg("stop", p) => p = At
    BY <1>0, <1>1, <2>1 DEF Harmless
  <2>6. \A p \in Path : /\ p \in closes => p \in closes'
                        /\ events[1] = Msg("stop", p) => p \in closes'
    BY <2>1, <2>5
  <2>7. \A p \in Path : cmd'[p] = "sent" =>
           /\ cmd[p] = "sent"
           /\ events[1] # Msg("+OK", p) /\ events[1] # Msg("-ERR", p)
    BY <1>0, <2>1
  <2>. QED  BY <1>0, <2>1, <2>2, <2>4, <2>5, <2>6, <2>7, TakeStory
<1>6. CASE HandleStarted
  <2>1. /\ Take({"+OK", "-ERR"}) /\ events[1].kind \in {"+OK", "-ERR"}
        /\ events[1] = Msg(events[1].kind, At) /\ Head(events) = events[1]
        /\ UNCHANGED <<stop, closes>> /\ cmd[At] = "sent" /\ At \in Path
    <3>1. Take({"+OK", "-ERR"}) /\ UNCHANGED <<stop, closes>> /\ cmd[At] = "sent"
      BY <1>6 DEF HandleStarted
    <3>. QED  BY <1>1, <3>1, TakeType DEF Take
  <2>2. \/ /\ row' = Registered(At) \/ row' = row
           /\ At \in auto
           /\ events[1].kind = "+OK" => row' = Registered(At)
           /\ cmd'[At] = "done" /\ entry' = entry
        \/ /\ events[1].kind = "+OK" /\ row' = row /\ cmd'[At] = "verify"
           /\ Set("STARTING", At, FALSE)
        \/ /\ events[1].kind = "-ERR" /\ row' = row /\ cmd'[At] = "done"
           /\ Set("FAILED", entry.path, FALSE)
    BY <1>6, <2>1 DEF HandleStarted, SetStarting, SetError, shown, TypeOK
  <2>3. \A p \in Path : p # At => cmd'[p] = cmd[p]
    BY <1>6, <2>1 DEF HandleStarted, TypeOK
  <2>4. \A p \in Path : /\ row[p] # "none" => row'[p] # "none"
                        /\ row[p] = "COMPLETED" => row'[p] = "COMPLETED"
    <3>1. row' = row \/ row' = Registered(At)
      BY <2>2
    <3>. QED  BY <3>1 DEF Registered, TypeOK
  <2>5. entry'.known = entry.known
    BY <2>2, SetKnown
  <2>6. Alone'
    <3>1. \A p \in Path : cmd'[p] \in {"asked", "sent"} => cmd[p] = cmd'[p]
      BY <2>2, <2>3
    <3>. QED  BY <1>0, <3>1 DEF Story, Alone
  <2>7. Looks'
    <3>1. CASE entry' = entry
      <4>1. \A p \in Path : cmd[p] = "verify" => cmd'[p] = "verify"
        BY <2>1, <2>3
      <4>. QED  BY <3>1, <4>1 DEF Story, Looks, Shows
    <3>2. CASE Set("STARTING", At, FALSE) /\ cmd'[At] = "verify"
      BY <2>1, <3>2 DEF Looks, Shows, Set
    <3>3. CASE Set("FAILED", entry.path, FALSE)
      BY <3>3 DEF Looks, Shows, Set
    <3>. QED  BY <2>2, <3>1, <3>2, <3>3
  <2>8. \A p \in Path : ShownAs(p) /\ Harmless(events[1], p) => ShownAs(p)'
    <3>1. SUFFICES ASSUME NEW p \in Path, ShownAs(p), Harmless(events[1], p)
                   PROVE  ShownAs(p)'
      OBVIOUS
    <3>2. events[1].kind = "+OK" /\ At = p
      <4>1. events[1] = Msg("+OK", p)
        BY <2>1, <3>1 DEF Harmless
      <4>. QED  BY <2>1, <4>1, MsgIs
    <3>3. CASE entry' = entry
      BY <2>4, <3>1, <3>3 DEF ShownAs
    <3>4. CASE Set("STARTING", At, FALSE)
      BY <2>4, <3>1, <3>2, <3>4 DEF ShownAs, Set
    <3>. QED  BY <2>2, <3>2, <3>3, <3>4
  <2>9. \A p \in Path : events[1] # Msg("start", p) /\ events[1] # Msg("stop", p)
    BY <1>0, <2>1
  <2>10. \A p \in Path : cmd'[p] = "sent" =>
           /\ cmd[p] = "sent"
           /\ events[1] # Msg("+OK", p) /\ events[1] # Msg("-ERR", p)
    <3>1. \A p : events[1] = Msg("+OK", p) \/ events[1] = Msg("-ERR", p) => p = At
      BY <2>1, MsgIs
    <3>2. cmd'[At] # "sent"
      BY <2>2
    <3>. QED  BY <2>3, <3>1, <3>2
  <2>. QED  BY <1>0, <2>1, <2>4, <2>5, <2>6, <2>7, <2>8, <2>9, <2>10, TakeStory
<1>7. CASE HandleStopped
  <2>1. /\ Take({"stopped", "nopath"}) /\ events[1].kind \in {"stopped", "nopath"}
        /\ UNCHANGED <<cmd, row, closes>> /\ stop'.st # "sent"
        /\ \/ events[1].kind = "stopped" /\ Set("OFF", None, FALSE)
           \/ events[1].kind = "nopath" /\ entry' = entry
    <3>1. Take({"stopped", "nopath"}) /\ UNCHANGED <<cmd, row, closes>>
      BY <1>7 DEF HandleStopped
    <3>2. events[1].kind \in {"stopped", "nopath"} /\ Head(events) = events[1]
      BY <1>1, <3>1
    <3>3. CASE events[1].kind = "stopped"
      <4>1. Set("OFF", None, FALSE) /\ stop' = NoStop
        BY <1>7, <3>2, <3>3 DEF HandleStopped, SetOff
      <4>. QED  BY <3>1, <3>3, <4>1 DEF NoStop
    <3>4. CASE events[1].kind = "nopath"
      <4>1. entry' = entry /\ stop' = [st |-> "asked", path |-> None]
        BY <1>7, <3>2, <3>4 DEF HandleStopped, shown
      <4>. QED  BY <3>1, <3>4, <4>1
    <3>. QED  BY <3>2, <3>3, <3>4
  <2>2. entry'.known = entry.known
    BY <2>1, SetKnown
  <2>4. Alone' /\ Looks'
    BY <1>0, <2>1 DEF Story, Alone, Looks, Shows, Set
  <2>5. \A p \in Path : ShownAs(p) /\ Harmless(events[1], p) => ShownAs(p)'
    <3>1. ASSUME NEW p \in Path, Harmless(events[1], p)
          PROVE  events[1].kind # "stopped"
      BY <1>0, <3>1 DEF Harmless
    <3>2. \A p \in Path : Harmless(events[1], p) => UNCHANGED <<entry, row>>
      BY <2>1, <3>1
    <3>. QED  BY <3>2 DEF ShownAs
  <2>6. \A p \in Path : events[1] # Msg("start", p) /\ events[1] # Msg("stop", p)
    BY <1>0, <2>1
  <2>7. \A p \in Path : cmd'[p] = "sent" =>
           /\ cmd[p] = "sent"
           /\ events[1] # Msg("+OK", p) /\ events[1] # Msg("-ERR", p)
    BY <1>0, <2>1
  <2>. QED  BY <1>0, <2>1, <2>2, <2>4, <2>5, <2>6, <2>7, TakeStory
<1>. QED  BY <1>2, <1>3, <1>4, <1>5, <1>6, <1>7 DEF Handle

\* What FreeSWITCH must do for the story to go on.
LEMMA AppendStory ==
  ASSUME TypeOK, TypeOK', Story, Appends, UNCHANGED <<entry, row, closes, linked>>, ~deaf',
         \A p \in Path : \/ cmd'[p] = cmd[p]
                         \/ /\ cmd[p] = "asked" /\ cmd'[p] = "sent"
                            /\ Sent("+OK", p)' \/ Sent("-ERR", p)',
         stop'.st = "sent" => \/ stop.st = "sent"
                              \/ Awaits("stopped")' \/ Awaits("nopath")',
         Alone', Lives', Recorded',
         \A p \in file' \ recording' : \/ p \in file \ recording
                                       \/ (Dropped(p) \/ Stopped(p) \/ Closed(p))'
  PROVE  Story'
<1>1. \A e \in Range(events) : e \in Range(events')
  <2>1. events \in Seq(Event) /\ events' \in Seq(Event)
    BY DEF TypeOK
  <2>2. \A i \in 1..Len(events) : i \in 1..Len(events') /\ events'[i] = events[i]
    BY DEF Appends
  <2>. QED  BY <2>1, <2>2 DEF Range
<1>2. Answered'
  <2>1. \A k, p : Sent(k, p) => Sent(k, p)'
    BY <1>1 DEF Sent, Msg
  <2>2. \A k : Awaits(k) => Awaits(k)'
    BY <2>1 DEF Awaits
  <2>3. \A p \in Path : cmd'[p] = "sent" => (Sent("+OK", p)' \/ Sent("-ERR", p)')
    BY <2>1 DEF Story, Answered
  <2>4. stop'.st = "sent" => (Awaits("stopped")' \/ Awaits("nopath")')
    BY <2>2 DEF Story, Answered
  <2>. QED  BY <2>3, <2>4 DEF Story, Answered
<1>3. Looks'
  BY DEF Story, Looks, Shows
<1>4. Ended'
  <2>1. ASSUME NEW p \in file \ recording
        PROVE  (Dropped(p) \/ Stopped(p) \/ Closed(p))'
    BY <2>1, AppendEnds DEF Story, Ended
  <2>. QED  BY <2>1 DEF Ended
<1>. QED  BY <1>2, <1>3, <1>4 DEF Story

\* Messages that are not about the conference itself leave it alive or gone.
LEMMA AppendLives ==
  ASSUME Appends, UNCHANGED entry,
         \A j \in (Len(events) + 1)..Len(events') : events'[j].kind \notin {"create", "destroy"}
  PROVE  KnownAfter(Len(events))' <=> KnownAfter(Len(events))
<1>1. PICK n : n = Len(events')
  OBVIOUS
<1>2. Len(events) \in Nat /\ n \in Nat /\ Len(events) <= n
  BY <1>1 DEF Appends
<1>3. \A j \in 1..n : \/ j \in 1..Len(events) /\ events'[j] = events[j]
                      \/ /\ j \notin 1..Len(events)
                         /\ events'[j].kind \notin {"create", "destroy"}
  BY <1>1, <1>2 DEF Appends
<1>4. /\ \A j \in 1..Len(events) : j \in 1..n
      /\ \A k \in 1..Len(events) : \A j \in (k + 1)..n : j \in 1..n
      /\ \A k \in 1..Len(events) : \A j \in (k + 1)..Len(events) : j \in (k + 1)..n
      /\ \A k \in 1..Len(events) : \A j \in (k + 1)..n :
           j \in 1..Len(events) => j \in (k + 1)..Len(events)
  BY <1>2
<1>5. KnownAfter(n)' => KnownAfter(Len(events))
  BY <1>3, <1>4 DEF KnownAfter
<1>6. KnownAfter(Len(events)) => KnownAfter(n)'
  BY <1>3, <1>4 DEF KnownAfter
<1>. QED  BY <1>1, <1>5, <1>6, LastKnown

\* A harmless message at the end.
LEMMA AppendHarmless ==
  ASSUME Appends, UNCHANGED <<entry, row>>, NEW p, SeenAfter(Len(events), p),
         \A j \in (Len(events) + 1)..Len(events') : Harmless(events'[j], p)
  PROVE  SeenAfter(Len(events), p)'
<1>1. PICK n, m : n = Len(events') /\ m = Len(events)
  OBVIOUS
<1>2. m \in Nat /\ n \in Nat /\ m <= n /\ m \in 0..Len(events)
  BY <1>1 DEF Appends
<1>3. SeenAfter(m, p)'
  BY <1>1, <1>2, AppendSeen
<1>4. /\ \A j \in 1..n : j \in 1..m \/ j \in (m + 1)..n
      /\ \A k \in 1..m : k \in 1..n
      /\ \A k \in 1..m : \A j \in (k + 1)..n : j \in (k + 1)..m \/ j \in (m + 1)..n
  BY <1>2
<1>5. \A j \in (m + 1)..n : Harmless(events[j], p)'
  BY <1>1 DEF Harmless
<1>6. SeenAfter(n, p)'
  BY <1>3, <1>4, <1>5 DEF SeenAfter
<1>. QED  BY <1>1, <1>6, LastSeen

\* A stop at the end closes what is seen until then.
LEMMA AppendStop ==
  ASSUME Appends, UNCHANGED row, NEW p, SeenAfter(Len(events), p),
         NEW j \in (Len(events) + 1)..Len(events'), events'[j] = Msg("stop", p)
  PROVE  Stopped(p)'
<1>1. Len(events) \in Nat /\ j \in 1..Len(events')
  BY DEF Appends
<1>2. \A k \in 1..Len(events) : k \in 1..(j - 1) /\ events'[k] = events[k]
  BY DEF Appends
<1>3. row'[p] # "none" \/ \E k \in 1..(j - 1) : events'[k] = Msg("start", p)
  BY <1>2 DEF SeenAfter, ShownAs
<1>. QED  BY <1>1, <1>3 DEF Stopped

\* Nothing that is sent is lost while the connection lasts.
LEMMA EmitLinked ==
  ASSUME Story, NEW es, Emit(es)
  PROVE  ~deaf'
BY DEF Story, Answered, Emit

LEMMA StartsStory ==
  ASSUME TypeOK, TypeOK', Story, ConferenceStarts
  PROVE  Story'
<1>1. Emit(<<Msg("create", None)>>) /\ Msg("create", None) \in Event
  BY MsgType DEF ConferenceStarts
<1>2. ~deaf'
  BY <1>1, EmitLinked
<1>3. PICK n, m : n = Len(events') /\ m = Len(events)
  OBVIOUS
<1>4. /\ m \in Nat /\ n = m + 1
      /\ \A i \in 1..m : events'[i] = events[i]
      /\ events'[n] = Msg("create", None)
  BY <1>1, <1>2, <1>3, EmitOne
<1>5. Appends
  BY <1>3, <1>4 DEF Appends
<1>6. /\ UNCHANGED <<entry, row, closes, linked, cmd, stop, recording, opening, file>>
      /\ ~live /\ live'
  BY DEF ConferenceStarts, shown, asks
<1>7. recording \cup opening = {}
  BY <1>6 DEF Story, Lives
<1>8. KnownAfter(n)'
  <2>1. n \in 1..n /\ \A j : j \notin (n + 1)..n
    BY <1>4
  <2>. QED  BY <1>4, <2>1, MsgIs DEF KnownAfter
<1>9. Lives'
  BY <1>3, <1>6, <1>8, LastKnown DEF Lives
<1>10. Alone' /\ Recorded'
  BY <1>6, <1>7 DEF Story, Alone, Recorded
<1>. QED  BY <1>2, <1>5, <1>6, <1>9, <1>10, AppendStory

LEMMA AcceptsStory ==
  ASSUME TypeOK, TypeOK', Asked, Story, NEW q \in Path, FsAccepts(q)
  PROVE  Story'
<1>1. PICK e \in {Msg("+OK", q), Msg("-ERR", q)} : Emit(<<e>>)
  BY DEF FsAccepts
<1>2. e \in Event /\ ~deaf'
  BY <1>1, MsgType, EmitLinked
<1>3. /\ Len(events) \in Nat /\ Len(events') = Len(events) + 1
      /\ \A i \in 1..Len(events) : events'[i] = events[i]
      /\ events'[Len(events) + 1] = e
      /\ \A j \in (Len(events) + 1)..Len(events') : events'[j] = e
  BY <1>1, <1>2, EmitOne
<1>4. Appends
  BY <1>3 DEF Appends
<1>5. /\ UNCHANGED <<entry, row, closes, linked, stop, recording, file, live>>
      /\ cmd[q] = "asked" /\ cmd'[q] = "sent"
      /\ \A p \in Path : p # q => cmd'[p] = cmd[p]
      /\ opening' = IF live THEN opening \cup {q} ELSE opening
  BY DEF FsAccepts, shown, TypeOK
<1>6. /\ recording \cup opening = {} /\ q \notin file
      /\ \A p \in Path : p # q => cmd[p] \notin {"asked", "sent"}
  BY <1>5 DEF Story, Alone, Asked
<1>7. Sent("+OK", q)' \/ Sent("-ERR", q)'
  <2>1. events' \in Seq(Event) /\ Len(events') \in 1..Len(events')
    BY <1>3 DEF TypeOK
  <2>2. e \in Range(events')
    BY <1>3, <2>1 DEF Range
  <2>. QED  BY <1>1, <2>2 DEF Sent, Msg
<1>8. Alone' /\ Recorded'
  BY <1>5, <1>6 DEF Alone, Recorded
<1>9. Lives'
  <2>1. \A j \in (Len(events) + 1)..Len(events') : events'[j].kind \notin {"create", "destroy"}
    BY <1>1, <1>3, MsgIs
  <2>2. KnownAfter(Len(events))' <=> KnownAfter(Len(events))
    BY <1>4, <1>5, <2>1, AppendLives
  <2>3. KnownAfter(Len(events))' <=> live
    BY <2>2 DEF Story, Lives
  <2>. QED  BY <1>5, <1>6, <2>3 DEF Lives
<1>10. \A p \in Path : \/ cmd'[p] = cmd[p]
                       \/ /\ cmd[p] = "asked" /\ cmd'[p] = "sent"
                          /\ Sent("+OK", p)' \/ Sent("-ERR", p)'
  BY <1>5, <1>7
<1>. QED  BY <1>2, <1>4, <1>5, <1>8, <1>9, <1>10, AppendStory

LEMMA OpensStory ==
  ASSUME TypeOK, TypeOK', Asked, Story, NEW q \in Path, FsOpens(q)
  PROVE  Story'
<1>1. /\ UNCHANGED <<entry, row, closes, linked, stop, live>>
      /\ opening' = opening \ {q} /\ recording' = recording \cup {q}
      /\ file' = file \cup {q}
  BY DEF FsOpens, shown
<1>2. \/ /\ q \in opening /\ Emit(<<Msg("start", q)>>) /\ UNCHANGED cmd
      \/ /\ cmd[q] = "asked" /\ live /\ cmd'[q] = "sent"
         /\ \A p \in Path : p # q => cmd'[p] = cmd[p]
         /\ Emit(<<Msg("start", q), Msg("+OK", q)>>)
  BY DEF FsOpens, TypeOK
<1>3. /\ live /\ q \notin file /\ recording = {} /\ opening \subseteq {q}
      /\ \A p \in Path : p # q => cmd[p] # "asked"
  <2>1. recording \subseteq file /\ (cmd[q] = "asked" => q \notin file)
    BY DEF Asked
  <2>2. CASE q \in opening
    <3>1. live /\ q \notin file /\ (\A p \in recording \cup opening : p = q)
      BY <2>2 DEF Story, Lives, Alone
    <3>2. \A p \in Path : cmd[p] # "asked"
      BY <2>2 DEF Story, Alone
    <3>. QED  BY <2>1, <3>1, <3>2
  <2>3. CASE cmd[q] = "asked"
    <3>1. recording \cup opening = {} /\ \A p \in Path : p # q => cmd[p] # "asked"
      BY <2>3 DEF Story, Alone
    <3>2. live
      BY <1>2, <3>1
    <3>. QED  BY <2>1, <2>3, <3>1, <3>2
  <2>. QED  BY <1>2, <2>2, <2>3
<1>4. /\ ~deaf' /\ Msg("start", q) \in Event /\ Msg("+OK", q) \in Event
  BY <1>2, EmitLinked, MsgType
<1>5. PICK n, m : n = Len(events') /\ m = Len(events)
  OBVIOUS
<1>6. /\ m \in Nat /\ n \in Nat /\ m + 1 <= n
      /\ \A i \in 1..m : events'[i] = events[i]
      /\ events'[m + 1] = Msg("start", q)
      /\ \A j \in (m + 1)..n : j = m + 1 \/ events'[j] = Msg("+OK", q)
      /\ UNCHANGED cmd \/ (n \in 1..n /\ events'[n] = Msg("+OK", q))
  <2>1. CASE Emit(<<Msg("start", q)>>) /\ UNCHANGED cmd
    <3>1. /\ m \in Nat /\ n = m + 1
          /\ \A i \in 1..m : events'[i] = events[i]
          /\ events'[m + 1] = Msg("start", q)
          /\ \A j \in (m + 1)..n : j = m + 1
      BY <1>4, <1>5, <2>1, EmitOne
    <3>. QED  BY <2>1, <3>1
  <2>2. CASE Emit(<<Msg("start", q), Msg("+OK", q)>>)
    <3>1. /\ m \in Nat /\ n = m + 2
          /\ \A i \in 1..m : events'[i] = events[i]
          /\ events'[m + 1] = Msg("start", q) /\ events'[m + 2] = Msg("+OK", q)
          /\ \A j \in (m + 1)..n : j = m + 1 \/ j = m + 2
      BY <1>4, <1>5, <2>2, EmitTwo
    <3>. QED  BY <3>1
  <2>. QED  BY <1>2, <2>1, <2>2
<1>7. Appends
  BY <1>5, <1>6 DEF Appends
<1>8. KnownAfter(Len(events))' <=> live
  <2>1. \A j \in (m + 1)..n : events'[j].kind \notin {"create", "destroy"}
    BY <1>6, MsgIs
  <2>2. KnownAfter(Len(events))' <=> KnownAfter(Len(events))
    BY <1>1, <1>5, <1>7, <2>1, AppendLives
  <2>. QED  BY <2>2 DEF Story, Lives
<1>9. Lives'
  BY <1>1, <1>3, <1>8 DEF Lives
<1>10. Alone'
  <2>1. \A p \in Path : cmd'[p] # "asked"
    <3>1. cmd'[q] # "asked"
      <4>1. CASE q \in opening /\ UNCHANGED cmd
        BY <4>1 DEF Story, Alone
      <4>. QED  BY <1>2, <4>1
    <3>. QED  BY <1>2, <1>3, <3>1
  <2>2. opening' = {} /\ recording' = {q}
    BY <1>1, <1>3
  <2>. QED  BY <2>1, <2>2 DEF Alone
<1>11. Recorded'
  <2>1. KnownAfter(m)'
    <3>1. KnownAfter(m) /\ m \in 0..Len(events)
      BY <1>3, <1>5, <1>6 DEF Story, Lives
    <3>. QED  BY <1>1, <1>7, <3>1, AppendKnown
  <2>2. /\ m + 1 \in 1..n /\ (m + 1) - 1 = m
        /\ \A j \in ((m + 1) + 1)..n : j \in (m + 1)..n /\ j # m + 1
    BY <1>6
  <2>3. \A j \in ((m + 1) + 1)..n : Harmless(events[j], q)'
    BY <1>6, <2>2 DEF Harmless
  <2>4. SeenAfter(n, q)'
    BY <1>6, <2>1, <2>2, <2>3 DEF SeenAfter
  <2>5. SeenAfter(Len(events), q)'
    BY <1>5, <2>4, LastSeen
  <2>6. recording' = {q}
    BY <1>1, <1>3
  <2>. QED  BY <2>5, <2>6 DEF Recorded
<1>12. \A p \in Path : \/ cmd'[p] = cmd[p]
                       \/ /\ cmd[p] = "asked" /\ cmd'[p] = "sent"
                          /\ Sent("+OK", p)' \/ Sent("-ERR", p)'
  <2>1. CASE UNCHANGED cmd
    BY <2>1
  <2>2. CASE n \in 1..n /\ events'[n] = Msg("+OK", q)
    <3>1. events' \in Seq(Event)
      BY DEF TypeOK
    <3>2. Msg("+OK", q) \in Range(events')
      BY <1>5, <2>2, <3>1 DEF Range
    <3>3. Sent("+OK", q)'
      BY <3>2 DEF Sent, Msg
    <3>. QED  BY <1>2, <3>3
  <2>. QED  BY <1>6, <2>1, <2>2
<1>13. \A p \in file' \ recording' : p \in file \ recording
  BY <1>1
<1>. QED  BY <1>1, <1>4, <1>7, <1>9, <1>10, <1>11, <1>12, <1>13, AppendStory

LEMMA EndsStory ==
  ASSUME TypeOK, TypeOK', Story, ConferenceEnds
  PROVE  Story'
<1>1. /\ UNCHANGED <<entry, row, closes, linked, cmd, stop, file>>
      /\ ~live' /\ opening' = {} /\ recording' = {}
  BY DEF ConferenceEnds, shown, asks
<1>2. PICK S \in {recording, {}} : \E es \in Reports(S, Msg("destroy", None)) : Emit(es)
  BY DEF ConferenceEnds
<1>3. PICK es \in Reports(S, Msg("destroy", None)) : Emit(es)
  BY <1>2
<1>4. S \in SUBSET Path /\ S \subseteq recording /\ Msg("destroy", None) \in Event
  BY MsgType DEF TypeOK
<1>5. /\ es \in Seq(Event) /\ Len(es) \in Nat /\ Len(es) > 0
      /\ \E i \in 1..Len(es) : es[i] = Msg("destroy", None)
      /\ \A i \in 1..Len(es) : \/ es[i] = Msg("destroy", None)
                               \/ \E p \in S : es[i] = Msg("stop", p)
  BY <1>4, ReportsAre
<1>6. ~deaf'
  BY <1>3, EmitLinked
<1>7. PICK n, m, l : n = Len(events') /\ m = Len(events) /\ l = Len(es)
  OBVIOUS
<1>8. /\ m \in Nat /\ n = m + l /\ l \in Nat /\ l > 0
      /\ \A i \in 1..m : events'[i] = events[i]
      /\ \A i \in 1..l : events'[m + i] = es[i]
  BY <1>3, <1>5, <1>6, <1>7, EmitIs
<1>9. Appends
  BY <1>7, <1>8 DEF Appends
<1>10. \A j \in (m + 1)..n : \/ events'[j] = Msg("destroy", None)
                             \/ \E p \in recording : events'[j] = Msg("stop", p)
  <2>1. \A j \in (m + 1)..n : j - m \in 1..l /\ m + (j - m) = j
    BY <1>8
  <2>2. \A j \in (m + 1)..n : events'[j] = es[j - m]
    BY <1>8, <2>1
  <2>. QED  BY <1>4, <1>5, <1>7, <2>1, <2>2
<1>11. PICK d \in (m + 1)..n : events'[d] = Msg("destroy", None)
  <2>1. PICK i \in 1..l : es[i] = Msg("destroy", None)
    BY <1>5, <1>7
  <2>2. m + i \in (m + 1)..n
    BY <1>8
  <2>. QED  BY <1>8, <2>1, <2>2
<1>12. ~KnownAfter(n)'
  <2>1. d \in 1..n /\ events'[d].kind = "destroy"
    BY <1>8, <1>11, MsgIs
  <2>2. \A k \in 1..n : events'[k].kind = "create" => k \notin (m + 1)..n
    BY <1>10, MsgIs
  <2>3. \A k \in 1..n : k \notin (m + 1)..n => d \in (k + 1)..n
    BY <1>8, <1>11
  <2>. QED  BY <2>1, <2>2, <2>3 DEF KnownAfter
<1>13. Lives' /\ Alone' /\ Recorded'
  <2>1. Lives'
    BY <1>1, <1>7, <1>12, LastKnown DEF Lives
  <2>2. Alone' /\ Recorded'
    BY <1>1 DEF Story, Alone, Recorded
  <2>. QED  BY <2>1, <2>2
<1>14. ASSUME NEW p \in recording
       PROVE  (Dropped(p) \/ Stopped(p) \/ Closed(p))'
  <2>1. SeenAfter(Len(events), p)
    BY DEF Story, Recorded
  <2>2. m + 1 \in (m + 1)..n /\ m + 1 \in 1..n /\ (m + 1) - 1 = m /\ m \in 0..Len(events)
    BY <1>7, <1>8
  <2>3. CASE events'[m + 1] = Msg("destroy", None)
    <3>1. SeenAfter(m, p)'
      BY <1>1, <1>7, <1>9, <2>1, <2>2, AppendSeen
    <3>2. events'[m + 1].kind = "destroy"
      BY <2>3, MsgIs
    <3>. QED  BY <1>7, <2>2, <3>1, <3>2 DEF Dropped
  <2>4. CASE \E q \in recording : events'[m + 1] = Msg("stop", q)
    <3>1. events'[m + 1] = Msg("stop", p)
      BY <2>4 DEF Story, Alone
    <3>2. Stopped(p)'
      BY <1>1, <1>7, <1>9, <2>1, <2>2, <3>1, AppendStop
    <3>. QED  BY <3>2
  <2>. QED  BY <1>10, <2>2, <2>3, <2>4
<1>15. \A p \in file' \ recording' : \/ p \in file \ recording
                                     \/ (Dropped(p) \/ Stopped(p) \/ Closed(p))'
  BY <1>1, <1>14
<1>. QED  BY <1>1, <1>6, <1>9, <1>13, <1>15, AppendStory

LEMMA StopsStory ==
  ASSUME TypeOK, TypeOK', Story, FsStops
  PROVE  Story'
<1>. DEFINE named  == IF stop.path = None THEN Path ELSE {stop.path}
            ended  == named \cap (recording \cup opening)
            answer == IF ended # {} \/ stop.path = None THEN "stopped" ELSE "nopath"
<1>1. /\ UNCHANGED <<entry, row, closes, linked, cmd, file, live>>
      /\ recording' = recording \ ended /\ opening' = opening \ ended
      /\ \E es \in Reports(ended \cap recording, Msg(answer, None)) : Emit(es)
  BY DEF FsStops, shown
<1>2. \A p \in recording \ ended : ended = {} /\ answer = "nopath"
  <2>1. \A p, q \in recording \cup opening : p = q
    BY DEF Story, Alone
  <2>2. recording \subseteq Path
    BY DEF TypeOK
  <2>. QED  BY <2>1, <2>2
<1>3. answer \in {"stopped", "nopath"} /\ ended \cap recording \in SUBSET Path
  BY DEF TypeOK
<1>. HIDE DEF answer, ended
<1>4. Msg(answer, None) \in Event
  BY <1>3, MsgType
<1>5. PICK es \in Reports(ended \cap recording, Msg(answer, None)) : Emit(es)
  BY <1>1
<1>6. /\ es \in Seq(Event) /\ Len(es) \in Nat /\ Len(es) > 0
      /\ \E i \in 1..Len(es) : es[i] = Msg(answer, None)
      /\ \A p \in ended \cap recording : \E i \in 1..Len(es) : es[i] = Msg("stop", p)
      /\ \A i \in 1..Len(es) : \/ es[i] = Msg(answer, None)
                               \/ \E p \in ended \cap recording : es[i] = Msg("stop", p)
  BY <1>3, <1>4, ReportsAre
<1>7. ~deaf'
  BY <1>5, EmitLinked
<1>8. PICK n, m, l : n = Len(events') /\ m = Len(events) /\ l = Len(es)
  OBVIOUS
<1>9. /\ m \in Nat /\ n = m + l /\ l \in Nat /\ l > 0
      /\ \A i \in 1..m : events'[i] = events[i]
      /\ \A i \in 1..l : events'[m + i] = es[i]
  BY <1>5, <1>6, <1>7, <1>8, EmitIs
<1>10. Appends
  BY <1>8, <1>9 DEF Appends
<1>11. \A i \in 1..l : m + i \in (m + 1)..n /\ m + i \in 1..n /\ n \in Nat
  BY <1>9
<1>12. \A j \in (m + 1)..n : \/ events'[j] = Msg(answer, None)
                             \/ \E p \in ended \cap recording : events'[j] = Msg("stop", p)
  <2>1. \A j \in (m + 1)..n : j - m \in 1..l /\ m + (j - m) = j
    BY <1>9
  <2>2. \A j \in (m + 1)..n : events'[j] = es[j - m]
    BY <1>9, <2>1
  <2>. QED  BY <1>6, <1>8, <2>1, <2>2
<1>13. ASSUME NEW a, a = answer
       PROVE  Awaits(a)'
  <2>1. PICK i \in 1..l : es[i] = Msg(answer, None)
    BY <1>6, <1>8
  <2>2. events'[m + i] = Msg(answer, None) /\ m + i \in 1..Len(events')
    BY <1>8, <1>9, <1>11, <2>1
  <2>3. events' \in Seq(Event)
    BY DEF TypeOK
  <2>4. Msg(a, None) \in Range(events')
    BY <1>13, <2>2, <2>3 DEF Range
  <2>. QED  BY <2>4 DEF Awaits, Sent, Msg
<1>14. Lives'
  <2>1. \A j \in (m + 1)..n : events'[j].kind \notin {"create", "destroy"}
    <3>1. Msg(answer, None).kind = answer /\ \A p : Msg("stop", p).kind = "stop"
      BY MsgIs
    <3>2. ASSUME NEW j \in (m + 1)..n
          PROVE  events'[j].kind \notin {"create", "destroy"}
      <4>1. CASE events'[j] = Msg(answer, None)
        BY <1>3, <3>1, <4>1
      <4>2. CASE \E p : events'[j] = Msg("stop", p)
        BY <3>1, <4>2
      <4>. QED  BY <1>12, <4>1, <4>2
    <3>. QED  BY <3>2
  <2>2. KnownAfter(Len(events))' <=> KnownAfter(Len(events))
    BY <1>1, <1>8, <1>10, <2>1, AppendLives
  <2>3. KnownAfter(Len(events))' <=> live
    BY <2>2 DEF Story, Lives
  <2>4. ~live => recording' \cup opening' = {}
    BY <1>1 DEF Story, Lives
  <2>. QED  BY <1>1, <2>3, <2>4 DEF Lives
<1>15. Alone'
  BY <1>1 DEF Story, Alone
<1>16. Recorded'
  <2>1. ASSUME NEW p \in recording \ ended
        PROVE  SeenAfter(Len(events), p)'
    <3>1. \A j \in (m + 1)..n : events'[j] = Msg("nopath", None)
      BY <1>2, <1>12, <2>1
    <3>2. \A j \in (m + 1)..n : Harmless(events'[j], p)
      BY <3>1, MsgIs DEF Harmless
    <3>3. SeenAfter(Len(events), p)
      BY <2>1 DEF Story, Recorded
    <3>. QED  BY <1>1, <1>8, <1>10, <3>2, <3>3, AppendHarmless
  <2>. QED  BY <1>1, <2>1 DEF Recorded
<1>17. ASSUME NEW p \in ended \cap recording
       PROVE  Stopped(p)'
  <2>1. PICK i \in 1..l : es[i] = Msg("stop", p)
    BY <1>6, <1>8
  <2>2. events'[m + i] = Msg("stop", p) /\ m + i \in (m + 1)..n
    BY <1>9, <1>11, <2>1
  <2>3. SeenAfter(Len(events), p)
    BY DEF Story, Recorded
  <2>. QED  BY <1>1, <1>8, <1>10, <2>2, <2>3, AppendStop
<1>18. \A p \in file' \ recording' : \/ p \in file \ recording
                                     \/ (Dropped(p) \/ Stopped(p) \/ Closed(p))'
  BY <1>1, <1>17
<1>19. Awaits("stopped")' \/ Awaits("nopath")'
  BY <1>3, <1>13
<1>. QED  BY <1>1, <1>7, <1>10, <1>14, <1>15, <1>16, <1>18, <1>19, AppendStory

LEMMA FreeswitchStory ==
  ASSUME TypeOK, TypeOK', News, Story, Usual', Freeswitch
  PROVE  Story'
<1>1. ~\E p \in Path : FsCannotOpen(p)
  BY DEF FsCannotOpen, Fault, Usual, TypeOK
<1>. QED  BY <1>1, StartsStory, EndsStory, StopsStory, AcceptsStory, OpensStory
          DEF Freeswitch, News

\* A step that leaves FreeSWITCH and the messages as they are.
LEMMA QuietStory ==
  ASSUME TypeOK, Asked, Story,
         UNCHANGED <<live, recording, opening, file, linked, events, deaf>>,
         \A p \in Path : cmd'[p] = "sent" => cmd[p] = "sent",
         stop'.st = "sent" => stop.st = "sent",
         Alone', Looks', entry'.known = entry.known,
         \A p \in file : /\ ShownAs(p) => ShownAs(p)'
                         /\ row[p] # "none" => row'[p] # "none"
                         /\ Closed(p) => Closed(p)'
  PROVE  Story'
<1>1. Answered'
  BY DEF Story, Answered, Sent, Awaits
<1>2. \A m : KnownAfter(m)' <=> KnownAfter(m)
  BY DEF KnownAfter
<1>3. ASSUME NEW p \in file, NEW m, SeenAfter(m, p)
      PROVE  SeenAfter(m, p)'
  <2>1. \A k : KnownAfter(k - 1)' <=> KnownAfter(k - 1)
    BY <1>2
  <2>. QED  BY <1>3, <2>1 DEF SeenAfter, Harmless
<1>4. PICK n : n = Len(events)
  OBVIOUS
<1>5. Lives'
  <2>1. KnownAfter(n)' <=> live
    BY <1>2, <1>4 DEF Story, Lives
  <2>2. KnownAfter(Len(events))' <=> live
    BY <1>4, <2>1, LastKnown
  <2>3. ~live => recording \cup opening = {}
    BY DEF Story, Lives
  <2>. QED  BY <2>2, <2>3 DEF Lives
<1>6. Recorded'
  <2>1. ASSUME NEW p \in recording
        PROVE  SeenAfter(Len(events), p)'
    <3>1. SeenAfter(n, p) /\ p \in file
      BY <1>4 DEF Story, Recorded, Asked
    <3>2. SeenAfter(n, p)'
      BY <1>3, <3>1
    <3>. QED  BY <1>4, <3>2, LastSeen
  <2>. QED  BY <2>1 DEF Recorded
<1>7. Ended'
  <2>1. ASSUME NEW p \in file \ recording
        PROVE  (Dropped(p) \/ Stopped(p) \/ Closed(p))'
    <3>1. Dropped(p) => Dropped(p)'
      <4>1. \A m : SeenAfter(m - 1, p) => SeenAfter(m - 1, p)'
        BY <1>3
      <4>. QED  BY <4>1 DEF Dropped
    <3>2. Stopped(p) => Stopped(p)'
      BY DEF Stopped
    <3>3. Closed(p) => Closed(p)'
      OBVIOUS
    <3>. QED  BY <3>1, <3>2, <3>3 DEF Story, Ended
  <2>. QED  BY <2>1 DEF Ended
<1>. QED  BY <1>1, <1>5, <1>6, <1>7 DEF Story

\* A message of the kind is on its way, or none has it.
LEMMA AwaitsKind ==
  ASSUME TypeOK, NEW k, ~Awaits(k), NEW j \in 1..Len(events)
  PROVE  events[j].kind # k
<1>1. SUFFICES ASSUME events[j].kind = k PROVE FALSE
  OBVIOUS
<1>2. events \in Seq(Event)
  BY DEF TypeOK
<1>3. events[j] \in Event /\ events[j] \in Range(events)
  BY <1>2 DEF Range
<1>4. \E K, P : events[j] \in [kind: K, path: P] /\ P \subseteq Path \cup {None}
  BY <1>3 DEF Event
<1>5. PICK K, P : events[j] \in [kind: K, path: P] /\ P \subseteq Path \cup {None}
  BY <1>4
<1>6. events[j] = Msg(k, events[j].path) /\ events[j].path \in Path \cup {None}
  BY <1>1, <1>5 DEF Msg
<1>. QED  BY <1>3, <1>6 DEF Awaits, Sent

LEMMA OperatorStory ==
  ASSUME TypeOK, News, Story, Usual, Usual', Operator
  PROVE  Story'
<1>. USE DEF fs, link
<1>0. Asked /\ OneRequest /\ file \subseteq Path
  BY DEF News, Usual, TypeOK
<1>1. CASE RequestStop
  <2>1. /\ UNCHANGED <<live, recording, opening, file, linked, events, deaf, cmd, row, closes>>
        /\ stop'.st = "asked" /\ Set("STOPPING", entry.path, entry.on)
        /\ ~Shows("STARTING")
    BY <1>1 DEF RequestStop, Overlap, Usual
  <2>2. entry'.known = entry.known
    BY <2>1, SetKnown
  <2>3. Alone' /\ Looks'
    BY <2>1 DEF Story, Alone, Looks, Shows, Set
  <2>4. \A p \in file : ShownAs(p) => ShownAs(p)'
    BY <2>1 DEF Story, Looks, Shows, ShownAs, Set
  <2>. QED  BY <1>0, <2>1, <2>2, <2>3, <2>4, QuietStory DEF Closed
<1>2. CASE StopFails
  BY <1>2 DEF StopFails, Story, Answered
<1>3. ASSUME NEW q \in Path, RequestStart(q)
      PROVE  Story'
  <2>1. /\ UNCHANGED <<live, recording, opening, file, linked, events, deaf, entry,
                       stop, row, closes>>
        /\ cmd[q] = "new" /\ cmd'[q] = "asked"
        /\ \A p \in Path : p # q => cmd'[p] = cmd[p]
        /\ entry.known /\ ~Awaits("start") /\ opening = {}
        /\ \A p \in Path : cmd[p] \notin {"asked", "sent", "verify"}
        /\ entry.state \notin {"STARTING", "ACTIVE", "STOPPING"}
    BY <1>3 DEF RequestStart, New, Overlap, Startable, TypeOK, Usual, shown
  <2>2. recording = {}
    <3>1. SUFFICES ASSUME NEW p \in recording PROVE FALSE
      OBVIOUS
    <3>2. SeenAfter(Len(events), p) /\ ~ShownAs(p)
      BY <2>1 DEF Story, Recorded, ShownAs
    <3>3. PICK k \in 1..Len(events) : events[k] = Msg("start", p)
      BY <3>2 DEF SeenAfter
    <3>. QED  BY <2>1, <3>3, AwaitsKind, MsgIs
  <2>3. Alone'
    BY <2>1, <2>2 DEF Alone
  <2>4. Looks'
    BY <2>1 DEF Story, Looks, Shows
  <2>5. \A p \in file : ShownAs(p) => ShownAs(p)'
    BY <2>1 DEF ShownAs
  <2>. QED  BY <1>0, <2>1, <2>3, <2>4, <2>5, QuietStory DEF Closed
<1>4. ASSUME NEW q \in Path, StartFails(q)
      PROVE  Story'
  BY <1>4 DEF StartFails, Story, Answered
<1>5. ASSUME NEW q \in Path, Verify(q)
      PROVE  Story'
  <2>1. /\ UNCHANGED <<live, recording, opening, file, linked, events, deaf, stop, row, closes>>
        /\ cmd[q] = "verify" /\ cmd'[q] = "done"
        /\ \A p \in Path : p # q => cmd'[p] = cmd[p]
        /\ \/ entry' = entry /\ ~Shows("STARTING")
           \/ Shows("STARTING") /\ Set("ACTIVE", q, TRUE)
    BY <1>5 DEF Verify, SetActive, TypeOK, shown, history
  <2>2. Shows("STARTING") => entry.path = q
    BY <1>0, <2>1 DEF Story, Looks, OneRequest, Pending, Asked
  <2>3. entry'.known = entry.known
    BY <2>1, SetKnown
  <2>4. Alone'
    <3>1. \A p \in Path : cmd'[p] \in {"asked", "sent"} => cmd[p] = cmd'[p]
      BY <2>1
    <3>. QED  BY <2>1, <3>1 DEF Story, Alone
  <2>5. Looks' /\ \A p \in file : ShownAs(p) => ShownAs(p)'
    <3>1. CASE entry' = entry /\ ~Shows("STARTING")
      BY <2>1, <3>1 DEF Story, Looks, Shows, ShownAs
    <3>2. CASE Shows("STARTING") /\ Set("ACTIVE", q, TRUE)
      BY <2>1, <2>2, <3>2 DEF Looks, Shows, ShownAs, Set
    <3>. QED  BY <2>1, <3>1, <3>2
  <2>. QED  BY <1>0, <2>1, <2>3, <2>4, <2>5, QuietStory DEF Closed
<1>. QED  BY <1>1, <1>2, <1>3, <1>4, <1>5 DEF Operator

LEMMA AroundStory ==
  ASSUME TypeOK, News, Story, Usual, Usual', Around
  PROVE  Story'
<1>. USE DEF fs, link, history, asks
<1>0. Asked /\ file \subseteq Path /\ ~Fault
  BY DEF News, Usual, Fault, TypeOK
<1>1. ASSUME UNCHANGED <<live, recording, opening, file, linked, events, deaf, entry, cmd, stop>>,
             \A p \in file : /\ row[p] # "none" => row'[p] # "none"
                             /\ Closed(p) => Closed(p)'
      PROVE  Story'
  <2>1. Alone' /\ Looks'
    BY <1>1 DEF Story, Alone, Looks, Shows
  <2>2. \A p \in file : ShownAs(p) => ShownAs(p)'
    BY <1>1 DEF ShownAs
  <2>. QED  BY <1>0, <1>1, <2>1, <2>2, QuietStory
<1>2. ASSUME NEW q \in Path, CloseRow(q)
      PROVE  Story'
  <2>1. /\ UNCHANGED <<live, recording, opening, file, linked, events, deaf, entry, cmd, stop>>
        /\ closes' = closes \ {q}
        /\ row'[q] = IF row[q] = "RECORDING" THEN "COMPLETED" ELSE row[q]
        /\ \A p \in Path : /\ p # q => row'[p] = row[p]
                           /\ row[p] \in {"none", "RECORDING", "COMPLETED"}
    BY <1>2 DEF CloseRow, TypeOK, shown
  <2>2. \A p \in file : /\ row[p] # "none" => row'[p] # "none"
                        /\ Closed(p) => Closed(p)'
    BY <1>0, <2>1 DEF Closed
  <2>. QED  BY <1>1, <2>1, <2>2
<1>3. ASSUME NEW q \in Path, Scan(q)
      PROVE  Story'
  <2>1. /\ UNCHANGED <<live, recording, opening, file, linked, events, deaf, entry, cmd, stop,
                       closes>>
        /\ row'[q] = "COMPLETED" /\ \A p \in Path : p # q => row'[p] = row[p]
    BY <1>3 DEF Scan, TypeOK, shown
  <2>2. \A p \in file : /\ row[p] # "none" => row'[p] # "none"
                        /\ Closed(p) => Closed(p)'
    BY <1>0, <2>1 DEF Closed
  <2>. QED  BY <1>1, <2>1, <2>2
<1>4. CASE TimerFires
  <2>1. /\ UNCHANGED <<live, recording, opening, file, linked, events, deaf, cmd, stop,
                       closes, row>>
        /\ \/ ~Shows("STARTING") /\ entry' = entry
           \/ Shows("STARTING") /\ Set("FAILED", entry.path, FALSE)
        /\ \A p \in file : cmd[p] # "verify"
    BY <1>4 DEF TimerFires, Usual
  <2>2. entry'.known = entry.known
    BY <2>1, SetKnown
  <2>3. Alone'
    BY <2>1 DEF Story, Alone
  <2>4. Looks' /\ \A p \in file : ShownAs(p) => ShownAs(p)'
    <3>1. CASE ~Shows("STARTING") /\ entry' = entry
      BY <2>1, <3>1 DEF Story, Looks, Shows, ShownAs
    <3>2. CASE Shows("STARTING") /\ Set("FAILED", entry.path, FALSE)
      <4>1. Looks'
        BY <3>2 DEF Looks, Shows, Set
      <4>2. \A p \in file : ~ShownAs(p)
        BY <2>1, <3>2 DEF Story, Looks, Shows, ShownAs
      <4>. QED  BY <4>1, <4>2
    <3>. QED  BY <2>1, <3>1, <3>2
  <2>. QED  BY <1>0, <2>1, <2>2, <2>3, <2>4, QuietStory DEF Closed
<1>5. CASE Seed
  <2>1. entry.known # live /\ ~Awaits("create") /\ ~Awaits("destroy")
    BY <1>0, <1>5 DEF Seed
  <2>2. \A j \in 1..Len(events) : events[j].kind # "create" /\ events[j].kind # "destroy"
    BY <2>1, AwaitsKind
  <2>3. KnownAfter(Len(events)) <=> entry.known
    BY <2>2 DEF KnownAfter
  <2>4. live \in BOOLEAN /\ entry.known \in BOOLEAN
    BY EntryFields DEF TypeOK
  <2>. QED  BY <2>1, <2>3, <2>4 DEF Story, Lives
<1>6. CASE LinkDown \/ LinkUp \/ Restart
  BY <1>0, <1>6 DEF LinkDown, LinkUp, Restart, Story, Answered
<1>. QED  BY <1>2, <1>3, <1>4, <1>5, <1>6 DEF Around, Table

LEMMA UsualStays ==
  ASSUME TypeOK, Next, Usual'
  PROVE  Usual
<1>. USE DEF history
<1>1. ~Fault
  BY DEF Fault, Usual, TypeOK
<1>2. SUFFICES UNCHANGED faults /\ (overlap => overlap')
  BY DEF Usual
<1>3. ASSUME NEW q \in Path, FsAccepts(q) \/ FsOpens(q) \/ FsCannotOpen(q)
      PROVE  UNCHANGED <<faults, overlap>>
  BY <1>1, <1>3 DEF FsAccepts, FsOpens, FsCannotOpen
<1>4. CASE Freeswitch
  BY <1>3, <1>4 DEF Freeswitch, ConferenceStarts, ConferenceEnds, FsStops
<1>5. ASSUME NEW q \in Path, StartFails(q) \/ Verify(q)
      PROVE  UNCHANGED <<faults, overlap>>
  BY <1>5 DEF StartFails, Verify
<1>6. ASSUME NEW q \in Path, RequestStart(q)
      PROVE  UNCHANGED faults /\ (overlap => overlap')
  BY <1>1, <1>6 DEF RequestStart, Overlap
<1>7. CASE RequestStop
  BY <1>1, <1>7 DEF RequestStop, Overlap
<1>8. CASE StopFails
  BY <1>8 DEF StopFails
<1>9. CASE Operator
  BY <1>5, <1>6, <1>7, <1>8, <1>9 DEF Operator
<1>10. CASE HandleCreate
  <2>1. \/ UNCHANGED <<faults, overlap>>
        \/ Overlap(recording # {} \/ opening # {} \/ \E q \in Path : cmd[q] \in {"asked", "sent"})
    BY <1>10 DEF HandleCreate
  <2>2. ASSUME NEW odd, Overlap(odd)
        PROVE  UNCHANGED faults /\ (overlap => overlap')
    <3>1. odd => Fault
      BY <2>2 DEF Overlap
    <3>2. ~odd => UNCHANGED faults
      BY <2>2 DEF Overlap
    <3>3. overlap => overlap'
      BY <2>2 DEF Overlap
    <3>. QED  BY <1>1, <3>1, <3>2, <3>3
  <2>. QED  BY <2>1, <2>2
<1>11. CASE HandleDestroy \/ HandleStart \/ HandleStop
  <2>1. HandleDestroy => UNCHANGED <<faults, overlap>>
    BY DEF HandleDestroy
  <2>2. HandleStart => UNCHANGED <<faults, overlap>>
    BY DEF HandleStart
  <2>3. HandleStop => UNCHANGED <<faults, overlap>>
    BY DEF HandleStop
  <2>. QED  BY <1>11, <2>1, <2>2, <2>3
<1>12. CASE HandleStarted \/ HandleStopped
  BY <1>12 DEF HandleStarted, HandleStopped
<1>13. CASE Handle
  BY <1>10, <1>11, <1>12, <1>13 DEF Handle
<1>14. CASE Table
  BY <1>14 DEF Table, CloseRow, Scan
<1>15. CASE TimerFires
  BY <1>15 DEF TimerFires
<1>16. CASE Seed
  BY <1>1, <1>16 DEF Seed
<1>17. CASE LinkDown \/ LinkUp \/ Restart
  BY <1>1, <1>17 DEF LinkDown, LinkUp, Restart
<1>. QED  BY <1>4, <1>9, <1>13, <1>14, <1>15, <1>16, <1>17, NextCases DEF Around

LEMMA StoryHolds == Spec => []StoryInv
<1>1. Init => StoryInv
  <2>. SUFFICES ASSUME Init PROVE Story
    BY DEF StoryInv
  <2>1. /\ live = FALSE /\ recording = {} /\ file = {} /\ opening = {} /\ events = <<>>
        /\ entry = Unknown /\ linked = TRUE /\ deaf = FALSE /\ stop = NoStop
        /\ \A p \in Path : cmd[p] = "new"
    BY DEF Init
  <2>2. ~KnownAfter(0)
    <3>1. \A k : k \notin 1..0
      OBVIOUS
    <3>. QED  BY <2>1, <3>1 DEF KnownAfter, Unknown
  <2>3. Len(events) = 0
    BY <2>1
  <2>4. Answered
    BY <2>1 DEF Answered, NoStop
  <2>5. Alone /\ Recorded /\ Ended
    BY <2>1 DEF Alone, Recorded, Ended
  <2>6. Looks
    BY <2>1 DEF Looks, Shows, Unknown
  <2>7. Lives
    BY <2>1, <2>2, <2>3 DEF Lives
  <2>. QED  BY <2>4, <2>5, <2>6, <2>7 DEF Story
<1>2. TypeOK /\ TypeOK' /\ News /\ StoryInv /\ [Next]_vars => StoryInv'
  <2>1. ASSUME TypeOK, Asked, StoryInv, UNCHANGED vars
        PROVE  StoryInv'
    <3>1. SUFFICES ASSUME Story PROVE Story'
      BY <2>1 DEF StoryInv, Usual, vars, history
    <3>2. UNCHANGED <<live, recording, opening, file, linked, events, deaf, entry, cmd, stop,
                      row, closes>>
      BY <2>1 DEF vars, fs, link, shown, asks, history
    <3>3. Alone' /\ Looks'
      BY <3>1, <3>2 DEF Story, Alone, Looks, Shows
    <3>4. \A p \in file : /\ ShownAs(p) => ShownAs(p)'
                          /\ Closed(p) => Closed(p)'
      BY <3>2 DEF ShownAs, Closed
    <3>. QED  BY <2>1, <3>1, <3>2, <3>3, <3>4, QuietStory
  <2>2. ASSUME TypeOK, TypeOK', News, StoryInv, Next
        PROVE  StoryInv'
    <3>1. SUFFICES ASSUME Usual' PROVE Story'
      BY DEF StoryInv
    <3>2. Usual /\ Story
      BY <2>2, <3>1, UsualStays DEF StoryInv
    <3>. QED  BY <2>2, <3>1, <3>2, NextCases, FreeswitchStory, OperatorStory, HandleStory,
                 AroundStory
  <2>. QED  BY <2>1, <2>2 DEF News
<1>. QED  BY <1>1, <1>2, TypeCorrect, NewsHolds, PTL DEF Spec

\* What is being written is shown, so that it can be stopped and no second
\* recording is started beside it (monitoringController.js:174-185).
THEOREM WritingIsShown == Spec => []RecordedIsShown
<1>1. TypeOK /\ StoryInv => RecordedIsShown
  <2>. SUFFICES ASSUME TypeOK, Story, NEW p \in recording, ~Sent("start", p)
                PROVE  entry.path = p /\ entry.state \in {"STARTING", "ACTIVE", "STOPPING"}
    BY DEF RecordedIsShown, StoryInv
  <2>1. SeenAfter(Len(events), p)
    BY DEF Story, Recorded
  <2>2. \A k \in 1..Len(events) : events[k] # Msg("start", p)
    <3>1. events \in Seq(Event)
      BY DEF TypeOK
    <3>. QED  BY <3>1 DEF Sent, Range
  <2>. QED  BY <2>1, <2>2 DEF SeenAfter, ShownAs
<1>. QED  BY <1>1, StoryHolds, TypeCorrect, PTL

\* The row of a file that is complete is closed or about to be, also when only
\* conference-destroy tells the backend (eslService.js:692-705).
THEOREM EndedIsTold == Spec => []EndedIsClosed
<1>1. TypeOK /\ StoryInv => EndedIsClosed
  <2>. SUFFICES ASSUME TypeOK, Story, NEW p \in file \ recording
                PROVE  \/ row[p] = "COMPLETED" \/ p \in closes
                       \/ Sent("stop", p) \/ Awaits("destroy")
    BY DEF EndedIsClosed, StoryInv
  <2>1. Dropped(p) \/ Stopped(p) \/ Closed(p)
    BY DEF Story, Ended
  <2>2. CASE Dropped(p)
    BY <2>2, AwaitsKind DEF Dropped
  <2>3. CASE Stopped(p)
    <3>1. events \in Seq(Event)
      BY DEF TypeOK
    <3>. QED  BY <2>3, <3>1 DEF Stopped, Sent, Range
  <2>. QED  BY <2>1, <2>2, <2>3 DEF Closed
<1>. QED  BY <1>1, StoryHolds, TypeCorrect, PTL
=============================================================================
