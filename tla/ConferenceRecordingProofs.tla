---------------------- MODULE ConferenceRecordingProofs ----------------------
(***************************************************************************)
(* Theorems about ConferenceRecording, for any file names, faults and       *)
(* length of the connection's queue.                                        *)
(***************************************************************************)
EXTENDS ConferenceRecording, FiniteSetTheorems, TLAPS

----------------------------------------------------------------------------
(* Messages.                                                               *)

\* The library's SetToSeq lists a finite set.
LEMMA SetToSeqType ==
  ASSUME NEW S \in SUBSET Path
  PROVE  SetToSeq(S) \in Seq(S)
<1>1. IsFiniteSet(S)
  BY RecordingConstantsOK, FS_Subset DEF RecordingConstantsOK
<1>2. Cardinality(S) \in Nat /\ ExistsBijection(1..Cardinality(S), S)
  BY <1>1, FS_CardinalityType
<1>3. PICK f \in Bijection(1..Cardinality(S), S) : TRUE
  BY <1>2 DEF ExistsBijection
<1>4. f \in [1..Cardinality(S) -> S] /\ IsInjective(f)
  BY <1>3 DEF Bijection, Injection, IsInjective
<1>5. SetToSeq(S) \in [1..Cardinality(S) -> S]
  BY <1>4 DEF SetToSeq
<1>. QED  BY <1>2, <1>5

LEMMA MsgType ==
  /\ \A p \in Path : \A k \in {"start", "stop", "+OK", "-ERR"} : Msg(k, p) \in Event
  /\ \A k \in {"create", "destroy", "stopped", "nopath"} : Msg(k, None) \in Event
BY DEF Msg, Event

LEMMA MsgSeq ==
  /\ <<Msg("create", None)>> \in Seq(Event)
  /\ \A p \in Path : /\ <<Msg("+OK", p)>> \in Seq(Event)
                     /\ <<Msg("-ERR", p)>> \in Seq(Event)
                     /\ <<Msg("start", p)>> \in Seq(Event)
                     /\ <<Msg("start", p), Msg("+OK", p)>> \in Seq(Event)
<1>1. \A e, f \in Event : <<e>> \in Seq(Event) /\ <<e, f>> \in Seq(Event)
  OBVIOUS
<1>2. Msg("create", None) \in Event
  BY MsgType
<1>3. \A p \in Path : Msg("+OK", p) \in Event /\ Msg("-ERR", p) \in Event /\ Msg("start", p) \in Event
  BY MsgType
<1>. QED  BY <1>1, <1>2, <1>3

LEMMA ReportsType ==
  ASSUME NEW S \in SUBSET Path, NEW e \in Event, NEW es \in Reports(S, e)
  PROVE  es \in Seq(Event)
<1>. DEFINE list == SetToSeq(S)
<1>1. list \in Seq(S)
  BY SetToSeqType
<1>2. \A i \in DOMAIN list : Msg("stop", list[i]) \in Event
  <2>. HIDE DEF list
  <2>1. \A i \in DOMAIN list : list[i] \in Path
    BY <1>1
  <2>. QED  BY <2>1, MsgType
<1>3. StopEvents(S) \in Seq(Event)
  <2>1. StopEvents(S) = [i \in DOMAIN list |-> Msg("stop", list[i])]
    BY DEF StopEvents
  <2>2. DOMAIN list = 1..Len(list) /\ Len(list) \in Nat
    BY <1>1
  <2>. HIDE DEF list
  <2>3. [i \in DOMAIN list |-> Msg("stop", list[i])] \in [1..Len(list) -> Event]
    BY <1>2, <2>2
  <2>. QED  BY <2>1, <2>2, <2>3
<1>4. es = StopEvents(S) \o <<e>> \/ es = <<e>> \o StopEvents(S)
  BY DEF Reports
<1>5. <<e>> \in Seq(Event)
  OBVIOUS
<1>6. \A s, t \in Seq(Event) : s \o t \in Seq(Event)
  OBVIOUS
<1>. QED  BY <1>3, <1>4, <1>5, <1>6

LEMMA EmitType ==
  ASSUME TypeOK, NEW es \in Seq(Event), Emit(es)
  PROVE  events' \in Seq(Event) /\ deaf' \in BOOLEAN
BY DEF Emit, TypeOK

LEMMA TakeType ==
  ASSUME TypeOK, NEW k, Take(k)
  PROVE  /\ events' \in Seq(Event)
         /\ At \in Path \cup {None}
         /\ Head(events).kind \in {"start", "stop", "+OK", "-ERR"} => At \in Path
<1>1. Head(events) \in Event /\ Tail(events) \in Seq(Event)
  BY DEF TypeOK, Take
<1>. QED  BY <1>1 DEF Take, At, Event

LEMMA FaultType == TypeOK /\ Fault => faults' \in 0..FaultBound
BY RecordingConstantsOK DEF RecordingConstantsOK, TypeOK, Fault

LEMMA OverlapType ==
  ASSUME TypeOK, NEW odd, Overlap(odd)
  PROVE  faults' \in 0..FaultBound /\ overlap' \in BOOLEAN
<1>1. faults' \in 0..FaultBound
  BY FaultType DEF Overlap, TypeOK
<1>2. overlap' = (overlap \/ odd)
  BY DEF Overlap
<1>3. (overlap \/ odd) \in BOOLEAN
  OBVIOUS
<1>. QED  BY <1>1, <1>2, <1>3

\* The state that is shown.
States == {"OFF", "STARTING", "ACTIVE", "STOPPING", "FAILED"}

LEMMA EntryFields ==
  ASSUME TypeOK
  PROVE  /\ entry.path \in Path \cup {None} /\ entry.on \in BOOLEAN
         /\ entry.known \in BOOLEAN
BY DEF TypeOK, Entry

LEMMA FreshType == Unknown \in Entry /\ Fresh \in Entry
BY DEF Entry, Unknown, Fresh

LEMMA SetType ==
  ASSUME TypeOK, NEW s \in States, NEW p \in Path \cup {None}, NEW b \in BOOLEAN,
         Set(s, p, b)
  PROVE  entry' \in Entry
<1>1. [known |-> TRUE, state |-> s, path |-> p, on |-> b] \in Entry
  BY DEF Entry, States
<1>2. entry \in Entry
  BY DEF TypeOK
<1>. QED  BY <1>1, <1>2 DEF Set

\* The calls of setRecordingState keep the types of what is shown.
LEMMA ShownType ==
  ASSUME TypeOK
  PROVE  /\ \A p \in Path : SetStarting(p) => entry' \in Entry /\ timer' \in BOOLEAN
         /\ \A p \in Path \cup {None} : SetActive(p) => entry' \in Entry /\ timer' \in BOOLEAN
         /\ SetError => entry' \in Entry /\ timer' \in BOOLEAN
         /\ SetOff => entry' \in Entry /\ timer' \in BOOLEAN
<1>. timer \in BOOLEAN /\ entry.known \in BOOLEAN /\ entry.path \in Path \cup {None}
  BY EntryFields DEF TypeOK
<1>1. ASSUME NEW p \in Path, SetStarting(p) PROVE entry' \in Entry /\ timer' \in BOOLEAN
  BY <1>1, SetType DEF SetStarting, States
<1>2. ASSUME NEW p \in Path \cup {None}, SetActive(p)
      PROVE  entry' \in Entry /\ timer' \in BOOLEAN
  BY <1>2, SetType DEF SetActive, States
<1>3. ASSUME SetError PROVE entry' \in Entry /\ timer' \in BOOLEAN
  BY <1>3, SetType DEF SetError, States
<1>4. ASSUME SetOff PROVE entry' \in Entry /\ timer' \in BOOLEAN
  BY <1>4, SetType DEF SetOff, States
<1>. QED  BY <1>1, <1>2, <1>3, <1>4

----------------------------------------------------------------------------
(* Every variable has its type.                                            *)

LEMMA TypeInit == Init => TypeOK
<1>. SUFFICES ASSUME Init PROVE TypeOK
  OBVIOUS
<1>1. /\ live \in BOOLEAN /\ linked \in BOOLEAN /\ timer \in BOOLEAN
      /\ deaf \in BOOLEAN /\ overlap \in BOOLEAN
      /\ opening \subseteq Path /\ recording \subseteq Path /\ file \subseteq Path
      /\ auto \subseteq Path /\ closes \subseteq Path
  BY DEF Init
<1>4. faults \in 0..FaultBound /\ events \in Seq(Event)
  <2>1. 0 \in 0..FaultBound
    BY RecordingConstantsOK DEF RecordingConstantsOK
  <2>2. <<>> \in Seq(Event)
    OBVIOUS
  <2>. QED  BY <2>1, <2>2 DEF Init
<1>2. entry \in Entry
  BY FreshType DEF Init
<1>3. /\ cmd \in [Path -> {"new", "asked", "sent", "verify", "done"}]
      /\ row \in [Path -> {"none", "RECORDING", "COMPLETED"}]
      /\ stop \in [st: {"no", "asked", "sent"}, path: Path \cup {None}]
  BY DEF Init, NoStop
<1>. QED  BY <1>1, <1>2, <1>3, <1>4 DEF TypeOK

LEMMA TypeFreeswitch == TypeOK /\ Freeswitch => TypeOK'
<1>. SUFFICES ASSUME TypeOK, Freeswitch PROVE TypeOK'
  OBVIOUS
<1>1. CASE ConferenceStarts
  <2>2. events' \in Seq(Event) /\ deaf' \in BOOLEAN
    BY <1>1, MsgSeq, EmitType DEF ConferenceStarts
  <2>. QED  BY <1>1, <2>2 DEF ConferenceStarts, TypeOK, shown, asks
<1>2. CASE ConferenceEnds
  <2>1. PICK S \in {recording, {}} : \E es \in Reports(S, Msg("destroy", None)) : Emit(es)
    BY <1>2 DEF ConferenceEnds
  <2>2. S \in SUBSET Path
    BY <2>1 DEF TypeOK
  <2>3. events' \in Seq(Event) /\ deaf' \in BOOLEAN
    BY <2>1, <2>2, MsgType, ReportsType, EmitType
  <2>. QED  BY <1>2, <2>3 DEF ConferenceEnds, TypeOK, shown, asks
<1>3. CASE FsStops
  <2>1. PICK S \in SUBSET Path :
          \E k \in {"stopped", "nopath"} :
            /\ \E es \in Reports(S, Msg(k, None)) : Emit(es)
            /\ recording' \subseteq recording /\ opening' \subseteq opening
    <3>. DEFINE named  == IF stop.path = None THEN Path ELSE {stop.path}
                ended  == named \cap (recording \cup opening)
                answer == IF ended # {} \/ stop.path = None THEN "stopped"
                          ELSE "nopath"
    <3>1. /\ recording' = recording \ ended /\ opening' = opening \ ended
          /\ \E es \in Reports(ended \cap recording, Msg(answer, None)) : Emit(es)
      BY <1>3 DEF FsStops
    <3>2. answer \in {"stopped", "nopath"}
      OBVIOUS
    <3>. HIDE DEF answer, ended
    <3>3. ended \cap recording \in SUBSET Path
      BY DEF TypeOK
    <3>. QED  BY <3>1, <3>2, <3>3
  <2>2. events' \in Seq(Event) /\ deaf' \in BOOLEAN
    BY <2>1, MsgType, ReportsType, EmitType
  <2>3. stop' \in [st: {"no", "asked", "sent"}, path: Path \cup {None}]
    BY <1>3 DEF FsStops, TypeOK
  <2>. QED  BY <1>3, <2>1, <2>2, <2>3 DEF FsStops, TypeOK, shown
<1>4. ASSUME NEW p \in Path, FsAccepts(p) PROVE TypeOK'
  <2>1. Emit(<<Msg("+OK", p)>>) \/ Emit(<<Msg("-ERR", p)>>)
    BY <1>4 DEF FsAccepts
  <2>2. events' \in Seq(Event) /\ deaf' \in BOOLEAN
    BY <2>1, MsgSeq, EmitType
  <2>. QED  BY <1>4, <2>2 DEF FsAccepts, TypeOK, shown
<1>5. ASSUME NEW p \in Path, FsOpens(p) PROVE TypeOK'
  <2>2. events' \in Seq(Event) /\ deaf' \in BOOLEAN
    BY <1>5, MsgSeq, EmitType DEF FsOpens
  <2>. QED  BY <1>5, <2>2 DEF FsOpens, TypeOK, shown
<1>6. ASSUME NEW p \in Path, FsCannotOpen(p) PROVE TypeOK'
  BY <1>6, FaultType DEF FsCannotOpen, TypeOK, link, shown, asks
<1>. QED  BY <1>1, <1>2, <1>3, <1>4, <1>5, <1>6 DEF Freeswitch

LEMMA TypeOperator == TypeOK /\ Operator => TypeOK'
<1>. SUFFICES ASSUME TypeOK, Operator PROVE TypeOK'
  OBVIOUS
<1>1. CASE RequestStop
  <2>1. entry' \in Entry
    BY <1>1, SetType, EntryFields DEF RequestStop, States
  <2>2. faults' \in 0..FaultBound /\ overlap' \in BOOLEAN
    BY <1>1, OverlapType DEF RequestStop
  <2>3. stop' \in [st: {"no", "asked", "sent"}, path: Path \cup {None}]
    BY <1>1, EntryFields DEF RequestStop
  <2>. QED  BY <1>1, <2>1, <2>2, <2>3 DEF RequestStop, TypeOK, fs, link
<1>2. CASE StopFails
  <2>1. entry' \in Entry /\ timer' \in BOOLEAN
    BY <1>2, ShownType DEF StopFails, shown, TypeOK
  <2>. QED  BY <1>2, <2>1 DEF StopFails, TypeOK, NoStop, fs, link, history
<1>3. ASSUME NEW p \in Path, RequestStart(p) PROVE TypeOK'
  <2>1. faults' \in 0..FaultBound /\ overlap' \in BOOLEAN
    BY <1>3, OverlapType DEF RequestStart
  <2>. QED  BY <1>3, <2>1 DEF RequestStart, TypeOK, fs, link, shown
<1>4. ASSUME NEW p \in Path, StartFails(p) PROVE TypeOK'
  <2>1. entry' \in Entry /\ timer' \in BOOLEAN
    BY <1>4, ShownType DEF StartFails, shown, TypeOK
  <2>. QED  BY <1>4, <2>1 DEF StartFails, TypeOK, fs, link, history
<1>5. ASSUME NEW p \in Path, Verify(p) PROVE TypeOK'
  <2>1. entry' \in Entry /\ timer' \in BOOLEAN
    BY <1>5, ShownType DEF Verify, shown, TypeOK
  <2>. QED  BY <1>5, <2>1 DEF Verify, TypeOK, fs, link, history
<1>. QED  BY <1>1, <1>2, <1>3, <1>4, <1>5 DEF Operator

LEMMA TypeHandle == TypeOK /\ Handle => TypeOK'
<1>. SUFFICES ASSUME TypeOK, Handle PROVE TypeOK'
  OBVIOUS
<1>1. CASE HandleCreate
  <2>1. events' \in Seq(Event)
    BY <1>1, TakeType DEF HandleCreate
  <2>2. entry' \in Entry
    BY <1>1, FreshType DEF HandleCreate, TypeOK
  <2>3. \/ UNCHANGED <<cmd, auto, faults, overlap>>
        \/ \E p \in Path :
             /\ cmd' = [cmd EXCEPT ![p] = "asked"] /\ auto' = auto \cup {p}
             /\ faults' \in 0..FaultBound /\ overlap' \in BOOLEAN
    BY <1>1, OverlapType DEF HandleCreate
  <2>. QED  BY <1>1, <2>1, <2>2, <2>3 DEF HandleCreate, TypeOK, fs
<1>2. CASE HandleDestroy
  <2>1. events' \in Seq(Event)
    BY <1>2, TakeType DEF HandleDestroy
  <2>2. entry' \in Entry /\ closes' \subseteq Path
    BY <1>2, FreshType, EntryFields DEF HandleDestroy, Unclosed, TypeOK
  <2>. QED  BY <1>2, <2>1, <2>2 DEF HandleDestroy, TypeOK, fs, asks, history
<1>3. CASE HandleStart
  <2>1. events' \in Seq(Event) /\ At \in Path
    BY <1>3, TakeType DEF HandleStart, Take
  <2>2. entry' \in Entry /\ timer' \in BOOLEAN
    BY <1>3, <2>1, ShownType DEF HandleStart
  <2>3. row' \in [Path -> {"none", "RECORDING", "COMPLETED"}]
    BY <1>3, <2>1 DEF HandleStart, Registered, TypeOK
  <2>. QED  BY <1>3, <2>1, <2>2, <2>3 DEF HandleStart, TypeOK, fs, asks, history
<1>4. CASE HandleStop
  <2>1. events' \in Seq(Event) /\ At \in Path
    BY <1>4, TakeType DEF HandleStop, Take
  <2>2. entry' \in Entry
    BY <1>4, SetType, EntryFields DEF HandleStop, States
  <2>. QED  BY <1>4, <2>1, <2>2 DEF HandleStop, TypeOK, fs, asks, history
<1>5. CASE HandleStarted
  <2>1. events' \in Seq(Event) /\ At \in Path
    BY <1>5, TakeType DEF HandleStarted, Take
  <2>2. entry' \in Entry /\ timer' \in BOOLEAN
    BY <1>5, <2>1, ShownType DEF HandleStarted, shown, TypeOK
  <2>3. row' \in [Path -> {"none", "RECORDING", "COMPLETED"}]
    BY <1>5, <2>1 DEF HandleStarted, Registered, TypeOK
  <2>4. cmd' \in [Path -> {"new", "asked", "sent", "verify", "done"}]
    BY <1>5, <2>1 DEF HandleStarted, TypeOK
  <2>. QED  BY <1>5, <2>1, <2>2, <2>3, <2>4 DEF HandleStarted, TypeOK, fs, history
<1>6. CASE HandleStopped
  <2>1. events' \in Seq(Event)
    BY <1>6, TakeType DEF HandleStopped
  <2>2. entry' \in Entry /\ timer' \in BOOLEAN
    BY <1>6, ShownType DEF HandleStopped, shown, TypeOK
  <2>3. stop' \in [st: {"no", "asked", "sent"}, path: Path \cup {None}]
    <3>1. stop' = NoStop \/ stop' = [st |-> "asked", path |-> None]
      BY <1>6 DEF HandleStopped
    <3>. QED  BY <3>1 DEF NoStop
  <2>. QED  BY <1>6, <2>1, <2>2, <2>3 DEF HandleStopped, TypeOK, fs, history
<1>. QED  BY <1>1, <1>2, <1>3, <1>4, <1>5, <1>6 DEF Handle

\* The table, the timer, the reseed, the connection and the process.
Around == Table \/ TimerFires \/ Seed \/ LinkDown \/ LinkUp \/ Restart

LEMMA TypeAround == TypeOK /\ Around => TypeOK'
<1>. SUFFICES ASSUME TypeOK, Around PROVE TypeOK'
  OBVIOUS
<1>1. ASSUME NEW p \in Path, CloseRow(p) PROVE TypeOK'
  BY <1>1 DEF CloseRow, TypeOK, fs, link, shown, asks, history
<1>2. ASSUME NEW p \in Path, Scan(p) PROVE TypeOK'
  BY <1>2 DEF Scan, TypeOK, fs, link, shown, asks, history
<1>3. CASE TimerFires
  <2>1. entry' \in Entry
    BY <1>3, SetType, EntryFields DEF TimerFires, States, TypeOK
  <2>2. overlap' \in BOOLEAN
    BY <1>3 DEF TimerFires
  <2>. QED  BY <1>3, <2>1, <2>2 DEF TimerFires, TypeOK, fs, link, asks
<1>4. CASE Seed
  <2>1. entry' \in Entry
    BY <1>4, FreshType DEF Seed
  <2>2. faults' \in 0..FaultBound
    BY <1>4, FaultType DEF Seed, TypeOK
  <2>. QED  BY <1>4, <2>1, <2>2 DEF Seed, TypeOK, fs, link, asks
<1>5. CASE LinkDown
  <2>1. faults' \in 0..FaultBound
    BY <1>5, FaultType DEF LinkDown
  <2>2. events' \in Seq(Event) /\ deaf' \in BOOLEAN
    BY <1>5 DEF LinkDown, TypeOK
  <2>. QED  BY <1>5, <2>1, <2>2 DEF LinkDown, TypeOK, fs, shown, asks
<1>6. CASE LinkUp
  BY <1>6 DEF LinkUp, TypeOK, fs, shown, asks, history
<1>7. CASE Restart
  <2>1. faults' \in 0..FaultBound
    BY <1>7, FaultType DEF Restart
  <2>2. events' \in Seq(Event)
    BY <1>7 DEF Restart
  <2>3. entry' \in Entry /\ stop' \in [st: {"no", "asked", "sent"}, path: Path \cup {None}]
    BY <1>7, FreshType DEF Restart, NoStop
  <2>. QED  BY <1>7, <2>1, <2>2, <2>3 DEF Restart, TypeOK, fs
<1>. QED  BY <1>1, <1>2, <1>3, <1>4, <1>5, <1>6, <1>7 DEF Around, Table

LEMMA NextCases == Next <=> Freeswitch \/ Operator \/ Handle \/ Around
BY DEF Next, Around

\* Every variable has its type, in every state of the system.
THEOREM TypeCorrect == Spec => []TypeOK
<1>1. Init => TypeOK
  BY TypeInit
<1>2. TypeOK /\ [Next]_vars => TypeOK'
  <2>1. TypeOK /\ UNCHANGED vars => TypeOK'
    BY DEF TypeOK, vars, fs, link, shown, asks, history
  <2>. QED  BY <2>1, NextCases, TypeFreeswitch, TypeOperator, TypeHandle, TypeAround
<1>. QED  BY <1>1, <1>2, PTL DEF Spec

----------------------------------------------------------------------------
(* STARTING has its timer.                                                 *)

\* Whatever sets the state to STARTING starts the timer, and whatever clears the
\* timer leaves another state.
LEMMA SetKeepsTimer ==
  ASSUME TypeOK, StartHasTimer
  PROVE  /\ \A p : SetStarting(p) => StartHasTimer'
         /\ \A p : SetActive(p) => StartHasTimer'
         /\ SetError => StartHasTimer'
         /\ SetOff => StartHasTimer'
         /\ \A s \in States \ {"STARTING"} : \A p, b :
              Set(s, p, b) /\ UNCHANGED timer => StartHasTimer'
         /\ UNCHANGED shown => StartHasTimer'
BY DEF StartHasTimer, Shows, Set, SetStarting, SetActive, SetError, SetOff, States,
       shown, TypeOK, Entry

\* While the dashboard shows "Starting" the timer runs that will end it
\* (eslService.js:116-185), with any order of events, replies, faults and restarts.
THEOREM StartTimed == Spec => []StartHasTimer
<1>1. Init => StartHasTimer
  BY DEF Init, StartHasTimer, Shows, Unknown
<1>2. TypeOK /\ StartHasTimer /\ [Next]_vars => StartHasTimer'
  <2>. SUFFICES ASSUME TypeOK, StartHasTimer, [Next]_vars PROVE StartHasTimer'
    OBVIOUS
  <2>1. CASE Freeswitch
    BY <2>1, SetKeepsTimer
       DEF Freeswitch, ConferenceStarts, ConferenceEnds, FsStops, FsAccepts, FsOpens, FsCannotOpen
  <2>2. CASE Operator
    <3>1. CASE RequestStop
      BY <3>1, SetKeepsTimer DEF RequestStop, States
    <3>2. CASE StopFails
      BY <3>2, SetKeepsTimer DEF StopFails
    <3>3. CASE \E p \in Path : RequestStart(p)
      BY <3>3, SetKeepsTimer DEF RequestStart
    <3>4. CASE \E p \in Path : StartFails(p)
      BY <3>4, SetKeepsTimer DEF StartFails
    <3>5. CASE \E p \in Path : Verify(p)
      BY <3>5, SetKeepsTimer DEF Verify
    <3>. QED  BY <2>2, <3>1, <3>2, <3>3, <3>4, <3>5 DEF Operator
  <2>3. CASE Handle
    <3>1. CASE HandleCreate
      BY <3>1 DEF HandleCreate, StartHasTimer, Shows, Fresh
    <3>2. CASE HandleDestroy
      BY <3>2 DEF HandleDestroy, StartHasTimer, Shows, Unknown
    <3>3. CASE HandleStart
      BY <3>3, SetKeepsTimer DEF HandleStart
    <3>4. CASE HandleStop
      BY <3>4, SetKeepsTimer DEF HandleStop, States
    <3>5. CASE HandleStarted
      BY <3>5, SetKeepsTimer DEF HandleStarted
    <3>6. CASE HandleStopped
      BY <3>6, SetKeepsTimer DEF HandleStopped
    <3>. QED  BY <2>3, <3>1, <3>2, <3>3, <3>4, <3>5, <3>6 DEF Handle
  <2>4. CASE Around
    <3>1. CASE Table
      BY <3>1, SetKeepsTimer DEF Table, CloseRow, Scan
    <3>2. CASE TimerFires
      BY <3>2 DEF TimerFires, StartHasTimer, Shows, Set, TypeOK, Entry
    <3>3. CASE Seed
      BY <3>3 DEF Seed, StartHasTimer, Shows, Unknown, Fresh
    <3>4. CASE LinkDown \/ LinkUp
      BY <3>4, SetKeepsTimer DEF LinkDown, LinkUp
    <3>5. CASE Restart
      BY <3>5 DEF Restart, StartHasTimer, Shows, Unknown
    <3>. QED  BY <2>4, <3>1, <3>2, <3>3, <3>4, <3>5 DEF Around
  <2>5. CASE UNCHANGED vars
    BY <2>5 DEF vars, shown, StartHasTimer, Shows
  <2>. QED  BY <2>1, <2>2, <2>3, <2>4, <2>5, NextCases
<1>. QED  BY <1>1, <1>2, TypeCorrect, PTL DEF Spec
=============================================================================
