------------------------- MODULE ConferenceRecording -------------------------
(***************************************************************************)
(* The recordings of one conference of fs-enrs: the operator's start and   *)
(* stop (controllers/monitoringController.js), automatic recording         *)
(* (services/conferenceManager.js), the state the dashboard shows          *)
(* (services/eslService.js) and the rows of the table recordings           *)
(* (controllers/recordingController.js).                                   *)
(*                                                                         *)
(* The backend and FreeSWITCH have one ESL connection.  Events and replies *)
(* (a bgapi command is answered by an event) arrive in the order in which  *)
(* FreeSWITCH sent them; what it sends without a connection is lost.       *)
(***************************************************************************)
EXTENDS Naturals, Sequences, SequencesExt

CONSTANTS
  Path,         \* file names: the milliseconds of their requests
  None,
  FaultBound,   \* bound: what goes wrong, see Fault
  EventBound    \* bound: messages on the connection

ASSUME RecordingConstantsOK ==
  /\ Path \subseteq Nat /\ IsFiniteSet(Path) /\ None \notin Path
  /\ FaultBound \in Nat /\ EventBound \in Nat

VARIABLES
  \* FreeSWITCH
  live,      \* the conference exists
  opening,   \* paths accepted, whose file is not open yet
  recording, \* paths that are being written
  file,      \* paths with a file on disk
  \* the connection
  linked, events,
  \* the backend's memory
  entry,     \* conferenceRegistry: known, recordingState, recordingPath, recording
  timer,     \* recordingStartTimers has the conference
  cmd,       \* the request for each path
  auto,      \* paths requested by startAutoRecording
  stop,      \* the stop request and its path, None for all
  closes,    \* calls of closeRecording that have not written
  \* the table recordings
  row,       \* status
  \* history
  faults,    \* how much went wrong so far
  deaf,      \* a message was lost, or the backend restarted
  overlap    \* requests overlapped, or FreeSWITCH opened a file too late

fs      == <<live, opening, recording, file>>
link    == <<linked, events>>
shown   == <<entry, timer>>
asks    == <<cmd, auto, stop>>
history == <<faults, deaf, overlap>>
vars    == <<fs, link, shown, asks, closes, row, history>>

----------------------------------------------------------------------------
Event == [kind: {"start", "stop", "+OK", "-ERR"}, path: Path]
         \cup [kind: {"create", "destroy", "stopped", "nopath"}, path: {None}]
Entry == [known: BOOLEAN, path: Path \cup {None}, on: BOOLEAN,
          state: {"OFF", "STARTING", "ACTIVE", "STOPPING", "FAILED"}]

\* Every variable has its type.
TypeOK ==
  /\ live \in BOOLEAN /\ linked \in BOOLEAN /\ timer \in BOOLEAN
  /\ deaf \in BOOLEAN /\ overlap \in BOOLEAN /\ faults \in 0..FaultBound
  /\ opening \subseteq Path /\ recording \subseteq Path /\ file \subseteq Path
  /\ events \in Seq(Event)
  /\ entry \in Entry
  /\ cmd \in [Path -> {"new", "asked", "sent", "verify", "done"}]
  /\ auto \subseteq Path
  /\ stop \in [st: {"no", "asked", "sent"}, path: Path \cup {None}]
  /\ closes \subseteq Path
  /\ row \in [Path -> {"none", "RECORDING", "COMPLETED"}]

----------------------------------------------------------------------------
Fault        == faults < FaultBound /\ faults' = faults + 1
\* Out of the ordinary: a request that does not wait for the one before.
Overlap(odd) == /\ overlap' = (overlap \/ odd)
                /\ IF odd THEN Fault ELSE UNCHANGED faults

\* The file name of a request made now.
New(p) == cmd[p] = "new" /\ \A q \in Path : cmd[q] = "new" => p <= q

Msg(k, p) == [kind |-> k, path |-> p]
Sent(k, p) == Msg(k, p) \in Range(events)
Awaits(k) == \E p \in Path \cup {None} : Sent(k, p)

Emit(es) == /\ linked => Len(events) + Len(es) <= EventBound
            /\ events' = IF linked THEN events \o es ELSE events
            /\ deaf' = (deaf \/ (~linked /\ es # <<>>))

\* What FreeSWITCH says: the files S are closed, before or after another message.
StopEvents(S) == LET list == SetToSeq(S) IN [i \in DOMAIN list |-> Msg("stop", list[i])]
Reports(S, answer) == {StopEvents(S) \o <<answer>>, <<answer>> \o StopEvents(S)}

Unknown == [known |-> FALSE, state |-> "OFF", path |-> None, on |-> FALSE]
Fresh   == [known |-> TRUE, state |-> "OFF", path |-> None, on |-> FALSE]
NoStop  == [st |-> "no", path |-> None]

Shows(state) == entry.known /\ entry.state = state

Init ==
  /\ live = FALSE /\ opening = {} /\ recording = {} /\ file = {}
  /\ linked = TRUE /\ events = <<>>
  /\ entry = Unknown /\ timer = FALSE
  /\ cmd = [p \in Path |-> "new"] /\ auto = {} /\ stop = NoStop
  /\ closes = {}
  /\ row = [p \in Path |-> "none"]
  /\ faults = 0 /\ deaf = FALSE /\ overlap = FALSE

----------------------------------------------------------------------------
(* The state that the dashboard shows.                                     *)

Set(state, p, on) ==
  entry' = IF entry.known
           THEN [known |-> TRUE, state |-> state, path |-> p, on |-> on] ELSE entry

\* A new timer of five seconds replaces the old one.
BugSetStarting(p) == /\ Set("STARTING", p, FALSE)
                     /\ UNCHANGED timer
SetStarting(p) == /\ Set("STARTING", p, FALSE)
                  /\ timer' = (timer \/ entry.known)

BugSetActive(p) == /\ Set("ACTIVE", entry.path, TRUE)
                   /\ timer' = FALSE
SetActive(p) == /\ Set("ACTIVE", p, TRUE)
                /\ timer' = FALSE

\* The timer runs on.
SetError == /\ Set("FAILED", entry.path, FALSE)
            /\ UNCHANGED timer

SetOff == /\ Set("OFF", None, FALSE)
          /\ timer' = (timer /\ ~entry.known)

\* No confirmation for five seconds.
TimerFires ==
  /\ timer /\ timer' = FALSE
  /\ IF Shows("STARTING") THEN Set("FAILED", entry.path, FALSE) ELSE UNCHANGED entry
  /\ overlap' = (\/ overlap \/ opening # {} \/ Awaits("start")
                 \/ \E p \in file : cmd[p] = "verify")
  /\ UNCHANGED <<fs, link, asks, closes, row, faults, deaf>>

----------------------------------------------------------------------------
(* The operator.                                                           *)

\* startRecording looks at the state, and awaits twice before it changes it.
\* A conference that is not in the registry passes the look.
Startable == ~(entry.known /\ entry.state \in {"STARTING", "ACTIVE", "STOPPING"})

RequestStart(p) ==
  /\ New(p) /\ Startable
  /\ cmd' = [cmd EXCEPT ![p] = "asked"]
  /\ Overlap(\/ ~entry.known \/ Awaits("start") \/ opening # {}
             \/ \E q \in Path : cmd[q] \in {"asked", "sent", "verify"})
  /\ UNCHANGED <<fs, link, shown, auto, stop, closes, row, deaf>>

\* stopRecording, for the path that the entry has.
RequestStop ==
  /\ stop.st = "no" /\ entry.known /\ entry.path # None
  /\ stop' = [st |-> "asked", path |-> entry.path]
  /\ Set("STOPPING", entry.path, entry.on)
  /\ Overlap(Shows("STARTING"))
  /\ UNCHANGED <<fs, link, timer, cmd, auto, closes, row, deaf>>

\* The command fails, or its reply does not come.
StartFails(p) ==
  /\ \/ cmd[p] = "asked" /\ ~linked
     \/ cmd[p] = "sent" /\ ~Sent("+OK", p) /\ ~Sent("-ERR", p)
  /\ cmd' = [cmd EXCEPT ![p] = "done"]
  /\ IF p \in auto THEN UNCHANGED shown ELSE SetError
  /\ UNCHANGED <<fs, link, auto, stop, closes, row, history>>

\* The state stays STOPPING, unless it was the fallback that failed.
StopFails ==
  /\ \/ stop.st = "asked" /\ ~linked
     \/ stop.st = "sent" /\ ~Awaits("stopped") /\ ~Awaits("nopath")
  /\ stop' = NoStop
  /\ IF stop.path = None THEN SetOff ELSE UNCHANGED shown
  /\ UNCHANGED <<fs, link, cmd, auto, closes, row, history>>

\* One look of verifyRecordingCreated at the state and the file.  Its last
\* look, after eight seconds, finds another state than STARTING.
BugOpened(p) == TRUE
Opened(p)    == p \in file
Verify(p) ==
  /\ cmd[p] = "verify"
  /\ \/ ~Shows("STARTING") /\ UNCHANGED shown
     \/ Shows("STARTING") /\ Opened(p) /\ SetActive(p)
  /\ cmd' = [cmd EXCEPT ![p] = "done"]
  /\ UNCHANGED <<fs, link, auto, stop, closes, row, history>>

----------------------------------------------------------------------------
(* FreeSWITCH.                                                             *)

ConferenceStarts ==
  /\ ~live /\ live' = TRUE
  /\ Emit(<<Msg("create", None)>>)
  /\ UNCHANGED <<opening, recording, file, linked, shown, asks, closes, row, faults, overlap>>

\* The last member leaves.  Some versions report the end of a recording after
\* that of the conference; one that does not name the file is then no use, and
\* is left out.
ConferenceEnds ==
  /\ live /\ live' = FALSE
  /\ opening' = {} /\ recording' = {}
  /\ \E S \in {recording, {}} : \E es \in Reports(S, Msg("destroy", None)) : Emit(es)
  /\ UNCHANGED <<file, linked, shown, asks, closes, row, faults, overlap>>

\* "conference record" answers +OK before the file is open.
FsAccepts(p) ==
  /\ cmd[p] = "asked" /\ linked
  /\ cmd' = [cmd EXCEPT ![p] = "sent"]
  /\ opening' = IF live THEN opening \cup {p} ELSE opening
  /\ Emit(<<Msg(IF live THEN "+OK" ELSE "-ERR", p)>>)
  /\ UNCHANGED <<live, recording, file, linked, shown, auto, stop, closes, row, faults, overlap>>

\* The event may overtake the reply.
FsOpens(p) ==
  /\ \/ /\ p \in opening
        /\ Emit(<<Msg("start", p)>>)
        /\ UNCHANGED cmd
     \/ /\ cmd[p] = "asked" /\ linked /\ live
        /\ cmd' = [cmd EXCEPT ![p] = "sent"]
        /\ Emit(<<Msg("start", p), Msg("+OK", p)>>)
  /\ opening' = opening \ {p}
  /\ recording' = recording \cup {p}
  /\ file' = file \cup {p}
  /\ UNCHANGED <<live, linked, shown, auto, stop, closes, row, faults, overlap>>

FsCannotOpen(p) ==
  /\ p \in opening /\ opening' = opening \ {p}
  /\ Fault
  /\ UNCHANGED <<live, recording, file, link, shown, asks, closes, row, deaf, overlap>>

\* "conference norecord" with the path, or with all.
FsStops ==
  /\ stop.st = "asked" /\ linked /\ stop' = [stop EXCEPT !.st = "sent"]
  /\ LET named  == IF stop.path = None THEN Path ELSE {stop.path}
         ended  == named \cap (recording \cup opening)
         answer == IF ended # {} \/ stop.path = None THEN "stopped" ELSE "nopath"
     IN /\ recording' = recording \ ended /\ opening' = opening \ ended
        /\ \E es \in Reports(ended \cap recording, Msg(answer, None)) : Emit(es)
  /\ UNCHANGED <<live, file, linked, shown, cmd, auto, closes, row, faults, overlap>>

----------------------------------------------------------------------------
(* The connection and the process.                                         *)

LinkDown ==
  /\ linked /\ linked' = FALSE /\ Fault
  /\ events' = <<>>
  /\ deaf' = (deaf \/ events # <<>>)
  /\ UNCHANGED <<fs, shown, asks, closes, row, overlap>>

LinkUp ==
  /\ ~linked /\ linked' = TRUE
  /\ UNCHANGED <<fs, events, shown, asks, closes, row, history>>

\* The registry, the requests and the closes under way are gone.
Restart ==
  /\ Fault
  /\ entry' = Unknown /\ timer' = FALSE /\ stop' = NoStop
  /\ cmd' = [p \in Path |-> IF cmd[p] = "new" THEN "new" ELSE "done"]
  /\ closes' = {}
  /\ linked' = TRUE /\ events' = <<>>
  /\ deaf' = TRUE
  /\ UNCHANGED <<fs, auto, row, overlap>>

----------------------------------------------------------------------------
(* handleEvent.                                                            *)

Take(k) == events # <<>> /\ Head(events).kind \in k /\ events' = Tail(events)
At      == Head(events).path

\* conference-create; maybeAutoRecord may find an incident that asks for it.
HandleCreate ==
  /\ Take({"create"})
  /\ entry' = IF entry.known THEN entry ELSE Fresh
  /\ \/ UNCHANGED <<cmd, auto, faults, overlap>>
     \/ \E p \in Path :
          /\ New(p)
          /\ cmd' = [cmd EXCEPT ![p] = "asked"]
          /\ auto' = auto \cup {p}
          /\ Overlap(recording # {} \/ opening # {} \/ \E q \in Path : cmd[q] \in {"asked", "sent"})
  /\ UNCHANGED <<fs, linked, timer, stop, closes, row, deaf>>

\* conference-destroy closes the row of the path that the entry has.
BugUnclosed == entry.path # None /\ entry.on
Unclosed    == entry.path # None /\ (entry.on \/ entry.state \in {"ACTIVE", "STARTING"})
HandleDestroy ==
  /\ Take({"destroy"})
  /\ closes' = IF Unclosed THEN closes \cup {entry.path} ELSE closes
  /\ entry' = Unknown
  /\ UNCHANGED <<fs, linked, timer, asks, row, history>>

\* upsertRecordingStart, ON CONFLICT DO NOTHING.  It runs on after the handler,
\* but writes within the second that closeRecording waits.
BugRegistered(p) == [row EXCEPT ![p] = IF @ = "none" THEN entry.state ELSE @]
Registered(p)    == [row EXCEPT ![p] = IF @ = "none" THEN "RECORDING" ELSE @]

\* start-recording
HandleStart ==
  /\ Take({"start"})
  /\ SetActive(At)
  /\ row' = Registered(At)
  /\ UNCHANGED <<fs, linked, asks, closes, history>>

\* stop-recording, of whatever path
HandleStop ==
  /\ Take({"stop"})
  /\ Set("OFF", entry.path, FALSE)
  /\ closes' = closes \cup {At}
  /\ UNCHANGED <<fs, linked, timer, asks, row, history>>

\* The answer to a start: an operator's goes on to verifyRecordingCreated, an
\* automatic one registers the row.
HandleStarted ==
  /\ Take({"+OK", "-ERR"})
  /\ cmd[At] = "sent"
  /\ LET ok == Head(events).kind = "+OK" IN
     IF At \in auto
     THEN /\ row' = IF ok THEN Registered(At) ELSE row
          /\ cmd' = [cmd EXCEPT ![At] = "done"]
          /\ UNCHANGED shown
     ELSE /\ IF ok THEN SetStarting(At) ELSE SetError
          /\ cmd' = [cmd EXCEPT ![At] = IF ok THEN "verify" ELSE "done"]
          /\ UNCHANGED row
  /\ UNCHANGED <<fs, linked, auto, stop, closes, history>>

\* The answer to a stop: an unknown path (nopath) is followed by "norecord all".
HandleStopped ==
  /\ Take({"stopped", "nopath"})
  /\ IF Head(events).kind = "stopped"
     THEN SetOff /\ stop' = NoStop
     ELSE UNCHANGED shown /\ stop' = [st |-> "asked", path |-> None]
  /\ UNCHANGED <<fs, linked, cmd, auto, closes, row, history>>

\* seedConferenceRegistry.  The answer to "conference list" arrives after the
\* events before it; one that fails is an empty list, and the removal loop may
\* meet a conference that began after it.
Seed ==
  /\ linked
  /\ \/ /\ entry.known # live /\ ~Awaits("create") /\ ~Awaits("destroy")
        /\ entry' = IF live THEN Fresh ELSE Unknown
        /\ UNCHANGED faults
     \/ /\ entry.known
        /\ entry' = Unknown
        /\ Fault
  /\ UNCHANGED <<fs, link, timer, asks, closes, row, deaf, overlap>>

----------------------------------------------------------------------------
(* The table.                                                              *)

\* closeRecording, after a second for FreeSWITCH to flush the file.
CloseRow(p) ==
  /\ p \in closes /\ closes' = closes \ {p}
  /\ row' = [row EXCEPT ![p] = IF @ = "RECORDING" THEN "COMPLETED" ELSE @]
  /\ UNCHANGED <<fs, link, shown, asks, history>>

\* scanRecordingDirectory, at a file whose row is open or missing; whether the
\* file is still being written it does not ask.
Scan(p) ==
  /\ p \in file /\ row[p] \in {"none", "RECORDING"}
  /\ row' = [row EXCEPT ![p] = "COMPLETED"]
  /\ UNCHANGED <<fs, link, shown, asks, closes, history>>

----------------------------------------------------------------------------
Freeswitch == \/ ConferenceStarts \/ ConferenceEnds \/ FsStops
              \/ \E p \in Path : FsAccepts(p) \/ FsOpens(p) \/ FsCannotOpen(p)
Operator == \/ RequestStop \/ StopFails
            \/ \E p \in Path : RequestStart(p) \/ StartFails(p) \/ Verify(p)
Handle == \/ HandleCreate \/ HandleDestroy \/ HandleStart \/ HandleStop
          \/ HandleStarted \/ HandleStopped
Table == \E p \in Path : CloseRow(p) \/ Scan(p)

Next == \/ Freeswitch \/ Operator \/ Handle \/ Table
        \/ TimerFires \/ Seed \/ LinkDown \/ LinkUp \/ Restart

Spec == Init /\ [][Next]_vars

\* A timer of Node.js fires.  No event, reply or request need come.
Fairness == WF_vars(TimerFires)
FairSpec == Spec /\ Fairness

----------------------------------------------------------------------------
(* Properties.                                                             *)

\* Nothing failed, and the operator waited for the answers.
Usual == faults = 0 /\ ~overlap

\* While the dashboard says that a recording is active the file it names is
\* being written, or the news that it ended is on its way, although event,
\* reply, timer and the look at the file set the state in any order
\* (eslService.js:116-185, monitoringController.js:128-152).
ActiveIsRecorded ==
  Shows("ACTIVE") => \/ entry.path \in recording \/ deaf \/ overlap
                     \/ Sent("stop", entry.path) \/ Awaits("destroy")

\* What is being written is shown, so that it can be stopped and no second
\* recording is started beside it (monitoringController.js:174-185).
RecordedIsShown ==
  Usual => \A p \in recording :
             \/ Sent("start", p)
             \/ entry.path = p /\ entry.state \in {"STARTING", "ACTIVE", "STOPPING"}

\* The look at the state that is to "prevent duplicate recording starts"
\* (monitoringController.js:174) does not: a second request, or automatic
\* recording, that comes between the look and the reply records a second file.
OneRecording == \A p, q \in recording : p = q

\* The row of a file that is complete is closed or about to be, also when only
\* conference-destroy tells the backend (eslService.js:692-705): the scan every
\* two minutes is not needed for it.
EndedIsClosed ==
  Usual => \A p \in file \ recording :
             \/ row[p] = "COMPLETED" \/ p \in closes
             \/ Sent("start", p) \/ Sent("stop", p) \/ Awaits("destroy")

\* STARTING has its timer whatever clears or replaces timers in between, ...
StartHasTimer == Shows("STARTING") => timer

\* ... so the dashboard does not "hang in a Starting limbo", eslService.js:149-151.
StartEnds == Shows("STARTING") ~> ~Shows("STARTING")
=============================================================================
