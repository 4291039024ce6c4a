--------------------------- MODULE AgentSessions ---------------------------
(***************************************************************************)
(* The work-time history of one call-centre agent of fs-cc                 *)
(* (services/agentSessionService.js): login sessions and, inside them,     *)
(* status segments.  Every status change reaches the service twice: from   *)
(* the HTTP handler that the agent or a supervisor called, and from the    *)
(* agent-status-change event that mod_callcenter then sends.  The two run  *)
(* at the same time, each one SQL statement after the other, and a third   *)
(* source, the reconciliation after a reconnect, runs the same statements. *)
(*                                                                         *)
(* A worker is a pair <<a, source>>: the run of handleStatusTransition     *)
(* that occasion a gives rise to from that source.                         *)
(***************************************************************************)
EXTENDS Naturals, Sequences

CONSTANTS
  Codes,        \* break codes that an agent may select
  ActBound,     \* bound: status changes and reconnects explored
  FaultBound,   \* bound: lost connections and crashes explored
  SlowModule    \* may mod_callcenter stay unloaded after a reconnect?

ASSUME AgentConstantsOK ==
  /\ "none" \notin Codes
  /\ ActBound \in Nat \ {0}
  /\ FaultBound \in Nat
  /\ SlowModule \in BOOLEAN

VARIABLES
  fs,       \* the agent's status in mod_callcenter
  link,     \* the ESL connection is up
  row,      \* agents.status and agents.break_code
  sessions, \* rows of agent_sessions so far
  openS,    \* the one with logout_at NULL, or 0
  events,   \* agent_state_events
  openE,    \* the one with ended_at NULL, or 0
  acts,     \* occasions so far
  work,     \* the workers
  boot,     \* where runStartupSequence is
  startup,  \* the occasion that it, or its last run, belongs to
  pushed,   \* the status that pushToFreeSWITCH has read
  crossed,  \* history: a status change ran into the startup sequence
  faults    \* connections lost and crashes so far

tables == <<sessions, openS, events, openE>>
bootVars == <<boot, startup, pushed>>
vars == <<fs, link, row, tables, acts, work, bootVars, crossed, faults>>

----------------------------------------------------------------------------
\* mod_callcenter writes two of them with a space: On Break, Logged Out.
Status  == {"Available", "OnBreak", "LoggedOut"}
Code    == Codes \cup {"none"}
Worker  == (1..ActBound) \X {"http", "fs_event", "reconciliation"}
Segment == [session: Nat \ {0}, status: Status \ {"LoggedOut"}, code: Code]

\* s and e are what the worker has read; 0 stands for no row.
Transition == [pc: {"off", "esl", "row", "session", "event", "closeEvent",
                    "closeSession", "openSession", "openEvent"},
               status: Status, code: Code, s: Nat, e: Nat]

TypeOK ==
  /\ fs \in Status
  /\ link \in BOOLEAN
  /\ row \in [status: Status, code: Code]
  /\ sessions \in Nat
  /\ openS \in 0..sessions
  /\ events \in Seq(Segment)
  /\ openE \in 0..Len(events)
  /\ acts \in 0..ActBound
  /\ work \in [Worker -> Transition]
  /\ boot \in {"off", "read", "push", "sync", "list"}
  /\ startup \in 0..acts
  /\ pushed \in Status
  /\ crossed \in BOOLEAN
  /\ faults \in 0..FaultBound

Off == [pc |-> "off", status |-> "LoggedOut", code |-> "none", s |-> 0, e |-> 0]
Starting(pc, status, code) == [Off EXCEPT !.pc = pc, !.status = status,
                                          !.code = code]

Resting(w) == work[w].pc = "off"

\* No worker runs and the startup sequence is not under way.
Quiet == boot = "off" /\ \A w \in Worker : Resting(w)

\* Every status change has been recorded.
Recorded == \A w \in Worker : w[1] # startup => Resting(w)

\* The startup sequence does not stand between reading a status and having
\* brought it where it belongs.
StartupRests == boot # "push" /\ \A w \in Worker : w[1] = startup => Resting(w)

Init ==
  /\ fs = "LoggedOut" /\ link = TRUE
  /\ row = [status |-> "LoggedOut", code |-> "none"]
  /\ sessions = 0 /\ openS = 0
  /\ events = <<>> /\ openE = 0
  /\ acts = 0
  /\ work = [w \in Worker |-> Off]
  /\ boot = "off" /\ startup = 0 /\ pushed = "LoggedOut"
  /\ crossed = FALSE
  /\ faults = 0

----------------------------------------------------------------------------
(* Occasions.  The agent, the supervisor and mod_callcenter are assumed to  *)
(* act one after the other, each when the last change has been recorded.    *)
(* They do not wait for the startup sequence, which may be at any of its    *)
(* steps; crossed remembers that a change was begun between two steps of it *)
(* that belong together, or that it took a step amid a change.              *)

\* agentSetStatus and setAgentStatus: only the agent gives a break code.
Ask(status, code) ==
  /\ Recorded /\ acts < ActBound
  /\ code # "none" => status = "OnBreak"
  /\ acts' = acts + 1
  /\ work' = [work EXCEPT ![<<acts + 1, "http">>] = Starting("esl", status, code)]
  /\ crossed' = (crossed \/ ~StartupRests)
  /\ UNCHANGED <<fs, link, row, tables, bootVars, faults>>

\* mod_callcenter changes the status by itself; nobody hears of it while the
\* connection is down.
FsChange(status) ==
  /\ Recorded /\ acts < ActBound
  /\ status # fs
  /\ fs' = status
  /\ acts' = acts + 1
  /\ work' = IF link
             THEN [work EXCEPT ![<<acts + 1, "fs_event">>] =
                                 Starting("row", status, "none")]
             ELSE work
  /\ crossed' = (crossed \/ ~StartupRests)
  /\ UNCHANGED <<link, row, tables, bootVars, faults>>

\* cc.agentSetStatus: the event leaves mod_callcenter before the HTTP handler
\* has its reply.  Without a connection the handler goes on all the same.
SetInFs(a) ==
  LET w == <<a, "http">>
      Next_ == [work EXCEPT ![w].pc = "row"]
  IN /\ work[w].pc = "esl"
     /\ IF link
        THEN /\ fs' = work[w].status
             /\ work' = [Next_ EXCEPT ![<<a, "fs_event">>] =
                                        Starting("row", work[w].status, "none")]
        ELSE work' = Next_ /\ UNCHANGED fs
     /\ UNCHANGED <<link, row, tables, acts, bootVars, crossed, faults>>

----------------------------------------------------------------------------
(* One status transition.                                                   *)

\* A worker that has nothing left to do forgets what it has read.
Goto(w, pc) ==
  work' = [work EXCEPT ![w] = IF pc = "off" THEN Off ELSE [@ EXCEPT !.pc = pc]]
Others == UNCHANGED <<fs, link, acts, bootVars, crossed, faults>>

\* The agents row: the HTTP handlers set or clear the break code, the event
\* handler leaves it.
UpdateAgent(w) ==
  /\ work[w].pc = "row"
  /\ row' = [status |-> work[w].status,
             code |-> IF w[2] = "http" THEN work[w].code ELSE row.code]
  /\ Goto(w, "session")
  /\ Others /\ UNCHANGED tables

\* getOpenSession.  Reconciliation looks at open sessions only.
ReadSession(w) ==
  /\ work[w].pc = "session"
  /\ IF openS = 0 /\ w[2] = "reconciliation"
     THEN Goto(w, "off")
     ELSE work' = [work EXCEPT ![w].s = openS, ![w].pc = "event"]
  /\ Others /\ UNCHANGED <<row, tables>>

\* The open segment e has the wanted status, but the agent gives a new reason.
NewReason(w, e) ==
  /\ work[w].status = "OnBreak"
  /\ work[w].code # "none" /\ work[w].code # events[e].code

\* What follows getOpenEvent, with e the segment it returned.
BugAfterRead(w, e) ==
  IF work[w].status = "LoggedOut"
  THEN IF work[w].s = 0 THEN "off" ELSE "closeSession"
  ELSE IF e # 0 THEN "closeEvent"
  ELSE IF work[w].s = 0 THEN "openSession" ELSE "openEvent"

AfterRead(w, e) ==
  IF work[w].status = "LoggedOut"
  THEN IF work[w].s = 0 THEN "off"
       ELSE IF e # 0 THEN "closeEvent" ELSE "closeSession"
  ELSE IF e # 0 THEN IF events[e].status = work[w].status /\ ~NewReason(w, e)
                     THEN "off" ELSE "closeEvent"
  ELSE IF work[w].s = 0 THEN "openSession" ELSE "openEvent"

ReadEvent(w) ==
  /\ work[w].pc = "event"
  /\ LET next == AfterRead(w, openE)
     IN IF next = "off" THEN Goto(w, next)
        ELSE work' = [work EXCEPT ![w].e = openE, ![w].pc = next]
  /\ Others /\ UNCHANGED <<row, tables>>

\* closeEvent, by id.  A new reason without a session dies on openSession_.id.
AfterClose(w) ==
  IF work[w].status = "LoggedOut" THEN "closeSession"
  ELSE IF work[w].s # 0 THEN "openEvent"
  ELSE IF events[work[w].e].status = work[w].status THEN "off"
  ELSE "openSession"

CloseEvent(w) ==
  /\ work[w].pc = "closeEvent"
  /\ openE' = IF openE = work[w].e THEN 0 ELSE openE
  /\ Goto(w, AfterClose(w))
  /\ Others /\ UNCHANGED <<row, sessions, openS, events>>

\* closeSession, by id.
CloseSession(w) ==
  /\ work[w].pc = "closeSession"
  /\ openS' = IF openS = work[w].s THEN 0 ELSE openS
  /\ Goto(w, "off")
  /\ Others /\ UNCHANGED <<row, sessions, events, openE>>

\* openSession: insert unless idx_agent_sessions_one_open has a row.  On a
\* conflict the same statement selects that row; if it was committed after the
\* statement began, its snapshot has no such row and rows[0].id throws.
BugOpenSession(w) ==
  /\ work[w].pc = "openSession"
  /\ IF openS = 0
     THEN /\ sessions' = sessions + 1 /\ openS' = sessions + 1
          /\ work' = [work EXCEPT ![w].s = sessions + 1, ![w].pc = "openEvent"]
     ELSE /\ Goto(w, "openEvent")
          /\ UNCHANGED <<sessions, openS>>
  /\ Others /\ UNCHANGED <<row, events, openE>>

OpenSession(w) ==
  /\ work[w].pc = "openSession"
  /\ IF openS = 0
     THEN /\ sessions' = sessions + 1 /\ openS' = sessions + 1
          /\ work' = [work EXCEPT ![w].s = sessions + 1, ![w].pc = "openEvent"]
     ELSE /\ \/ work' = [work EXCEPT ![w].s = openS, ![w].pc = "openEvent"]
             \/ Goto(w, "off")
          /\ UNCHANGED <<sessions, openS>>
  /\ Others /\ UNCHANGED <<row, events, openE>>

\* openEvent: insert unless idx_ase_one_open has a row.
NewSegment(w) == [session |-> work[w].s, status |-> work[w].status,
                  code |-> work[w].code]

BugOpenEvent(w) ==
  /\ work[w].pc = "openEvent"
  /\ events' = Append(events, NewSegment(w)) /\ openE' = Len(events) + 1
  /\ Goto(w, "off")
  /\ Others /\ UNCHANGED <<row, sessions, openS>>

OpenEvent(w) ==
  /\ work[w].pc = "openEvent"
  /\ IF openE = 0
     THEN events' = Append(events, NewSegment(w)) /\ openE' = Len(events) + 1
     ELSE UNCHANGED <<events, openE>>
  /\ Goto(w, "off")
  /\ Others /\ UNCHANGED <<row, sessions, openS>>

Step(w) ==
  \/ UpdateAgent(w) \/ ReadSession(w) \/ ReadEvent(w) \/ CloseEvent(w)
  \/ CloseSession(w) \/ OpenSession(w) \/ OpenEvent(w)

----------------------------------------------------------------------------
(* The connection, and the startup sequence that follows each reconnect.    *)

\* FreeSWITCH may have restarted, and forgotten the agent's status.
LinkLost ==
  /\ link /\ faults < FaultBound
  /\ faults' = faults + 1
  /\ link' = FALSE
  /\ boot' = "off"
  /\ fs' \in {fs, "LoggedOut"}
  /\ UNCHANGED <<row, tables, acts, work, startup, pushed, crossed>>

\* The process dies with its workers.
Crash ==
  /\ faults < FaultBound
  /\ faults' = faults + 1
  /\ link' = FALSE
  /\ boot' = "off"
  /\ work' = [w \in Worker |-> Off]
  /\ UNCHANGED <<fs, row, tables, acts, startup, pushed, crossed>>

Reconnect ==
  /\ ~link /\ Quiet /\ acts < ActBound
  /\ link' = TRUE
  /\ boot' = "read"
  /\ acts' = acts + 1 /\ startup' = acts + 1
  /\ UNCHANGED <<fs, row, tables, work, pushed, crossed, faults>>

\* A step of the startup sequence that meets a half recorded change.
Crossing == crossed' = (crossed \/ ~Recorded)

\* pushToFreeSWITCH reads the agents ...
PushRead ==
  /\ boot = "read"
  /\ pushed' = row.status
  /\ boot' = "push"
  /\ Crossing
  /\ UNCHANGED <<fs, link, row, tables, acts, work, startup, faults>>

\* ... and sets their status, which sends an event; without mod_callcenter every
\* command answers -ERR, which is logged and passed over.
PushSet ==
  /\ boot = "push"
  /\ \/ /\ fs' = pushed
        /\ work' = [work EXCEPT ![<<startup, "fs_event">>] =
                                  Starting("row", pushed, "none")]
     \/ SlowModule /\ UNCHANGED <<fs, work>>
  /\ boot' = "sync"
  /\ pushed' = "LoggedOut"
  /\ Crossing
  /\ UNCHANGED <<link, row, tables, acts, startup, faults>>

\* syncAgentStates, after a pause in which the event has been handled.
SyncAgents ==
  /\ boot = "sync"
  /\ StartupRests
  /\ \/ row' = [row EXCEPT !.status = fs]
     \/ SlowModule /\ UNCHANGED row
  /\ boot' = "list"
  /\ Crossing
  /\ UNCHANGED <<fs, link, tables, acts, work, startup, pushed, faults>>

\* cc.agentList for reconcileOnStartup: an agent that is not on the list counts
\* as logged out, and parseFsTable makes an empty list of an -ERR reply.
BugSeen == {"LoggedOut"}
Seen == {fs} \cup (IF SlowModule THEN {"LoggedOut"} ELSE {})

Reconcile ==
  /\ boot = "list"
  /\ \E status \in Seen :
       work' = [work EXCEPT ![<<startup, "reconciliation">>] =
                              Starting("session", status, "none")]
  /\ boot' = "off"
  /\ Crossing
  /\ UNCHANGED <<fs, link, row, tables, acts, startup, pushed, faults>>

----------------------------------------------------------------------------
Next ==
  \/ \E status \in Status : FsChange(status) \/ \E code \in Code : Ask(status, code)
  \/ \E a \in 1..ActBound : SetInFs(a)
  \/ \E w \in Worker : Step(w)
  \/ LinkLost \/ Crash \/ Reconnect
  \/ PushRead \/ PushSet \/ SyncAgents \/ Reconcile

Spec == Init /\ [][Next]_vars

----------------------------------------------------------------------------
(* Properties.                                                              *)

\* When every change has been recorded, the history is well formed and tells
\* what mod_callcenter thinks: an agent on duty has an open session and in it an
\* open segment with the agent's status, an agent who is logged out has neither.
\* The two workers of a change, a crash between any two statements and the
\* reconciliation that repairs it do not break it; only a break with a reason can
\* be left without its segment.  A change that runs into the startup sequence can
\* break it for good: the sequence brings back the status it has read before.
HistoryAgrees ==
  Quiet /\ link /\ ~crossed =>
    /\ (openS # 0) = (fs # "LoggedOut")
    /\ openE # 0 => events[openE].session = openS /\ events[openE].status = fs
    /\ openS # 0 /\ row.code = "none" => openE # 0

\* The duplicate of a change leaves no second segment: neighbours in a session
\* differ in status.  Only breaks, whose reasons change, and crashes, which cut a
\* segment in two, are excepted.
SegmentsDiffer ==
  faults = 0 =>
    \A i \in 2..Len(events) :
      /\ events[i].session = events[i - 1].session
      /\ events[i].status = events[i - 1].status
      => events[i].status = "OnBreak"

\* A session is closed only when the agent has logged out, in mod_callcenter or
\* in the agents row, as eslService.js:612 says.  An empty agent list refutes it,
\* and so does a list that a login has made stale: reconcileOnStartup reads the
\* open sessions after the list and closes the new one.
NoFalseLogout ==
  [][openS # 0 /\ openS' = 0 => "LoggedOut" \in {fs, row.status}]_vars

\* What is left of it when mod_callcenter answers: changes before, after and
\* between the steps of the startup sequence, two workers for each, and crashes
\* anywhere end no work time of an agent on duty; only a change and a push or a
\* reconciliation that met half way may.
UncrossedLogouts ==
  [][openS # 0 /\ openS' = 0 /\ ~crossed => "LoggedOut" \in {fs, row.status}]_vars

\* The break reason that the agent gave, and that the agents row shows, is the
\* one that the open segment keeps for the reports.
ReasonKept ==
  Quiet /\ link /\ row.status = "OnBreak" /\ row.code # "none" =>
    openE # 0 /\ events[openE].code = row.code
=============================================================================
